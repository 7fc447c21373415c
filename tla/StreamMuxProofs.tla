--------------------------- MODULE StreamMuxProofs ---------------------------
(***************************************************************************)
(* Safety of the multiplexer and the facade for every set of streams, every *)
(* table size and every number of bytes.                                   *)
(***************************************************************************)
EXTENDS StreamMux, SequenceTheorems, WellFoundedInduction, TLAPS

---------------------------------------------------------------------------
(* The least and the greatest element *)

\* A nonempty set of naturals has a least element, and Min is it.
LEMMA MinIsLeast ==
  ASSUME NEW S \in SUBSET Nat, S # {}
  PROVE  Min(S) \in S /\ \A y \in S : Min(S) <= y
<1>1. PICK x \in S : \A y \in S : ~ (<<y, x>> \in OpToRel(<, Nat))
  BY WFMin, NatLessThanWellFounded
<1>2. \A y \in S : ~(y < x)
  BY <1>1 DEF OpToRel
<1>3. x \in S /\ \A y \in S : x <= y
  BY <1>2
<1>4. QED
  BY <1>3, Zenon DEF Min

\* A nonempty set of naturals with a bound has a greatest element, and Max is it.
LEMMA MaxIsGreatest ==
  ASSUME NEW n \in Nat, NEW S \in SUBSET (0..n), S # {}
  PROVE  Max(S) \in S /\ \A y \in S : y <= Max(S)
<1> DEFINE T == {n - y : y \in S}
<1>1. T \in SUBSET Nat /\ T # {}
  <2>1. \A y \in S : n - y \in Nat
    OBVIOUS
  <2>2. PICK y \in S : TRUE
    OBVIOUS
  <2>3. n - y \in T
    OBVIOUS
  <2>4. QED
    BY <2>1, <2>3
<1>2. Min(T) \in T /\ \A y \in T : Min(T) <= y
  BY <1>1, MinIsLeast
<1>3. PICK x \in S : Min(T) = n - x
  BY <1>2
<1>4. \A y \in S : x >= y
  <2> TAKE y \in S
  <2>1. n - x <= n - y
    BY <1>2, <1>3
  <2>2. QED
    BY <2>1
<1>5. Max(S) \in S /\ \A y \in S : Max(S) >= y
  BY <1>4, Zenon DEF Max
<1>6. QED
  BY <1>5

---------------------------------------------------------------------------
(* The table *)

\* Taking an entry out moves the later ones down by one.
LEMMA RemoveAtShifts ==
  ASSUME NEW S, NEW t \in Seq(S), NEW i \in 1..Len(t)
  PROVE  /\ RemoveAt(t, i) \in Seq(S) /\ Len(RemoveAt(t, i)) = Len(t) - 1
         /\ \A j \in 1..Len(t) - 1 : RemoveAt(t, i)[j] = IF j < i THEN t[j] ELSE t[j + 1]
<1> DEFINE a == SubSeq(t, 1, i - 1)
           b == SubSeq(t, i + 1, Len(t))
<1>1. a \in Seq(S) /\ Len(a) = i - 1 /\ \A j \in 1..i - 1 : a[j] = t[j]
  BY SubSeqProperties
<1>2. b \in Seq(S) /\ Len(b) = Len(t) - i /\ \A j \in 1..Len(t) - i : b[j] = t[i + j]
  <2>1. CASE i < Len(t)
    BY <2>1, SubSeqProperties
  <2>2. CASE i = Len(t)
    BY <2>2, SubSeqProperties
  <2>3. QED
    BY <2>1, <2>2
<1> HIDE DEF a, b
<1>3. /\ a \o b \in Seq(S) /\ Len(a \o b) = Len(t) - 1
      /\ \A j \in 1..Len(a) + Len(b) : (a \o b)[j] = IF j <= Len(a) THEN a[j] ELSE b[j - Len(a)]
  <2>1. /\ a \o b \in Seq(S) /\ Len(a \o b) = Len(a) + Len(b)
        /\ \A j \in 1..Len(a) + Len(b) : (a \o b)[j] = IF j <= Len(a) THEN a[j] ELSE b[j - Len(a)]
    BY <1>1, <1>2, ConcatProperties, Zenon
  <2>2. QED
    BY <2>1, <1>1, <1>2, LenProperties
<1>4. ASSUME NEW j \in 1..Len(t) - 1
      PROVE (a \o b)[j] = IF j < i THEN t[j] ELSE t[j + 1]
  <2>1. CASE j < i
    BY <2>1, <1>1, <1>2, <1>3
  <2>2. CASE j >= i
    <3>1. j - (i - 1) \in 1..Len(t) - i
      BY <2>2
    <3>2. (a \o b)[j] = b[j - (i - 1)]
      BY <2>2, <1>1, <1>2, <1>3
    <3>3. b[j - (i - 1)] = t[i + (j - (i - 1))]
      BY <3>1, <1>2
    <3>4. QED
      BY <3>2, <3>3, <2>2
  <2>3. j < i \/ j >= i
    BY LenProperties
  <2>4. QED
    BY <2>1, <2>2, <2>3, Zenon
<1>5. QED
  BY <1>3, <1>4 DEF RemoveAt, a, b

\* The table holds streams, none of them twice, and no more than fit.
Table(t) == /\ t \in Seq(Streams) /\ Len(t) <= MaxStreams
            /\ \A i, j \in 1..Len(t) : t[i] = t[j] => i = j

\* addStream keeps the table.
LEMMA AddedTable ==
  ASSUME NEW t, Table(t), NEW s \in Streams
  PROVE  Table(Added(t, s)) /\ Len(Added(t, s)) >= Len(t)
<1>1. CASE Contains(t, s) \/ Len(t) >= MaxStreams
  BY <1>1 DEF Added, Table
<1>2. CASE ~Contains(t, s) /\ Len(t) < MaxStreams
  <2>1. Added(t, s) = Append(t, s)
    BY <1>2, MuxAssumption DEF Added, Table
  <2>2. /\ Append(t, s) \in Seq(Streams) /\ Len(Append(t, s)) = Len(t) + 1
        /\ Append(t, s)[Len(t) + 1] = s
        /\ \A i \in 1..Len(t) : Append(t, s)[i] = t[i]
    BY AppendProperties DEF Table
  <2>3. QED
    BY <1>2, <2>1, <2>2, MuxAssumption DEF Table, Contains
<1>3. QED
  BY <1>1, <1>2, MuxAssumption DEF Table

\* removeStream keeps the table.
LEMMA RemovedTable ==
  ASSUME NEW t, Table(t), NEW i \in 1..Len(t)
  PROVE  Table(RemoveAt(t, i)) /\ Len(RemoveAt(t, i)) = Len(t) - 1
<1>1. /\ RemoveAt(t, i) \in Seq(Streams) /\ Len(RemoveAt(t, i)) = Len(t) - 1
      /\ \A j \in 1..Len(t) - 1 : RemoveAt(t, i)[j] = IF j < i THEN t[j] ELSE t[j + 1]
  BY RemoveAtShifts DEF Table
<1>2. ASSUME NEW j \in 1..Len(t) - 1, NEW k \in 1..Len(t) - 1,
             RemoveAt(t, i)[j] = RemoveAt(t, i)[k]
      PROVE j = k
  BY <1>1, <1>2 DEF Table
<1>3. QED
  BY <1>1, <1>2, MuxAssumption DEF Table

\* The table of a facade that has been constructed or cleared.
LEMMA FirstTable == Table(Added(<<>>, Net))
<1>1. Table(<<>>)
  BY MuxAssumption, EmptySeq DEF Table
<1>2. QED
  BY <1>1, AddedTable DEF Streams

---------------------------------------------------------------------------
(* The invariant *)

\* What the histories and the keys are.
HistoryOK == pos \in Nat /\ high \in [Streams -> Nat] /\ build \in Registered

Inv == TypeOK /\ HistoryOK /\ NoStreamRepeats /\ TrustDomain

\* TypeOK in terms of the table.
LEMMA TypeOfTable ==
  TypeOK <=> /\ Table(table) /\ index \in Nat /\ (index < Count \/ index = 0)
             /\ attached \in BOOLEAN /\ last \in Streams \cup {NoStream}
             /\ input \in [Streams -> 0..MaxIn]
  BY DEF TypeOK, Table, Count

\* The constructor of the facade establishes the invariant.
LEMMA InitInv == Init => Inv
<1> SUFFICES ASSUME Init PROVE Inv
  OBVIOUS
<1>1. Table(table)
  BY FirstTable DEF Init
<1>2. input \in [Streams -> 0..MaxIn]
  BY MuxAssumption DEF Init
<1>3. TypeOK
  BY <1>1, <1>2 DEF Init, TypeOK, Table, Count
<1>4. HistoryOK /\ NoStreamRepeats /\ TrustDomain
  BY DEF Init, HistoryOK, NoStreamRepeats, TrustDomain
<1>5. QED
  BY <1>3, <1>4 DEF Inv

\* The stream whose turn it is is one of the table, and the next index is one
\* of the table: the modulus is over a table that is not empty.
LEMMA TurnInTable ==
  ASSUME Inv, NEW dead, Ready(dead) # {}
  PROVE  LET o == Min(Ready(dead))
         IN Turn(o) \in Streams /\ input[Turn(o)] > 0 /\ NextIndex(o) \in 0..Count - 1
<1> DEFINE o == Min(Ready(dead))
<1>1. Count \in Nat /\ index \in Nat /\ Table(table)
  BY TypeOfTable, LenProperties DEF Inv, Count, Table
<1>2. Ready(dead) \in SUBSET Nat
  BY <1>1 DEF Ready
<1>3. o \in Ready(dead)
  BY <1>2, MinIsLeast
<1> HIDE DEF o
<1>4. o \in 0..Count - 1 /\ input[Turn(o)] > 0
  BY <1>3 DEF Ready
<1>5. (index + o) % Count \in 0..Count - 1 /\ (index + o + 1) % Count \in 0..Count - 1
  BY <1>1, <1>4
<1>6. Turn(o) \in Streams
  <2>1. ((index + o) % Count) + 1 \in 1..Len(table)
    BY <1>5, <1>1 DEF Count
  <2>2. QED
    BY <2>1, <1>1, ElementOfSeq DEF Turn, Table
<1>7. QED
  BY <1>4, <1>5, <1>6 DEF NextIndex, o

\* What a read takes is there to be taken.
LEMMA ReadKeeps == ASSUME Inv, Read PROVE TypeOK'
<1> DEFINE o == Min(Ready({}))
<1>1. Turn(o) \in Streams /\ input[Turn(o)] > 0 /\ NextIndex(o) \in 0..Count - 1
  BY TurnInTable DEF Read
<1>2. /\ index' = NextIndex(o)
      /\ \/ input' = [input EXCEPT ![Turn(o)] = @ - 1] /\ last' = Turn(o)
         \/ input' = [input EXCEPT ![Net] = 0] /\ UNCHANGED last
      /\ UNCHANGED <<table, attached>>
  BY DEF Read
<1> HIDE DEF o
<1>3. Net \in Streams
  BY DEF Streams
<1>4. index' \in Nat /\ index' < Count' /\ Count' = Count
  BY <1>1, <1>2, LenProperties DEF Inv, TypeOK, Count
<1>5. input' \in [Streams -> 0..MaxIn]
  BY <1>1, <1>2, <1>3, MuxAssumption DEF Inv, TypeOK
<1>6. QED
  BY <1>1, <1>2, <1>4, <1>5 DEF Inv, TypeOK, Count

LEMMA ReadBulkKeeps == ASSUME Inv, NEW size \in 1..MaxIn, ReadBulk(size) PROVE TypeOK'
<1>1. PICK dead \in {{}, {Net}} :
       LET rest == [s \in Streams |-> IF s \in dead THEN 0 ELSE input[s]]
       IN IF Ready(dead) = {}
          THEN input' = rest /\ UNCHANGED <<index, last>>
          ELSE LET o == Min(Ready(dead))
                   request == Min({size, input[Turn(o)]})
               IN /\ index' = NextIndex(o) /\ last' = Turn(o)
                  /\ \E n \in 1..request :
                       /\ Turn(o) # Net => n = request
                       /\ input' = [rest EXCEPT ![Turn(o)] = @ - n]
  BY DEF ReadBulk
<1> DEFINE rest == [s \in Streams |-> IF s \in dead THEN 0 ELSE input[s]]
           o == Min(Ready(dead))
<1>2. UNCHANGED <<table, attached>>
  BY DEF ReadBulk
<1>3. rest \in [Streams -> 0..MaxIn]
  BY MuxAssumption DEF Inv, TypeOK
<1>4. CASE Ready(dead) = {}
  BY <1>1, <1>2, <1>3, <1>4 DEF Inv, TypeOK, Count
<1>5. CASE Ready(dead) # {}
  <2>1. Turn(o) \in Streams /\ input[Turn(o)] > 0 /\ NextIndex(o) \in 0..Count - 1
    BY <1>5, TurnInTable
  <2>2. Turn(o) \notin dead
    <3>1. Ready(dead) \in SUBSET Nat
      BY LenProperties DEF Ready, Inv, TypeOK, Count
    <3>2. o \in Ready(dead)
      BY <3>1, <1>5, MinIsLeast
    <3>3. QED
      BY <3>2 DEF Ready
  <2>3. PICK n \in 1..Min({size, input[Turn(o)]}) : input' = [rest EXCEPT ![Turn(o)] = @ - n]
    BY <1>1, <1>5
  <2>4. index' = NextIndex(o) /\ last' = Turn(o)
    BY <1>1, <1>5
  <2> HIDE DEF o, rest
  <2>5. size \in Nat /\ input[Turn(o)] \in 0..MaxIn
    BY <2>1 DEF Inv, TypeOK
  <2>6. Min({size, input[Turn(o)]}) \in Nat /\ Min({size, input[Turn(o)]}) <= input[Turn(o)]
    <3>1. {size, input[Turn(o)]} \in SUBSET Nat
      BY <2>5, MuxAssumption
    <3>2. QED
      BY <3>1, MinIsLeast
  <2>7. rest[Turn(o)] = input[Turn(o)]
    BY <2>1, <2>2 DEF rest
  <2>8. rest[Turn(o)] - n \in 0..MaxIn
    BY <2>3, <2>5, <2>6, <2>7, MuxAssumption
  <2>9. input' \in [Streams -> 0..MaxIn]
    BY <2>3, <2>8, <1>3
  <2>10. index' \in Nat /\ index' < Count' /\ Count' = Count
    BY <1>2, <2>1, <2>4, LenProperties DEF Inv, TypeOK, Count
  <2>11. QED
    BY <1>2, <2>1, <2>4, <2>9, <2>10 DEF Inv, TypeOK, Count
<1>6. QED
  BY <1>4, <1>5

\* The result of write() is at least what each stream has taken.
LEMMA BestIsEnough ==
  ASSUME NEW size \in Nat, NEW taken \in [ToSet(table) -> 0..size], NEW s \in ToSet(table)
  PROVE  /\ BestResult({taken[t] : t \in ToSet(table)}) \in 0..size
         /\ taken[s] <= BestResult({taken[t] : t \in ToSet(table)})
<1> DEFINE S == {taken[t] : t \in ToSet(table)} \cup {0}
<1>1. S \in SUBSET (0..size) /\ S # {} /\ taken[s] \in S
  OBVIOUS
<1> HIDE DEF S
<1>2. Max(S) \in S /\ \A y \in S : y <= Max(S)
  BY <1>1, MaxIsGreatest
<1>3. QED
  BY <1>1, <1>2 DEF S, BestResult

LEMMA WriteKeeps ==
  ASSUME Inv, NEW size \in 1..MaxPos, Write(size)
  PROVE  pos' \in Nat /\ high' \in [Streams -> Nat] /\ NoStreamRepeats'
<1>1. PICK taken \in [ToSet(table) -> 0..size] :
        /\ high' = [s \in Streams |-> IF Attached(s) /\ taken[s] > 0 THEN pos + taken[s]
                                      ELSE high[s]]
        /\ pos' \in {pos + BestResult({taken[s] : s \in ToSet(table)}), pos + size}
  BY DEF Write
<1> DEFINE best == BestResult({taken[s] : s \in ToSet(table)})
<1>2. size \in Nat
  BY MuxAssumption
<1>3. best \in 0..size
  <2>1. CASE ToSet(table) = {}
    <3>1. {taken[s] : s \in ToSet(table)} \cup {0} = {0}
      BY <2>1
    <3>2. Max({0}) \in {0}
      BY MaxIsGreatest
    <3>3. QED
      BY <3>1, <3>2, <1>2 DEF BestResult
  <2>2. CASE ToSet(table) # {}
    BY <2>2, <1>2, BestIsEnough
  <2>3. QED
    BY <2>1, <2>2
<1>4. \A s \in ToSet(table) : taken[s] \in 0..size /\ taken[s] <= best
  BY <1>2, BestIsEnough
<1>5. \A s \in Streams : Attached(s) => s \in ToSet(table)
  BY LenProperties DEF Attached, Contains, ToSet, Inv, TypeOK
<1> HIDE DEF best
<1>6. pos \in Nat /\ high \in [Streams -> Nat] /\ \A s \in Streams : high[s] <= pos
  BY DEF Inv, HistoryOK, NoStreamRepeats
<1>7. pos' \in Nat /\ pos' >= pos + best
  BY <1>1, <1>2, <1>3, <1>6 DEF best
<1>8. \A s \in Streams : high'[s] \in Nat /\ high'[s] <= pos'
  <2> TAKE s \in Streams
  <2>1. CASE Attached(s) /\ taken[s] > 0
    BY <2>1, <1>1, <1>4, <1>5, <1>6, <1>7, <1>3
  <2>2. CASE ~(Attached(s) /\ taken[s] > 0)
    BY <2>2, <1>1, <1>6, <1>7, <1>3
  <2>3. QED
    BY <2>1, <2>2
<1>9. high' \in [Streams -> Nat]
  BY <1>1, <1>8
<1>10. QED
  BY <1>7, <1>8, <1>9 DEF NoStreamRepeats

\* Every call of the sketch and everything that arrives keeps the invariant.
LEMMA NextInv == Inv /\ [Next]_vars => Inv'
<1> SUFFICES ASSUME Inv, [Next]_vars PROVE Inv'
  OBVIOUS
<1> USE DEF Inv, HistoryOK
<1>1. ASSUME UNCHANGED <<pos, high, build, key>>, TypeOK' PROVE Inv'
  BY <1>1 DEF NoStreamRepeats, TrustDomain
<1>2. ASSUME UNCHANGED mux, attached' = attached, last' = last, input' \in [Streams -> 0..MaxIn]
      PROVE TypeOK'
  BY <1>2 DEF TypeOK, mux, Count
<1>3. Net \in Streams /\ Serial \in Streams /\ 0 \in 0..MaxIn
  BY MuxAssumption DEF Streams
<1>4. InputWithoutSession \in [Streams -> 0..MaxIn]
  BY <1>3 DEF InputWithoutSession, TypeOK
<1>5. CASE Read
  BY <1>1, <1>5, ReadKeeps DEF Read
<1>6. ASSUME NEW size \in 1..MaxIn, ReadBulk(size) PROVE Inv'
  BY <1>1, <1>6, ReadBulkKeeps DEF ReadBulk
<1>7. ASSUME NEW size \in 1..MaxPos, Write(size) PROVE Inv'
  <2>1. TypeOK'
    BY <1>7, <1>2 DEF Write, TypeOK
  <2>2. QED
    BY <1>7, <2>1, WriteKeeps DEF Write, TrustDomain
<1>8. ASSUME NEW s \in Streams, AddStream(s) PROVE Inv'
  <2>1. Table(table') /\ Len(table') >= Len(table) /\ Len(table) \in Nat /\ Len(table') \in Nat
    <3>1. Table(table)
      BY TypeOfTable
    <3>2. Table(table') /\ Len(table') >= Len(table)
      <4>1. Table(Added(table, s)) /\ Len(Added(table, s)) >= Len(table)
        BY <3>1, AddedTable
      <4>2. Len(table) >= Len(table)
        BY <3>1, LenProperties DEF Table
      <4>3. QED
        BY <1>8, <3>1, <4>1, <4>2 DEF AddStream
    <3>3. QED
      BY <3>1, <3>2, LenProperties DEF Table
  <2>2. TypeOK'
    BY <1>8, <2>1 DEF AddStream, TypeOK, Table, Count
  <2>3. QED
    BY <1>1, <1>8, <2>2 DEF AddStream
<1>9. ASSUME NEW s \in Streams, RemoveStream(s) PROVE Inv'
  <2>1. CASE UNCHANGED mux
    BY <1>1, <1>2, <1>9, <2>1 DEF RemoveStream, TypeOK
  <2>2. ASSUME NEW i \in 1..Count, table' = RemoveAt(table, i), index' = IndexAfterRemoval(Count - 1)
        PROVE Inv'
    <3>1. Table(table') /\ Len(table') = Count - 1 /\ Count \in Nat
      BY <2>2, TypeOfTable, RemovedTable, LenProperties DEF Count, Table
    <3>2. index' \in Nat /\ (index' < Len(table') \/ index' = 0)
      BY <2>2, <3>1 DEF IndexAfterRemoval, TypeOK
    <3>3. TypeOK'
      BY <1>9, <3>1, <3>2 DEF RemoveStream, TypeOK, Table, Count
    <3>4. QED
      BY <1>1, <1>9, <3>3 DEF RemoveStream
  <2>3. QED
    BY <1>9, <2>1, <2>2 DEF RemoveStream, MuxRemove
<1>10. CASE ClearStreams
  <2>1. TypeOK'
    BY <1>10, FirstTable DEF ClearStreams, TypeOK, Table, Count
  <2>2. QED
    BY <1>1, <1>10, <2>1 DEF ClearStreams
<1>11. CASE Begin
  <2>1. input' \in [Streams -> 0..MaxIn]
    BY <1>11, <1>4 DEF Begin, TypeOK
  <2>2. Table(table') /\ Len(table') >= Len(table) /\ Len(table) \in Nat /\ Len(table') \in Nat
    <3>1. Table(table)
      BY TypeOfTable
    <3>2. Table(table') /\ Len(table') >= Len(table)
      BY <1>11, <1>3, <3>1, AddedTable DEF Begin, Table
    <3>3. QED
      BY <3>1, <3>2, LenProperties DEF Table
  <2>3. attached' \in BOOLEAN
    BY <1>11 DEF Begin, TypeOK, Contains
  <2>4. TypeOK'
    BY <1>11, <2>1, <2>2, <2>3 DEF Begin, TypeOK, Table, Count
  <2>5. TrustDomain'
    BY <1>11 DEF Begin, SelectedKey, TrustDomain
  <2>6. QED
    BY <1>11, <2>4, <2>5 DEF Begin, NoStreamRepeats
<1>12. CASE End
  BY <1>1, <1>2, <1>4, <1>12 DEF End, TypeOK
<1>13. ASSUME NEW k \in {"none", "own"}, SetKey(k) PROVE Inv'
  <2>1. TypeOK'
    BY <1>2, <1>4, <1>13 DEF SetKey, TypeOK
  <2>2. QED
    BY <1>13, <2>1 DEF SetKey, NoStreamRepeats, TrustDomain
<1>14. ASSUME NEW s \in Streams, Arrive(s) PROVE Inv'
  <2>1. input' \in [Streams -> 0..MaxIn]
    BY <1>14, MuxAssumption DEF Arrive, TypeOK
  <2>2. QED
    BY <1>1, <1>2, <1>14, <2>1 DEF Arrive, TypeOK
<1>15. CASE SessionEnds
  BY <1>1, <1>2, <1>4, <1>15 DEF SessionEnds, TypeOK
<1>16. CASE UNCHANGED vars
  BY <1>1, <1>2, <1>16 DEF vars, TypeOK
<1>17. QED
  BY <1>5, <1>6, <1>7, <1>8, <1>9, <1>10, <1>11, <1>12, <1>13, <1>14, <1>15, <1>16
  DEF Next, Reads

\* The invariant holds in every reachable state.
LEMMA Invariance == Spec => []Inv
<1>1. Inv /\ [Next]_vars => Inv'
  BY NextInv
<1>2. QED
  BY InitInv, <1>1, PTL DEF Spec

---------------------------------------------------------------------------

\* Reads never index outside the table of streams, whatever is removed under
\* the index; no stream is in it twice.
THEOREM TypeCorrect == Spec => []TypeOK
<1>1. Inv => TypeOK
  BY DEF Inv
<1>2. QED
  BY Invariance, <1>1, PTL

\* write() reports at least what every stream took: going on after what it
\* reports repeats nothing, for any number of streams.
THEOREM NothingRepeats == Spec => []NoStreamRepeats
<1>1. Inv => NoStreamRepeats
  BY DEF Inv
<1>2. QED
  BY Invariance, <1>1, PTL

\* begin() never falls back to the key of the installation when the sketch
\* names a key, good or bad, or opts out.
THEOREM TrustDomainKept == Spec => []TrustDomain
<1>1. Inv => TrustDomain
  BY DEF Inv
<1>2. QED
  BY Invariance, <1>1, PTL

=============================================================================
