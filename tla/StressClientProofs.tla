------------------------- MODULE StressClientProofs -------------------------
(***************************************************************************)
(* The stress test, for any number of cycles, payload bytes and             *)
(* connections: its two goroutines never meet over the payload buffer, and  *)
(* over connections that work it never blames the data.                     *)
(***************************************************************************)
EXTENDS StressClient, FiniteSetTheorems, WellFoundedInduction, TLAPS

---------------------------------------------------------------------------
(* Connections *)

\* Connections are dialled in order.
InUse == {c \in Conns : conns[c].host # "none"}
DialledInOrder == /\ Dialled \in 0..MaxConns
                  /\ \A c \in Conns : c \in InUse <=> c <= Dialled

\* The main goroutine works on a connection it has dialled.
OnConn == host.pc \in {"negotiate", "transfer", "join"} => Last \in Conns

\* The board serves a connection that was dialled.
Known == \A c \in Conns : conns[c].board # "none" => c \in InUse

Base == TypeOK /\ DialledInOrder /\ OnConn

---------------------------------------------------------------------------
(* The bytes of an attempt *)

\* Bytes in the order in which they were sent, perhaps not all of them, and
\* bytes that were sent before others.
Increasing(s) == \A i, j \in 1..Len(s) : i < j => s[i].i < s[j].i
Before(s, t) == \A i \in 1..Len(s), j \in 1..Len(t) : s[i].i < t[j].i

\* Bytes of a cycle's payload, of which k bytes were sent.
SentOf(s, cycle, k) == \A i \in 1..Len(s) : s[i].cycle = cycle /\ s[i].i <= k

\* What was received (r), is under way to the host (d), is held by the sketch
\* (h) and is under way to the board (u): parts of the payload, in this order.
\* Bytes may be missing, since the sketch drops what a short write does not take.
Parts(r, d, h, u, cycle, k) ==
  /\ Increasing(r) /\ Increasing(d) /\ Increasing(h) /\ Increasing(u)
  /\ Before(r, d) /\ Before(r, h) /\ Before(r, u)
  /\ Before(d, h) /\ Before(d, u) /\ Before(h, u)
  /\ SentOf(r, cycle, k) /\ SentOf(d, cycle, k) /\ SentOf(h, cycle, k) /\ SentOf(u, cycle, k)

Up == conns[Last].up
Down == conns[Last].down
Held == board.held

\* The echo so far is in order, and of this cycle.
Echo == Parts(received, Down, Held, Up, payload, writer.sent)

\* Nothing of an earlier attempt is left.
Quiet == Held = <<>> /\ \A c \in Conns : conns[c].up = <<>>

\* As long as no connection has broken and no cycle has timed out, nothing
\* fails, and there are only bytes of the attempt that is going on.
Clean ==
  /\ host.result # "mismatch"
  /\ host.pc \in {"cycle", "dial", "negotiate"} => Quiet
  /\ host.pc = "negotiate" => Down = <<>>
  /\ host.pc \in {"transfer", "join"} =>
       /\ conns[Last].host = "open" /\ ~host.expired /\ ~host.failed /\ ~writer.err
       /\ \A c \in Conns : c # Last => conns[c].up = <<>>
       /\ Echo
  /\ host.pc = "join" => Len(received) = Bytes

Inv == Base /\ WriterAlone /\ (~broken => Clean)

---------------------------------------------------------------------------
(* Sequences of bytes *)

\* Cutting a sequence keeps its order, and its order against others.
LEMMA Cut ==
  ASSUME NEW S, NEW s \in Seq(S), NEW n \in 0..Len(s)
  PROVE  LET p == SubSeq(s, 1, n)
             q == SubSeq(s, n + 1, Len(s))
         IN /\ p \in Seq(S) /\ q \in Seq(S) /\ Len(p) = n /\ Len(q) = Len(s) - n
            /\ \A i \in 1..n : p[i] = s[i]
            /\ \A i \in 1..(Len(s) - n) : q[i] = s[n + i]
  OBVIOUS

\* Both parts are in order, and the first comes before the second.
Halves(s, p, q) ==
  /\ Increasing(s) => Increasing(p) /\ Increasing(q) /\ Before(p, q)
  /\ \A x : Before(x, s) => Before(x, p) /\ Before(x, q)
  /\ \A x : Before(s, x) => Before(p, x) /\ Before(q, x)
  /\ \A x, y : SentOf(s, x, y) => SentOf(p, x, y) /\ SentOf(q, x, y)

LEMMA CutOrder ==
  ASSUME NEW S, NEW s \in Seq(S), NEW n \in 0..Len(s), NEW p, NEW q,
         p = SubSeq(s, 1, n), q = SubSeq(s, n + 1, Len(s))
  PROVE  Halves(s, p, q)
<1>1. /\ Len(p) = n /\ Len(q) = Len(s) - n /\ Len(s) \in Nat
      /\ \A i \in 1..n : p[i] = s[i] /\ i \in 1..Len(s)
      /\ \A i \in 1..(Len(s) - n) : q[i] = s[n + i] /\ n + i \in 1..Len(s)
      /\ \A i \in 1..n, j \in 1..(Len(s) - n) : i < n + j
      /\ \A i, j \in 1..(Len(s) - n) : i < j => n + i < n + j
  BY Cut, SMTT(60)
<1>2. Increasing(s) => Increasing(p) /\ Increasing(q) /\ Before(p, q)
  <2>1. Increasing(s) => Increasing(p)
    BY <1>1 DEF Increasing
  <2>2. Increasing(s) => Increasing(q)
    BY <1>1 DEF Increasing
  <2>3. ASSUME Increasing(s), NEW i \in 1..Len(p), NEW j \in 1..Len(q) PROVE p[i].i < q[j].i
    <3>1. i \in 1..n /\ j \in 1..(Len(s) - n)
      BY <1>1
    <3>2. p[i] = s[i] /\ q[j] = s[n + j] /\ i \in 1..Len(s) /\ n + j \in 1..Len(s) /\ i < n + j
      BY <1>1, <3>1
    <3>3. QED
      BY <2>3, <3>2 DEF Increasing
  <2>4. QED
    BY <2>1, <2>2, <2>3 DEF Before
<1>3. ASSUME NEW x, Before(x, s) PROVE Before(x, p) /\ Before(x, q)
  BY <1>1, <1>3 DEF Before
<1>4. ASSUME NEW x, Before(s, x) PROVE Before(p, x) /\ Before(q, x)
  BY <1>1, <1>4 DEF Before
<1>5. ASSUME NEW x, NEW y, SentOf(s, x, y) PROVE SentOf(p, x, y) /\ SentOf(q, x, y)
  BY <1>1, <1>5 DEF SentOf
<1>6. QED
  BY <1>2, <1>3, <1>4, <1>5 DEF Halves

\* Joining two sequences, of which one comes before the other, does too.
LEMMA JoinOrder ==
  ASSUME NEW S, NEW s \in Seq(S), NEW t \in Seq(S), NEW r, r = s \o t
  PROVE  /\ r \in Seq(S) /\ Len(r) = Len(s) + Len(t)
         /\ Increasing(s) /\ Increasing(t) /\ Before(s, t) => Increasing(r)
         /\ \A x : Before(x, s) /\ Before(x, t) => Before(x, r)
         /\ \A x : Before(s, x) /\ Before(t, x) => Before(r, x)
         /\ \A x, y : SentOf(s, x, y) /\ SentOf(t, x, y) => SentOf(r, x, y)
<1>1. /\ r \in Seq(S) /\ Len(r) = Len(s) + Len(t) /\ Len(s) \in Nat /\ Len(t) \in Nat
      /\ \A i \in 1..Len(s) : r[i] = s[i]
      /\ \A i \in 1..Len(r) : i > Len(s) => r[i] = t[i - Len(s)] /\ i - Len(s) \in 1..Len(t)
      /\ \A i \in 1..Len(r) : i <= Len(s) => i \in 1..Len(s)
  OBVIOUS
<1>2. ASSUME Increasing(s), Increasing(t), Before(s, t), NEW i \in 1..Len(r), NEW j \in 1..Len(r), i < j
      PROVE  r[i].i < r[j].i
  <2>1. CASE j <= Len(s)
    BY <1>1, <1>2, <2>1 DEF Increasing
  <2>2. CASE i > Len(s)
    <3>1. i - Len(s) < j - Len(s) /\ j > Len(s)
      BY <1>1, <1>2, <2>2
    <3>2. QED
      BY <1>1, <1>2, <2>2, <3>1 DEF Increasing
  <2>3. CASE i <= Len(s) /\ j > Len(s)
    BY <1>1, <1>2, <2>3 DEF Before
  <2>4. QED
    BY <1>1, <2>1, <2>2, <2>3
<1>3. ASSUME NEW x, Before(x, s), Before(x, t) PROVE Before(x, r)
  BY <1>1, <1>3 DEF Before
<1>4. ASSUME NEW x, Before(s, x), Before(t, x) PROVE Before(r, x)
  BY <1>1, <1>4, SMTT(60) DEF Before
<1>5. ASSUME NEW x, NEW y, SentOf(s, x, y), SentOf(t, x, y) PROVE SentOf(r, x, y)
  BY <1>1, <1>5 DEF SentOf
<1>6. QED
  BY <1>1, <1>2, <1>3, <1>4, <1>5 DEF Increasing

\* The empty sequence has every order.
LEMMA EmptyOrder ==
  /\ Increasing(<<>>)
  /\ \A x : Before(x, <<>>) /\ Before(<<>>, x)
  /\ \A x, y : SentOf(<<>>, x, y)
BY DEF Increasing, Before, SentOf

\* What may happen to the parts: bytes are received, ...
LEMMA PartsReceived ==
  ASSUME NEW S, NEW r \in Seq(S), NEW d \in Seq(S), NEW h, NEW u, NEW cycle, NEW k,
         NEW n \in 0..Len(d), Parts(r, d, h, u, cycle, k)
  PROVE  Parts(r \o SubSeq(d, 1, n), SubSeq(d, n + 1, Len(d)), h, u, cycle, k)
<1>p. PICK p : p = SubSeq(d, 1, n)
  OBVIOUS
<1>q. PICK q : q = SubSeq(d, n + 1, Len(d))
  OBVIOUS
<1>s. PICK s : s = r \o p
  OBVIOUS
<1>1. p \in Seq(S) /\ q \in Seq(S)
  BY <1>p, <1>q, Cut
<1>c. Halves(d, p, q)
  BY <1>p, <1>q, CutOrder
<1>j. /\ Increasing(r) /\ Increasing(p) /\ Before(r, p) => Increasing(s)
      /\ \A x : Before(r, x) /\ Before(p, x) => Before(s, x)
      /\ \A x, y : SentOf(r, x, y) /\ SentOf(p, x, y) => SentOf(s, x, y)
  BY <1>1, <1>s, JoinOrder, Zenon
<1>2. /\ Increasing(p) /\ Increasing(q) /\ Before(p, q)
      /\ Before(r, p) /\ Before(r, q) /\ Before(p, h) /\ Before(q, h) /\ Before(p, u) /\ Before(q, u)
      /\ SentOf(p, cycle, k) /\ SentOf(q, cycle, k)
  BY <1>c DEF Parts, Halves
<1>3. /\ Increasing(s) /\ Before(s, q) /\ Before(s, h) /\ Before(s, u) /\ SentOf(s, cycle, k)
  BY <1>2, <1>j DEF Parts
<1>4. Parts(s, q, h, u, cycle, k)
  BY <1>2, <1>3 DEF Parts
<1>5. QED
  BY <1>4, <1>p, <1>q, <1>s

\* ... the sketch reads, ...
LEMMA PartsRead ==
  ASSUME NEW S, NEW r, NEW d, NEW h, NEW u \in Seq(S), NEW cycle, NEW k,
         NEW n \in 0..Len(u), Parts(r, d, h, u, cycle, k)
  PROVE  Parts(r, d, SubSeq(u, 1, n), SubSeq(u, n + 1, Len(u)), cycle, k)
<1>p. PICK p : p = SubSeq(u, 1, n)
  OBVIOUS
<1>q. PICK q : q = SubSeq(u, n + 1, Len(u))
  OBVIOUS
<1>c. Halves(u, p, q)
  BY <1>p, <1>q, CutOrder
<1>1. /\ Increasing(p) /\ Increasing(q) /\ Before(p, q)
      /\ Before(r, p) /\ Before(r, q) /\ Before(d, p) /\ Before(d, q)
      /\ SentOf(p, cycle, k) /\ SentOf(q, cycle, k)
  BY <1>c DEF Parts, Halves
<1>2. Parts(r, d, p, q, cycle, k)
  BY <1>1 DEF Parts
<1>3. QED
  BY <1>2, <1>p, <1>q

\* ... it writes what it holds, or some of it, ...
LEMMA PartsWritten ==
  ASSUME NEW S, NEW r, NEW d \in Seq(S), NEW h \in Seq(S), NEW u, NEW cycle, NEW k,
         NEW n \in 0..Len(h), Parts(r, d, h, u, cycle, k)
  PROVE  Parts(r, d \o SubSeq(h, 1, n), <<>>, u, cycle, k)
<1>p. PICK p : p = SubSeq(h, 1, n)
  OBVIOUS
<1>q. PICK q : q = SubSeq(h, n + 1, Len(h))
  OBVIOUS
<1>s. PICK s : s = d \o p
  OBVIOUS
<1>1. p \in Seq(S)
  BY <1>p, Cut
<1>c. Halves(h, p, q)
  BY <1>p, <1>q, CutOrder
<1>j. /\ Increasing(d) /\ Increasing(p) /\ Before(d, p) => Increasing(s)
      /\ \A x : Before(x, d) /\ Before(x, p) => Before(x, s)
      /\ \A x : Before(d, x) /\ Before(p, x) => Before(s, x)
      /\ \A x, y : SentOf(d, x, y) /\ SentOf(p, x, y) => SentOf(s, x, y)
  BY <1>1, <1>s, JoinOrder, Zenon
<1>2. /\ Increasing(p) /\ Before(r, p) /\ Before(d, p) /\ Before(p, u) /\ SentOf(p, cycle, k)
  BY <1>c DEF Parts, Halves
<1>3. /\ Increasing(s) /\ Before(r, s) /\ Before(s, u) /\ SentOf(s, cycle, k)
  BY <1>2, <1>j DEF Parts
<1>4. Parts(r, s, <<>>, u, cycle, k)
  BY <1>3, EmptyOrder DEF Parts
<1>5. QED
  BY <1>4, <1>p, <1>s

\* ... the writer sends the next byte, ...
LEMMA PartsSent ==
  ASSUME NEW r \in Seq(SentByte), NEW d \in Seq(SentByte), NEW h \in Seq(SentByte), NEW u \in Seq(SentByte),
         NEW cycle, NEW k \in Nat, NEW b \in SentByte, b.cycle = cycle, b.i = k + 1, Parts(r, d, h, u, cycle, k)
  PROVE  Parts(r, d, h, Append(u, b), cycle, k + 1)
<1> DEFINE v == Append(u, b)
<1>1. /\ Len(u) \in Nat /\ Len(v) = Len(u) + 1 /\ v[Len(u) + 1] = b
      /\ \A i \in 1..Len(v) : i # Len(u) + 1 => i \in 1..Len(u) /\ v[i] = u[i]
  OBVIOUS
<1> HIDE DEF v
<1>p. Increasing(u) /\ SentOf(u, cycle, k)
  BY DEF Parts
<1>2. ASSUME NEW s \in Seq(SentByte), SentOf(s, cycle, k)
      PROVE  /\ SentOf(s, cycle, k + 1) /\ Len(s) \in Nat
             /\ \A i \in 1..Len(s) : s[i].i < b.i /\ s[i].cycle = cycle
  <2>1. \A i \in 1..Len(s) : s[i].i \in Int /\ s[i].i <= k /\ s[i].cycle = cycle
    <3>1. \A i \in 1..Len(s) : s[i] \in SentByte
      OBVIOUS
    <3>2. QED
      BY <1>2, <3>1 DEF SentOf, SentByte
  <2>2. QED
    BY <2>1 DEF SentOf
<1>3. SentOf(v, cycle, k + 1)
  <2>1. ASSUME NEW i \in 1..Len(v) PROVE v[i].cycle = cycle /\ v[i].i <= k + 1
    <3>1. CASE i = Len(u) + 1
      BY <1>1, <3>1
    <3>2. CASE i # Len(u) + 1
      <4>1. SentOf(u, cycle, k + 1) /\ v[i] = u[i] /\ i \in 1..Len(u)
        BY <1>1, <1>2, <1>p, <3>2
      <4>2. QED
        BY <4>1 DEF SentOf
    <3>3. QED
      BY <3>1, <3>2
  <2>2. QED
    BY <2>1 DEF SentOf
<1>4. Increasing(v)
  <2>1. ASSUME NEW i \in 1..Len(v), NEW j \in 1..Len(v), i < j PROVE v[i].i < v[j].i
    <3>1. i \in 1..Len(u) /\ v[i] = u[i]
      BY <1>1, <2>1
    <3>2. CASE j \in 1..Len(u)
      <4>1. v[j] = u[j]
        BY <1>1, <2>1, <3>2
      <4>2. u[i].i < u[j].i
        BY <1>p, <2>1, <3>1, <3>2 DEF Increasing
      <4>3. QED
        BY <4>1, <4>2, <3>1
    <3>3. CASE j = Len(u) + 1
      BY <1>1, <1>2, <1>p, <3>1, <3>3
    <3>4. QED
      BY <1>1, <3>2, <3>3
  <2>2. QED
    BY <2>1 DEF Increasing
<1>5. ASSUME NEW s \in Seq(SentByte), SentOf(s, cycle, k), Before(s, u) PROVE Before(s, v)
  BY <1>1, <1>2, <1>5 DEF Before
<1>6. QED
  BY <1>2, <1>3, <1>4, <1>5 DEF Parts, v

\* ... or a part is lost.
LEMMA PartsLost ==
  ASSUME NEW r, NEW d, NEW h, NEW u, NEW cycle, NEW k, Parts(r, d, h, u, cycle, k)
  PROVE  /\ Parts(r, <<>>, h, u, cycle, k) /\ Parts(r, d, <<>>, u, cycle, k)
         /\ Parts(r, d, h, <<>>, cycle, k)
BY EmptyOrder DEF Parts

\* The index of a byte that was sent.
LEMMA ByteAt == \A s \in Seq(SentByte) : \A k \in 1..Len(s) : s[k].i \in 1..Bytes
<1> SUFFICES ASSUME NEW s \in Seq(SentByte), NEW k \in 1..Len(s) PROVE s[k].i \in 1..Bytes
  OBVIOUS
<1>1. s[k] \in SentByte
  OBVIOUS
<1>2. QED
  BY <1>1 DEF SentByte

\* There is no room for gaps in a sequence of as many bytes as the payload has:
\* the least index with a byte that is too small cannot exist, nor the one,
\* counted from the end, with a byte that is too large.
LEMMA AtLeast ==
  ASSUME NEW s \in Seq(SentByte), Increasing(s)
  PROVE  \A k \in 1..Len(s) : s[k].i >= k
<1> DEFINE T == {k \in 1..Len(s) : s[k].i < k}
<1>1. SUFFICES ASSUME T # {} PROVE FALSE
  <2>1. SUFFICES ASSUME NEW k \in 1..Len(s), T = {} PROVE s[k].i >= k
    BY <1>1
  <2>2. ~(s[k].i < k) /\ s[k].i \in 1..Bytes
    BY <2>1, ByteAt
  <2>3. QED
    BY <2>2
<1>2. T \in SUBSET Nat
  OBVIOUS
<1>3. PICK k \in T : \A y \in T : ~ (<<y, k>> \in OpToRel(<, Nat))
  BY <1>1, <1>2, WFMin, NatLessThanWellFounded
<1>4. k \in Nat /\ k \in 1..Len(s) /\ s[k].i < k /\ \A y \in T : y >= k
  <2>1. \A y \in T : ~(y < k)
    BY <1>2, <1>3 DEF OpToRel
  <2>2. QED
    BY <2>1
<1>5. s[k].i \in 1..Bytes
  BY <1>4, ByteAt
<1>6. k - 1 \in 1..Len(s) /\ k - 1 < k
  BY <1>4, <1>5, StressAssumption
<1>7. s[k - 1].i \in 1..Bytes /\ s[k - 1].i < s[k].i
  BY <1>4, <1>6, ByteAt DEF Increasing
<1>8. k - 1 \in T
  BY <1>4, <1>5, <1>6, <1>7, StressAssumption
<1>9. QED
  BY <1>4, <1>8

\* The other half: counted from the end, a byte is not too large.
LEMMA AtMost ==
  ASSUME NEW s \in Seq(SentByte), Increasing(s)
  PROVE  \A k \in 1..Len(s) : s[k].i <= Bytes - (Len(s) - k)
<1> DEFINE T == {d \in 0..(Len(s) - 1) : s[Len(s) - d].i > Bytes - d}
<1>0. Len(s) \in Nat /\ Bytes \in Nat
  BY StressAssumption
<1>1. SUFFICES ASSUME T # {} PROVE FALSE
  <2>1. SUFFICES ASSUME NEW k \in 1..Len(s), T = {} PROVE s[k].i <= Bytes - (Len(s) - k)
    BY <1>1
  <2>2. Len(s) - k \in 0..(Len(s) - 1) /\ Len(s) - (Len(s) - k) = k
    BY <1>0
  <2>3. s[k].i \in 1..Bytes
    BY ByteAt
  <2>4. ~(s[k].i > Bytes - (Len(s) - k))
    BY <2>1, <2>2
  <2>5. QED
    BY <2>3, <2>4, <1>0
<1>2. T \in SUBSET Nat
  BY <1>0
<1>3. PICK d \in T : \A y \in T : ~ (<<y, d>> \in OpToRel(<, Nat))
  BY <1>1, <1>2, WFMin, NatLessThanWellFounded
<1>4. d \in Nat /\ d \in 0..(Len(s) - 1) /\ s[Len(s) - d].i > Bytes - d /\ \A y \in T : y >= d
  <2>1. \A y \in T : ~(y < d)
    BY <1>2, <1>3 DEF OpToRel
  <2>2. QED
    BY <2>1
<1>5. Len(s) - d \in 1..Len(s)
  BY <1>0, <1>4
<1>6. s[Len(s) - d].i \in 1..Bytes
  BY <1>5, ByteAt
<1>7. d # 0
  BY <1>0, <1>4, <1>6
<1>8. d - 1 \in 0..(Len(s) - 1) /\ Len(s) - (d - 1) \in 1..Len(s) /\ Len(s) - d < Len(s) - (d - 1)
  BY <1>0, <1>4, <1>7
<1>9. s[Len(s) - (d - 1)].i \in 1..Bytes /\ s[Len(s) - d].i < s[Len(s) - (d - 1)].i
  BY <1>5, <1>8, ByteAt DEF Increasing
<1>10. d - 1 \in T
  BY <1>0, <1>4, <1>6, <1>8, <1>9
<1>11. QED
  BY <1>4, <1>10

---------------------------------------------------------------------------
(* What the steps do to the connections *)

\* An end learns something, ...
LEMMA SetsHost ==
  ASSUME conns \in [Conns -> Conn], NEW c \in Conns, NEW v \in {"open", "lost", "closed"}, Set(c, "host", v)
  PROVE  /\ conns' \in [Conns -> Conn]
         /\ \A x \in Conns :
              /\ conns'[x].host = (IF x = c THEN v ELSE conns[x].host)
              /\ conns'[x].board = conns[x].board /\ conns'[x].line = conns[x].line
              /\ conns'[x].up = conns[x].up /\ conns'[x].down = conns[x].down
  BY DEF Set, Conn

LEMMA SetsBoard ==
  ASSUME conns \in [Conns -> Conn], NEW c \in Conns, NEW v \in {"waiting", "live", "dead", "closed"}, Set(c, "board", v)
  PROVE  /\ conns' \in [Conns -> Conn]
         /\ \A x \in Conns :
              /\ conns'[x].board = (IF x = c THEN v ELSE conns[x].board)
              /\ conns'[x].host = conns[x].host /\ conns'[x].line = conns[x].line
              /\ conns'[x].up = conns[x].up /\ conns'[x].down = conns[x].down
  BY DEF Set, Conn

LEMMA SetsLine ==
  ASSUME conns \in [Conns -> Conn], NEW c \in Conns, NEW v \in {"hello", "challenge", "auth", "ok"}, Set(c, "line", v)
  PROVE  /\ conns' \in [Conns -> Conn]
         /\ \A x \in Conns :
              /\ conns'[x].line = (IF x = c THEN v ELSE conns[x].line)
              /\ conns'[x].host = conns[x].host /\ conns'[x].board = conns[x].board
              /\ conns'[x].up = conns[x].up /\ conns'[x].down = conns[x].down
  BY DEF Set, Conn

\* ... bytes move, ...
LEMMA SetsUp ==
  ASSUME conns \in [Conns -> Conn], NEW c \in Conns, NEW v \in Seq(SentByte), Set(c, "up", v)
  PROVE  /\ conns' \in [Conns -> Conn]
         /\ \A x \in Conns :
              /\ conns'[x].up = (IF x = c THEN v ELSE conns[x].up)
              /\ conns'[x].host = conns[x].host /\ conns'[x].board = conns[x].board
              /\ conns'[x].line = conns[x].line /\ conns'[x].down = conns[x].down
  BY DEF Set, Conn

LEMMA SetsDown ==
  ASSUME conns \in [Conns -> Conn], NEW c \in Conns, NEW v \in Seq(SentByte), Set(c, "down", v)
  PROVE  /\ conns' \in [Conns -> Conn]
         /\ \A x \in Conns :
              /\ conns'[x].down = (IF x = c THEN v ELSE conns[x].down)
              /\ conns'[x].host = conns[x].host /\ conns'[x].board = conns[x].board
              /\ conns'[x].line = conns[x].line /\ conns'[x].up = conns[x].up
  BY DEF Set, Conn

\* ... and an end closes the connection.
LEMMA HostCloses ==
  ASSUME conns \in [Conns -> Conn], NEW c \in Conns, CloseConn(c)
  PROVE  /\ conns' \in [Conns -> Conn]
         /\ \A x \in Conns :
              /\ conns'[x].host = (IF x = c THEN "closed" ELSE conns[x].host)
              /\ conns'[x].down = (IF x = c THEN <<>> ELSE conns[x].down)
              /\ conns'[x].board = conns[x].board /\ conns'[x].line = conns[x].line
              /\ conns'[x].up = conns[x].up
<1>0. <<>> \in Seq(SentByte)
  OBVIOUS
<1>1. PICK e \in Seq(SentByte) : e = <<>>
  BY <1>0, Zenon
<1>2. conns' = [conns EXCEPT ![c].host = "closed", ![c].down = e]
  BY <1>1 DEF CloseConn
<1>3. /\ conns' \in [Conns -> Conn]
      /\ conns'[c].host = "closed" /\ conns'[c].down = e
      /\ conns'[c].board = conns[c].board /\ conns'[c].line = conns[c].line /\ conns'[c].up = conns[c].up
      /\ \A x \in Conns : x # c => conns'[x] = conns[x]
  BY <1>2 DEF Conn
<1>4. QED
  BY <1>1, <1>3

LEMMA SketchCloses ==
  ASSUME conns \in [Conns -> Conn], NEW c \in Conns, BoardCloses(c)
  PROVE  /\ conns' \in [Conns -> Conn]
         /\ \A x \in Conns :
              /\ conns'[x].board = (IF x = c THEN "closed" ELSE conns[x].board)
              /\ conns'[x].up = (IF x = c THEN <<>> ELSE conns[x].up)
              /\ conns'[x].host = conns[x].host /\ conns'[x].line = conns[x].line
              /\ conns'[x].down = conns[x].down
<1>0. <<>> \in Seq(SentByte)
  OBVIOUS
<1>1. PICK e \in Seq(SentByte) : e = <<>>
  BY <1>0, Zenon
<1>2. conns' = [conns EXCEPT ![c].board = "closed", ![c].up = e]
  BY <1>1 DEF BoardCloses
<1>3. /\ conns' \in [Conns -> Conn]
      /\ conns'[c].board = "closed" /\ conns'[c].up = e
      /\ conns'[c].host = conns[c].host /\ conns'[c].line = conns[c].line /\ conns'[c].down = conns[c].down
      /\ \A x \in Conns : x # c => conns'[x] = conns[x]
  BY <1>2 DEF Conn
<1>4. QED
  BY <1>1, <1>3

\* A connection that was just dialled.
LEMMA NewConn ==
  ASSUME NEW new, new = [NoConn EXCEPT !.host = "open", !.board = "waiting", !.line = "hello"]
  PROVE  /\ new \in Conn /\ new.host = "open" /\ new.board = "waiting" /\ new.line = "hello"
         /\ new.up = <<>> /\ new.down = <<>>
<1>1. <<>> \in Seq(SentByte)
  OBVIOUS
<1>2. PICK e \in Seq(SentByte) : e = <<>>
  BY <1>1, Zenon
<1>3. NoConn = [host |-> "none", board |-> "none", line |-> "none", up |-> e, down |-> e]
  BY <1>2 DEF NoConn
<1>4. NoConn \in Conn /\ NoConn.up = e /\ NoConn.down = e
  BY <1>3 DEF Conn
<1>5. new \in Conn /\ new.host = "open" /\ new.board = "waiting" /\ new.line = "hello"
      /\ new.up = NoConn.up /\ new.down = NoConn.down
  BY <1>4 DEF Conn
<1>6. QED
  BY <1>2, <1>4, <1>5

\* The next connection that is dialled is a new one.
LEMMA Dials ==
  ASSUME TypeOK, DialledInOrder, Dial
  PROVE  /\ conns' \in [Conns -> Conn] /\ Dialled' = Dialled + 1 /\ Dialled + 1 \in Conns
         /\ conns'[Dialled + 1].up = <<>> /\ conns'[Dialled + 1].down = <<>>
         /\ \A c \in Conns : c # Dialled + 1 => conns'[c] = conns[c]
         /\ DialledInOrder'
<1> DEFINE n == Dialled + 1
           new == [NoConn EXCEPT !.host = "open", !.board = "waiting", !.line = "hello"]
<1>1. Dialled \in Nat /\ n \in Conns /\ conns \in [Conns -> Conn]
  BY StressAssumption DEF Dial, DialledInOrder, Conns, TypeOK
<1>2. new \in Conn /\ new.host # "none" /\ new.up = <<>> /\ new.down = <<>>
  BY NewConn
<1>3. conns' = [conns EXCEPT ![n] = new]
  BY DEF Dial
<1> HIDE DEF new
<1>5. conns' \in [Conns -> Conn] /\ conns'[n] = new /\ \A c \in Conns : c # n => conns'[c] = conns[c]
  BY <1>1, <1>2, <1>3
<1>6. InUse' = InUse \cup {n} /\ n \notin InUse
  BY <1>1, <1>2, <1>5 DEF InUse, DialledInOrder
<1>7. IsFiniteSet(InUse)
  <2>1. InUse \subseteq 1..MaxConns /\ 1 \in Int /\ MaxConns \in Int
    BY StressAssumption DEF InUse, Conns
  <2>2. QED
    BY <2>1, FS_Interval, FS_Subset
<1>8. Dialled' = n
  BY <1>6, <1>7, FS_AddElement DEF InUse, Dialled
<1>9. DialledInOrder'
  BY <1>1, <1>6, <1>8, StressAssumption DEF DialledInOrder, Conns
<1>10. QED
  BY <1>1, <1>2, <1>5, <1>8, <1>9

\* Other steps dial nothing.
LEMMA SameDialled ==
  ASSUME DialledInOrder, \A c \in Conns : conns'[c].host = "none" <=> conns[c].host = "none"
  PROVE  Dialled' = Dialled /\ DialledInOrder'
<1>1. InUse' = InUse
  BY DEF InUse
<1>2. Dialled' = Dialled
  BY <1>1 DEF InUse, Dialled
<1>3. QED
  BY <1>1, <1>2 DEF DialledInOrder

---------------------------------------------------------------------------
(* Types *)

\* What is left to show of a step that dials nothing.
LEMMA SameBase ==
  ASSUME DialledInOrder, OnConn,
         \A c \in Conns : conns'[c].host = "none" <=> conns[c].host = "none",
         host'.pc \in {"negotiate", "transfer", "join"} => host.pc \in {"negotiate", "transfer", "join"}
  PROVE  DialledInOrder' /\ OnConn' /\ Dialled' = Dialled
<1>1. Dialled' = Dialled /\ DialledInOrder'
  BY SameDialled
<1>2. QED
  BY <1>1 DEF OnConn, Last

\* The steps of the host keep the types.
LEMMA HostBase == Base /\ (HostStep \/ RecoveryDeadline \/ Expire) => Base'
<1> SUFFICES ASSUME Base, HostStep \/ RecoveryDeadline \/ Expire PROVE Base'
  OBVIOUS
<1>t. /\ host \in Host /\ writer \in Writer /\ board \in Board /\ conns \in [Conns -> Conn]
      /\ payload \in 0..Cycles /\ received \in Seq(SentByte) /\ Len(received) <= Bytes
      /\ broken \in BOOLEAN /\ options \in [recover : BOOLEAN, secure : BOOLEAN]
      /\ DialledInOrder /\ OnConn
  BY DEF Base, TypeOK
<1>l. host.pc \in {"negotiate", "transfer", "join"} => Last \in Conns /\ conns[Last].host # "none"
  BY <1>t DEF OnConn, Last, DialledInOrder, InUse
<1>g. ASSUME host' \in Host, conns' \in [Conns -> Conn], writer' \in Writer, payload' \in 0..Cycles,
             received' \in Seq(SentByte) /\ Len(received') <= Bytes, broken' \in BOOLEAN,
             UNCHANGED <<options, board>>,
             \A c \in Conns : conns'[c].host = "none" <=> conns[c].host = "none",
             host'.pc \in {"negotiate", "transfer", "join"} => host.pc \in {"negotiate", "transfer", "join"}
      PROVE Base'
  BY <1>t, <1>g, SameBase DEF Base, TypeOK
<1>c. ASSUME host.pc \in {"negotiate", "transfer", "join"}, CloseConn(Last)
      PROVE  /\ conns' \in [Conns -> Conn]
             /\ \A c \in Conns : conns'[c].host = "none" <=> conns[c].host = "none"
  BY <1>c, <1>t, <1>l, HostCloses
<1>1. CASE FillPayload
  <2>1. host' \in Host /\ host'.pc = "dial" /\ payload' \in 0..Cycles
    <3>1. host' \in Host /\ host'.pc = "dial"
      BY <1>1, <1>t DEF FillPayload, Host
    <3>2. host.cycle \in 0..Cycles
      BY <1>t, StressAssumption DEF Host
    <3>3. QED
      BY <1>1, <3>1, <3>2 DEF FillPayload
  <2>2. QED
    BY <1>1, <1>g, <1>t, <2>1 DEF FillPayload
<1>2. CASE Dial
  <2>1. host' \in Host /\ host'.pc = "negotiate"
    BY <1>2, <1>t DEF Dial, Goto, Host
  <2>2. conns' \in [Conns -> Conn] /\ DialledInOrder' /\ Dialled' \in Conns
    BY <1>2, <1>t, Dials DEF Base
  <2>3. QED
    BY <1>2, <1>t, <2>1, <2>2 DEF Base, TypeOK, Dial, OnConn, Last
<1>3. CASE HostAuth
  <2>1. /\ conns' \in [Conns -> Conn]
        /\ \A c \in Conns : conns'[c].host = "none" <=> conns[c].host = "none"
    BY <1>3, <1>t, <1>l, SetsLine DEF HostAuth, At
  <2>2. QED
    BY <1>3, <1>g, <1>t, <2>1 DEF HostAuth
<1>4. CASE DialFails \/ GiveUp \/ RecoveryDeadline \/ Expire
  <2>1. host' \in Host /\ host'.pc \in {host.pc, "dial", "returned"}
    BY <1>4, <1>t, ZenonT(60) DEF DialFails, GiveUp, RecoveryDeadline, Expire, AfterFailedDial, Return, Host
  <2>2. QED
    BY <1>4, <1>g, <1>t, <2>1 DEF DialFails, GiveUp, RecoveryDeadline, Expire
<1>5. CASE NegotiationFails
  <2>1. host' \in Host /\ host'.pc \in {"dial", "returned"}
    BY <1>5, <1>t, ZenonT(60) DEF NegotiationFails, AfterFailedDial, Return, Host
  <2>2. QED
    BY <1>5, <1>c, <1>g, <1>t, <2>1 DEF NegotiationFails, At
<1>6. CASE StartTransfer
  <2>1. host' \in Host /\ writer' \in Writer /\ received' \in Seq(SentByte) /\ Len(received') <= Bytes
    <3>1. host' \in Host
      BY <1>6, <1>t DEF StartTransfer, Host
    <3>2. writer' \in Writer
      BY <1>6, StressAssumption DEF StartTransfer, Writer
    <3>3. received' = <<>> /\ <<>> \in Seq(SentByte) /\ Len(<<>>) <= Bytes
      BY <1>6, StressAssumption DEF StartTransfer
    <3>4. QED
      BY <3>1, <3>2, <3>3
  <2>2. QED
    BY <1>6, <1>g, <1>t, <2>1 DEF StartTransfer, At
<1>7. CASE Read
  <2>1. PICK n \in 1..Len(conns[Last].down) :
          /\ Len(received) + n <= Bytes
          /\ received' = received \o SubSeq(conns[Last].down, 1, n)
          /\ Set(Last, "down", SubSeq(conns[Last].down, n + 1, Len(conns[Last].down)))
          /\ IF Len(received) + n = Bytes THEN Goto("join") ELSE UNCHANGED host
    BY <1>7 DEF Read
  <2>2. Last \in Conns /\ conns[Last].down \in Seq(SentByte)
    BY <1>7, <1>t, <1>l DEF Read, At, Conn
  <2>3. /\ SubSeq(conns[Last].down, 1, n) \in Seq(SentByte)
        /\ SubSeq(conns[Last].down, n + 1, Len(conns[Last].down)) \in Seq(SentByte)
        /\ Len(SubSeq(conns[Last].down, 1, n)) = n
    BY <2>2, Cut
  <2>4. received' \in Seq(SentByte) /\ Len(received') <= Bytes
    BY <2>1, <2>3, <1>t
  <2>5. /\ conns' \in [Conns -> Conn]
        /\ \A c \in Conns : conns'[c].host = "none" <=> conns[c].host = "none"
    BY <2>1, <2>2, <2>3, <1>t, SetsDown
  <2>6. host' \in Host /\ host'.pc \in {host.pc, "join"}
    BY <2>1, <1>t DEF Goto, Host
  <2>7. QED
    BY <1>7, <1>g, <1>t, <2>4, <2>5, <2>6 DEF Read, At
<1>8. CASE ReadFails
  <2>1. host' \in Host /\ host'.pc = "join"
    BY <1>8, <1>t DEF ReadFails, Host
  <2>2. QED
    BY <1>8, <1>c, <1>g, <1>t, <2>1 DEF ReadFails, At
<1>9. CASE Interrupted
  <2>1. host' \in Host /\ host'.pc \in {"dial", "returned"}
    BY <1>9, <1>t, ZenonT(60) DEF Interrupted, Return, Host
  <2>2. QED
    BY <1>9, <1>c, <1>g, <1>t, <2>1 DEF Interrupted, At
<1>10. CASE Compare
  <2>1. host' \in Host /\ host'.pc \in {"cycle", "returned"}
    <3>1. \/ \E r \in {"mismatch", "pass"} : Return(r)
          \/ MoreCycles /\ host' = [host EXCEPT !.pc = "cycle", !.cycle = @ + 1]
      BY <1>10 DEF Compare
    <3>2. MoreCycles => host.cycle + 1 \in 1..Cycles
      BY <1>t, StressAssumption DEF MoreCycles, Host
    <3>3. QED
      BY <3>1, <3>2, <1>t DEF Return, Host
  <2>2. QED
    BY <1>10, <1>c, <1>g, <1>t, <2>1 DEF Compare, At
<1>11. QED
  BY <1>1, <1>2, <1>3, <1>4, <1>5, <1>6, <1>7, <1>8, <1>9, <1>10 DEF HostStep

\* The connection that was dialled first is there to be accepted.
LEMMA Earliest ==
  ASSUME Backlog # {}
  PROVE  (CHOOSE x \in Backlog : \A y \in Backlog : x <= y) \in Conns
<1>1. Backlog \in SUBSET Nat /\ Backlog \subseteq Conns
  BY DEF Backlog, Conns
<1>2. PICK x \in Backlog : \A y \in Backlog : ~ (<<y, x>> \in OpToRel(<, Nat))
  BY <1>1, WFMin, NatLessThanWellFounded
<1>3. \A y \in Backlog : ~(y < x)
  BY <1>1, <1>2 DEF OpToRel
<1>4. \A y \in Backlog : x <= y
  BY <1>1, <1>3
<1>5. QED
  BY <1>1, <1>4

\* Those of the writer, the sketch and the network do.
LEMMA OtherBase ==
  Base /\ WriterAlone /\ (WriterStep \/ BoardStep \/ \E c \in Conns : HostLoses(c) \/ BoardLoses(c))
    => Base' /\ Dialled' = Dialled
<1> SUFFICES ASSUME Base, WriterAlone, WriterStep \/ BoardStep \/ \E c \in Conns : HostLoses(c) \/ BoardLoses(c)
             PROVE Base' /\ Dialled' = Dialled
  OBVIOUS
<1>t. /\ host \in Host /\ writer \in Writer /\ board \in Board /\ conns \in [Conns -> Conn]
      /\ payload \in 0..Cycles /\ received \in Seq(SentByte) /\ Len(received) <= Bytes
      /\ broken \in BOOLEAN /\ options \in [recover : BOOLEAN, secure : BOOLEAN]
      /\ DialledInOrder /\ OnConn
  BY DEF Base, TypeOK
<1>l. Client # None => Client \in Conns
  BY <1>t DEF Client, Board
<1>d. Last = 0 \/ (Last \in Conns /\ conns[Last].host # "none")
  BY <1>t DEF Last, DialledInOrder, InUse, Conns
<1> DEFINE Goal == Base' /\ Dialled' = Dialled
<1>g. ASSUME board' \in Board, writer' \in Writer, broken' \in BOOLEAN, conns' \in [Conns -> Conn],
             UNCHANGED <<options, host, payload, received>>,
             \A c \in Conns : conns'[c].host = "none" <=> conns[c].host = "none"
      PROVE Goal
  BY <1>t, <1>g, SameBase DEF Base, TypeOK
<1> HIDE DEF Goal
<1>s. ASSUME NEW l \in {"handle", "handshake", "accept", "accepted", "read", "write"}, Stage(l)
      PROVE board' \in Board
  BY <1>s, <1>t DEF Stage, Board
<1>n. board.then \in {"read", "write"}
  BY <1>t DEF Board
<1>b. ASSUME NEW c \in Conns, BoardCloses(c)
      PROVE  /\ conns' \in [Conns -> Conn]
             /\ \A x \in Conns : conns'[x].host = "none" <=> conns[x].host = "none"
  BY <1>b, <1>t, SketchCloses
<1> USE DEF BoardUnchanged
<1>w. writer.st = "running" => Last \in Conns
  BY <1>t DEF WriterAlone, OnConn
<1>1. ASSUME WriterSends PROVE Goal
  <2>1. writer.st = "running" /\ writer.sent < Bytes /\ writer.sent \in 0..Bytes
    BY <1>1, <1>t DEF WriterSends, Writer
  <2>2. Last \in Conns /\ writer.sent + 1 \in 1..Bytes /\ writer.sent + 1 \in 0..Bytes
    BY <2>1, <1>w, StressAssumption
  <2>3. writer' \in Writer
    BY <1>1, <2>2, <1>t DEF WriterSends, Writer
  <2>4. Byte(payload, writer.sent + 1, Last) \in SentByte
    BY <2>2, <1>t DEF Byte, SentByte
  <2>5. Append(conns[Last].up, Byte(payload, writer.sent + 1, Last)) \in Seq(SentByte)
    <3>1. conns[Last].up \in Seq(SentByte)
      BY <2>2, <1>t DEF Conn
    <3>2. QED
      BY <3>1, <2>4
  <2>6. /\ conns' \in [Conns -> Conn]
        /\ \A x \in Conns : conns'[x].host = "none" <=> conns[x].host = "none"
    BY <1>1, <1>t, <2>2, <2>5, SetsUp DEF WriterSends
  <2>7. QED
    BY <1>1, <1>g, <1>t, <2>3, <2>6 DEF WriterSends
<1>2. ASSUME WriterFails PROVE Goal
  <2>1. Last \in Conns /\ conns[Last].host # "none"
    BY <1>2, <1>w, <1>d, <1>t DEF WriterFails, Conns
  <2>2. writer' \in Writer
    BY <1>2, <1>t DEF WriterFails, Writer
  <2>3. /\ conns' \in [Conns -> Conn]
        /\ \A x \in Conns : conns'[x].host = "none" <=> conns[x].host = "none"
    BY <1>2, <1>t, <2>1, HostCloses DEF WriterFails
  <2>4. QED
    BY <1>2, <1>g, <1>t, <2>2, <2>3 DEF WriterFails
<1>3. ASSUME Handle PROVE Goal
  <2>1. board' \in Board
    BY <1>3, <1>t DEF Handle, Stage, Board
  <2>2. /\ conns' \in [Conns -> Conn]
        /\ \A x \in Conns : conns'[x].host = "none" <=> conns[x].host = "none"
    BY <1>3, <1>t, <1>l, <1>b DEF Handle
  <2>3. QED
    BY <1>3, <1>g, <1>t, <2>1, <2>2 DEF Handle
<1>4. ASSUME Answer PROVE Goal
  <2>1. Client \in Conns
    BY <1>4, <1>l DEF Answer, LineThere, Alive
  <2>2. /\ conns' \in [Conns -> Conn]
        /\ \A x \in Conns : conns'[x].host = "none" <=> conns[x].host = "none"
    BY <1>4, <1>t, <2>1, SetsLine DEF Answer
  <2>3. QED
    BY <1>4, <1>g, <1>t, <2>2 DEF Answer
<1>5. ASSUME NoLine \/ HandleAgain PROVE Goal
  <2>1. board' \in Board
    BY <1>5, <1>s, <1>n DEF NoLine, HandleAgain
  <2>2. QED
    BY <1>5, <1>g, <1>t, <2>1 DEF NoLine, HandleAgain
<1>6. ASSUME TimesOut PROVE Goal
  <2>1. board' \in Board
    BY <1>6, <1>t DEF TimesOut, Board
  <2>2. Client \in Conns
    BY <1>6, <1>l DEF TimesOut, Alive
  <2>3. QED
    BY <1>6, <1>g, <1>t, <1>b, <2>1, <2>2 DEF TimesOut
<1>7. ASSUME Accept PROVE Goal
  <2>1. CASE Backlog = {} /\ Stage(board.then) /\ UNCHANGED conns
    <3>1. board' \in Board
      BY <2>1, <1>s, <1>n
    <3>2. QED
      BY <1>7, <2>1, <3>1, <1>g, <1>t DEF Accept
  <2>2. ASSUME Backlog # {} PROVE Goal
    <3> DEFINE c == CHOOSE x \in Backlog : \A y \in Backlog : x <= y
    <3>1. IF Alive(Client)
          THEN BoardCloses(c) /\ Stage(board.then)
          ELSE /\ board' = [board EXCEPT !.stage = "accepted", !.client = c]
               /\ Set(c, "board", "live")
      BY <1>7, <2>2 DEF Accept, Set
    <3>2. c \in Conns
      BY <2>2, Earliest
    <3> HIDE DEF c
    <3>3. board' \in Board
      BY <3>1, <3>2, <1>t, <1>s, <1>n DEF Board
    <3>4. /\ conns' \in [Conns -> Conn]
          /\ \A x \in Conns : conns'[x].host = "none" <=> conns[x].host = "none"
      BY <3>1, <3>2, <1>t, <1>b, SetsBoard
    <3>5. QED
      BY <1>7, <1>g, <1>t, <3>3, <3>4 DEF Accept
  <2>3. QED
    BY <1>7, <2>1, <2>2 DEF Accept
<1>8. ASSUME SketchReads PROVE Goal
  <2>1. Client \in Conns /\ conns[Client].up \in Seq(SentByte)
    BY <1>8, <1>l, <1>t DEF SketchReads, Ready, Conn
  <2>2. PICK n \in 1..Len(conns[Client].up) :
          /\ Set(Client, "up", SubSeq(conns[Client].up, n + 1, Len(conns[Client].up)))
          /\ board' = [board EXCEPT !.held = SubSeq(conns[Client].up, 1, n),
                                    !.stage = "handle", !.then = "write"]
    BY <1>8 DEF SketchReads
  <2>3. /\ SubSeq(conns[Client].up, 1, n) \in Seq(SentByte)
        /\ SubSeq(conns[Client].up, n + 1, Len(conns[Client].up)) \in Seq(SentByte)
    BY <2>1, Cut
  <2>4. board' \in Board
    BY <2>2, <2>3, <1>t DEF Board
  <2>5. /\ conns' \in [Conns -> Conn]
        /\ \A x \in Conns : conns'[x].host = "none" <=> conns[x].host = "none"
    BY <1>t, <2>1, <2>2, <2>3, SetsUp
  <2>6. QED
    BY <1>8, <1>g, <1>t, <2>4, <2>5 DEF SketchReads
<1>9. ASSUME SketchWrites PROVE Goal
  <2>1. board' \in Board
    <3>1. <<>> \in Seq(SentByte)
      OBVIOUS
    <3>2. PICK e \in Seq(SentByte) : e = <<>>
      BY <3>1, Zenon
    <3>3. board' = [board EXCEPT !.held = e, !.stage = "handle", !.then = "read"]
      BY <1>9, <3>2 DEF SketchWrites
    <3>4. QED
      BY <3>3, <1>t DEF Board
  <2>2. /\ conns' \in [Conns -> Conn]
        /\ \A x \in Conns : conns'[x].host = "none" <=> conns[x].host = "none"
    <3>1. CASE UNCHANGED conns
      BY <3>1, <1>t
    <3>2. ASSUME NEW n \in 0..Len(board.held), Ready,
                 Set(Client, "down", Reaches(Client, SubSeq(board.held, 1, n)))
          PROVE  /\ conns' \in [Conns -> Conn]
                 /\ \A x \in Conns : conns'[x].host = "none" <=> conns[x].host = "none"
      <4>1. /\ Client \in Conns /\ conns[Client].down \in Seq(SentByte) /\ board.held \in Seq(SentByte)
            /\ <<>> \in Seq(SentByte)
        BY <3>2, <1>l, <1>t DEF Ready, Conn, Board
      <4>2. SubSeq(board.held, 1, n) \in Seq(SentByte)
        BY <4>1, Cut
      <4>3. conns[Client].down \o SubSeq(board.held, 1, n) \in Seq(SentByte)
        BY <4>1, <4>2
      <4>4. Reaches(Client, SubSeq(board.held, 1, n)) \in Seq(SentByte)
        BY <4>1, <4>3 DEF Reaches
      <4>5. QED
        BY <3>2, <4>1, <4>4, <1>t, SetsDown
    <3>3. QED
      BY <1>9, <3>1, <3>2 DEF SketchWrites
  <2>3. QED
    BY <1>9, <1>g, <1>t, <2>1, <2>2 DEF SketchWrites
<1>10. ASSUME NEW c \in Conns, HostLoses(c) \/ BoardLoses(c) PROVE Goal
  <2>1. /\ conns' \in [Conns -> Conn]
        /\ \A x \in Conns : conns'[x].host = "none" <=> conns[x].host = "none"
    BY <1>10, <1>t, SetsHost, SetsBoard DEF HostLoses, BoardLoses
  <2>2. QED
    BY <1>10, <1>g, <1>t, <2>1 DEF HostLoses, BoardLoses
<1>11. QED
  BY <1>1, <1>2, <1>3, <1>4, <1>5, <1>6, <1>7, <1>8, <1>9, <1>10 DEF WriterStep, BoardStep, Goal

---------------------------------------------------------------------------
(* The bytes of an attempt, step by step *)

\* The host's steps leave only bytes of the attempt.
LEMMA HostClean ==
  ASSUME Base, WriterAlone, Clean, HostStep \/ RecoveryDeadline
  PROVE  Clean'
<1>t. /\ host \in Host /\ writer \in Writer /\ board \in Board /\ conns \in [Conns -> Conn]
      /\ received \in Seq(SentByte) /\ DialledInOrder /\ OnConn /\ TypeOK
      /\ host.result # "mismatch"
  BY DEF Base, TypeOK, Clean
<1>l. host.pc \in {"negotiate", "transfer", "join"} =>
        Last \in Conns /\ conns[Last].host # "none" /\ conns[Last] \in Conn
  BY <1>t DEF OnConn, Last, DialledInOrder, InUse
<1>s. ASSUME \A c \in Conns : conns'[c].host = "none" <=> conns[c].host = "none"
      PROVE  Last' = Last
  BY <1>s, <1>t, SameDialled DEF Last
<1>i. ASSUME host'.result # "mismatch", host'.pc \in {"cycle", "dial", "returned"}, host'.pc # "returned" => Quiet'
      PROVE  Clean'
  BY <1>i DEF Clean
<1>u. ASSUME host'.result # "mismatch", host'.pc \in {"cycle", "dial", "returned"}, board' = board, Quiet,
             \A c \in Conns : conns'[c].up = conns[c].up
      PROVE  Clean'
  BY <1>i, <1>u DEF Quiet, Held
<1>c. ASSUME host.pc \in {"negotiate", "transfer", "join"}, CloseConn(Last)
      PROVE  \A c \in Conns : conns'[c].up = conns[c].up
  BY <1>c, <1>t, <1>l, HostCloses
<1>1. CASE FillPayload \/ DialFails \/ GiveUp
  <2>1. host'.result # "mismatch" /\ host'.pc \in {"dial", "returned"}
    BY <1>1, <1>t DEF FillPayload, DialFails, GiveUp, AfterFailedDial, Return, Host
  <2>2. Quiet
    BY <1>1 DEF FillPayload, DialFails, GiveUp, At, Clean
  <2>3. QED
    BY <1>1, <1>u, <2>1, <2>2 DEF FillPayload, DialFails, GiveUp
<1>2. CASE Dial
  <2>1. host'.result # "mismatch" /\ host'.pc = "negotiate" /\ board' = board /\ Quiet
    BY <1>2, <1>t DEF Dial, Goto, Host, At, Clean
  <2>2. /\ Last' = Dialled + 1 /\ conns'[Dialled + 1].up = <<>> /\ conns'[Dialled + 1].down = <<>>
        /\ \A c \in Conns : c # Dialled + 1 => conns'[c] = conns[c]
    BY <1>2, <1>t, Dials DEF Last
  <2>3. Quiet'
    BY <2>1, <2>2 DEF Quiet, Held
  <2>4. Down' = <<>>
    BY <2>2 DEF Down
  <2>5. QED
    BY <2>1, <2>3, <2>4 DEF Clean
<1>3. CASE HostAuth
  <2>1. host.pc = "negotiate" /\ host' = host /\ board' = board /\ Quiet /\ Down = <<>>
    BY <1>3 DEF HostAuth, At, Clean
  <2>2. \A c \in Conns : /\ conns'[c].host = conns[c].host /\ conns'[c].up = conns[c].up
                         /\ conns'[c].down = conns[c].down
    BY <1>3, <2>1, <1>l, <1>t, SetsLine DEF HostAuth
  <2>3. Quiet' /\ Down' = <<>>
    BY <1>l, <1>s, <2>1, <2>2 DEF Quiet, Held, Down
  <2>4. QED
    BY <1>t, <2>1, <2>3 DEF Clean
<1>4. CASE RecoveryDeadline
  <2>1. host'.result = host.result /\ host'.pc = host.pc /\ host'.pc \in {"dial", "negotiate"} /\ UNCHANGED <<conns, board>>
    BY <1>4, <1>t DEF RecoveryDeadline, Host
  <2>2. Quiet' /\ (host.pc = "negotiate" => Down' = <<>>)
    BY <2>1 DEF Clean, Quiet, Held, Down, Last, Dialled
  <2>3. QED
    BY <1>t, <2>1, <2>2 DEF Clean
<1>5. CASE NegotiationFails
  <2>1. host'.result # "mismatch" /\ host'.pc \in {"dial", "returned"}
    BY <1>5, <1>t, ZenonT(60) DEF NegotiationFails, AfterFailedDial, Return, Host
  <2>2. Quiet /\ board' = board /\ \A c \in Conns : conns'[c].up = conns[c].up
    BY <1>5, <1>c DEF NegotiationFails, At, Clean
  <2>3. QED
    BY <1>u, <2>1, <2>2
<1>6. CASE StartTransfer
  <2>1. /\ host'.result # "mismatch" /\ host'.pc = "transfer" /\ ~host'.expired /\ ~host'.failed
        /\ UNCHANGED <<conns, board, payload>> /\ received' = <<>>
        /\ writer'.sent = 0 /\ ~writer'.err
        /\ conns[Last].host = "open" /\ host.pc = "negotiate" /\ Last \in Conns
    BY <1>6, <1>t, <1>l DEF StartTransfer, Host, At
  <2>2. Quiet /\ Down = <<>> /\ Up = <<>> /\ Last' = Last
    BY <2>1 DEF Clean, Quiet, Up, Last, Dialled
  <2>3. Parts(<<>>, <<>>, <<>>, <<>>, payload, 0)
    BY EmptyOrder DEF Parts
  <2>4. Echo'
    BY <2>1, <2>2, <2>3 DEF Echo, Down, Up, Held, Quiet
  <2>5. QED
    BY <2>1, <2>2, <2>4 DEF Clean, Quiet
<1>7. CASE Read
  <2>1. PICK n \in 1..Len(conns[Last].down) :
          /\ Len(received) + n <= Bytes
          /\ received' = received \o SubSeq(conns[Last].down, 1, n)
          /\ Set(Last, "down", SubSeq(conns[Last].down, n + 1, Len(conns[Last].down)))
          /\ IF Len(received) + n = Bytes THEN Goto("join") ELSE UNCHANGED host
    BY <1>7 DEF Read
  <2>2. /\ host.pc = "transfer" /\ Last \in Conns /\ Down \in Seq(SentByte) /\ n \in 1..Len(Down) /\ n \in 0..Len(Down)
        /\ conns[Last].host = "open" /\ ~host.expired /\ ~host.failed /\ ~writer.err
        /\ \A c \in Conns : c # Last => conns[c].up = <<>>
        /\ Echo /\ UNCHANGED <<payload, writer, board>>
    BY <1>7, <1>t, <1>l, <2>1 DEF Read, At, Conn, Down, Clean
  <2>3. /\ SubSeq(Down, 1, n) \in Seq(SentByte) /\ SubSeq(Down, n + 1, Len(Down)) \in Seq(SentByte)
        /\ Len(SubSeq(Down, 1, n)) = n
    BY <2>2, Cut
  <2>4. /\ conns'[Last].down = SubSeq(Down, n + 1, Len(Down))
        /\ \A c \in Conns : conns'[c].host = conns[c].host /\ conns'[c].up = conns[c].up
    BY <2>1, <2>2, <2>3, <1>t, SetsDown DEF Down
  <2>5. Last' = Last
    BY <1>s, <2>4
  <2>6. Parts(received \o SubSeq(Down, 1, n), SubSeq(Down, n + 1, Len(Down)), Held, Up, payload, writer.sent)
    BY <1>t, <2>2, PartsReceived DEF Echo
  <2>7. Echo'
    BY <2>1, <2>2, <2>4, <2>5, <2>6 DEF Echo, Down, Up, Held
  <2>8. /\ host'.pc \in {"transfer", "join"} /\ ~host'.expired /\ ~host'.failed /\ host'.result # "mismatch"
        /\ host'.pc = "join" => Len(received) + n = Bytes
    BY <2>1, <2>2, <1>t DEF Goto, Host
  <2>9. Len(received') = Len(received) + n
    BY <2>1, <2>3, <1>t DEF Down
  <2>10. QED
    BY <2>2, <2>4, <2>5, <2>7, <2>8, <2>9 DEF Clean
<1>8. CASE ReadFails \/ Interrupted
  BY <1>8 DEF ReadFails, Interrupted, At, Clean
<1>9. CASE Compare
  <2>1. host.pc = "join" /\ Len(received) = Bytes /\ Echo
    BY <1>9 DEF Compare, At, Clean
  <2>2. \A i \in 1..Bytes : received[i].cycle = payload /\ received[i].i \in 1..Bytes /\ received[i].i >= i /\ received[i].i <= i
    <3>1. Increasing(received) /\ SentOf(received, payload, writer.sent)
      BY <2>1 DEF Echo, Parts
    <3>2. ASSUME NEW i \in 1..Bytes
          PROVE  received[i].cycle = payload /\ received[i].i \in 1..Bytes /\ received[i].i >= i /\ received[i].i <= Bytes - (Bytes - i)
      BY <1>t, <2>1, <3>1, ByteAt, AtLeast, AtMost DEF SentOf
    <3>3. QED
      BY <3>2, StressAssumption
  <2>3. \A i \in 1..Bytes : received[i].i = i
    BY <2>2, StressAssumption
  <2>4. Matches
    BY <2>2, <2>3 DEF Matches
  <2>5. host'.result # "mismatch" /\ host'.pc \in {"cycle", "returned"}
    BY <1>9, <2>4, <1>t DEF Compare, Return, Host
  <2>6. ASSUME NEW s \in Seq(SentByte), Before(received, s) PROVE s = <<>>
    <3>1. SUFFICES ASSUME s # <<>> PROVE FALSE
      OBVIOUS
    <3>2. 1 \in 1..Len(s) /\ Bytes \in 1..Len(received)
      BY <3>1, <2>1, StressAssumption
    <3>3. received[Bytes].i = Bytes /\ s[1].i \in 1..Bytes
      BY <2>3, <3>2, ByteAt, StressAssumption
    <3>4. received[Bytes].i < s[1].i
      BY <2>6, <3>2 DEF Before
    <3>5. QED
      BY <3>3, <3>4, StressAssumption
  <2>7. Held = <<>> /\ Up = <<>>
    <3>1. Held \in Seq(SentByte) /\ Up \in Seq(SentByte)
      BY <1>t, <1>l, <2>1 DEF Held, Up, Board, Conn
    <3>2. QED
      BY <3>1, <2>1, <2>6 DEF Echo, Parts
  <2>8. Quiet
    BY <2>1, <2>7 DEF Clean, Quiet, Up
  <2>9. QED
    BY <1>9, <1>c, <1>u, <2>1, <2>5, <2>8 DEF Compare
<1>10. QED
  BY <1>1, <1>2, <1>3, <1>4, <1>5, <1>6, <1>7, <1>8, <1>9 DEF HostStep

\* So do those of the writer, the sketch and a board that loses a connection.
LEMMA OtherClean ==
  ASSUME Base, WriterAlone, Clean, WriterStep \/ BoardStep \/ \E c \in Conns : BoardLoses(c)
  PROVE  Clean'
<1>t. /\ host \in Host /\ writer \in Writer /\ board \in Board /\ conns \in [Conns -> Conn]
      /\ payload \in 0..Cycles /\ received \in Seq(SentByte) /\ DialledInOrder /\ OnConn
  BY DEF Base, TypeOK
<1>a. Last' = Last
  BY OtherBase DEF Last
<1>l. host.pc \in {"negotiate", "transfer", "join"} =>
        Last \in Conns /\ Up \in Seq(SentByte) /\ Down \in Seq(SentByte)
  BY <1>t DEF OnConn, Conn, Up, Down
<1>h. Held \in Seq(SentByte)
  BY <1>t DEF Board, Held
<1>e. Client # None => Client \in Conns
  BY <1>t DEF Client, Board
<1> DEFINE Goal == Clean'
<1>g. ASSUME UNCHANGED <<host, payload, received>>,
             host.pc \in {"cycle", "dial", "negotiate"} => Quiet',
             host.pc = "negotiate" => Down' = <<>>,
             host.pc \in {"transfer", "join"} =>
               /\ conns'[Last].host = "open" /\ ~writer'.err
               /\ \A c \in Conns : c # Last => conns'[c].up = <<>>
               /\ Echo'
      PROVE  Goal
  BY <1>a, <1>g DEF Clean
<1>q. ASSUME UNCHANGED <<host, payload, received, writer>>, board'.held = board.held,
             \A c \in Conns : /\ conns'[c].up = conns[c].up \/ conns'[c].up = <<>>
                              /\ conns'[c].down = conns[c].down /\ conns'[c].host = conns[c].host
      PROVE  Goal
  <2>1. Quiet => Quiet'
    BY <1>q DEF Quiet, Held
  <2>2. ASSUME host.pc \in {"negotiate", "transfer", "join"}
        PROVE  Held' = Held /\ Down' = Down /\ Up' \in {Up, <<>>} /\ conns'[Last].host = conns[Last].host
    BY <1>a, <1>l, <1>q, <2>2 DEF Held, Down, Up
  <2>3. ASSUME host.pc \in {"transfer", "join"} PROVE Echo'
    <3>1. Parts(received, Down, Held, Up, payload, writer.sent)
      BY <2>3 DEF Clean, Echo
    <3>2. Parts(received, Down, Held, Up', payload, writer.sent)
      BY <2>2, <2>3, <3>1, PartsLost
    <3>3. QED
      BY <1>q, <2>2, <2>3, <3>2 DEF Echo
  <2>4. QED
    BY <1>g, <1>q, <2>1, <2>2, <2>3 DEF Clean
<1> HIDE DEF Goal
<1>b. ASSUME NEW c \in Conns, BoardCloses(c) \/ Set(c, "board", "live") \/ Set(c, "board", "dead"),
             UNCHANGED <<host, payload, received, writer>>, board'.held = board.held
      PROVE  Goal
  BY <1>b, <1>q, <1>t, SketchCloses, SetsBoard
<1>k. ASSUME NEW s, Stage(s) PROVE board'.held = board.held
  BY <1>k, <1>t DEF Stage, Board
<1> USE DEF BoardUnchanged
<1>1. ASSUME WriterSends PROVE Goal
  <2>1. /\ writer.st = "running" /\ writer.sent < Bytes /\ writer.sent \in 0..Bytes
        /\ host.pc \in {"transfer", "join"} /\ UNCHANGED <<host, payload, received, board>>
    BY <1>1, <1>t DEF WriterSends, Writer, WriterAlone
  <2>2. Last \in Conns /\ writer.sent + 1 \in 1..Bytes /\ writer.sent \in Nat
    BY <2>1, <1>l, StressAssumption
  <2>3. PICK b : b = Byte(payload, writer.sent + 1, Last)
    OBVIOUS
  <2>4. b \in SentByte /\ b.cycle = payload /\ b.i = writer.sent + 1
    BY <2>2, <2>3, <1>t DEF Byte, SentByte
  <2>5. Append(Up, b) \in Seq(SentByte)
    BY <2>1, <2>4, <1>l
  <2>6. /\ conns'[Last].up = Append(Up, b)
        /\ \A x \in Conns : x # Last => conns'[x].up = conns[x].up
        /\ conns'[Last].host = conns[Last].host /\ conns'[Last].down = conns[Last].down
    BY <1>1, <1>t, <2>2, <2>3, <2>5, SetsUp DEF WriterSends, Up
  <2>7. writer'.sent = writer.sent + 1 /\ writer'.err = writer.err
    BY <1>1, <1>t DEF WriterSends, Writer
  <2>8. Parts(received, Down, Held, Append(Up, b), payload, writer.sent + 1)
    BY <1>t, <1>l, <1>h, <2>1, <2>2, <2>4, PartsSent DEF Clean, Echo
  <2>9. Echo'
    BY <1>a, <2>1, <2>6, <2>7, <2>8 DEF Echo, Up, Down, Held
  <2>10. QED
    BY <1>g, <2>1, <2>6, <2>7, <2>9 DEF Clean
<1>2. ASSUME WriterFails PROVE Goal
  BY <1>2 DEF WriterFails, WriterAlone, Clean
<1>3. ASSUME Handle \/ TimesOut PROVE Goal
  <2>1. board'.held = board.held
    BY <1>3, <1>t, <1>k DEF Handle, TimesOut, Board
  <2>2. UNCHANGED conns \/ (Client \in Conns /\ BoardCloses(Client))
    BY <1>3, <1>e DEF Handle, TimesOut, Alive
  <2>3. UNCHANGED <<host, payload, received, writer>>
    BY <1>3 DEF Handle, TimesOut
  <2>4. QED
    BY <1>b, <1>q, <2>1, <2>2, <2>3
<1>4. ASSUME Answer PROVE Goal
  <2>1. Client \in Conns
    BY <1>4, <1>e DEF Answer, LineThere, Alive
  <2>2. \A c \in Conns : /\ conns'[c].up = conns[c].up /\ conns'[c].down = conns[c].down
                         /\ conns'[c].host = conns[c].host
    BY <1>4, <2>1, <1>t, SetsLine DEF Answer
  <2>3. QED
    BY <1>4, <1>q, <2>2 DEF Answer
<1>5. ASSUME NoLine \/ HandleAgain PROVE Goal
  BY <1>5, <1>k, <1>q DEF NoLine, HandleAgain
<1>6. ASSUME Accept PROVE Goal
  <2>1. PICK c : c = CHOOSE x \in Backlog : \A y \in Backlog : x <= y
    OBVIOUS
  <2>2. \/ Stage(board.then) /\ UNCHANGED conns
        \/ BoardCloses(c) /\ Stage(board.then)
        \/ /\ board' = [board EXCEPT !.stage = "accepted", !.client = c]
           /\ Set(c, "board", "live")
    BY <1>6, <2>1 DEF Accept, Set
  <2>3. board'.held = board.held
    BY <2>2, <1>k, <1>t DEF Board
  <2>4. Backlog # {} => c \in Conns
    BY <2>1, Earliest
  <2>5. CASE UNCHANGED conns
    BY <1>6, <1>q, <2>3, <2>5 DEF Accept
  <2>6. CASE Backlog # {}
    <3>1. UNCHANGED <<host, payload, received, writer>>
      BY <1>6 DEF Accept
    <3>2. QED
      BY <3>1, <1>b, <2>2, <2>3, <2>4, <2>5, <2>6
  <2>7. QED
    BY <1>6, <2>5, <2>6 DEF Accept
<1>7. ASSUME SketchReads PROVE Goal
  <2>1. Client \in Conns /\ conns[Client].up \in Seq(SentByte)
    BY <1>7, <1>e, <1>t DEF SketchReads, Ready, Conn
  <2>2. PICK n \in 1..Len(conns[Client].up) :
          /\ Set(Client, "up", SubSeq(conns[Client].up, n + 1, Len(conns[Client].up)))
          /\ board' = [board EXCEPT !.held = SubSeq(conns[Client].up, 1, n),
                                    !.stage = "handle", !.then = "write"]
    BY <1>7 DEF SketchReads
  <2>3. conns[Client].up # <<>> /\ UNCHANGED <<host, payload, received, writer>>
    BY <1>7, <2>2 DEF SketchReads
  <2>4. host.pc \notin {"cycle", "dial", "negotiate"}
    BY <2>1, <2>3 DEF Clean, Quiet
  <2>5. ASSUME host.pc \in {"transfer", "join"}
        PROVE  /\ conns'[Last].host = "open" /\ ~writer'.err
               /\ \A c \in Conns : c # Last => conns'[c].up = <<>>
               /\ Echo'
    <3>1. Client = Last /\ Last \in Conns /\ Up \in Seq(SentByte) /\ n \in 0..Len(Up)
      BY <1>l, <2>1, <2>2, <2>3, <2>5 DEF Clean, Up
    <3>2. SubSeq(Up, n + 1, Len(Up)) \in Seq(SentByte)
      BY <3>1, Cut
    <3>3. /\ conns'[Last].up = SubSeq(Up, n + 1, Len(Up))
          /\ \A x \in Conns : x # Last => conns'[x].up = conns[x].up
          /\ conns'[Last].host = conns[Last].host /\ conns'[Last].down = conns[Last].down
      BY <2>2, <3>1, <3>2, <1>t, SetsUp DEF Up
    <3>4. board'.held = SubSeq(Up, 1, n)
      BY <2>2, <3>1, <1>t DEF Board, Up
    <3>5. Parts(received, Down, SubSeq(Up, 1, n), SubSeq(Up, n + 1, Len(Up)), payload, writer.sent)
      BY <2>5, <3>1, PartsRead DEF Clean, Echo
    <3>6. Echo'
      BY <1>a, <2>3, <3>3, <3>4, <3>5 DEF Echo, Up, Down, Held
    <3>7. QED
      BY <2>3, <2>5, <3>3, <3>6 DEF Clean
  <2>6. QED
    BY <1>g, <2>3, <2>4, <2>5
<1>8. ASSUME SketchWrites PROVE Goal
  <2>1. UNCHANGED <<host, payload, received, writer>> /\ Held' = <<>>
    BY <1>8, <1>t DEF SketchWrites, Board, Held
  <2>2. PICK n \in 0..Len(Held) : \/ Client \in Conns /\ Set(Client, "down", Reaches(Client, SubSeq(Held, 1, n)))
                                  \/ UNCHANGED conns
    BY <1>8, <1>e DEF SketchWrites, Ready, Held
  <2>3. PICK v : v = Reaches(Client, SubSeq(Held, 1, n))
    OBVIOUS
  <2>4. ASSUME Client \in Conns PROVE v \in Seq(SentByte)
    <3>1. conns[Client].down \in Seq(SentByte) /\ SubSeq(Held, 1, n) \in Seq(SentByte) /\ <<>> \in Seq(SentByte)
      BY <1>t, <1>h, <2>4, Cut DEF Conn
    <3>2. conns[Client].down \o SubSeq(Held, 1, n) \in Seq(SentByte)
      BY <3>1
    <3>3. QED
      BY <2>3, <3>1, <3>2 DEF Reaches
  <2>5. \A c \in Conns : /\ conns'[c].up = conns[c].up /\ conns'[c].host = conns[c].host
                         /\ conns'[c].down = conns[c].down \/ (c = Client /\ conns'[c].down = v)
    <3>1. CASE UNCHANGED conns
      BY <3>1
    <3>2. CASE Client \in Conns /\ Set(Client, "down", v)
      BY <2>4, <3>2, <1>t, SetsDown
    <3>3. QED
      BY <2>2, <2>3, <3>1, <3>2
  <2>6. Quiet => Quiet'
    BY <2>1, <2>5 DEF Quiet
  <2>7. ASSUME host.pc = "negotiate" PROVE Down' = <<>>
    <3>1. Last \in Conns /\ Down = <<>> /\ Held = <<>>
      BY <1>l, <2>7 DEF Clean, Quiet
    <3>2. Client = Last => v = <<>>
      <4>1. n = 0 /\ SubSeq(Held, 1, n) = <<>>
        BY <3>1
      <4>2. QED
        BY <2>3, <3>1, <4>1 DEF Reaches, Down
    <3>3. QED
      BY <1>a, <2>5, <3>1, <3>2 DEF Down
  <2>8. ASSUME host.pc \in {"transfer", "join"} PROVE Echo'
    <3>1. Last \in Conns /\ conns[Last].host = "open" /\ Parts(received, Down, Held, Up, payload, writer.sent)
      BY <1>l, <2>8 DEF Clean, Echo
    <3>2. Client = Last => v = Down \o SubSeq(Held, 1, n)
      BY <2>3, <3>1 DEF Reaches, Down
    <3>3. Parts(received, Down \o SubSeq(Held, 1, n), <<>>, Up, payload, writer.sent)
      BY <1>l, <1>h, <2>8, <3>1, PartsWritten
    <3>4. Parts(received, Down, <<>>, Up, payload, writer.sent)
      BY <3>1, PartsLost
    <3>5. Down' \in {Down, Down \o SubSeq(Held, 1, n)} /\ Up' = Up
      BY <1>a, <2>5, <3>1, <3>2 DEF Down, Up
    <3>6. Parts(received, Down', <<>>, Up', payload, writer.sent)
      BY <3>3, <3>4, <3>5
    <3>7. QED
      BY <2>1, <3>6 DEF Echo
  <2>9. QED
    BY <1>g, <1>l, <2>1, <2>5, <2>6, <2>7, <2>8 DEF Clean
<1>9. ASSUME NEW c \in Conns, BoardLoses(c) PROVE Goal
  BY <1>9, <1>b DEF BoardLoses
<1>10. QED
  BY <1>1, <1>2, <1>3, <1>4, <1>5, <1>6, <1>7, <1>8, <1>9 DEF WriterStep, BoardStep, Goal

---------------------------------------------------------------------------
(* The theorems *)

\* A second writer never starts: the main goroutine joins the first.
LEMMA AloneKept == TypeOK /\ WriterAlone /\ [Next]_vars => WriterAlone'
<1> SUFFICES ASSUME TypeOK, WriterAlone, [Next]_vars PROVE WriterAlone'
  OBVIOUS
<1>t. host \in Host /\ writer \in Writer
  BY DEF TypeOK
<1>1. CASE FillPayload \/ Dial \/ HostAuth \/ DialFails \/ NegotiationFails \/ GiveUp \/ RecoveryDeadline
  BY <1>1, <1>t DEF FillPayload, Dial, HostAuth, DialFails, NegotiationFails, GiveUp, RecoveryDeadline, At, WriterAlone
<1>2. CASE StartTransfer \/ Read \/ ReadFails \/ Expire
  BY <1>2, <1>t DEF StartTransfer, Read, ReadFails, Expire, Goto, WriterAlone, Host
<1>3. CASE Interrupted \/ Compare
  BY <1>3 DEF Interrupted, Compare, WriterJoined, WriterAlone
<1>4. CASE WriterStep
  BY <1>4, <1>t DEF WriterStep, WriterSends, WriterFails, WriterAlone, Writer
<1>5. CASE BoardStep \/ (\E c \in Conns : HostLoses(c) \/ BoardLoses(c)) \/ UNCHANGED vars
  BY <1>5 DEF BoardStep, Handle, Answer, NoLine, TimesOut, Accept, HandleAgain, SketchReads, SketchWrites,
              HostLoses, BoardLoses, BoardUnchanged, WriterAlone, vars
<1>6. QED
  BY <1>1, <1>2, <1>3, <1>4, <1>5 DEF Next, HostStep

\* It all holds at the start.
LEMMA InitInv == Init => Inv
<1> SUFFICES ASSUME Init PROVE Inv
  OBVIOUS
<1>0. PICK e \in Seq(SentByte) : e = <<>>
  <2>1. <<>> \in Seq(SentByte)
    OBVIOUS
  <2>2. QED
    BY <2>1, Zenon
<1>1. \A c \in Conns : conns[c] = NoConn /\ conns[c] \in Conn /\ conns[c].host = "none" /\ conns[c].up = e
  BY <1>0 DEF Init, NoConn, Conn
<1>2. conns \in [Conns -> Conn]
  BY <1>1 DEF Init
<1>3. board \in Board /\ board.held = e
  BY <1>0 DEF Init, Board
<1>4. host \in Host /\ writer \in Writer /\ host.pc = "cycle" /\ host.result = "none" /\ writer.st = "none"
  BY StressAssumption DEF Init, Host, Writer
<1>5. received \in Seq(SentByte) /\ Len(received) <= Bytes
  BY StressAssumption DEF Init
<1>6. TypeOK
  <2>1. payload \in 0..Cycles /\ broken \in BOOLEAN
    <3>1. 0 \in 0..Cycles
      BY StressAssumption
    <3>2. QED
      BY <3>1, Zenon DEF Init
  <2>2. options \in [recover : BOOLEAN, secure : BOOLEAN]
    BY DEF Init
  <2>3. QED
    BY <1>2, <1>3, <1>4, <1>5, <2>1, <2>2 DEF TypeOK
<1>7. DialledInOrder
  <2>1. InUse = {}
    BY <1>1 DEF InUse
  <2>2. Dialled = 0
    BY <2>1, FS_EmptySet DEF InUse, Dialled
  <2>3. QED
    BY <2>1, <2>2, StressAssumption DEF DialledInOrder, Conns
<1>8. Clean
  BY <1>0, <1>1, <1>3, <1>4 DEF Clean, Quiet, Held
<1>9. QED
  BY <1>4, <1>6, <1>7, <1>8 DEF Inv, Base, OnConn, WriterAlone

LEMMA NextInv == Inv /\ [Next]_vars => Inv'
<1> SUFFICES ASSUME Inv, [Next]_vars PROVE Inv'
  OBVIOUS
<1>t. Base /\ TypeOK /\ WriterAlone
  BY DEF Inv, Base
<1>1. WriterAlone'
  BY <1>t, AloneKept
<1>2. CASE UNCHANGED vars
  BY <1>2 DEF vars, Inv, Base, TypeOK, DialledInOrder, OnConn, Last, Dialled, InUse, WriterAlone, Clean, Quiet, Echo,
              Up, Down, Held
<1>3. ASSUME Next PROVE Base'
  BY <1>3, <1>t, HostBase, OtherBase DEF Next
<1>4. ASSUME Next, ~broken' PROVE Clean'
  <2>1. ~broken
    BY <1>4 DEF Next, HostStep, WriterStep, BoardStep, FillPayload, Dial, HostAuth, DialFails, NegotiationFails,
                GiveUp, StartTransfer, Read, ReadFails, Interrupted, Compare, WriterSends, WriterFails,
                Handle, Answer, NoLine, TimesOut, Accept, HandleAgain, SketchReads, SketchWrites, BoardUnchanged,
                RecoveryDeadline, Expire, HostLoses, BoardLoses
  <2>2. ~Expire /\ \A c \in Conns : ~HostLoses(c)
    BY <1>4 DEF Expire, HostLoses
  <2>3. QED
    BY <1>4, <1>t, <2>1, <2>2, HostClean, OtherClean DEF Inv, Next
<1>5. QED
  BY <1>1, <1>2, <1>3, <1>4 DEF Inv

LEMMA Invariant == Spec => []Inv
BY InitInv, NextInv, PTL DEF Spec

\* The type invariant of the stress test.
THEOREM TypeCorrect == Spec => []TypeOK
<1>1. Inv => TypeOK
  BY DEF Inv, Base
<1>2. QED
  BY <1>1, Invariant, PTL

\* The goroutine that writes runs only while its cycle's transfer does: nothing
\* fills the payload buffer under its hands, and it is never started twice.
THEOREM BufferHasOneUser == Spec => []WriterAlone
<1>1. Inv => WriterAlone
  BY DEF Inv
<1>2. QED
  BY <1>1, Invariant, PTL

\* Over connections that neither break nor time out the test never reports a
\* mismatch, whatever the board's reads and writes split or drop.
THEOREM NoFalseMismatch == Spec => []MismatchExplained
<1>1. Inv => MismatchExplained
  BY DEF Inv, Clean, MismatchExplained
<1>2. QED
  BY <1>1, Invariant, PTL

=============================================================================
