------------------------------ MODULE StreamMux ------------------------------
(***************************************************************************)
(* The object a sketch uses in place of Serial: ESPNetworkSerial, the       *)
(* facade, which owns the network stream, and ESPNetworkSerialMux, which    *)
(* fans writes out to a table of streams and takes reads from them in turn. *)
(*                                                                         *)
(* A step is one call; the sketch is a single thread.  A stream is how many *)
(* bytes it has to read.  The network stream is DeviceTransport's: it may   *)
(* lose its session, and what it had to read, at any time.                 *)
(***************************************************************************)
EXTENDS Integers, Sequences, FiniteSets, FiniteSetsExt, SequencesExt

CONSTANTS
  Net,            \* the network stream, _network
  Serial,         \* Arduino's default Serial
  Others,         \* other streams of the sketch
  MaxStreams,     \* ESPNETWORKSERIAL_MAX_STREAMS
  MaxIn,          \* bound: bytes a stream has to read
  MaxPos,         \* bound: bytes the sketch writes
  SketchKeys,     \* ESPNS_AUTH_KEY of the sketch: "none", "valid", "invalid"
  Defaults        \* ESPNS_DEFAULT_AUTH_KEY: "none", "present", or "disabled" by
                  \* the sketch

Streams == {Net, Serial} \cup Others
Companions == Streams \ {Net}

ASSUME MuxAssumption ==
  /\ Net # Serial /\ Net \notin Others /\ Serial \notin Others
  /\ MaxStreams \in Nat \ {0} /\ MaxIn \in Nat /\ MaxPos \in Nat
  /\ SketchKeys \subseteq {"none", "valid", "invalid"}
  /\ Defaults \subseteq {"none", "present", "disabled"}

VARIABLES
  table,     \* _streams, its first _streamCount entries
  index,     \* _nextReadIndex
  attached,  \* _globalSerialAttached
  input,     \* bytes each stream has to read
  last,      \* history: the stream of the last byte the sketch read
  pos,       \* history: how much of its output the sketch believes written
  high,      \* history: the last byte of it each stream has taken
  build,     \* CompileTimeAuthState, and the key of the core
  key,       \* where the key of the network stream comes from
  started    \* started() of the network stream

mux == <<table, index>>
vars == <<mux, attached, input, last, pos, high, build, key, started>>

NoStream == "none"
Count == Len(table)
Attached(s) == Contains(table, s)

\* Wrong variants of some definitions stand just before the definition they
\* vary; nothing uses them, they document which slip each property detects.

---------------------------------------------------------------------------
(* ESPNetworkSerialMux: the table *)

\* addStream: the table after it.
Added(t, s) == IF Contains(t, s) \/ Len(t) >= MaxStreams THEN t ELSE Append(t, s)

IndexResets(n) == 0

IndexKept(n) == index

\* removeStream: the index keeps its value while that is in range.
IndexAfterRemoval(n) == IF n = 0 \/ index >= n THEN 0 ELSE index

MuxRemove(s) ==
  \/ \E i \in 1..Count : /\ table[i] = s /\ table' = RemoveAt(table, i)
                         /\ index' = IndexAfterRemoval(Count - 1)
  \/ ~Attached(s) /\ UNCHANGED mux

---------------------------------------------------------------------------
(* ESPNetworkSerialMux: reads, in turn from the index on *)

Turn(offset) == table[((index + offset) % Count) + 1]

NextIndex(offset) == (index + offset + 1) % Count

\* The offsets of the streams that have something to read.
Ready(dead) == {o \in 0..Count - 1 : Turn(o) \notin dead /\ input[Turn(o)] > 0}

\* read(): available() and read() of the network stream both run handle(), so
\* that its session may end between them; the turn is over nevertheless.
Read ==
  /\ Ready({}) # {}
  /\ LET o == Min(Ready({})) IN
       /\ index' = NextIndex(o)
       /\ \/ input' = [input EXCEPT ![Turn(o)] = @ - 1] /\ last' = Turn(o)
          \/ Turn(o) = Net /\ input' = [input EXCEPT ![Net] = 0] /\ UNCHANGED last
  /\ UNCHANGED <<table, attached, pos, high, build, key, started>>

\* read(buffer, size): a stream that gives nothing is passed over.
ReadBulk(size) ==
  /\ Ready({}) # {}
  /\ \E dead \in {{}, {Net}} :
       LET left == [s \in Streams |-> IF s \in dead THEN 0 ELSE input[s]]
       IN IF Ready(dead) = {}
          THEN input' = left /\ UNCHANGED <<index, last>>
          ELSE LET o == Min(Ready(dead))
                   request == Min({size, input[Turn(o)]})
               IN /\ index' = NextIndex(o) /\ last' = Turn(o)
                  /\ \E n \in 1..request :
                       /\ Turn(o) # Net => n = request
                       /\ input' = [left EXCEPT ![Turn(o)] = @ - n]
  /\ UNCHANGED <<table, attached, pos, high, build, key, started>>

---------------------------------------------------------------------------
(* ESPNetworkSerialMux: writes, to every stream *)

LeastResult(results) == Min(results \cup {0})

\* The result the sketch gets: the best one.
BestResult(results) == Max(results \cup {0})

\* write(buffer, size), of what the sketch has not written yet; each stream takes
\* what it can.  The sketch goes on after what was taken, or gives up the rest.
Write(size) ==
  /\ pos + size <= MaxPos
  /\ \E taken \in [ToSet(table) -> 0..size] :
       /\ high' = [s \in Streams |-> IF Attached(s) /\ taken[s] > 0 THEN pos + taken[s]
                                     ELSE high[s]]
       /\ pos' \in {pos + BestResult({taken[s] : s \in ToSet(table)}), pos + size}
  /\ UNCHANGED <<mux, attached, input, last, build, key, started>>

---------------------------------------------------------------------------
(* ESPNetworkSerial, the facade of the global object ESPSerial *)

AddStream(s) ==
  /\ table' = IF s = Net THEN table ELSE Added(table, s)
  /\ UNCHANGED <<index, attached, input, last, pos, high, build, key, started>>

RemoveStream(s) ==
  /\ IF s = Net THEN UNCHANGED mux ELSE MuxRemove(s)
  /\ UNCHANGED <<attached, input, last, pos, high, build, key, started>>

ClearStreams ==
  /\ table' = Added(<<>>, Net) /\ index' = 0
  /\ UNCHANGED <<attached, input, last, pos, high, build, key, started>>

SelectedKeyFallsBack ==
  CASE key # "none" -> key
    [] key = "none" /\ build.sketch = "valid" -> "sketch"
    [] OTHER -> IF build.default = "present" THEN "default" ELSE "none"

\* begin(): a key that is set stays; an override that is no key still
\* suppresses the default.
SelectedKey ==
  CASE key # "none" -> key
    [] key = "none" /\ build.sketch # "none" -> IF build.sketch = "valid" THEN "sketch" ELSE "none"
    [] OTHER -> IF build.default = "present" THEN "default" ELSE "none"

\* setAuthKey() and clearAuthKey() close the session.
InputWithoutSession == [input EXCEPT ![Net] = 0]

Begin ==
  /\ key' = SelectedKey
  /\ input' = IF key' = key THEN input ELSE InputWithoutSession
  /\ IF attached THEN UNCHANGED <<table, attached>>
     ELSE /\ table' = Added(table, Serial)
          /\ attached' = Contains(table', Serial)
  /\ started' = TRUE
  /\ UNCHANGED <<index, last, pos, high, build>>

End ==
  /\ started' = FALSE /\ input' = InputWithoutSession
  /\ UNCHANGED <<mux, attached, last, pos, high, build, key>>

SetKey(k) ==
  /\ key' = k /\ input' = InputWithoutSession
  /\ UNCHANGED <<mux, attached, last, pos, high, build, started>>

---------------------------------------------------------------------------
(* The streams *)

Arrive(s) ==
  /\ input[s] < MaxIn /\ (s = Net => started)
  /\ input' = [input EXCEPT ![s] = @ + 1]
  /\ UNCHANGED <<mux, attached, last, pos, high, build, key, started>>

SessionEnds ==
  /\ input[Net] > 0 /\ input' = InputWithoutSession
  /\ UNCHANGED <<mux, attached, last, pos, high, build, key, started>>

---------------------------------------------------------------------------

\* What the registrars of the sketch have left when setup() is called.
Registered == [sketch : SketchKeys, default : Defaults]

Init ==
  /\ table = Added(<<>>, Net) /\ index = 0 /\ attached = FALSE
  /\ input = [s \in Streams |-> 0] /\ last = NoStream
  /\ pos = 0 /\ high = [s \in Streams |-> 0]
  /\ build \in Registered
  /\ key = "none" /\ started = FALSE

Reads == Read \/ \E size \in 1..MaxIn : ReadBulk(size)

Next == \/ Reads
        \/ \E size \in 1..MaxPos : Write(size)
        \/ \E s \in Streams : AddStream(s) \/ RemoveStream(s)
        \/ ClearStreams \/ Begin \/ End
        \/ \E k \in {"none", "own"} : SetKey(k)
        \/ \E s \in Streams : Arrive(s)
        \/ SessionEnds

Spec == Init /\ [][Next]_vars /\ WF_vars(Reads)

---------------------------------------------------------------------------
(* Properties *)

\* The type invariant of the multiplexer: a read never takes a stream from
\* outside the table, nor twice the same one in a round.
TypeOK ==
  /\ table \in Seq(Streams) /\ Count <= MaxStreams
  /\ \A i, j \in 1..Count : table[i] = table[j] => i = j
  /\ index \in Nat /\ (index < Count \/ index = 0)
  /\ attached \in BOOLEAN /\ last \in Streams \cup {NoStream}
  /\ input \in [Streams -> 0..MaxIn]

\* Reads are selected fairly (api-stability.md): a stream that has something to
\* read is read, or loses it or is removed, although others have more, the
\* sketch adds and removes streams between the reads, and a removal shifts the
\* table under the index.
EveryStreamRead ==
  \A s \in Streams :
    Attached(s) /\ input[s] > 0 ~> last = s \/ ~Attached(s) \/ input[s] = 0

\* A sketch that goes on where write() says it stopped gives no stream a byte
\* twice, whatever each of them took.
NoStreamRepeats == \A s \in Streams : high[s] <= pos

\* "so a typo never silently changes the trust domain": the key of the
\* installation is used only in a sketch that neither names a key nor opts out,
\* in whatever order keys are registered, set, cleared and begin() called.
TrustDomain == key = "default" => build.sketch = "none" /\ build.default = "present"

=============================================================================
