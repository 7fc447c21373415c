-------------------------- MODULE MonitorLinkProofs --------------------------
(***************************************************************************)
(* The monitor and the firmware together: both ends of a connection agree  *)
(* on its mode and keys, the monitor goes on only with a device that has   *)
(* its key, and in both directions what one end reads is what the other    *)
(* wrote, in order; the monitor refuses no record, the firmware only one   *)
(* whose ciphertext it has begun to read as the tag.                       *)
(*                                                                         *)
(* For the firmware every step of the link is a step of AnyNext, so what   *)
(* DeviceSessionProofs shows for a peer that may send anything holds here; *)
(* HostInv adds what ties the monitor's state to the firmware's stream,    *)
(* RxInv what ties the firmware's reading to what the monitor has sent.    *)
(***************************************************************************)
EXTENDS MonitorLink, DeviceSessionProofs

---------------------------------------------------------------------------
(* What a step of the firmware does to what the monitor sees *)

\* The unread units of a connection are the ones it had, from some place on.
InboxShrinks(c) == \E k \in 0..Len(inbox[c]) : inbox'[c] = DropFirst(inbox[c], k)

\* Nothing, the first, and all units dropped.
LEMMA DropSome ==
  ASSUME NEW s \in Seq(Unit)
  PROVE  /\ DropFirst(s, 0) = s /\ DropFirst(s, Len(s)) = <<>>
         /\ s # <<>> => DropFirst(s, 1) = Tail(s) /\ Len(s) >= 1
  BY DEF DropFirst

LEMMA Shrinks ==
  ASSUME TypeInv, NEW c \in Conn
  PROVE  /\ inbox'[c] = inbox[c] => InboxShrinks(c)
         /\ inbox'[c] = <<>> => InboxShrinks(c)
         /\ inbox[c] # <<>> /\ inbox'[c] = Tail(inbox[c]) => InboxShrinks(c)
<1>1. inbox[c] \in Seq(Unit) /\ Len(inbox[c]) \in Nat
  BY DEF TypeInv, TypeOK
<1>2. 0 \in 0..Len(inbox[c]) /\ Len(inbox[c]) \in 0..Len(inbox[c])
  BY <1>1
<1>3. inbox[c] # <<>> => 1 \in 0..Len(inbox[c])
  BY <1>1
<1>4. QED
  BY <1>1, <1>2, <1>3, DropSome DEF InboxShrinks

\* Only a peer adds to what is unread.
LEMMA InboxEffect ==
  ASSUME TypeInv, DeviceNext \/ NetworkNext \/ UNCHANGED vars, NEW c \in Conn
  PROVE  InboxShrinks(c)
<1>t. inbox \in [Conn -> Seq(Unit)] /\ client \in Conn \cup {NoConn}
  BY DEF TypeInv, TypeOK
<1>k. inbox' = inbox => InboxShrinks(c)
  BY Shrinks
<1>0. CloseProtocolClient => InboxShrinks(c)
  BY <1>t, Shrinks DEF CloseProtocolClient
<1>e. ASSUME NEW d, inbox' = [inbox EXCEPT ![d] = <<>>] PROVE InboxShrinks(c)
  BY <1>t, <1>e, Shrinks
<1> USE DEF slot
<1>1. CASE AdminCall
  BY <1>0, <1>k, <1>1 DEF AdminCall, Begin, End, DisconnectClient, ClearTxDropCounters, ChangeAuthKey
<1>2. CASE CallHandle \/ DataCall
  BY <1>k, <1>2 DEF CallHandle, DataCall, StartCall
<1>3. ASSUME NEW p \in {"handshake", "greet"}, HandleHandshake(p) PROVE InboxShrinks(c)
  <2>1. ASSUME inbox[client] # <<>>, inbox' = [inbox EXCEPT ![client] = Tail(@)] PROVE InboxShrinks(c)
    BY <1>t, <2>1, Shrinks
  <2>2. CASE inbox[client] # <<>> /\ (HandshakeReturn \/ HandshakeChar \/ ProcessHandshakeLine)
    BY <1>0, <2>1, <2>2
    DEF HandshakeReturn, HandshakeChar, ProcessHandshakeLine, HandshakeBadHello, HandshakeRaw, HandshakeChallenge,
        HandshakeBadAuth, HandshakeSecure, Reject, Continue
  <2>3. CASE HandshakeQuiet
    BY <1>0, <1>k, <2>3 DEF HandshakeQuiet, Reject
  <2>4. QED
    BY <1>3, <2>2, <2>3 DEF HandleHandshake
<1>4. ASSUME NEW p \in {"secureRx", "rxAgain"}, SecureRx(p) PROVE InboxShrinks(c)
  <2>1. PICK k \in 0..Len(inbox[client]), t \in 0..TagSize :
            k + t \in 1..Len(inbox[client]) /\ SecureRxRead(k, t)
    BY <1>4 DEF SecureRx
  <2>2. client \in Conn /\ Len(inbox[client]) \in Nat
    BY <1>4, <1>t DEF SecureRx, CanReceive, Session, Live
  <2>3. CloseProtocolClient \/ inbox' = [inbox EXCEPT ![client] = DropFirst(@, k + t)]
    BY <2>1 DEF SecureRxRead
  <2>4. ASSUME inbox' = [inbox EXCEPT ![client] = DropFirst(@, k + t)] PROVE InboxShrinks(c)
    <3>1. CASE c = client
      <4>1. k + t \in 0..Len(inbox[client])
        BY <2>1, <2>2
      <4>2. QED
        BY <1>t, <2>2, <2>4, <3>1, <4>1 DEF InboxShrinks
    <3>2. CASE c # client
      BY <1>t, <2>4, <3>2, Shrinks
    <3>3. QED
      BY <3>1, <3>2
  <2>5. QED
    BY <1>0, <2>3, <2>4
<1>5. ASSUME NEW p \in {"drain", "writeDrain"}, DrainTxPending(p) PROVE InboxShrinks(c)
  BY <1>0, <1>k, <1>5 DEF DrainTxPending, DrainSend
<1>6. CASE StopServer
  <2>1. inbox'[c] = <<>> \/ inbox'[c] = inbox[c]
    BY <1>6 DEF StopServer
  <2>2. QED
    BY <2>1, Shrinks
<1>7. CASE AcceptReject
  BY <1>e, <1>7 DEF AcceptReject
<1>8. CASE Take
  <2>1. CASE Session /\ ~proto.secure
    <3>1. PICK n : n = Least(call.size, Len(Readable))
      OBVIOUS
    <3>2. client \in Conn /\ inbox[client] \in Seq(Unit) /\ Len(inbox[client]) \in Nat
      BY <1>t, <2>1 DEF Session, Live
    <3>3. Len(Readable) = Len(inbox[client])
      BY <2>1, <3>2 DEF Readable
    <3>4. n \in 0..Len(inbox[client])
      BY <3>1, <3>2, <3>3 DEF Least, TypeInv, TypeOK
    <3>5. inbox' = [inbox EXCEPT ![client] = DropFirst(@, n)]
      BY <1>8, <2>1, <3>1 DEF Take
    <3>6. CASE c = client
      BY <1>t, <3>2, <3>4, <3>5, <3>6 DEF InboxShrinks
    <3>7. CASE c # client
      BY <1>t, <3>5, <3>7, Shrinks
    <3>8. QED
      BY <3>6, <3>7
  <2>2. CASE ~(Session /\ ~proto.secure)
    BY <1>k, <1>8, <2>2 DEF Take
  <2>3. QED
    BY <2>1, <2>2
<1>9. CASE Step
  BY <1>0, <1>k, <1>3, <1>4, <1>5, <1>6, <1>7, <1>8, <1>9
  DEF Step, CheckDead, SkipStage, DrainDiscard, AcceptNone, AcceptClient, WriteStart, WriteStage,
      WriteFail, WriteCheck
<1>10. CASE NetworkNext
  BY <1>e, <1>k, <1>10 DEF NetworkNext, Tick, Dial, Lose
<1>11. QED
  BY <1>k, <1>1, <1>2, <1>9, <1>10 DEF DeviceNext, vars

\* What was committed and what was sent only grow, on one connection.
Continues(s, t) == Len(s) <= Len(t) /\ \A i \in 1..Len(s) : t[i] = s[i]

\* The client's proof is accepted: the session gets its keys.
ProofTaken ==
  /\ Handshaking /\ authKey \in AuthKeys
  /\ inbox[client] # <<>> /\ Head(inbox[client]).kind = "eol" /\ ProofAccepted
  /\ proto'.key = [auth |-> authKey, cn |-> proto.cn, sn |-> proto.sn]

StreamGrows ==
  /\ Continues(wire, wire') /\ Continues(staged, staged')
  /\ \A i \in 1..Len(staged') :
       staged'[i].kind = "cell" =>
         \/ i \in 1..Len(staged)
         \/ proto.ready /\ proto.secure /\ staged'[i].rec.key = proto.key
  /\ proto'.ready /\ proto'.secure =>
       \/ proto.ready /\ proto.secure /\ proto'.key = proto.key
       \/ ProofTaken

LEMMA DeviceGrows ==
  ASSUME Inv, Inv', [AnyNext]_vars, ~AcceptClient
  PROVE  StreamGrows /\ carrier' = carrier
<1>t. /\ proto \in ProtoType /\ wire \in Seq(Unit) /\ staged \in Seq(Unit) /\ TypeInv
      /\ wire' \in Seq(Unit) /\ staged' \in Seq(Unit)
  BY DEF Inv, TypeInv, TypeOK
<1>c. carrier' = carrier
  BY AppEffect DEF Inv, SentInv
<1>w. Len(wire) \in Nat /\ Len(staged) \in Nat /\ Continues(wire, wire) /\ Continues(staged, staged)
  BY <1>t DEF Continues
<1>l. ASSUME NEW m, SendControlLine(m, TRUE)
      PROVE  /\ Continues(wire, wire') /\ Continues(staged, staged')
             /\ \A i \in 1..Len(staged') : staged'[i].kind = "cell" => i \in 1..Len(staged)
  <2>1. wire' = Append(wire, Line(m)) /\ staged' = Append(staged, Line(m)) /\ Line(m).kind = "line"
    BY <1>l DEF SendControlLine, Line
  <2>2. QED
    BY <1>t, <2>1 DEF Continues
<1>1. CASE Quiet
  BY <1>c, <1>w, <1>1 DEF Quiet, StreamGrows
<1>2. CASE Closed
  <2>1. ~proto'.ready
    BY <1>2 DEF Closed, CloseProtocolClient, ResetProtocolState
  <2>2. CASE UNCHANGED output
    BY <1>c, <1>w, <2>1, <2>2 DEF StreamGrows, output
  <2>3. CASE SendControlLine([type |-> "ERR"], TRUE)
    BY <1>c, <1>l, <2>1, <2>3 DEF StreamGrows
  <2>4. QED
    BY <1>2, <2>2, <2>3 DEF Closed
<1>3. CASE Reads
  <2>h. ~proto.ready /\ ~proto.secure
    BY <1>3 DEF Reads, Handshaking, Inv, SessionInv, Clean
  <2>1. ASSUME proto' = [proto EXCEPT !.line = @ + 1], UNCHANGED <<wire, staged>> PROVE StreamGrows
    <3>1. ~proto'.ready
      BY <1>t, <2>1, <2>h DEF ProtoType
    <3>2. QED
      BY <1>w, <2>1, <3>1 DEF StreamGrows
  <2>2. ASSUME proto' = ReadyState(proto), SendControlLine([type |-> "OK", secure |-> FALSE], TRUE)
        PROVE  StreamGrows
    <3>1. ~proto'.secure
      BY <1>t, <2>2, <2>h DEF ProtoType, ReadyState
    <3>2. QED
      BY <1>l, <2>2, <3>1 DEF StreamGrows
  <2>3. ASSUME NEW cn, NEW proof, proto' = ChallengeState(cn, nonceCount'),
               SendControlLine([type |-> "CHALLENGE", nonce |-> nonceCount', proof |-> proof], TRUE)
        PROVE  StreamGrows
    <3>1. ~proto'.ready
      BY <1>t, <2>3, <2>h DEF ProtoType, ChallengeState
    <3>2. QED
      BY <1>l, <2>3, <3>1 DEF StreamGrows
  <2>4. ASSUME /\ authKey \in AuthKeys
               /\ inbox[client] # <<>> /\ Head(inbox[client]).kind = "eol" /\ ProofAccepted
               /\ proto' = ReadyState([DeriveSessionKeys(proto) EXCEPT !.secure = TRUE]),
               SendControlLine([type |-> "OK", secure |-> TRUE], TRUE)
        PROVE  StreamGrows
    <3>1. proto'.key = [auth |-> authKey, cn |-> proto.cn, sn |-> proto.sn]
      BY <1>t, <2>4 DEF ProtoType, ReadyState, DeriveSessionKeys
    <3>2. ProofTaken
      BY <1>3, <2>4, <3>1 DEF ProofTaken, Reads
    <3>3. QED
      BY <1>l, <2>4, <3>2 DEF StreamGrows
  <2>5. QED
    BY <1>3, <1>c, <2>1, <2>2, <2>3, <2>4 DEF Reads
<1>4. CASE Receives
  BY <1>4, <1>c, <1>w, <1>t, SessionKept DEF StreamGrows, Receives
<1>5. CASE Sends
  <2>1. /\ proto'.ready = proto.ready /\ proto'.secure = proto.secure /\ proto'.key = proto.key
        /\ staged' = staged
    BY <1>5, <1>t, SessionKept DEF Sends
  <2>2. Continues(wire, wire')
    <3>1. CASE wire' = wire
      BY <1>w, <3>1
    <3>2. ASSUME NEW k \in 1..Len(proto.txPending), wire' = wire \o SubSeq(proto.txPending, 1, k)
          PROVE  Continues(wire, wire')
      <4>1. SubSeq(proto.txPending, 1, k) \in Seq(Unit)
        BY <1>t, <3>2 DEF ProtoType
      <4>2. PICK u \in Seq(Unit) : wire' = wire \o u
        BY <3>2, <4>1
      <4>3. QED
        BY <1>t, <4>2 DEF Continues
    <3>3. QED
      BY <1>5, <3>1, <3>2 DEF Sends, DrainSend
  <2>3. QED
    BY <1>c, <1>w, <2>1, <2>2 DEF StreamGrows
<1>6. CASE WriteStage
  <2>1. /\ proto'.ready = proto.ready /\ proto'.secure = proto.secure /\ proto'.key = proto.key
        /\ wire' = wire /\ staged' = staged \o Encode(Chunk) /\ proto.ready
    BY <1>6, <1>t, SessionKept DEF WriteStage, Inv, SessionInv, LoopReady
  <2>2. Chunk \in Seq(Nat) /\ Len(Chunk) <= MaxRecord
    BY <1>6, ChunkType, ConstantsAssumption DEF WriteStage, Inv, TypeInv, CallShape
  <2>3. PICK u \in Seq(Unit) : u = Encode(Chunk)
    BY <1>t, <2>2, EncodeType
  <2>4. \A i \in 1..Len(u) : u[i].kind = "cell" => proto.secure /\ u[i].rec.key = proto.key
    <3>1. CASE proto.secure
      <4>1. PICK z : z = HeaderSize + Len(Chunk) + TagSize
        OBVIOUS
      <4>2. z \in Nat
        BY <2>2, <4>1, ConstantsAssumption
      <4>3. u = [i \in 1..z |-> [kind |-> "cell", at |-> i,
                   rec |-> [key |-> proto.key, dir |-> "d2h", seq |-> proto.txSeq, data |-> Chunk]]]
        BY <2>3, <3>1, <4>1 DEF Encode, Seal
      <4>4. QED
        BY <3>1, <4>2, <4>3
    <3>2. CASE ~proto.secure
      <4>1. u = [i \in 1..Len(Chunk) |-> [kind |-> "raw", byte |-> Chunk[i]]]
        BY <2>3, <3>2 DEF Encode
      <4>2. QED
        BY <2>2, <4>1
    <3>3. QED
      BY <3>1, <3>2
  <2>5. /\ Len(staged') = Len(staged) + Len(u) /\ Len(u) \in Nat
        /\ \A i \in 1..Len(staged) : staged'[i] = staged[i]
        /\ \A i \in 1..Len(staged') : i \in 1..Len(staged)
                                      \/ (i - Len(staged) \in 1..Len(u) /\ staged'[i] = u[i - Len(staged)])
    BY <1>t, <2>1, <2>3
  <2>6. Continues(staged, staged')
    BY <1>w, <2>5 DEF Continues
  <2>7. QED
    BY <1>c, <1>w, <2>1, <2>4, <2>5, <2>6 DEF StreamGrows
<1>7. QED
  BY <1>t, <1>1, <1>2, <1>3, <1>4, <1>5, <1>6, ProtoEffect

---------------------------------------------------------------------------
(* Sequences of units that were committed *)

\* A cell is what it holds.
LEMMA CellIs ==
  ASSUME NEW u \in Unit, u.kind = "cell"
  PROVE  /\ u = [kind |-> "cell", at |-> u.at, rec |-> u.rec]
         /\ u.rec = [key |-> u.rec.key, dir |-> u.rec.dir, seq |-> u.rec.seq, data |-> u.rec.data]
         /\ u.rec.data \in Seq(Nat) /\ u.rec.seq \in Nat /\ u.rec.key \in SessionKey
<1>1. u \in [kind : {"cell"}, rec : Record, at : Nat]
  BY DEF Unit
<1>2. u = [kind |-> "cell", at |-> u.at, rec |-> u.rec] /\ u.rec \in Record
  BY <1>1
<1>3. QED
  BY <1>2 DEF Record

\* A record that was begun is carried on, cell by cell, to its end.
LEMMA RecordRun ==
  ASSUME NEW s \in Seq(Unit), \A i \in 1..(Len(s) - 1) : Follows(s[i], s[i + 1]), NEW p \in Nat, p + 1 <= Len(s),
         s[p + 1].kind = "cell", s[p + 1].at = 1,
         NEW z \in Nat, z <= HeaderSize + Len(s[p + 1].rec.data) + TagSize, p + z <= Len(s)
  PROVE  \A i \in 1..z : s[p + i] = [kind |-> "cell", at |-> i, rec |-> s[p + 1].rec]
<1> DEFINE Is(i) == s[p + i].kind = "cell" /\ s[p + i].at = i /\ s[p + i].rec = s[p + 1].rec
           Bad == {i \in 1..z : ~Is(i)}
<1>1. Bad = {}
  <2>1. SUFFICES ASSUME Bad # {} PROVE FALSE
    OBVIOUS
  <2>0. Bad \subseteq Nat
    OBVIOUS
  <2> HIDE DEF Bad
  <2>2. PICK k \in Bad : \A j \in Bad : k <= j
    BY <2>0, <2>1, LeastOne
  <2>3. k \in 1..z /\ ~Is(k) /\ \A j \in 1..z : j < k => Is(j)
    BY <2>2 DEF Bad
  <2>4. k # 1
    BY <2>3
  <2>5. k - 1 \in 1..z /\ Is(k - 1)
    <3>1. k - 1 \in 1..z /\ k - 1 < k
      BY <2>3, <2>4
    <3>2. QED
      BY <2>3, <3>1
  <2>6. PICK u : u = s[p + (k - 1)]
    OBVIOUS
  <2>7. PICK v : v = s[p + k]
    OBVIOUS
  <2>8. Follows(u, v)
    <3>1. p + (k - 1) \in 1..(Len(s) - 1) /\ (p + (k - 1)) + 1 = p + k
      BY <2>3, <2>4
    <3>2. QED
      BY <2>6, <2>7, <3>1
  <2>9. u.kind = "cell" /\ u.at = k - 1 /\ u.rec = s[p + 1].rec
    BY <2>5, <2>6
  <2>10. ~RecordEnd(u)
    BY <2>3, <2>9, ConstantsAssumption DEF RecordEnd
  <2>11. u # OkLine(TRUE) /\ u.kind # "line"
    BY <2>9 DEF OkLine, Line
  <2>12. v.kind = "cell" /\ v.rec = u.rec /\ v.at = u.at + 1
    <3>1. ~(v.kind = "raw" /\ (u = OkLine(FALSE) \/ u.kind = "raw"))
      BY <2>9 DEF OkLine, Line
    <3>2. QED
      BY <2>8, <2>9, <2>10, <2>11, <3>1 DEF Follows
  <2>13. Is(k)
    BY <2>3, <2>7, <2>9, <2>12
  <2>14. QED
    BY <2>3, <2>13
<1>2. ASSUME NEW i \in 1..z PROVE s[p + i] = [kind |-> "cell", at |-> i, rec |-> s[p + 1].rec]
  <2>1. Is(i)
    BY <1>1
  <2>2. s[p + i] \in Unit
    <3>1. p + i \in 1..Len(s)
      OBVIOUS
    <3>2. QED
      BY <3>1
  <2>3. QED
    BY <2>1, <2>2, CellIs
<1>3. QED
  BY <1>2

\* After the OK of an unencrypted session, or a byte of it, come the next bytes.
LEMMA RawRun ==
  ASSUME NEW s \in Seq(Unit), Chained(s), NEW p \in 1..Len(s),
         s[p] = OkLine(FALSE) \/ s[p].kind = "raw"
  PROVE  \A i \in 1..(Len(s) - p) : /\ s[p + i].kind = "raw"
                                    /\ s[p + i].byte = Upto(s[p]) + i /\ Upto(s[p + i]) = Upto(s[p]) + i
<1> DEFINE n == Upto(s[p])
           Is(i) == s[p + i].kind = "raw" /\ s[p + i].byte = n + i
           Bad == {i \in 1..(Len(s) - p) : ~Is(i)}
<1>n. n \in Nat
  BY UptoType DEF Chained
<1> HIDE DEF n
<1>1. Bad = {}
  <2>1. SUFFICES ASSUME Bad # {} PROVE FALSE
    OBVIOUS
  <2>0. Bad \subseteq Nat
    OBVIOUS
  <2> HIDE DEF Bad
  <2>2. PICK k \in Bad : \A j \in Bad : k <= j
    BY <2>0, <2>1, LeastOne
  <2>3. k \in 1..(Len(s) - p) /\ ~Is(k) /\ \A j \in 1..(Len(s) - p) : j < k => Is(j)
    BY <2>2 DEF Bad
  <2>4. PICK u : u = s[p + (k - 1)]
    OBVIOUS
  <2>5. PICK v : v = s[p + k]
    OBVIOUS
  <2>6. Follows(u, v)
    <3>1. p + (k - 1) \in 1..(Len(s) - 1) /\ (p + (k - 1)) + 1 = p + k
      BY <2>3
    <3>2. QED
      BY <2>4, <2>5, <3>1 DEF Chained
  <2>7. (u = OkLine(FALSE) \/ u.kind = "raw") /\ Upto(u) = n + (k - 1)
    <3>1. CASE k = 1
      <4>1. p + (k - 1) = p
        BY <3>1
      <4>2. u = s[p] /\ Upto(u) = n
        BY <2>4, <4>1 DEF n
      <4>3. u = OkLine(FALSE) \/ u.kind = "raw"
        BY <4>2
      <4>4. n = n + (k - 1)
        BY <3>1, <1>n
      <4>5. QED
        BY <4>2, <4>3, <4>4
    <3>2. CASE k # 1
      <4>1. k - 1 \in 1..(Len(s) - p) /\ Is(k - 1)
        BY <2>3, <3>2
      <4>2. QED
        BY <2>4, <4>1 DEF Upto
    <3>3. QED
      BY <3>1, <3>2
  <2>8. /\ u # OkLine(TRUE) /\ u.kind # "cell" /\ ~RecordEnd(u)
        /\ u.kind = "line" => u.msg.type = "OK"
    BY <2>7 DEF OkLine, Line, RecordEnd
  <2>9. v.kind = "raw" /\ v.byte = Upto(u) + 1
    BY <2>6, <2>8 DEF Follows
  <2>10. Is(k)
    BY <1>n, <2>3, <2>5, <2>7, <2>9
  <2>11. QED
    BY <2>3, <2>10
<1>2. ASSUME NEW i \in 1..(Len(s) - p) PROVE Is(i) /\ Upto(s[p + i]) = n + i
  BY <1>1 DEF Upto
<1>3. QED
  BY <1>2 DEF n

---------------------------------------------------------------------------
(* The two ends of a connection *)

\* The connection the host uses is one the device accepted last.
Joined == host.state # "closed" /\ carrier = host.conn

\* The host has a connection that was dialled; it has read nothing of one that
\* waits in the device's backlog.
HostConn ==
  /\ host.state # "closed" => host.conn \in Conn /\ link[host.conn] # "none"
  /\ host.state # "closed" /\ Waiting(host.conn) => host.state \in {"dialled", "hello"} /\ host.pos = 0
  /\ host.state # "ready" => ~host.secure /\ host.rxSeq = 0 /\ host.rxPlain = <<>>
  /\ host.state \notin {"closed", "ready"} => got = <<>>

\* The keys, and the mode, follow from the configuration and the handshake.
HostMode ==
  /\ host.key = IF host.secure THEN DeriveESPNSKeys ELSE NoSession
  /\ host.state = "ready" /\ ~host.secure => auth.key = NoKey \/ auth.allow
  /\ host.state = "auth" \/ host.secure => auth.key # NoKey

\* Nothing has been sent on a connection that does not exist yet.
InboxFresh == \A c \in Conn : link[c] = "none" => inbox[c] = <<>>

\* The host has sent its proof.
Proves == host.state \in {"auth", "ready"}

\* A proof on the way to the device is the host's for this handshake.
OwnProof ==
  host.state # "closed" =>
    \A i \in 1..Len(inbox[host.conn]) :
      LET u == inbox[host.conn][i]
      IN u.kind = "eol" /\ u.msg.type = "AUTH" =>
           Proves /\ u.msg.proof = Proof(auth.key, "CLIENT", host.conn, host.sn)

\* So a session with encryption on this connection has the host's keys, ...
SameKeys ==
  Joined /\ proto.ready /\ proto.secure => Proves /\ proto.key = DeriveESPNSKeys

\* ... and its records are sealed with them.
SealedForHost ==
  Joined => \A i \in 1..Len(staged) :
    staged[i].kind = "cell" => Proves /\ staged[i].rec.key = DeriveESPNSKeys

\* What the host has read ends where a record, or a byte, does, and is the
\* stream up to there.
HostPlace ==
  Joined =>
    /\ host.pos <= Len(wire)
    /\ host.state = "ready" =>
         /\ host.pos >= 1
         /\ \E i \in 1..Len(staged) : staged[i] = OkLine(host.secure)
         /\ LET last == staged[host.pos]
            IN /\ IF host.secure THEN (last = OkLine(TRUE) \/ RecordEnd(last)) /\ NextSeq(last) = host.rxSeq
                  ELSE last = OkLine(FALSE) \/ last.kind = "raw"
               /\ FirstBytes(got \o host.rxPlain, Upto(last)) /\ Len(got \o host.rxPlain) = Upto(last)

HostInv == /\ HostTypeOK /\ HostConn /\ HostMode /\ InboxFresh /\ OwnProof /\ SameKeys
           /\ SealedForHost /\ HostPlace

\* A step of the firmware or of the network, in which the monitor does nothing.
DeviceStep == /\ DeviceNext \/ Tick \/ (\E c \in Conn : Lose(c)) \/ UNCHANGED vars
              /\ UNCHANGED hostVars

\* A connection that was dialled stays so, and waits only once.
LEMMA LinksAge ==
  ASSUME TypeInv, [AnyNext]_vars, NEW c \in Conn
  PROVE  /\ link'[c] = "none" => link[c] = "none"
         /\ Waiting(c)' => Waiting(c) \/ Dial(c)
<1> DEFINE Goal == /\ link'[c] = "none" => link[c] = "none"
                   /\ Waiting(c)' => Waiting(c) \/ Dial(c)
<1>t. /\ link \in [Conn -> {"none", "open", "lost", "closed"}]
      /\ backlog \in Seq(Conn) /\ client \in Conn \cup {NoConn}
  BY DEF TypeInv, TypeOK
<1>h. ASSUME backlog # <<>>, backlog' = Tail(backlog) PROVE Waiting(c)' => Waiting(c)
  <2>1. SUFFICES ASSUME NEW i \in 1..Len(Tail(backlog)), Tail(backlog)[i] = c PROVE Waiting(c)
    BY <1>h DEF Waiting
  <2>2. i + 1 \in 1..Len(backlog) /\ backlog[i + 1] = c
    BY <1>t, <1>h, <2>1
  <2>3. QED
    BY <2>2 DEF Waiting
<1>1. CASE LinksKept
  BY <1>1 DEF LinksKept, Waiting
<1>2. CASE CloseProtocolClient /\ UNCHANGED backlog
  BY <1>t, <1>2 DEF CloseProtocolClient, Waiting
<1>3. CASE StopServer
  BY <1>t, <1>3 DEF StopServer, Waiting
<1>4. CASE AcceptReject
  BY <1>h, <1>t, <1>4 DEF AcceptReject
<1>5. CASE AcceptClient
  BY <1>h, <1>t, <1>5 DEF AcceptClient
<1>6. ASSUME NEW d \in Conn, Dial(d) PROVE Goal
  <2>1. link' = [link EXCEPT ![d] = "open"] /\ backlog' = Append(backlog, d)
    BY <1>6 DEF Dial
  <2>2. link'[c] = "none" => link[c] = "none"
    BY <1>t, <2>1
  <2>3. Waiting(c)' => Waiting(c) \/ c = d
    BY <1>t, <2>1 DEF Waiting
  <2>4. QED
    BY <1>6, <2>2, <2>3
<1>7. ASSUME NEW d \in Conn, Lose(d) PROVE Goal
  BY <1>t, <1>7 DEF Lose, Waiting
<1>8. QED
  BY <1>1, <1>2, <1>3, <1>4, <1>5, <1>6, <1>7, LinkEffect

\* What the firmware does keeps the monitor's view of it true.
LEMMA DeviceKeeps ==
  ASSUME Inv, Inv', HostInv, DeviceStep
  PROVE  HostInv'
<1>0. [AnyNext]_vars /\ TypeInv
  BY DEF DeviceStep, AnyNext, NetworkNext, Inv
<1>h. host' = host /\ auth' = auth /\ sent' = sent /\ got' = got
  BY DEF DeviceStep, hostVars
<1>i. \A c \in Conn : InboxShrinks(c)
  BY <1>0, InboxEffect DEF DeviceStep, NetworkNext
<1>t. /\ inbox \in [Conn -> Seq(Unit)] /\ wire \in Seq(Unit) /\ staged \in Seq(Unit)
      /\ host.pos \in Nat /\ wire' \in Seq(Unit) /\ staged' \in Seq(Unit)
  BY <1>0 DEF Inv, TypeInv, TypeOK, HostInv, HostTypeOK
<1>1. HostTypeOK' /\ HostMode'
  BY <1>h DEF HostInv, HostTypeOK, HostMode, DeriveESPNSKeys
<1>2. HostConn'
  <2>1. ASSUME NEW c \in Conn, link[c] # "none" PROVE link'[c] # "none" /\ (Waiting(c)' => Waiting(c))
    BY <1>0, <2>1, LinksAge DEF Dial
  <2>2. QED
    BY <1>h, <2>1 DEF HostInv, HostConn
<1>3. InboxFresh'
  <2>1. ASSUME NEW c \in Conn, link'[c] = "none" PROVE inbox'[c] = <<>>
    <3>1. inbox[c] = <<>>
      BY <1>0, <2>1, LinksAge DEF HostInv, InboxFresh
    <3>2. PICK k \in 0..Len(inbox[c]) : inbox'[c] = DropFirst(inbox[c], k)
      BY <1>i DEF InboxShrinks
    <3>3. QED
      BY <3>1, <3>2 DEF DropFirst
  <2>2. QED
    BY <2>1 DEF InboxFresh
<1>4. OwnProof'
  <2>1. SUFFICES ASSUME host.state # "closed", NEW i \in 1..Len(inbox'[host.conn]),
                        inbox'[host.conn][i].kind = "eol", inbox'[host.conn][i].msg.type = "AUTH"
                 PROVE  /\ Proves
                        /\ inbox'[host.conn][i].msg.proof = Proof(auth.key, "CLIENT", host.conn, host.sn)
    BY <1>h DEF OwnProof, Proves
  <2>2. host.conn \in Conn
    BY <2>1 DEF HostInv, HostConn
  <2>3. PICK k \in 0..Len(inbox[host.conn]) : inbox'[host.conn] = DropFirst(inbox[host.conn], k)
    BY <1>i, <2>2 DEF InboxShrinks
  <2>4. i + k \in 1..Len(inbox[host.conn]) /\ inbox'[host.conn][i] = inbox[host.conn][i + k]
    <3>1. PICK s \in Seq(Unit) : s = inbox[host.conn]
      BY <1>t, <2>2
    <3>2. inbox'[host.conn] = SubSeq(s, k + 1, Len(s)) /\ k \in 0..Len(s) /\ Len(s) \in Nat
      BY <2>3, <3>1 DEF DropFirst
    <3>3. i \in 1..(Len(s) - k)
      BY <2>1, <3>2
    <3>4. inbox'[host.conn][i] = s[i + k]
      BY <3>2, <3>3
    <3>5. i + k \in 1..Len(s)
      BY <3>2, <3>3
    <3>6. QED
      BY <3>1, <3>4, <3>5
  <2>5. QED
    BY <2>1, <2>4 DEF HostInv, OwnProof
<1>5. CASE AcceptClient
  <2>1. wire' = <<>> /\ staged' = <<>> /\ ~proto'.ready /\ carrier' = Head(backlog) /\ backlog # <<>>
    BY <1>5 DEF AcceptClient, AcceptedState, ResetProtocolState
  <2>2. Waiting(Head(backlog))
    <3>1. backlog \in Seq(Conn)
      BY <1>0 DEF TypeInv, TypeOK
    <3>2. 1 \in 1..Len(backlog) /\ backlog[1] = Head(backlog)
      BY <2>1, <3>1
    <3>3. QED
      BY <3>2 DEF Waiting
  <2>3. Joined' => host.state \in {"dialled", "hello"} /\ host.pos = 0
    BY <1>h, <2>1, <2>2 DEF HostInv, HostConn, Joined
  <2>4. SameKeys' /\ SealedForHost' /\ HostPlace'
    BY <1>h, <2>1, <2>3 DEF SameKeys, SealedForHost, HostPlace
  <2>5. QED
    BY <1>1, <1>2, <1>3, <1>4, <2>4 DEF HostInv
<1>6. CASE ~AcceptClient
  <2>1. StreamGrows /\ carrier' = carrier
    BY <1>0, <1>6, DeviceGrows
  <2>j. /\ Joined' = Joined /\ Proves' = Proves /\ DeriveESPNSKeys' = DeriveESPNSKeys
        /\ Joined => host.state # "closed"
    BY <1>h, <2>1 DEF Joined, Proves, DeriveESPNSKeys
  <2>2. SameKeys'
    <3>1. SUFFICES ASSUME Joined, proto'.ready, proto'.secure PROVE Proves /\ proto'.key = DeriveESPNSKeys
      BY <2>j DEF SameKeys
    <3>2. CASE proto.ready /\ proto.secure /\ proto'.key = proto.key
      BY <3>1, <3>2 DEF HostInv, SameKeys
    <3>3. CASE ProofTaken
      <4>1. client = host.conn /\ host.conn \in Conn /\ inbox[host.conn] # <<>>
        BY <2>j, <3>1, <3>3 DEF ProofTaken, Handshaking, Live, Inv, SentInv, Accepted, Joined, HostInv, HostConn
      <4>2. PICK u : u = Head(inbox[host.conn])
        OBVIOUS
      <4>3. 1 \in 1..Len(inbox[host.conn]) /\ u = inbox[host.conn][1]
        BY <1>t, <4>1, <4>2
      <4>4. u.kind = "eol" /\ u.msg.type = "AUTH" /\ u.msg.proof = Proof(authKey, "CLIENT", proto.cn, proto.sn)
        BY <3>3, <4>1, <4>2 DEF ProofTaken, ProofAccepted, LineRead
      <4>5. Proves /\ u.msg.proof = Proof(auth.key, "CLIENT", host.conn, host.sn)
        BY <2>j, <3>1, <4>3, <4>4 DEF HostInv, OwnProof
      <4>6. authKey = auth.key /\ proto.cn = host.conn /\ proto.sn = host.sn
        BY <4>4, <4>5 DEF Proof
      <4>7. QED
        BY <3>3, <4>5, <4>6 DEF ProofTaken, DeriveESPNSKeys
    <3>4. QED
      BY <2>1, <3>1, <3>2, <3>3 DEF StreamGrows
  <2>3. SealedForHost'
    <3>1. SUFFICES ASSUME Joined, NEW i \in 1..Len(staged'), staged'[i].kind = "cell"
                   PROVE  Proves /\ staged'[i].rec.key = DeriveESPNSKeys
      BY <2>j DEF SealedForHost
    <3>2. CASE i \in 1..Len(staged)
      BY <2>1, <3>1, <3>2 DEF StreamGrows, Continues, HostInv, SealedForHost
    <3>3. CASE proto.ready /\ proto.secure /\ staged'[i].rec.key = proto.key
      BY <3>1, <3>3 DEF HostInv, SameKeys
    <3>4. QED
      BY <2>1, <3>1, <3>2, <3>3 DEF StreamGrows
  <2>4. HostPlace'
    <3>1. Len(wire) <= Len(wire') /\ Len(staged) <= Len(staged') /\ \A i \in 1..Len(staged) : staged'[i] = staged[i]
      BY <2>1 DEF StreamGrows, Continues
    <3>2. CASE ~Joined
      BY <2>j, <3>2 DEF HostPlace
    <3>3. CASE Joined
      <4>1. host.pos <= Len(wire) /\ Len(wire) <= Len(staged)
        BY <3>3 DEF HostInv, HostPlace, Inv, SentInv, WirePrefix
      <4>2. host.pos <= Len(wire') /\ (host.pos >= 1 => host.pos \in 1..Len(staged))
        BY <1>t, <3>1, <4>1
      <4>3. host.pos >= 1 => staged'[host.pos] = staged[host.pos]
        BY <3>1, <4>2
      <4>4. ASSUME NEW i \in 1..Len(staged) PROVE i \in 1..Len(staged') /\ staged'[i] = staged[i]
        BY <1>t, <3>1
      <4>5. HostPlace
        BY DEF HostInv
      <4>6. QED
        BY <1>h, <3>3, <4>2, <4>3, <4>4, <4>5 DEF HostPlace
    <3>4. QED
      BY <3>2, <3>3
  <2>5. QED
    BY <1>1, <1>2, <1>3, <1>4, <2>2, <2>3, <2>4 DEF HostInv
<1>7. QED
  BY <1>5, <1>6

---------------------------------------------------------------------------
(* Steps of the monitor *)

\* What the monitor's steps leave alone, once it has dialled.
FirmwareStill == UNCHANGED <<client, carrier, wire, staged, proto, link, backlog>>

LEMMA StillIs ==
  ASSUME FirmwareStill
  PROVE  /\ client' = client /\ carrier' = carrier /\ wire' = wire /\ staged' = staged
         /\ proto' = proto /\ link' = link /\ backlog' = backlog
  BY DEF FirmwareStill

\* No connection has the type of a connection.
LEMMA NoHostType ==
  NoHost \in [conn : Conn \cup {NoConn},
              state : {"closed", "dialled", "hello", "auth", "ready"},
              sn : Nat, secure : BOOLEAN, key : SessionKey \cup {NoSession},
              txSeq : 0..SeqMax, rxSeq : 0..SeqMax, rxPlain : Seq(Nat), pos : Nat]
<1>1. <<>> \in Seq(Nat) /\ 0 \in 0..SeqMax
  BY ConstantsAssumption
<1>2. QED
  BY <1>1 DEF NoHost

\* The keys the monitor derives, if it has a key, are keys.
LEMMA KeysType ==
  ASSUME HostInv, auth.key # NoKey
  PROVE  auth.key \in AuthKeys /\ DeriveESPNSKeys \in SessionKey /\ host.conn \in Nat
<1>1. auth.key \in AuthKeys /\ host.sn \in Nat /\ host.conn \in Nat
  BY DEF HostInv, HostTypeOK, Conn, NoConn
<1>2. QED
  BY <1>1 DEF DeriveESPNSKeys, SessionKey

\* Giving up a connection leaves nothing to tie the ends together.
LEMMA HostClosed ==
  ASSUME HostInv, host' = NoHost, auth' = auth, got' = got, sent' \in Nat, InboxFresh'
  PROVE  HostInv'
<1>1. /\ host'.state = "closed" /\ ~host'.secure /\ host'.key = NoSession
      /\ host'.rxSeq = 0 /\ host'.rxPlain = <<>>
  BY DEF NoHost
<1>2. HostTypeOK'
  BY NoHostType DEF HostInv, HostTypeOK
<1>3. HostConn' /\ HostMode'
  BY <1>1 DEF HostConn, HostMode
<1>4. ~Joined'
  BY <1>1 DEF Joined
<1>5. OwnProof' /\ SameKeys' /\ SealedForHost' /\ HostPlace'
  BY <1>1, <1>4 DEF OwnProof, SameKeys, SealedForHost, HostPlace
<1>6. QED
  BY <1>2, <1>3, <1>5 DEF HostInv

\* What the monitor sends reaches an open connection and changes nothing else.
LEMMA SendIs ==
  ASSUME TypeInv, HostInv, NEW c \in Conn, NEW units \in Seq(Unit), PeerSend(c, units)
  PROVE  /\ FirmwareStill /\ InboxFresh' /\ [AnyNext]_vars
         /\ inbox' = [inbox EXCEPT ![c] = @ \o units]
<1>1. FirmwareStill /\ inbox' = [inbox EXCEPT ![c] = @ \o units] /\ link[c] = "open" /\ link' = link
  BY DEF PeerSend, FirmwareStill, app, output
<1>2. InboxFresh'
  BY <1>1 DEF InboxFresh, HostInv, TypeInv, TypeOK
<1>3. QED
  BY <1>1, <1>2 DEF AnyNext, AnyPeerNext

\* A session keeps its keys when the monitor goes on with it.
LEMMA SessionGoesOn ==
  ASSUME HostInv, FirmwareStill, auth' = auth, host.state # "closed", host'.conn = host.conn,
         Proves => Proves' /\ host'.sn = host.sn
  PROVE  SameKeys' /\ SealedForHost'
<1>1. Joined' => Joined
  BY StillIs DEF Joined
<1>2. Proves => DeriveESPNSKeys' = DeriveESPNSKeys
  BY DEF DeriveESPNSKeys
<1>3. SameKeys'
  BY <1>1, <1>2, StillIs DEF SameKeys, HostInv
<1>4. SealedForHost'
  BY <1>1, <1>2, StillIs DEF SealedForHost, HostInv
<1>5. QED
  BY <1>3, <1>4

IsProof(u) == u.kind = "eol" /\ u.msg.type = "AUTH"

\* The only proof on a connection is the one the monitor has sent.
LEMMA ProofsSent ==
  ASSUME TypeInv, HostInv, auth' = auth, host.state # "closed", host'.conn = host.conn,
         Proves => Proves' /\ host'.sn = host.sn,
         NEW units \in Seq(Unit),
         inbox' = inbox \/ inbox' = [inbox EXCEPT ![host.conn] = @ \o units],
         \A j \in 1..Len(units) : IsProof(units[j]) =>
           Proves' /\ units[j].msg.proof = Proof(auth.key, "CLIENT", host.conn, host'.sn)
  PROVE  OwnProof'
<1>t. inbox \in [Conn -> Seq(Unit)] /\ host.conn \in Conn
  BY DEF TypeInv, TypeOK, HostInv, HostConn
<1>1. PICK s \in Seq(Unit) : s = inbox[host.conn]
  BY <1>t
<1>2. PICK t : t = inbox'[host.conn]
  OBVIOUS
<1>3. t = s \/ t = s \o units
  BY <1>t, <1>1, <1>2
<1>4. ASSUME NEW i \in 1..Len(t)
      PROVE  (i \in 1..Len(s) /\ t[i] = s[i]) \/ (\E j \in 1..Len(units) : t[i] = units[j])
  <2>1. CASE t = s
    BY <2>1, <1>4
  <2>2. CASE t = s \o units
    <3>1. CASE i \in 1..Len(s)
      BY <2>2, <3>1
    <3>2. CASE i \notin 1..Len(s)
      <4>1. i - Len(s) \in 1..Len(units) /\ t[i] = units[i - Len(s)]
        BY <1>4, <2>2, <3>2
      <4>2. QED
        BY <4>1
    <3>3. QED
      BY <3>1, <3>2
  <2>3. QED
    BY <1>3, <2>1, <2>2
<1>5. ASSUME NEW i \in 1..Len(s), IsProof(s[i])
      PROVE  Proves /\ s[i].msg.proof = Proof(auth.key, "CLIENT", host.conn, host.sn)
  BY <1>1, <1>5 DEF HostInv, OwnProof, IsProof
<1>6. ASSUME NEW i \in 1..Len(t), IsProof(t[i])
      PROVE  Proves' /\ t[i].msg.proof = Proof(auth.key, "CLIENT", host.conn, host'.sn)
  <2>1. CASE i \in 1..Len(s) /\ t[i] = s[i]
    BY <1>5, <1>6, <2>1
  <2>2. CASE \E j \in 1..Len(units) : t[i] = units[j]
    BY <1>6, <2>2
  <2>3. QED
    BY <1>4, <2>1, <2>2
<1>7. QED
  BY <1>2, <1>6 DEF OwnProof, IsProof

\* What the monitor has not read of its connection is what the firmware committed.
LEMMA UnreadIs ==
  ASSUME Inv, HostInv, host.state # "closed", Unread # <<>>
  PROVE  /\ Joined /\ Unread \in Seq(Unit) /\ Len(Unread) = Len(wire) - host.pos
         /\ host.pos \in Nat /\ host.pos < Len(wire) /\ Len(wire) <= Len(staged)
         /\ Head(Unread) = Unread[1] /\ staged \in Seq(Unit)
         /\ \A i \in 1..Len(Unread) : host.pos + i \in 1..Len(staged) /\ Unread[i] = staged[host.pos + i]
<1>1. Joined /\ Unread = DropFirst(wire, host.pos) /\ carrier = host.conn
  BY DEF Unread, Joined
<1>2. /\ wire \in Seq(Unit) /\ staged \in Seq(Unit) /\ host.pos \in Nat /\ host.pos <= Len(wire)
  BY <1>1 DEF Inv, TypeInv, TypeOK, HostInv, HostTypeOK, HostPlace
<1>3. Len(wire) <= Len(staged) /\ \A i \in 1..Len(wire) : wire[i] = staged[i]
  BY DEF Inv, SentInv, WirePrefix
<1>4. PICK p : p = host.pos
  OBVIOUS
<1>5. PICK u : u = Unread
  OBVIOUS
<1>6. p \in Nat /\ p <= Len(wire) /\ u = SubSeq(wire, p + 1, Len(wire)) /\ u # <<>> /\ Len(wire) \in Nat
  BY <1>1, <1>2, <1>4, <1>5 DEF DropFirst
<1>7. /\ u \in Seq(Unit) /\ Len(u) = Len(wire) - p
      /\ \A i \in 1..Len(u) : u[i] = wire[p + i]
  BY <1>2, <1>6
<1>8. p < Len(wire) /\ Head(u) = u[1]
  BY <1>6, <1>7
<1>9. ASSUME NEW i \in 1..Len(u) PROVE p + i \in 1..Len(staged) /\ u[i] = staged[p + i]
  <2>1. p + i \in 1..Len(wire)
    BY <1>6, <1>7
  <2>2. QED
    BY <1>2, <1>3, <1>7, <2>1
<1>10. QED
  BY <1>1, <1>2, <1>3, <1>4, <1>5, <1>7, <1>8, <1>9

\* What a line says.
LEMMA LineIs ==
  ASSUME NEW u \in Unit, u.kind = "line"
  PROVE  /\ u.msg.type = "OK" => u.msg.secure \in BOOLEAN /\ u = OkLine(u.msg.secure)
         /\ u.msg.type = "CHALLENGE" => u.msg.nonce \in Nat
<1>1. u = [kind |-> "line", msg |-> u.msg] /\ u.msg \in Message
  BY DEF Unit
<1>2. u.msg.type = "OK" => u.msg \in [type : {"OK"}, secure : BOOLEAN]
  BY <1>1 DEF Message
<1>3. u.msg.type = "OK" => u.msg.secure \in BOOLEAN /\ u.msg = [type |-> "OK", secure |-> u.msg.secure]
  BY <1>2
<1>4. u.msg.type = "CHALLENGE" => u.msg.nonce \in Nat
  BY <1>1 DEF Message
<1>5. QED
  BY <1>1, <1>3, <1>4 DEF OkLine, Line

\* net.DialTimeout: a connection nobody has used yet.
LEMMA DialKeeps ==
  ASSUME Inv, HostInv, NEW c \in Conn, HostDial(c)
  PROVE  HostInv'
<1>t. link \in [Conn -> {"none", "open", "lost", "closed"}] /\ NoConn \notin Conn
  BY ConstantsAssumption DEF Inv, TypeInv, TypeOK, Conn, NoConn
<1>1. /\ link[c] = "none" /\ link' = [link EXCEPT ![c] = "open"] /\ inbox' = inbox /\ carrier' = carrier
      /\ auth' = auth /\ sent' = 0 /\ got' = <<>>
      /\ host' = [NoHost EXCEPT !.conn = c, !.state = "dialled"]
  BY DEF HostDial, Dial, app
<1>2. /\ host'.conn = c /\ host'.state = "dialled" /\ host'.pos = 0 /\ ~host'.secure /\ host'.rxSeq = 0
      /\ host'.rxPlain = <<>> /\ host'.key = NoSession
  BY <1>1 DEF NoHost
<1>3. HostTypeOK'
  <2>1. got' \in Seq(Nat)
    BY <1>1
  <2>2. QED
    BY <1>1, <2>1, NoHostType DEF HostInv, HostTypeOK
<1>4. HostConn' /\ HostMode'
  BY <1>1, <1>2, <1>t DEF HostConn, HostMode
<1>5. InboxFresh' /\ inbox'[c] = <<>>
  BY <1>1, <1>t DEF HostInv, InboxFresh
<1>6. OwnProof'
  BY <1>2, <1>5 DEF OwnProof
<1>7. ~Joined'
  BY <1>1, <1>2, <1>t DEF Joined, Inv, SentInv, Accepted
<1>8. QED
  BY <1>3, <1>4, <1>5, <1>6, <1>7 DEF HostInv, SameKeys, SealedForHost, HostPlace

\* The HELLO line: a connection on which no proof is under way.
LEMMA HelloKeeps ==
  ASSUME Inv, HostInv, HostHello
  PROVE  HostInv' /\ [AnyNext]_vars
<1> DEFINE units == <<[kind |-> "char"], [kind |-> "eol", msg |-> [type |-> "HELLO", nonce |-> host.conn]]>>
<1>t. TypeInv /\ host.conn \in Conn /\ host.conn \in Nat /\ HostTypeOK
  BY DEF Inv, HostInv, HostConn, HostHello, HostTypeOK, Conn
<1>1. units \in Seq(Unit) /\ Len(units) = 2 /\ \A j \in 1..Len(units) : ~IsProof(units[j])
  <2>1. [type |-> "HELLO", nonce |-> host.conn] \in Message
    BY <1>t DEF Message
  <2>2. [kind |-> "char"] \in Unit /\ [kind |-> "eol", msg |-> [type |-> "HELLO", nonce |-> host.conn]] \in Unit
    BY <2>1 DEF Unit
  <2>3. units \in Seq(Unit) /\ Len(units) = 2
    BY <2>2
  <2>4. ~IsProof(units[1]) /\ ~IsProof(units[2])
    BY DEF IsProof
  <2>5. \A j \in 1..Len(units) : j = 1 \/ j = 2
    BY <2>3
  <2>6. QED
    BY <2>3, <2>4, <2>5
<1>2. /\ host.state = "dialled" /\ PeerSend(host.conn, units)
      /\ host' = [host EXCEPT !.state = "hello"] /\ auth' = auth /\ sent' = sent /\ got' = got
  BY DEF HostHello
<1> HIDE DEF units
<1>3. FirmwareStill /\ InboxFresh' /\ [AnyNext]_vars /\ inbox' = [inbox EXCEPT ![host.conn] = @ \o units]
  BY <1>t, <1>1, <1>2, SendIs
<1>4. /\ host'.conn = host.conn /\ host'.state = "hello" /\ host'.pos = host.pos /\ host'.secure = host.secure
      /\ host'.rxSeq = host.rxSeq /\ host'.rxPlain = host.rxPlain /\ host'.key = host.key /\ HostTypeOK'
  BY <1>t, <1>2 DEF HostTypeOK
<1>5. HostConn' /\ HostMode'
  BY <1>2, <1>3, <1>4, StillIs DEF HostInv, HostConn, HostMode, Waiting, DeriveESPNSKeys
<1>6. ~Proves
  BY <1>2 DEF Proves
<1>7. SameKeys' /\ SealedForHost'
  BY <1>2, <1>3, <1>4, <1>6, SessionGoesOn
<1>8. OwnProof'
  BY <1>t, <1>1, <1>2, <1>3, <1>4, <1>6, ProofsSent
<1>9. HostPlace'
  BY <1>2, <1>3, <1>4, StillIs DEF HostInv, HostPlace, Joined
<1>10. QED
  BY <1>3, <1>4, <1>5, <1>7, <1>8, <1>9 DEF HostInv

\* The line the monitor reads is one the firmware sent.
LEMMA LineSeen ==
  ASSUME Inv, HostInv, NEW state \in {"hello", "auth"}, ReadsLine(state)
  PROVE  /\ host.state = state /\ Joined /\ ~Waiting(host.conn) /\ host.pos < Len(wire)
         /\ host.pos + 1 \in 1..Len(staged) /\ staged[host.pos + 1].msg = LineText
         /\ staged[host.pos + 1] \in Unit /\ staged[host.pos + 1].kind = "line"
         /\ Len(wire) \in Nat /\ host.pos \in Nat
<1>1. host.state = state /\ Unread # <<>> /\ Head(Unread).kind = "line" /\ host.state # "closed"
  BY DEF ReadsLine
<1>2. /\ Joined /\ Unread \in Seq(Unit) /\ Len(Unread) = Len(wire) - host.pos
      /\ host.pos \in Nat /\ host.pos < Len(wire)
      /\ Head(Unread) = Unread[1] /\ staged \in Seq(Unit)
      /\ \A i \in 1..Len(Unread) : host.pos + i \in 1..Len(staged) /\ Unread[i] = staged[host.pos + i]
  BY <1>1, UnreadIs
<1>3. 1 \in 1..Len(Unread)
  BY <1>1, <1>2
<1>4. ~Waiting(host.conn)
  <2>1. carrier = host.conn /\ host.conn # NoConn
    BY <1>2, ConstantsAssumption DEF Joined, HostInv, HostConn, Conn, NoConn
  <2>2. QED
    BY <2>1 DEF Inv, SentInv, Accepted
<1>5. Len(wire) \in Nat
  BY DEF Inv, TypeInv, TypeOK
<1>6. QED
  BY <1>1, <1>2, <1>3, <1>4, <1>5 DEF LineText

\* Without anything new on the connection, the proofs are the same.
LEMMA ProofsKept ==
  ASSUME TypeInv, HostInv, auth' = auth, host.state # "closed", host'.conn = host.conn,
         Proves => Proves' /\ host'.sn = host.sn, inbox' = inbox
  PROVE  OwnProof'
<1>1. <<>> \in Seq(Unit)
  OBVIOUS
<1>2. PICK none \in Seq(Unit) : none = <<>>
  BY <1>1, Zenon
<1>3. \A j \in 1..Len(none) : FALSE
  BY <1>2
<1>4. QED
  BY <1>3, ProofsSent

\* The monitor's place when the handshake ends.
LEMMA PlaceStarts ==
  ASSUME Joined, FirmwareStill, host'.conn = host.conn, host'.state = "ready", got' = <<>>,
         host'.pos = host.pos + 1, host'.rxPlain = <<>>, host'.rxSeq = 0, host'.secure \in BOOLEAN,
         host.pos \in Nat, Len(wire) \in Nat, host.pos < Len(wire),
         host.pos + 1 \in 1..Len(staged), staged[host.pos + 1] = OkLine(host'.secure)
  PROVE  HostPlace'
<1>1. PICK last : last = staged[host.pos + 1]
  OBVIOUS
<1>2. Upto(last) = 0 /\ NextSeq(last) = 0
  BY <1>1 DEF Upto, NextSeq, OkLine, Line
<1>3. /\ staged' = staged /\ wire' = wire /\ host'.pos \in 1..Len(staged) /\ host'.pos <= Len(wire)
      /\ host'.pos >= 1 /\ staged'[host'.pos] = last /\ last = OkLine(host'.secure)
  BY <1>1, StillIs
<1>4. PICK s : s = (got \o host.rxPlain)'
  OBVIOUS
<1>5. Len(s) = 0 /\ FirstBytes(s, 0)
  <2>1. s = <<>>
    BY <1>4
  <2>2. QED
    BY <2>1 DEF FirstBytes
<1>6. QED
  BY <1>2, <1>3, <1>4, <1>5 DEF HostPlace

\* OK without a challenge.
LEMMA RawKeeps ==
  ASSUME Inv, HostInv, HostRaw
  PROVE  HostInv'
<1>t. TypeInv /\ HostTypeOK
  BY DEF Inv, HostInv
<1>1. /\ ReadsLine("hello") /\ AcceptsRaw /\ host' = [host EXCEPT !.state = "ready", !.pos = @ + 1]
      /\ UNCHANGED vars /\ auth' = auth /\ sent' = sent /\ got' = got
  BY DEF HostRaw
<1>2. /\ host.state = "hello" /\ Joined /\ ~Waiting(host.conn) /\ host.pos < Len(wire)
      /\ host.pos + 1 \in 1..Len(staged) /\ staged[host.pos + 1].msg = LineText
      /\ staged[host.pos + 1] \in Unit /\ staged[host.pos + 1].kind = "line"
      /\ Len(wire) \in Nat /\ host.pos \in Nat
  BY <1>1, LineSeen
<1>3. /\ host'.conn = host.conn /\ host'.state = "ready" /\ host'.pos = host.pos + 1
      /\ host'.secure = host.secure /\ host'.rxSeq = host.rxSeq /\ host'.sn = host.sn
      /\ host'.rxPlain = host.rxPlain /\ host'.key = host.key /\ HostTypeOK'
  <2>1. host.pos + 1 \in Nat
    BY <1>2
  <2>2. HostTypeOK'
    BY <1>t, <1>1, <2>1 DEF HostTypeOK
  <2>3. QED
    BY <1>t, <1>1, <2>2 DEF HostTypeOK
<1>4. FirmwareStill /\ inbox' = inbox /\ link' = link /\ backlog' = backlog
  BY <1>1 DEF vars, FirmwareStill, slot, app, output
<1>5. ~host.secure /\ host.secure = FALSE /\ host.rxSeq = 0 /\ host.rxPlain = <<>> /\ got = <<>>
  BY <1>2, <1>t DEF HostInv, HostConn, HostTypeOK
<1>6. HostConn' /\ HostMode' /\ InboxFresh'
  BY <1>1, <1>2, <1>3, <1>4, <1>5
  DEF HostInv, HostConn, HostMode, InboxFresh, Waiting, DeriveESPNSKeys, AcceptsRaw
<1>7. ~Proves /\ host.state # "closed"
  BY <1>2 DEF Proves
<1>8. SameKeys' /\ SealedForHost'
  BY <1>1, <1>3, <1>4, <1>7, SessionGoesOn
<1>9. OwnProof'
  BY <1>t, <1>1, <1>3, <1>4, <1>7, ProofsKept
<1>10. staged[host.pos + 1] = OkLine(FALSE)
  BY <1>1, <1>2, LineIs DEF AcceptsRaw
<1>11. HostPlace'
  BY <1>1, <1>2, <1>3, <1>4, <1>5, <1>10, PlaceStarts
<1>12. QED
  BY <1>3, <1>6, <1>8, <1>9, <1>11 DEF HostInv

\* A challenge is answered: the proof is the first one on the connection.
LEMMA AuthKeeps ==
  ASSUME Inv, HostInv, HostAuth
  PROVE  HostInv' /\ [AnyNext]_vars
<1> DEFINE proof == EspnsHMAC("CLIENT", LineText.nonce)
           units == <<[kind |-> "char"], [kind |-> "eol", msg |-> [type |-> "AUTH", proof |-> proof]]>>
<1>t. TypeInv /\ HostTypeOK
  BY DEF Inv, HostInv
<1>1. /\ ReadsLine("hello") /\ AcceptsChallenge /\ PeerSend(host.conn, units)
      /\ host' = [host EXCEPT !.state = "auth", !.sn = LineText.nonce, !.pos = @ + 1]
      /\ auth' = auth /\ sent' = sent /\ got' = got
  BY DEF HostAuth
<1>2. /\ host.state = "hello" /\ Joined /\ ~Waiting(host.conn) /\ host.pos < Len(wire)
      /\ host.pos + 1 \in 1..Len(staged) /\ staged[host.pos + 1].msg = LineText
      /\ staged[host.pos + 1] \in Unit /\ staged[host.pos + 1].kind = "line"
      /\ Len(wire) \in Nat /\ host.pos \in Nat
  BY <1>1, LineSeen
<1>3. LineText.nonce \in Nat /\ auth.key # NoKey /\ auth.key \in AuthKeys /\ host.conn \in Nat /\ host.conn \in Conn
  BY <1>1, <1>2, LineIs, KeysType DEF AcceptsChallenge, HostInv, HostConn
<1>4. /\ units \in Seq(Unit)
      /\ \A j \in 1..Len(units) : IsProof(units[j]) =>
           units[j].msg.proof = Proof(auth.key, "CLIENT", host.conn, LineText.nonce)
  <2>1. proof \in ProofType /\ proof = Proof(auth.key, "CLIENT", host.conn, LineText.nonce)
    BY <1>3 DEF EspnsHMAC, Proof, ProofType
  <2> HIDE DEF proof
  <2>2. [type |-> "AUTH", proof |-> proof] \in Message
    BY <2>1 DEF Message
  <2>3. [kind |-> "char"] \in Unit /\ [kind |-> "eol", msg |-> [type |-> "AUTH", proof |-> proof]] \in Unit
    BY <2>2 DEF Unit
  <2>4. units \in Seq(Unit) /\ Len(units) = 2
    BY <2>3
  <2>5. ~IsProof(units[1]) /\ units[2].msg.proof = proof
    BY DEF IsProof
  <2>6. \A j \in 1..Len(units) : j = 1 \/ j = 2
    BY <2>4
  <2>7. QED
    BY <2>1, <2>4, <2>5, <2>6
<1> HIDE DEF units
<1>5. FirmwareStill /\ InboxFresh' /\ [AnyNext]_vars /\ inbox' = [inbox EXCEPT ![host.conn] = @ \o units]
  BY <1>t, <1>1, <1>3, <1>4, SendIs
<1>6. /\ host'.conn = host.conn /\ host'.state = "auth" /\ host'.pos = host.pos + 1
      /\ host'.sn = LineText.nonce /\ host'.secure = host.secure /\ host'.rxSeq = host.rxSeq
      /\ host'.rxPlain = host.rxPlain /\ host'.key = host.key /\ HostTypeOK'
  <2>1. PICK n \in Nat : n = LineText.nonce
    BY <1>3
  <2>2. host.pos + 1 \in Nat /\ host' = [host EXCEPT !.state = "auth", !.sn = n, !.pos = @ + 1]
    BY <1>1, <1>2, <2>1
  <2>3. HostTypeOK'
    BY <1>t, <1>1, <2>2 DEF HostTypeOK
  <2>4. QED
    BY <1>t, <2>1, <2>2, <2>3 DEF HostTypeOK
<1>7. ~host.secure /\ host.rxSeq = 0 /\ host.rxPlain = <<>> /\ got = <<>>
  BY <1>2 DEF HostInv, HostConn
<1>8. HostConn' /\ HostMode'
  BY <1>1, <1>2, <1>3, <1>5, <1>6, <1>7, StillIs
  DEF HostInv, HostConn, HostMode, Waiting
<1>9. ~Proves /\ Proves' /\ host.state # "closed"
  BY <1>2, <1>6 DEF Proves
<1>10. SameKeys' /\ SealedForHost'
  BY <1>1, <1>5, <1>6, <1>9, SessionGoesOn
<1>11. OwnProof'
  BY <1>t, <1>1, <1>4, <1>5, <1>6, <1>9, ProofsSent
<1>12. HostPlace'
  BY <1>2, <1>5, <1>6, StillIs DEF HostPlace
<1>13. QED
  BY <1>5, <1>6, <1>8, <1>10, <1>11, <1>12 DEF HostInv

\* The final OK.
LEMMA SecureKeeps ==
  ASSUME Inv, HostInv, HostSecure
  PROVE  HostInv'
<1>t. TypeInv /\ HostTypeOK
  BY DEF Inv, HostInv
<1>1. /\ ReadsLine("auth") /\ LineText.type = "OK" /\ LineText.secure
      /\ host' = [host EXCEPT !.state = "ready", !.secure = TRUE, !.pos = @ + 1, !.key = DeriveESPNSKeys]
      /\ UNCHANGED vars /\ auth' = auth /\ sent' = sent /\ got' = got
  BY DEF HostSecure
<1>2. /\ host.state = "auth" /\ Joined /\ ~Waiting(host.conn) /\ host.pos < Len(wire)
      /\ host.pos + 1 \in 1..Len(staged) /\ staged[host.pos + 1].msg = LineText
      /\ staged[host.pos + 1] \in Unit /\ staged[host.pos + 1].kind = "line"
      /\ Len(wire) \in Nat /\ host.pos \in Nat
  BY <1>1, LineSeen
<1>3. auth.key # NoKey /\ DeriveESPNSKeys \in SessionKey
  BY <1>2, KeysType DEF HostInv, HostMode
<1>4. /\ host'.conn = host.conn /\ host'.state = "ready" /\ host'.pos = host.pos + 1
      /\ host'.secure = TRUE /\ host'.rxSeq = host.rxSeq /\ host'.sn = host.sn
      /\ host'.rxPlain = host.rxPlain /\ host'.key = DeriveESPNSKeys /\ HostTypeOK'
  <2>1. PICK k \in SessionKey : k = DeriveESPNSKeys
    BY <1>3
  <2>2. /\ host.pos + 1 \in Nat
        /\ host' = [host EXCEPT !.state = "ready", !.secure = TRUE, !.pos = @ + 1, !.key = k]
    BY <1>1, <1>2, <2>1
  <2>3. HostTypeOK'
    BY <1>t, <1>1, <2>2 DEF HostTypeOK
  <2>4. QED
    BY <1>t, <2>1, <2>2, <2>3 DEF HostTypeOK
<1>5. FirmwareStill /\ inbox' = inbox /\ link' = link /\ backlog' = backlog
  BY <1>1 DEF vars, FirmwareStill, slot, app, output
<1>6. host.rxSeq = 0 /\ host.rxPlain = <<>> /\ got = <<>>
  BY <1>2 DEF HostInv, HostConn
<1>7. DeriveESPNSKeys' = DeriveESPNSKeys
  BY <1>1, <1>4 DEF DeriveESPNSKeys
<1>8. HostConn' /\ HostMode' /\ InboxFresh'
  BY <1>1, <1>2, <1>3, <1>4, <1>5, <1>6, <1>7
  DEF HostInv, HostConn, HostMode, InboxFresh, Waiting
<1>9. Proves /\ Proves' /\ host.state # "closed"
  BY <1>2, <1>4 DEF Proves
<1>10. SameKeys' /\ SealedForHost'
  BY <1>1, <1>4, <1>5, <1>9, SessionGoesOn
<1>11. OwnProof'
  BY <1>t, <1>1, <1>4, <1>5, <1>9, ProofsKept
<1>12. staged[host.pos + 1] = OkLine(TRUE)
  <2>1. PICK u : u = staged[host.pos + 1]
    OBVIOUS
  <2>2. u = OkLine(u.msg.secure) /\ u.msg.secure \in BOOLEAN /\ u.msg.secure
    BY <1>1, <1>2, <2>1, LineIs
  <2>3. u.msg.secure = TRUE
    BY <2>2
  <2>4. QED
    BY <2>1, <2>2, <2>3
<1>13. HostPlace'
  BY <1>1, <1>2, <1>4, <1>5, <1>6, <1>12, PlaceStarts
<1>14. QED
  BY <1>4, <1>8, <1>10, <1>11, <1>13 DEF HostInv

\* What the monitor writes are units, and none of them is a proof.
LEMMA HostEncodeType ==
  ASSUME HostInv, NEW n \in Nat \ {0}
  PROVE  /\ HostChunk(n) \in Seq(Nat) /\ HostEncode(HostChunk(n)) \in Seq(Unit)
         /\ \A j \in 1..Len(HostEncode(HostChunk(n))) : ~IsProof(HostEncode(HostChunk(n))[j])
<1>1. PICK m : m = Least(n, MaxRecord)
  OBVIOUS
<1>2. m \in Nat
  BY <1>1, ConstantsAssumption DEF Least
<1>3. PICK d : d = HostChunk(n)
  OBVIOUS
<1>4. sent \in Nat /\ host.txSeq \in Nat
  BY ConstantsAssumption DEF HostInv, HostTypeOK
<1>5. d = [i \in 1..m |-> sent + i]
  BY <1>1, <1>3 DEF HostChunk
<1>6. d \in Seq(Nat)
  BY <1>2, <1>4, <1>5
<1>7. PICK c : c = HostEncode(d)
  OBVIOUS
<1>8. c \in Seq(Unit) /\ \A j \in 1..Len(c) : ~IsProof(c[j])
  <2>1. CASE host.secure
    <3>1. host.key \in SessionKey
      BY <2>1, KeysType DEF HostInv, HostMode
    <3>2. c = Seal(host.key, "h2d", host.txSeq, d)
      BY <1>7, <2>1 DEF HostEncode
    <3>3. c \in Seq(Unit) /\ Len(c) = HeaderSize + Len(d) + TagSize
      BY <1>4, <1>6, <3>1, <3>2, SealType
    <3>4. PICK z : z = HeaderSize + Len(d) + TagSize
      OBVIOUS
    <3>5. PICK r : r = [key |-> host.key, dir |-> "h2d", seq |-> host.txSeq, data |-> d]
      OBVIOUS
    <3>6. c = [i \in 1..z |-> [kind |-> "cell", at |-> i, rec |-> r]]
      BY <3>2, <3>4, <3>5 DEF Seal
    <3>7. ASSUME NEW j \in 1..z PROVE ~IsProof(c[j])
      BY <3>6 DEF IsProof
    <3>8. QED
      BY <3>3, <3>4, <3>7
  <2>2. CASE ~host.secure
    <3>1. c = [i \in 1..Len(d) |-> [kind |-> "raw", byte |-> d[i]]]
      BY <1>7, <2>2 DEF HostEncode
    <3>2. c \in Seq(Unit) /\ Len(c) = Len(d)
      BY <1>6, <3>1, RawType
    <3>3. ASSUME NEW j \in 1..Len(d) PROVE ~IsProof(c[j])
      BY <3>1 DEF IsProof
    <3>4. QED
      BY <3>2, <3>3
  <2>3. QED
    BY <2>1, <2>2
<1>9. QED
  BY <1>3, <1>6, <1>7, <1>8

\* Nor is there one among the first k of them.
LEMMA DataSent ==
  ASSUME HostInv, NEW n \in HostWriteSizes, NEW k \in Nat, k <= Len(HostEncode(HostChunk(n))),
         WriteAll(HostEncode(HostChunk(n)), k)
  PROVE  /\ Len(HostChunk(n)) \in Nat
         /\ \E units \in Seq(Unit) : PeerSend(host.conn, units) /\ \A j \in 1..Len(units) : ~IsProof(units[j])
<1>1. n \in Nat \ {0}
  BY HostAssumption
<1>2. HostChunk(n) \in Seq(Nat)
  BY <1>1, HostEncodeType
<1>3. PICK c : c = HostEncode(HostChunk(n))
  OBVIOUS
<1>4. c \in Seq(Unit) /\ \A j \in 1..Len(c) : ~IsProof(c[j])
  BY <1>1, <1>3, HostEncodeType
<1>5. PICK s : s = SubSeq(c, 1, k)
  OBVIOUS
<1>6. k <= Len(c) /\ PeerSend(host.conn, s)
  BY <1>3, <1>5 DEF WriteAll
<1>7. s \in Seq(Unit) /\ \A j \in 1..Len(s) : j \in 1..Len(c) /\ s[j] = c[j]
  <2>1. c \in Seq(Unit) /\ k <= Len(c)
    BY <1>4, <1>6
  <2>2. s \in Seq(Unit) /\ Len(s) = k /\ \A j \in 1..k : s[j] = c[j]
    BY <1>5, <2>1
  <2>3. \A j \in 1..k : j \in 1..Len(c)
    BY <2>1
  <2>4. QED
    BY <2>2, <2>3
<1>8. QED
  BY <1>2, <1>4, <1>6, <1>7

\* A record, or the bytes themselves, written on a connection in use.
LEMMA WriteKeeps ==
  ASSUME Inv, HostInv, NEW n \in HostWriteSizes, HostWrite(n)
  PROVE  HostInv' /\ [AnyNext]_vars
<1>t. TypeInv /\ HostTypeOK /\ n \in Nat \ {0}
  BY HostAssumption DEF Inv, HostInv
<1>1. /\ host.state = "ready" /\ (host.secure => host.txSeq # SeqMax)
      /\ WriteAll(HostEncode(HostChunk(n)), Len(HostEncode(HostChunk(n)))) /\ auth' = auth /\ got' = got
      /\ sent' = sent + Len(HostChunk(n))
      /\ host' = [host EXCEPT !.txSeq = IF host.secure THEN @ + 1 ELSE @]
  BY DEF HostWrite, CanWrite
<1>2. Len(HostEncode(HostChunk(n))) \in Nat /\ Len(HostEncode(HostChunk(n))) <= Len(HostEncode(HostChunk(n)))
  <2>1. HostEncode(HostChunk(n)) \in Seq(Unit)
    BY <1>t, HostEncodeType
  <2>2. PICK c \in Seq(Unit) : c = HostEncode(HostChunk(n))
    BY <2>1
  <2>3. Len(c) \in Nat /\ Len(c) <= Len(c)
    OBVIOUS
  <2>4. QED
    BY <2>2, <2>3
<1>3. /\ Len(HostChunk(n)) \in Nat
      /\ \E units \in Seq(Unit) : PeerSend(host.conn, units) /\ \A j \in 1..Len(units) : ~IsProof(units[j])
  BY <1>1, <1>2, DataSent
<1>4. PICK units \in Seq(Unit) : PeerSend(host.conn, units) /\ \A j \in 1..Len(units) : ~IsProof(units[j])
  BY <1>3
<1>5. host.conn \in Conn
  BY <1>1 DEF HostInv, HostConn
<1>6. FirmwareStill /\ InboxFresh' /\ [AnyNext]_vars /\ inbox' = [inbox EXCEPT ![host.conn] = @ \o units]
  BY <1>t, <1>4, <1>5, SendIs
<1>7. /\ host'.conn = host.conn /\ host'.state = "ready" /\ host'.pos = host.pos
      /\ host'.secure = host.secure /\ host'.rxSeq = host.rxSeq /\ host'.sn = host.sn
      /\ host'.rxPlain = host.rxPlain /\ host'.key = host.key /\ HostTypeOK'
  <2>1. PICK q : q = IF host.secure THEN host.txSeq + 1 ELSE host.txSeq
    OBVIOUS
  <2>2. q \in 0..SeqMax
    <3>1. host.txSeq \in 0..SeqMax /\ SeqMax \in Nat
      BY <1>t, ConstantsAssumption DEF HostTypeOK
    <3>2. host.secure => host.txSeq + 1 \in 0..SeqMax
      BY <1>1, <3>1
    <3>3. QED
      BY <2>1, <3>1, <3>2
  <2>3. host' = [host EXCEPT !.txSeq = q] /\ sent' \in Nat
    BY <1>1, <1>3, <1>t, <2>1 DEF HostTypeOK
  <2>4. QED
    BY <1>t, <1>1, <2>2, <2>3 DEF HostTypeOK
<1>8. HostConn' /\ HostMode'
  BY <1>1, <1>6, <1>7, StillIs DEF HostInv, HostConn, HostMode, Waiting, DeriveESPNSKeys
<1>9. Proves /\ Proves' /\ host.state # "closed"
  BY <1>1, <1>7 DEF Proves
<1>10. SameKeys' /\ SealedForHost'
  BY <1>1, <1>6, <1>7, <1>9, SessionGoesOn
<1>11. OwnProof'
  BY <1>t, <1>1, <1>4, <1>6, <1>7, <1>9, ProofsSent
<1>12. HostPlace'
  BY <1>1, <1>6, <1>7, StillIs DEF HostInv, HostPlace, Joined
<1>13. QED
  BY <1>6, <1>7, <1>8, <1>10, <1>11, <1>12 DEF HostInv

\* A write that failed part-way: the connection is given up.
LEMMA WriteFailsKeeps ==
  ASSUME Inv, HostInv, NEW n \in HostWriteSizes, NEW k \in 0..(HeaderSize + MaxRecord + TagSize),
         HostWriteFails(n, k)
  PROVE  HostInv' /\ [AnyNext]_vars
<1>1. /\ host.state = "ready" /\ k < Len(HostEncode(HostChunk(n)))
      /\ WriteAll(HostEncode(HostChunk(n)), k) /\ auth' = auth /\ got' = got
      /\ sent' = sent + Len(HostChunk(n)) /\ host' = NoHost
  BY DEF HostWriteFails, CanWrite
<1>2. k \in Nat /\ k <= Len(HostEncode(HostChunk(n)))
  <2>1. HostEncode(HostChunk(n)) \in Seq(Unit)
    BY HostEncodeType, HostAssumption
  <2>2. PICK c \in Seq(Unit) : c = HostEncode(HostChunk(n))
    BY <2>1
  <2>3. k \in Nat /\ k <= Len(c)
    BY <1>1, <2>2
  <2>4. QED
    BY <2>2, <2>3
<1>3. /\ Len(HostChunk(n)) \in Nat
      /\ \E units \in Seq(Unit) : PeerSend(host.conn, units) /\ \A j \in 1..Len(units) : ~IsProof(units[j])
  BY <1>1, <1>2, DataSent
<1>4. PICK units \in Seq(Unit) : PeerSend(host.conn, units)
  BY <1>3
<1>5. InboxFresh' /\ [AnyNext]_vars
  BY <1>1, <1>4, SendIs DEF Inv, HostInv, HostConn
<1>6. sent' \in Nat
  BY <1>1, <1>3 DEF HostInv, HostTypeOK
<1>7. QED
  BY <1>1, <1>5, <1>6, HostClosed

\* So are a refused handshake and a connection the monitor closes.
LEMMA CloseKeeps ==
  ASSUME HostInv, HostRefuse \/ HostGivesUp
  PROVE  HostInv'
<1>1. host' = NoHost /\ UNCHANGED vars /\ auth' = auth /\ sent' = sent /\ got' = got
  BY DEF HostRefuse, HostGivesUp
<1>2. InboxFresh' /\ sent' \in Nat
  BY <1>1 DEF HostInv, InboxFresh, HostTypeOK, vars, slot
<1>3. QED
  BY <1>1, <1>2, HostClosed

---------------------------------------------------------------------------
(* What the monitor reads *)

\* The record that has arrived is the one the monitor expects.
LEMMA RecordExpected ==
  ASSUME Inv, HostInv, ReadReady, host.secure, RecordArrived
  PROVE  /\ HostDecrypts /\ NextRecord.data \in Seq(Nat) /\ Len(NextRecord.data) \in 1..MaxRecord
         /\ Joined /\ host.pos \in Nat /\ Len(ArrivedCells) \in Nat \ {0}
         /\ host.pos + Len(ArrivedCells) \in 1..Len(wire)
         /\ LET u == staged[host.pos]
                v == staged[host.pos + Len(ArrivedCells)]
            IN /\ RecordEnd(v) /\ NextSeq(v) = host.rxSeq + 1 /\ v.rec = NextRecord
               /\ Upto(u) \in Nat /\ Upto(v) = Upto(u) + Len(NextRecord.data)
               /\ \A j \in 1..Len(NextRecord.data) : NextRecord.data[j] = Upto(u) + j
<1>1. host.state = "ready" /\ host.state # "closed" /\ Unread # <<>>
  BY DEF ReadReady, RecordArrived
<1>2. /\ Joined /\ Unread \in Seq(Unit) /\ Len(Unread) = Len(wire) - host.pos
      /\ host.pos \in Nat /\ host.pos < Len(wire) /\ Len(wire) <= Len(staged)
      /\ Head(Unread) = Unread[1] /\ staged \in Seq(Unit)
      /\ \A i \in 1..Len(Unread) : host.pos + i \in 1..Len(staged) /\ Unread[i] = staged[host.pos + i]
  BY <1>1, UnreadIs
<1>3. PICK p : p = host.pos
  OBVIOUS
<1>4. PICK u : u = staged[p]
  OBVIOUS
<1>5. PICK v : v = staged[p + 1]
  OBVIOUS
<1>6. /\ p \in 1..Len(staged) /\ p \in 1..(Len(staged) - 1) /\ p + 1 \in 1..Len(staged)
      /\ Len(wire) \in Nat /\ Len(staged) \in Nat
      /\ (u = OkLine(TRUE) \/ RecordEnd(u)) /\ NextSeq(u) = host.rxSeq
  <2>1. host.pos >= 1 /\ (u = OkLine(TRUE) \/ RecordEnd(u)) /\ NextSeq(u) = host.rxSeq
    BY <1>1, <1>2, <1>3, <1>4 DEF HostInv, HostPlace
  <2>2. Len(wire) \in Nat /\ Len(staged) \in Nat
    BY <1>2 DEF Inv, TypeInv, TypeOK
  <2>3. p \in Nat /\ p >= 1 /\ p < Len(wire) /\ Len(wire) <= Len(staged)
    BY <1>2, <1>3, <2>1
  <2>4. p \in 1..Len(staged) /\ p \in 1..(Len(staged) - 1) /\ p + 1 \in 1..Len(staged)
    BY <2>2, <2>3
  <2>5. QED
    BY <2>1, <2>2, <2>4
<1>7. Chained(staged) /\ u \in Unit /\ v \in Unit /\ WellSealed(u, "d2h") /\ WellSealed(v, "d2h") /\ Follows(u, v)
  BY <1>2, <1>4, <1>5, <1>6 DEF Inv, SentInv, Chained
<1>8. Head(Unread) = v
  <2>1. 1 \in 1..Len(Unread)
    BY <1>1, <1>2
  <2>2. QED
    BY <1>2, <1>3, <1>5, <2>1
<1>9. /\ v.kind = "cell" /\ v.at = 1
      /\ v.rec.seq = host.rxSeq /\ Upto(v) = Upto(u) + Len(v.rec.data)
  <2>1. /\ u.kind \in {"line", "cell"}
        /\ u.kind = "line" => u.msg.type = "OK"
        /\ u # OkLine(FALSE)
    BY <1>6 DEF OkLine, Line, RecordEnd
  <2>2. ~(v.kind = "cell" /\ u.kind = "cell" /\ v.rec = u.rec /\ v.at = u.at + 1)
    <3>1. SUFFICES ASSUME v.kind = "cell", u.kind = "cell", v.rec = u.rec, v.at = u.at + 1 PROVE FALSE
      OBVIOUS
    <3>2. u.at = HeaderSize + Len(u.rec.data) + TagSize
      BY <1>6, <3>1 DEF OkLine, Line, RecordEnd
    <3>3. v.at \in 1..(HeaderSize + Len(u.rec.data) + TagSize) /\ Len(u.rec.data) \in Nat
      BY <1>7, <3>1, CellIs DEF WellSealed
    <3>4. QED
      BY <3>1, <3>2, <3>3, ConstantsAssumption
  <2>3. QED
    BY <1>6, <1>7, <2>1, <2>2 DEF Follows
<1>10. PICK r : r = v.rec
  OBVIOUS
<1>11. /\ r \in Record /\ r.data \in Seq(Nat) /\ Len(r.data) \in 1..MaxRecord
       /\ r = [key |-> r.key, dir |-> "d2h", seq |-> host.rxSeq, data |-> r.data]
       /\ \A j \in 1..Len(r.data) : r.data[j] = Upto(v) - Len(r.data) + j
       /\ host.rxSeq # SeqMax
  <2>1. /\ r \in Record /\ r.data \in Seq(Nat) /\ r.seq \in Nat
        /\ r = [key |-> r.key, dir |-> r.dir, seq |-> r.seq, data |-> r.data]
    BY <1>7, <1>9, <1>10, CellIs, ReceivedCell
  <2>2. /\ r.dir = "d2h" /\ r.seq < SeqMax /\ Len(r.data) \in 1..MaxRecord
        /\ \A j \in 1..Len(r.data) : r.data[j] = Upto(v) - Len(r.data) + j
    BY <1>7, <1>9, <1>10 DEF WellSealed
  <2>3. r.seq = host.rxSeq /\ SeqMax \in Nat
    BY <1>9, <1>10, ConstantsAssumption
  <2>4. QED
    BY <2>1, <2>2, <2>3
<1>12. NextRecord = r
  BY <1>8, <1>10 DEF NextRecord
<1>13. PICK z : z = HeaderSize + Len(r.data) + TagSize
  OBVIOUS
<1>14. z \in Nat /\ z >= 1 /\ p + z <= Len(wire) /\ p + z <= Len(staged)
  <2>1. Len(Unread) >= z
    BY <1>12, <1>13 DEF RecordArrived
  <2>2. z \in Nat /\ z >= 1
    BY <1>11, <1>13, ConstantsAssumption
  <2>3. QED
    BY <1>2, <1>3, <1>6, <2>1, <2>2
<1>15. \A i \in 1..z : staged[p + i] = [kind |-> "cell", at |-> i, rec |-> r]
  <2>1. /\ p \in Nat /\ p + 1 <= Len(staged) /\ staged[p + 1].kind = "cell" /\ staged[p + 1].at = 1
        /\ z = HeaderSize + Len(staged[p + 1].rec.data) + TagSize /\ staged[p + 1].rec = r
    BY <1>5, <1>6, <1>9, <1>10, <1>13
  <2>2. \A i \in 1..(Len(staged) - 1) : Follows(staged[i], staged[i + 1])
    BY <1>7 DEF Chained
  <2>3. \A i \in 1..z : staged[p + i] = [kind |-> "cell", at |-> i, rec |-> staged[p + 1].rec]
    <3>1. PICK s : s = staged
      OBVIOUS
    <3>2. s \in Seq(Unit)
      BY <1>2, <3>1
    <3>3. \A i \in 1..(Len(s) - 1) : Follows(s[i], s[i + 1])
      BY <2>2, <3>1
    <3>4. /\ p \in Nat /\ p + 1 <= Len(s) /\ s[p + 1].kind = "cell" /\ s[p + 1].at = 1
          /\ z = HeaderSize + Len(s[p + 1].rec.data) + TagSize
      BY <2>1, <3>1
    <3>5. z \in Nat /\ p + z <= Len(s) /\ z <= HeaderSize + Len(s[p + 1].rec.data) + TagSize
      BY <1>14, <3>1, <3>4
    <3>6. \A i \in 1..z : s[p + i] = [kind |-> "cell", at |-> i, rec |-> s[p + 1].rec]
      BY <3>2, <3>3, <3>4, <3>5, RecordRun
    <3>7. QED
      BY <3>1, <3>6
  <2>4. QED
    BY <2>1, <2>3
<1>16. r.key = host.key
  <2>1. r.key = DeriveESPNSKeys
    BY <1>2, <1>5, <1>6, <1>9, <1>10 DEF HostInv, SealedForHost
  <2>2. QED
    BY <2>1 DEF HostInv, HostMode
<1>17. ArrivedCells = Seal(host.key, "d2h", host.rxSeq, r.data) /\ Len(ArrivedCells) = z
  <2>1. PICK a : a = ArrivedCells
    OBVIOUS
  <2>2. PICK w \in Seq(Unit) : w = Unread
    BY <1>2
  <2>3. a = SubSeq(w, 1, z) /\ z <= Len(w)
    BY <1>12, <1>13, <2>1, <2>2 DEF ArrivedCells, RecordArrived
  <2>4. a = [i \in 1..z |-> w[i]] /\ Len(a) = z
    BY <1>14, <2>3
  <2>5. ASSUME NEW i \in 1..z PROVE w[i] = [kind |-> "cell", at |-> i, rec |-> r]
    <3>1. i \in 1..Len(w)
      BY <1>14, <2>3
    <3>2. w[i] = staged[p + i]
      BY <1>2, <1>3, <2>2, <3>1
    <3>3. QED
      BY <1>15, <3>2
  <2>6. a = [i \in 1..z |-> [kind |-> "cell", at |-> i, rec |-> r]]
    BY <2>4, <2>5
  <2>7. r = [key |-> host.key, dir |-> "d2h", seq |-> host.rxSeq, data |-> r.data]
    BY <1>11, <1>16
  <2>8. QED
    BY <1>13, <2>1, <2>4, <2>6, <2>7 DEF Seal
<1>18. HostDecrypts
  BY <1>11, <1>12, <1>17 DEF HostDecrypts
<1>19. PICK e : e = staged[p + z]
  OBVIOUS
<1>20. e.kind = "cell" /\ e.at = z /\ e.rec = r
  <2>1. z \in 1..z
    BY <1>14
  <2>2. e = [kind |-> "cell", at |-> z, rec |-> r]
    BY <1>15, <1>19, <2>1
  <2>3. QED
    BY <2>2
<1>21. RecordEnd(e) /\ NextSeq(e) = host.rxSeq + 1 /\ Upto(e) = Upto(v)
  BY <1>9, <1>10, <1>13, <1>20 DEF RecordEnd, NextSeq, Upto
<1>22. Upto(u) \in Nat /\ Upto(v) \in Nat
  BY <1>7, UptoType
<1>23. \A j \in 1..Len(r.data) : r.data[j] = Upto(u) + j
  <2>1. SUFFICES ASSUME NEW j \in 1..Len(r.data) PROVE r.data[j] = Upto(u) + j
    OBVIOUS
  <2>2. r.data[j] = Upto(v) - Len(r.data) + j
    BY <1>11
  <2>3. Upto(v) = Upto(u) + Len(r.data) /\ Len(r.data) \in Nat
    BY <1>9, <1>10, <1>11
  <2>4. QED
    BY <1>22, <2>2, <2>3
<1>24. host.pos + Len(ArrivedCells) \in 1..Len(wire)
  BY <1>3, <1>6, <1>14, <1>17
<1>25. u = staged[host.pos] /\ e = staged[host.pos + Len(ArrivedCells)]
  BY <1>3, <1>4, <1>17, <1>12, <1>19
<1>26. e.rec = NextRecord /\ Upto(e) = Upto(u) + Len(NextRecord.data)
  BY <1>9, <1>10, <1>12, <1>20, <1>21
<1>27. Len(ArrivedCells) \in Nat \ {0}
  BY <1>14, <1>17
<1>28. QED
  BY <1>2, <1>11, <1>12, <1>18, <1>21, <1>22, <1>23, <1>24, <1>25, <1>26, <1>27

\* More bytes of the stream.
LEMMA MoreBytes ==
  ASSUME NEW s \in Seq(Nat), NEW n \in Nat, FirstBytes(s, n), Len(s) = n,
         NEW d \in Seq(Nat), \A j \in 1..Len(d) : d[j] = n + j
  PROVE  s \o d \in Seq(Nat) /\ FirstBytes(s \o d, n + Len(d)) /\ Len(s \o d) = n + Len(d)
<1>1. PICK t : t = s \o d
  OBVIOUS
<1>2. t \in Seq(Nat) /\ Len(t) = n + Len(d) /\ Len(d) \in Nat
  <2>1. t \in Seq(Nat) /\ Len(t) = Len(s) + Len(d)
    BY <1>1, ConcatProperties
  <2>2. QED
    BY <2>1
<1>3. ASSUME NEW i \in 1..Len(t) PROVE t[i] = i
  <2>1. CASE i \in 1..n
    BY <1>1, <2>1 DEF FirstBytes
  <2>2. CASE i \notin 1..n
    <3>1. i - n \in 1..Len(d) /\ t[i] = d[i - n]
      BY <1>1, <1>2, <2>2
    <3>2. QED
      BY <3>1
  <2>3. QED
    BY <2>1, <2>2
<1>4. QED
  BY <1>1, <1>2, <1>3 DEF FirstBytes

\* A read of the monitor that leaves its handshake alone keeps all but its place.
LEMMA ReadKeeps ==
  ASSUME Inv, HostInv, host.state = "ready", UNCHANGED vars, auth' = auth, HostTypeOK',
         host'.conn = host.conn, host'.state = host.state, host'.sn = host.sn,
         host'.secure = host.secure, host'.key = host.key, HostPlace'
  PROVE  HostInv'
<1>1. FirmwareStill /\ inbox' = inbox /\ link' = link /\ backlog' = backlog
  BY DEF vars, FirmwareStill, slot, app, output
<1>2. Proves /\ Proves' /\ host.state # "closed"
  BY DEF Proves
<1>3. HostConn' /\ HostMode' /\ InboxFresh'
  BY <1>1 DEF HostInv, HostConn, HostMode, InboxFresh, Waiting, DeriveESPNSKeys
<1>4. SameKeys' /\ SealedForHost'
  BY <1>1, <1>2, SessionGoesOn
<1>5. OwnProof'
  BY <1>1, <1>2, ProofsKept DEF Inv
<1>6. QED
  BY <1>3, <1>4, <1>5 DEF HostInv

\* Bytes read before, bytes read now, bytes left for later.
LEMMA Regroup ==
  ASSUME NEW r \in Seq(Nat), NEW s \in Seq(Nat), NEW t \in Seq(Nat)
  PROVE  (r \o s) \o t = r \o (s \o t)
  BY ConcatAssociative, SMTT(60)

\* Read of the next record.
LEMMA RecordKeeps ==
  ASSUME Inv, HostInv, NEW n \in HostReadSizes, HostRead(n)
  PROVE  HostInv'
<1>t. TypeInv /\ HostTypeOK /\ n \in Nat \ {0}
  BY HostAssumption DEF Inv, HostInv
<1>1. ReadReady /\ host.secure /\ RecordArrived /\ host.state = "ready" /\ host.rxPlain = <<>>
  BY DEF HostRead, ReadReady
<1>2. /\ HostDecrypts /\ NextRecord.data \in Seq(Nat) /\ Len(NextRecord.data) \in 1..MaxRecord
      /\ Joined /\ host.pos \in Nat /\ Len(ArrivedCells) \in Nat \ {0}
      /\ host.pos + Len(ArrivedCells) \in 1..Len(wire)
  BY <1>1, RecordExpected
<1>3. PICK d \in Seq(Nat) : d = NextRecord.data
  BY <1>2
<1>4. PICK m : m = Least(n, Len(d))
  OBVIOUS
<1>5. m \in 1..Len(d)
  <2>1. Len(d) \in Nat /\ Len(d) >= 1
    BY <1>2, <1>3, ConstantsAssumption
  <2>2. QED
    BY <1>t, <1>4, <2>1 DEF Least
<1>6. PICK z \in Nat : z = Len(ArrivedCells) /\ z >= 1
  BY <1>2
<1>7. /\ got' = got \o SubSeq(d, 1, m) /\ auth' = auth /\ sent' = sent /\ UNCHANGED vars
      /\ host' = [host EXCEPT !.rxPlain = DropFirst(d, m), !.rxSeq = @ + 1, !.pos = @ + z]
  BY <1>2, <1>3, <1>4, <1>6 DEF HostRead
<1>8. /\ SubSeq(d, 1, m) \in Seq(Nat) /\ DropFirst(d, m) \in Seq(Nat) /\ got \in Seq(Nat)
      /\ got' \in Seq(Nat)
  <2>1. SubSeq(d, 1, m) \in Seq(Nat) /\ DropFirst(d, m) \in Seq(Nat)
    BY <1>5, DropFirstType
  <2>2. got \in Seq(Nat)
    BY <1>t DEF HostTypeOK
  <2>3. QED
    BY <1>7, <2>1, <2>2
<1>9. host.rxSeq + 1 \in 0..SeqMax /\ host.pos + z \in Nat
  <2>1. host.rxSeq \in 0..SeqMax /\ host.rxSeq # SeqMax /\ SeqMax \in Nat
    BY <1>2, <1>t, ConstantsAssumption DEF HostDecrypts, HostTypeOK
  <2>2. host.rxSeq + 1 \in 0..SeqMax
    BY <2>1
  <2>3. host.pos + z \in Nat
    BY <1>2
  <2>4. QED
    BY <2>2, <2>3
<1>10. /\ host'.conn = host.conn /\ host'.state = host.state /\ host'.sn = host.sn
       /\ host'.secure = host.secure /\ host'.key = host.key /\ host'.pos = host.pos + z
       /\ host'.rxPlain = DropFirst(d, m) /\ host'.rxSeq = host.rxSeq + 1
  BY <1>t, <1>7 DEF HostTypeOK
<1>11. HostTypeOK'
  BY <1>t, <1>7, <1>8, <1>9 DEF HostTypeOK
<1>12. HostPlace'
  <2>1. PICK u : u = staged[host.pos]
    OBVIOUS
  <2>2. PICK v : v = staged[host.pos + z]
    OBVIOUS
  <2>3. /\ RecordEnd(v) /\ NextSeq(v) = host.rxSeq + 1 /\ Upto(u) \in Nat /\ Upto(v) = Upto(u) + Len(d)
        /\ \A j \in 1..Len(d) : d[j] = Upto(u) + j
    BY <1>1, <1>3, <1>6, <2>1, <2>2, RecordExpected
  <2>4. FirstBytes(got, Upto(u)) /\ Len(got) = Upto(u)
    <3>1. got \o host.rxPlain = got
      BY <1>1, <1>8
    <3>2. FirstBytes(got \o host.rxPlain, Upto(u)) /\ Len(got \o host.rxPlain) = Upto(u)
      BY <1>1, <1>2, <2>1 DEF HostInv, HostPlace
    <3>3. QED
      BY <3>1, <3>2
  <2>5. got' \o host'.rxPlain = got \o d
    <3>1. (got \o SubSeq(d, 1, m)) \o DropFirst(d, m) = got \o (SubSeq(d, 1, m) \o DropFirst(d, m))
      BY <1>8, Regroup
    <3>2. SubSeq(d, 1, m) \o DropFirst(d, m) = d
      BY <1>5, SplitSequence
    <3>3. QED
      BY <1>7, <1>10, <3>1, <3>2
  <2>6. FirstBytes(got \o d, Upto(v)) /\ Len(got \o d) = Upto(v)
    BY <1>8, <2>3, <2>4, MoreBytes
  <2>7. FirstBytes(got' \o host'.rxPlain, Upto(v)) /\ Len(got' \o host'.rxPlain) = Upto(v)
    BY <2>5, <2>6
  <2>8. /\ staged' = staged /\ wire' = wire /\ host'.pos <= Len(wire) /\ host'.pos >= 1
        /\ staged'[host'.pos] = v
    BY <1>2, <1>6, <1>7, <1>10, <2>2 DEF vars, output
  <2>9. \E i \in 1..Len(staged) : staged[i] = OkLine(host.secure)
    BY <1>1, <1>2 DEF HostInv, HostPlace
  <2>10. QED
    BY <1>1, <1>10, <2>3, <2>7, <2>8, <2>9 DEF HostPlace
<1>13. QED
  BY <1>1, <1>7, <1>10, <1>11, <1>12, ReadKeeps

\* Read served from the rest of the last record.
LEMMA RestKeeps ==
  ASSUME Inv, HostInv, NEW n \in HostReadSizes, HostReadRest(n)
  PROVE  HostInv'
<1>t. TypeInv /\ HostTypeOK /\ n \in Nat \ {0}
  BY HostAssumption DEF Inv, HostInv
<1>1. PICK d : d = host.rxPlain
  OBVIOUS
<1>2. d \in Seq(Nat) /\ d # <<>> /\ host.state = "ready"
  BY <1>1, <1>t DEF HostTypeOK, HostReadRest
<1>3. PICK m : m = Least(n, Len(d))
  OBVIOUS
<1>4. m \in 1..Len(d)
  <2>1. Len(d) \in Nat /\ Len(d) >= 1
    BY <1>2
  <2>2. QED
    BY <1>t, <1>3, <2>1 DEF Least
<1>5. /\ got' = got \o SubSeq(d, 1, m) /\ auth' = auth /\ sent' = sent /\ UNCHANGED vars
      /\ host' = [host EXCEPT !.rxPlain = DropFirst(d, m)]
  BY <1>1, <1>3 DEF HostReadRest
<1>6. /\ SubSeq(d, 1, m) \in Seq(Nat) /\ DropFirst(d, m) \in Seq(Nat) /\ got \in Seq(Nat)
      /\ got' \in Seq(Nat)
  <2>1. SubSeq(d, 1, m) \in Seq(Nat) /\ DropFirst(d, m) \in Seq(Nat)
    BY <1>2, <1>4, DropFirstType
  <2>2. got \in Seq(Nat)
    BY <1>t DEF HostTypeOK
  <2>3. QED
    BY <1>5, <2>1, <2>2
<1>7. /\ host'.conn = host.conn /\ host'.state = host.state /\ host'.sn = host.sn
      /\ host'.secure = host.secure /\ host'.key = host.key /\ host'.pos = host.pos
      /\ host'.rxPlain = DropFirst(d, m) /\ host'.rxSeq = host.rxSeq
  BY <1>t, <1>5 DEF HostTypeOK
<1>8. HostTypeOK'
  BY <1>t, <1>5, <1>6 DEF HostTypeOK
<1>9. got' \o host'.rxPlain = got \o host.rxPlain
  <2>1. (got \o SubSeq(d, 1, m)) \o DropFirst(d, m) = got \o (SubSeq(d, 1, m) \o DropFirst(d, m))
    BY <1>6, Regroup
  <2>2. SubSeq(d, 1, m) \o DropFirst(d, m) = d
    BY <1>2, <1>4, SplitSequence
  <2>3. QED
    BY <1>1, <1>5, <1>7, <2>1, <2>2
<1>10. wire' = wire /\ staged' = staged /\ Joined' = Joined
  BY <1>5, <1>7 DEF vars, output, Joined, app
<1>11. HostPlace'
  BY <1>7, <1>9, <1>10 DEF HostInv, HostPlace
<1>12. QED
  BY <1>2, <1>5, <1>7, <1>8, <1>11, ReadKeeps

\* Read of an unencrypted connection.
LEMMA BytesKeep ==
  ASSUME Inv, HostInv, NEW n \in HostReadSizes, HostReadRaw(n)
  PROVE  HostInv'
<1>t. TypeInv /\ HostTypeOK /\ n \in Nat \ {0}
  BY HostAssumption DEF Inv, HostInv
<1>1. /\ host.state = "ready" /\ host.state # "closed" /\ host.rxPlain = <<>> /\ ~host.secure
      /\ host.secure = FALSE /\ Unread # <<>>
  BY <1>t DEF HostReadRaw, ReadReady, HostTypeOK
<1>2. /\ Joined /\ Unread \in Seq(Unit) /\ Len(Unread) = Len(wire) - host.pos
      /\ host.pos \in Nat /\ host.pos < Len(wire) /\ Len(wire) <= Len(staged)
      /\ Head(Unread) = Unread[1] /\ staged \in Seq(Unit)
      /\ \A i \in 1..Len(Unread) : host.pos + i \in 1..Len(staged) /\ Unread[i] = staged[host.pos + i]
  BY <1>1, UnreadIs
<1>3. PICK w \in Seq(Unit) : w = Unread
  BY <1>2
<1>4. PICK m : m = Least(n, Len(w))
  OBVIOUS
<1>5. m \in 1..Len(w) /\ Len(w) \in Nat
  <2>1. Len(w) \in Nat /\ Len(w) >= 1
    BY <1>1, <1>3
  <2>2. QED
    BY <1>t, <1>4, <2>1 DEF Least
<1>6. PICK d : d = [i \in 1..m |-> ByteOf(w[i])]
  OBVIOUS
<1>7. /\ got' = got \o d /\ auth' = auth /\ sent' = sent /\ UNCHANGED vars
      /\ host' = [host EXCEPT !.pos = @ + m]
  BY <1>3, <1>4, <1>6 DEF HostReadRaw
<1>8. PICK p : p = host.pos
  OBVIOUS
<1>9. PICK u : u = staged[p]
  OBVIOUS
<1>10. p \in 1..Len(staged) /\ (u = OkLine(FALSE) \/ u.kind = "raw") /\ Chained(staged) /\ p + m <= Len(wire)
       /\ p + m <= Len(staged) /\ p >= 1
  <2>1. host.pos >= 1 /\ (u = OkLine(FALSE) \/ u.kind = "raw")
    BY <1>1, <1>2, <1>8, <1>9 DEF HostInv, HostPlace
  <2>2. Len(wire) \in Nat /\ Len(staged) \in Nat
    BY DEF Inv, TypeInv, TypeOK
  <2>3. /\ p \in Nat /\ p >= 1 /\ p < Len(wire) /\ Len(wire) <= Len(staged)
        /\ Len(w) = Len(wire) - p
    BY <1>2, <1>3, <1>8, <2>1
  <2>4. p \in 1..Len(staged) /\ p + m <= Len(wire) /\ p + m <= Len(staged)
    BY <1>5, <2>2, <2>3
  <2>5. QED
    BY <2>1, <2>3, <2>4 DEF Inv, SentInv
<1>a. \A i \in 1..(Len(staged) - p) :
        staged[p + i].kind = "raw" /\ staged[p + i].byte = Upto(u) + i /\ Upto(staged[p + i]) = Upto(u) + i
  BY <1>2, <1>9, <1>10, RawRun
<1>11. ASSUME NEW i \in 1..m
       PROVE  /\ w[i] = staged[p + i] /\ w[i].kind = "raw" /\ w[i].byte = Upto(u) + i
              /\ Upto(w[i]) = Upto(u) + i
  <2>1. i \in 1..Len(w) /\ i \in 1..(Len(staged) - p)
    BY <1>5, <1>10, <1>2
  <2>2. w[i] = staged[p + i]
    BY <1>2, <1>3, <1>8, <2>1
  <2>3. QED
    BY <1>a, <2>1, <2>2
<1>12. Upto(u) \in Nat
  BY <1>2, <1>9, <1>10, UptoType DEF Chained
<1>13. d \in Seq(Nat) /\ Len(d) = m /\ \A j \in 1..Len(d) : d[j] = Upto(u) + j
  <2>1. ASSUME NEW i \in 1..m PROVE ByteOf(w[i]) = Upto(u) + i /\ ByteOf(w[i]) \in Nat
    BY <1>11, <1>12 DEF ByteOf
  <2>2. QED
    BY <1>5, <1>6, <2>1
<1>14. got \in Seq(Nat) /\ got' \in Seq(Nat) /\ host.pos + m \in Nat
  <2>1. got \in Seq(Nat)
    BY <1>t DEF HostTypeOK
  <2>2. got' \in Seq(Nat)
    BY <1>7, <1>13, <2>1
  <2>3. host.pos + m \in Nat
    BY <1>2, <1>5
  <2>4. QED
    BY <2>1, <2>2, <2>3
<1>15. /\ host'.conn = host.conn /\ host'.state = host.state /\ host'.sn = host.sn
       /\ host'.secure = host.secure /\ host'.key = host.key /\ host'.pos = p + m
       /\ host'.rxPlain = <<>> /\ host'.rxSeq = host.rxSeq
  BY <1>t, <1>1, <1>7, <1>8 DEF HostTypeOK
<1>16. HostTypeOK'
  BY <1>t, <1>7, <1>14 DEF HostTypeOK
<1>17. HostPlace'
  <2>1. PICK v : v = staged[p + m]
    OBVIOUS
  <2>2. v.kind = "raw" /\ Upto(v) = Upto(u) + Len(d)
    <3>1. m \in 1..m
      BY <1>5
    <3>2. w[m] = v /\ w[m].kind = "raw" /\ Upto(w[m]) = Upto(u) + m
      BY <1>11, <2>1, <3>1
    <3>3. QED
      BY <1>13, <3>2
  <2>3. FirstBytes(got, Upto(u)) /\ Len(got) = Upto(u)
    <3>1. got \o host.rxPlain = got
      BY <1>1, <1>14
    <3>2. FirstBytes(got \o host.rxPlain, Upto(u)) /\ Len(got \o host.rxPlain) = Upto(u)
      BY <1>1, <1>2, <1>8, <1>9 DEF HostInv, HostPlace
    <3>3. QED
      BY <3>1, <3>2
  <2>4. FirstBytes(got \o d, Upto(v)) /\ Len(got \o d) = Upto(v)
    <3>1. PICK b \in Nat : b = Upto(u)
      BY <1>12
    <3>2. FirstBytes(got, b) /\ Len(got) = b /\ \A j \in 1..Len(d) : d[j] = b + j
      BY <1>13, <2>3, <3>1
    <3>3. FirstBytes(got \o d, b + Len(d)) /\ Len(got \o d) = b + Len(d)
      BY <1>13, <1>14, <3>2, MoreBytes
    <3>4. QED
      BY <2>2, <3>1, <3>3
  <2>5. got' \o host'.rxPlain = got \o d
    <3>1. PICK t \in Seq(Nat) : t = got'
      BY <1>14
    <3>2. t \o <<>> = t
      OBVIOUS
    <3>3. QED
      BY <1>7, <1>15, <3>1, <3>2
  <2>6. FirstBytes(got' \o host'.rxPlain, Upto(v)) /\ Len(got' \o host'.rxPlain) = Upto(v)
    BY <2>4, <2>5
  <2>7. /\ staged' = staged /\ wire' = wire /\ host'.pos <= Len(wire) /\ host'.pos >= 1
        /\ staged'[host'.pos] = v
    BY <1>5, <1>7, <1>10, <1>15, <2>1 DEF vars, output
  <2>8. \E i \in 1..Len(staged) : staged[i] = OkLine(host.secure)
    BY <1>1, <1>2 DEF HostInv, HostPlace
  <2>9. QED
    BY <1>1, <1>15, <2>2, <2>6, <2>7, <2>8 DEF HostPlace
<1>18. QED
  BY <1>1, <1>7, <1>15, <1>16, <1>17, ReadKeeps

---------------------------------------------------------------------------
(* The theorems *)

\* The inductive invariant of the link.
Both == Inv /\ HostInv

LEMMA InitBoth == LinkInit => Both
<1> SUFFICES ASSUME LinkInit PROVE Both
  OBVIOUS
<1>1. Inv
  BY InitInv DEF LinkInit
<1>2. /\ host = NoHost /\ sent = 0 /\ got = <<>> /\ auth \in [key : AuthKeys \cup {NoKey}, allow : BOOLEAN]
      /\ link = [c \in Conn |-> "none"] /\ inbox = [c \in Conn |-> <<>>]
  BY DEF LinkInit, Init
<1>3. /\ host.state = "closed" /\ ~host.secure /\ host.key = NoSession
      /\ host.rxSeq = 0 /\ host.rxPlain = <<>>
  BY <1>2 DEF NoHost
<1>4. HostTypeOK
  <2>1. got \in Seq(Nat)
    BY <1>2
  <2>2. QED
    BY <1>2, <2>1, NoHostType DEF HostTypeOK
<1>5. HostConn /\ HostMode /\ InboxFresh
  BY <1>2, <1>3 DEF HostConn, HostMode, InboxFresh
<1>6. OwnProof /\ SameKeys /\ SealedForHost /\ HostPlace
  BY <1>3 DEF OwnProof, SameKeys, SealedForHost, HostPlace, Joined
<1>7. QED
  BY <1>1, <1>4, <1>5, <1>6 DEF Both, HostInv

\* One step for each thing the monitor does, and one for all the firmware does.
LEMMA NextBoth == Both /\ [LinkNext]_allVars => Both' /\ [AnyNext]_vars
<1> SUFFICES ASSUME Inv, HostInv, [LinkNext]_allVars PROVE Both' /\ [AnyNext]_vars
  BY DEF Both
<1>0. ASSUME [AnyNext]_vars, Inv' => HostInv' PROVE Both' /\ [AnyNext]_vars
  BY <1>0, NextInv DEF Both
<1>u. UNCHANGED vars => [AnyNext]_vars
  OBVIOUS
<1>1. ASSUME NEW c \in Conn, HostDial(c) PROVE Both' /\ [AnyNext]_vars
  <2>1. [AnyNext]_vars
    BY <1>1 DEF HostDial, AnyNext, NetworkNext
  <2>2. QED
    BY <1>0, <1>1, <2>1, DialKeeps
<1>2. CASE HostHello
  BY <1>0, <1>2, HelloKeeps
<1>3. CASE HostRaw
  BY <1>0, <1>u, <1>3, RawKeeps DEF HostRaw
<1>4. CASE HostAuth
  BY <1>0, <1>4, AuthKeeps
<1>5. CASE HostSecure
  BY <1>0, <1>u, <1>5, SecureKeeps DEF HostSecure
<1>6. CASE HostRefuse \/ HostGivesUp
  BY <1>0, <1>u, <1>6, CloseKeeps DEF HostRefuse, HostGivesUp
<1>7. ASSUME NEW n \in HostWriteSizes, HostWrite(n) PROVE Both' /\ [AnyNext]_vars
  BY <1>0, <1>7, WriteKeeps
<1>8. ASSUME NEW n \in HostWriteSizes, NEW k \in 0..(HeaderSize + MaxRecord + TagSize), HostWriteFails(n, k)
      PROVE  Both' /\ [AnyNext]_vars
  BY <1>0, <1>8, WriteFailsKeeps
<1>9. ASSUME NEW n \in HostReadSizes, HostRead(n) PROVE Both' /\ [AnyNext]_vars
  BY <1>0, <1>u, <1>9, RecordKeeps DEF HostRead
<1>10. ASSUME NEW n \in HostReadSizes, HostReadRest(n) PROVE Both' /\ [AnyNext]_vars
  BY <1>0, <1>u, <1>10, RestKeeps DEF HostReadRest
<1>11. ASSUME NEW n \in HostReadSizes, HostReadRaw(n) PROVE Both' /\ [AnyNext]_vars
  BY <1>0, <1>u, <1>11, BytesKeep DEF HostReadRaw
<1>12. CASE DeviceStep
  <2>1. [AnyNext]_vars
    BY <1>12 DEF DeviceStep, AnyNext, NetworkNext
  <2>2. QED
    BY <1>0, <1>12, <2>1, DeviceKeeps
<1>13. CASE HostNext
  BY <1>1, <1>2, <1>3, <1>4, <1>5, <1>6, <1>7, <1>8, <1>9, <1>10, <1>11, <1>13 DEF HostNext
<1>14. QED
  BY <1>12, <1>13 DEF LinkNext, DeviceStep, allVars

LEMMA BothInvariant == LinkSpec => []Both
  BY InitBoth, NextBoth, PTL DEF LinkSpec

\* The variables of both ends have their types.
THEOREM LinkTypes == LinkSpec => [](TypeOK /\ HostTypeOK)
<1>1. Both => TypeOK /\ HostTypeOK
  BY DEF Both, Inv, TypeInv, HostInv
<1>2. QED
  BY <1>1, BothInvariant, PTL

\* Two ends that both call one connection ready use the same mode and keys.
LEMMA EndsMatch ==
  ASSUME Both, host.state = "ready", Live, client = host.conn
  PROVE  Joined /\ proto.ready /\ host.secure = proto.secure /\ host.key = proto.key
<1>1. Joined
  BY DEF Both, Inv, SentInv, Accepted, Joined, Live
<1>2. PICK i \in 1..Len(staged) : staged[i] = OkLine(host.secure)
  BY <1>1 DEF Both, HostInv, HostPlace
<1>3. proto.ready /\ OkLine(host.secure) = OkLine(proto.secure)
  <2>1. staged[i].kind = "line" /\ staged[i].msg.type = "OK"
    BY <1>2 DEF OkLine, Line
  <2>2. QED
    BY <1>2, <2>1 DEF Both, Inv, SentInv, OkMeansReady, Handshaking
<1>4. OkLine(host.secure).msg.secure = host.secure /\ OkLine(proto.secure).msg.secure = proto.secure
  BY DEF OkLine, Line
<1>5. host.secure = proto.secure
  BY <1>3, <1>4
<1>6. host.key = proto.key
  <2>1. CASE proto.secure
    BY <1>1, <1>3, <1>5, <2>1 DEF Both, HostInv, SameKeys, HostMode
  <2>2. CASE ~proto.secure
    BY <1>5, <2>2 DEF Both, HostInv, HostMode, Inv, SentInv, RawHasNoKey
  <2>3. QED
    BY <2>1, <2>2
<1>7. QED
  BY <1>1, <1>3, <1>5, <1>6

\* When both ends call a connection ready they use the same mode and the same
\* keys: HMAC proofs and nonces bind the two handshakes to each other.
THEOREM EndsOfOneSession == LinkSpec => []EndsAgree
<1>1. Both => EndsAgree
  BY EndsMatch DEF EndsAgree, Session
<1>2. QED
  BY <1>1, BothInvariant, PTL

---------------------------------------------------------------------------
(* Whose challenge the monitor answers *)

IsChallenge(u) == u.kind = "line" /\ u.msg.type = "CHALLENGE"
ChallengeOf(u, k, cn, sn) == /\ IsChallenge(u) /\ u.msg.nonce = sn
                             /\ u.msg.proof = Proof(k, "SERVER", cn, sn)

\* The firmware answers one HELLO in a connection, so the only challenge in its
\* stream is the one its nonces and key are of.
OneChallenge ==
  /\ Handshaking /\ proto.hs = "WaitingHello" => staged = <<>>
  /\ Live => \A i \in 1..Len(staged) :
       IsChallenge(staged[i]) => ChallengeOf(staged[i], authKey, proto.cn, proto.sn)

\* The monitor has gone on after a challenge with the proof of its own key.
Asked ==
  Joined /\ (host.state = "auth" \/ host.secure) =>
    \E i \in 1..Len(staged) : ChallengeOf(staged[i], auth.key, host.conn, host.sn)

\* A line that is no challenge, or a stream without one before it, keeps the
\* stream to one.
LEMMA ChallengeSent ==
  ASSUME NEW s \in Seq(Unit), NEW u, NEW k, NEW cn, NEW sn,
         \A i \in 1..Len(s) : IsChallenge(s[i]) => ChallengeOf(s[i], k, cn, sn),
         IsChallenge(u) => ChallengeOf(u, k, cn, sn)
  PROVE  \A i \in 1..Len(Append(s, u)) :
           IsChallenge(Append(s, u)[i]) => ChallengeOf(Append(s, u)[i], k, cn, sn)
<1>1. /\ Len(Append(s, u)) = Len(s) + 1 /\ Append(s, u)[Len(s) + 1] = u /\ Len(s) \in Nat
      /\ \A i \in 1..Len(s) : Append(s, u)[i] = s[i]
  OBVIOUS
<1>2. ASSUME NEW i \in 1..Len(Append(s, u)) PROVE i = Len(s) + 1 \/ i \in 1..Len(s)
  BY <1>1, <1>2
<1>3. QED
  BY <1>1, <1>2, Zenon

LEMMA OneChallengeKept ==
  ASSUME Inv, Inv', OneChallenge, [AnyNext]_vars
  PROVE  OneChallenge'
<1>t. /\ proto \in ProtoType /\ staged \in Seq(Unit) /\ TypeInv /\ TypeOK /\ LinkInv
      /\ proto.ready <=> proto.hs = "Ready"
  BY DEF Inv, TypeInv, TypeOK, SessionInv, HsReady
<1>1. CASE AcceptClient
  BY <1>1 DEF AcceptClient, OneChallenge
<1>2. CASE ~Live'
  BY <1>2 DEF OneChallenge, Handshaking
<1> SUFFICES ASSUME ~AcceptClient, Live' PROVE OneChallenge'
  BY <1>1, <1>2
<1>3. Live /\ client' = client
  BY <1>t, LiveStable
<1>k. ASSUME authKey' = authKey, proto'.cn = proto.cn, proto'.sn = proto.sn,
             NEW u, staged' = Append(staged, u), ~IsChallenge(u), ~(proto'.hs = "WaitingHello")
      PROVE  OneChallenge'
  <2>1. \A i \in 1..Len(staged) :
           IsChallenge(staged[i]) => ChallengeOf(staged[i], authKey, proto.cn, proto.sn)
    BY <1>3 DEF OneChallenge
  <2>2. \A i \in 1..Len(staged') :
           IsChallenge(staged'[i]) => ChallengeOf(staged'[i], authKey, proto.cn, proto.sn)
    BY <1>t, <1>k, <2>1, ChallengeSent, Zenon
  <2>3. QED
    BY <1>k, <2>2 DEF OneChallenge
<1>4. CASE Quiet
  <2>1. authKey' = authKey
    BY <1>3, <1>4 DEF Quiet
  <2>2. QED
    BY <1>3, <1>4, <2>1 DEF Quiet, OneChallenge, Handshaking
<1>5. CASE Closed
  BY <1>t, <1>5, CloseType DEF Closed
<1>6. CASE Reads
  <2>1. ASSUME proto' = [proto EXCEPT !.line = @ + 1], staged' = staged, authKey' = authKey
        PROVE  OneChallenge'
    <3>1. proto'.cn = proto.cn /\ proto'.sn = proto.sn /\ proto'.hs = proto.hs /\ proto'.ready = proto.ready
      BY <1>t, <2>1 DEF ProtoType
    <3>2. QED
      BY <1>3, <2>1, <3>1 DEF OneChallenge, Handshaking
  <2>2. ASSUME NEW secure \in BOOLEAN, SendControlLine([type |-> "OK", secure |-> secure], TRUE),
               proto' = ReadyState(IF secure THEN [DeriveSessionKeys(proto) EXCEPT !.secure = TRUE]
                                             ELSE proto),
               authKey' = authKey
        PROVE  OneChallenge'
    <3>1. proto'.cn = proto.cn /\ proto'.sn = proto.sn /\ proto'.hs = "Ready"
      BY <1>t, <2>2 DEF ProtoType, ReadyState, DeriveSessionKeys
    <3>2. staged' = Append(staged, OkLine(secure)) /\ ~IsChallenge(OkLine(secure))
      BY <2>2 DEF SendControlLine, OkLine, Line, IsChallenge
    <3>3. QED
      BY <1>k, <2>2, <3>1, <3>2
  <2>3. ASSUME NEW cn, proto.hs = "WaitingHello", proto' = ChallengeState(cn, nonceCount'),
               SendControlLine([type |-> "CHALLENGE", nonce |-> nonceCount',
                                proof |-> Proof(authKey, "SERVER", cn, nonceCount')], TRUE),
               authKey' = authKey
        PROVE  OneChallenge'
    <3>1. staged = <<>>
      BY <1>3, <1>6, <2>3 DEF OneChallenge, Reads
    <3>2. PICK m : m = [type |-> "CHALLENGE", nonce |-> nonceCount',
                        proof |-> Proof(authKey, "SERVER", cn, nonceCount')]
      OBVIOUS
    <3>3. staged' = <<Line(m)>>
      BY <2>3, <3>1, <3>2 DEF SendControlLine
    <3>4. proto'.cn = cn /\ proto'.sn = nonceCount' /\ proto'.hs = "WaitingAuth"
      BY <1>t, <2>3 DEF ProtoType, ChallengeState
    <3>5. ChallengeOf(Line(m), authKey', proto'.cn, proto'.sn)
      BY <2>3, <3>2, <3>4 DEF ChallengeOf, IsChallenge, Line
    <3>6. \A i \in 1..Len(staged') : staged'[i] = Line(m)
      BY <3>3
    <3>7. QED
      BY <3>4, <3>5, <3>6 DEF OneChallenge
  <2>4. QED
    <3>1. CASE authKey = NoKey /\ proto' = ReadyState(proto)
               /\ SendControlLine([type |-> "OK", secure |-> FALSE], TRUE)
      BY <1>6, <2>2, <3>1 DEF Reads
    <3>2. CASE /\ proto' = ReadyState([DeriveSessionKeys(proto) EXCEPT !.secure = TRUE])
               /\ SendControlLine([type |-> "OK", secure |-> TRUE], TRUE)
      BY <1>6, <2>2, <3>2 DEF Reads
    <3>3. QED
      BY <1>6, <2>1, <2>3, <3>1, <3>2 DEF Reads
<1>7. CASE Receives \/ Sends \/ WriteStage
  <2>1. /\ authKey' = authKey /\ proto'.sn = proto.sn /\ proto'.hs = proto.hs /\ proto'.ready = proto.ready
        /\ proto'.cn = proto.cn
    <3>1. proto'.cn = proto.cn
      BY <1>t, <1>7 DEF Receives, Sends, WriteStage, DrainSend, ProtoType
    <3>2. QED
      BY <1>t, <1>7, <3>1, SessionKept
  <2>2. CASE Receives \/ Sends
    <3>1. staged' = staged
      BY <2>2 DEF Receives, Sends
    <3>2. QED
      BY <1>3, <2>1, <3>1 DEF OneChallenge, Handshaking
  <2>3. CASE WriteStage
    <3>1. proto.ready /\ Chunk \in Seq(Nat) /\ Len(Chunk) <= MaxRecord /\ staged' = staged \o Encode(Chunk)
      BY <2>3, ChunkType, ConstantsAssumption
      DEF WriteStage, Inv, SessionInv, LoopReady, TypeInv, CallShape
    <3>2. PICK u \in Seq(Unit) : u = Encode(Chunk)
      BY <1>t, <3>1, EncodeType
    <3>3. \A i \in 1..Len(u) : u[i].kind \in {"cell", "raw"}
      <4>1. CASE proto.secure
        <5>1. PICK z : z = HeaderSize + Len(Chunk) + TagSize
          OBVIOUS
        <5>2. u = [i \in 1..z |-> [kind |-> "cell", at |-> i,
                     rec |-> [key |-> proto.key, dir |-> "d2h", seq |-> proto.txSeq, data |-> Chunk]]]
              /\ z \in Nat
          BY <3>1, <3>2, <4>1, <5>1, ConstantsAssumption DEF Encode, Seal
        <5>3. QED
          BY <5>2
      <4>2. CASE ~proto.secure
        BY <3>1, <3>2, <4>2 DEF Encode
      <4>3. QED
        BY <4>1, <4>2
    <3>4. \A i \in 1..Len(staged') : (i \in 1..Len(staged) /\ staged'[i] = staged[i])
                                      \/ staged'[i].kind \in {"cell", "raw"}
      BY <1>t, <3>1, <3>2, <3>3
    <3>5. \A i \in 1..Len(staged') : IsChallenge(staged'[i]) => i \in 1..Len(staged) /\ staged'[i] = staged[i]
      BY <3>4 DEF IsChallenge
    <3>6. QED
      BY <1>3, <2>1, <3>1, <3>5 DEF OneChallenge, Handshaking
  <2>4. QED
    BY <1>7, <2>2, <2>3
<1>8. QED
  BY <1>t, <1>4, <1>5, <1>6, <1>7, ProtoEffect

LEMMA AskedKept ==
  ASSUME Both, Both', Asked, [LinkNext]_allVars, [AnyNext]_vars
  PROVE  Asked'
<1>t. Inv /\ HostInv /\ Inv' /\ HostInv' /\ staged \in Seq(Unit) /\ staged' \in Seq(Unit) /\ host \in
        [conn : Conn \cup {NoConn}, state : {"closed", "dialled", "hello", "auth", "ready"},
         sn : Nat, secure : BOOLEAN, key : SessionKey \cup {NoSession},
         txSeq : 0..SeqMax, rxSeq : 0..SeqMax, rxPlain : Seq(Nat), pos : Nat]
  BY DEF Both, Inv, TypeInv, TypeOK, HostInv, HostTypeOK
<1>n. ASSUME host' = NoHost PROVE Asked'
  BY <1>n DEF NoHost, Asked, Joined
<1>e. ASSUME host'.state \in {"dialled", "hello"} \/ (host'.state = "ready" /\ ~host'.secure) PROVE Asked'
  BY <1>t, <1>e DEF Asked, HostInv, HostConn
<1>s. ASSUME FirmwareStill, auth' = auth, host'.conn = host.conn, host'.state = host.state,
             host'.sn = host.sn, host'.secure = host.secure
      PROVE  Asked'
  BY <1>s, StillIs DEF Asked, Joined
<1>f. UNCHANGED vars => FirmwareStill
  BY DEF vars, FirmwareStill, slot, app, output
<1>1. ASSUME NEW c \in Conn, HostDial(c) PROVE Asked'
  BY <1>1, <1>e DEF HostDial, NoHost
<1>2. CASE HostHello
  BY <1>2, <1>e, <1>t DEF HostHello
<1>3. CASE HostRaw
  <2>1. host.state = "hello" /\ ~host.secure
    BY <1>t, <1>3 DEF HostRaw, ReadsLine, HostInv, HostConn
  <2>2. QED
    BY <1>3, <1>e, <1>t, <2>1 DEF HostRaw
<1>4. CASE HostAuth
  <2>1. /\ ReadsLine("hello") /\ AcceptsChallenge /\ auth' = auth
        /\ host' = [host EXCEPT !.state = "auth", !.sn = LineText.nonce, !.pos = @ + 1]
    BY <1>4 DEF HostAuth
  <2>2. PICK i \in 1..Len(staged) : staged[i].msg = LineText /\ staged[i].kind = "line"
    BY <1>t, <2>1, LineSeen
  <2>3. ChallengeOf(staged[i], auth.key, host.conn, LineText.nonce)
    BY <2>1, <2>2 DEF AcceptsChallenge, ChallengeOf, IsChallenge, EspnsHMAC
  <2>4. staged' = staged /\ host'.conn = host.conn /\ host'.sn = LineText.nonce
    BY <1>t, <1>4, <2>1 DEF HostAuth, PeerSend, output
  <2>5. QED
    BY <2>1, <2>2, <2>3, <2>4 DEF Asked
<1>5. CASE HostSecure
  <2>1. /\ host.state = "auth" /\ auth' = auth /\ FirmwareStill
        /\ host' = [host EXCEPT !.state = "ready", !.secure = TRUE, !.pos = @ + 1, !.key = DeriveESPNSKeys]
    BY <1>5, <1>f DEF HostSecure, ReadsLine
  <2>2. host'.conn = host.conn /\ host'.sn = host.sn
    BY <1>t, <2>1
  <2>3. QED
    BY <2>1, <2>2, StillIs DEF Asked, Joined
<1>6. CASE HostRefuse \/ HostGivesUp
  BY <1>6, <1>n DEF HostRefuse, HostGivesUp
<1>7. ASSUME NEW n \in HostWriteSizes, HostWrite(n) PROVE Asked'
  <2>1. FirmwareStill /\ auth' = auth
    BY <1>7 DEF HostWrite, WriteAll, PeerSend, FirmwareStill, app, output
  <2>2. /\ host'.conn = host.conn /\ host'.state = host.state
        /\ host'.sn = host.sn /\ host'.secure = host.secure
    BY <1>7, <1>t DEF HostWrite
  <2>3. QED
    BY <1>s, <2>1, <2>2
<1>8. ASSUME NEW n \in HostWriteSizes, NEW k \in 0..(HeaderSize + MaxRecord + TagSize), HostWriteFails(n, k)
      PROVE  Asked'
  BY <1>8, <1>n DEF HostWriteFails
<1>9. ASSUME NEW n \in HostReadSizes, HostRead(n) \/ HostReadRest(n) \/ HostReadRaw(n) PROVE Asked'
  <2>1. CASE host' = NoHost
    BY <1>n, <2>1
  <2>2. CASE host' # NoHost
    <3>1. FirmwareStill /\ auth' = auth
      BY <1>9, <1>f DEF HostRead, HostReadRest, HostReadRaw
    <3>2. /\ host'.conn = host.conn /\ host'.state = host.state
          /\ host'.sn = host.sn /\ host'.secure = host.secure
      BY <1>9, <1>t, <2>2 DEF HostRead, HostReadRest, HostReadRaw
    <3>3. QED
      BY <1>s, <3>1, <3>2
  <2>3. QED
    BY <2>1, <2>2
<1>10. CASE DeviceStep
  <2>1. host' = host /\ auth' = auth
    BY <1>10 DEF DeviceStep, hostVars
  <2>2. CASE AcceptClient
    <3>1. CASE Joined' /\ (host.state = "auth" \/ host.secure)
      <4>1. backlog # <<>> /\ host.conn = Head(backlog)
        BY <2>1, <2>2, <3>1 DEF AcceptClient, Joined
      <4>2. Waiting(host.conn)
        <5>1. backlog \in Seq(Conn)
          BY <1>t DEF Inv, TypeInv, TypeOK
        <5>2. 1 \in 1..Len(backlog) /\ backlog[1] = Head(backlog)
          BY <4>1, <5>1
        <5>3. QED
          BY <4>1, <5>2 DEF Waiting
      <4>3. QED
        BY <1>t, <3>1, <4>2, <2>1 DEF HostInv, HostConn, Joined
    <3>2. QED
      BY <2>1, <3>1 DEF Asked
  <2>3. CASE ~AcceptClient
    <3>1. carrier' = carrier /\ Continues(staged, staged')
      BY <1>t, <2>3, DeviceGrows DEF StreamGrows
    <3>2. \A i \in 1..Len(staged) : i \in 1..Len(staged') /\ staged'[i] = staged[i]
      BY <1>t, <3>1 DEF Continues
    <3>3. QED
      BY <2>1, <3>1, <3>2 DEF Asked, Joined
  <2>4. QED
    BY <2>2, <2>3
<1>11. CASE HostNext
  BY <1>1, <1>2, <1>3, <1>4, <1>5, <1>6, <1>7, <1>8, <1>9, <1>11 DEF HostNext
<1>12. QED
  BY <1>10, <1>11 DEF LinkNext, DeviceStep, allVars

LEMMA AnswersInvariant == LinkSpec => [](Both /\ OneChallenge /\ Asked)
<1>1. LinkInit => OneChallenge /\ Asked
  BY DEF LinkInit, Init, OneChallenge, Asked, Joined, NoHost
<1>2. Both /\ OneChallenge /\ Asked /\ [LinkNext]_allVars => (Both /\ OneChallenge /\ Asked)'
  <2> SUFFICES ASSUME Both, OneChallenge, Asked, [LinkNext]_allVars PROVE (Both /\ OneChallenge /\ Asked)'
    OBVIOUS
  <2>1. Both' /\ [AnyNext]_vars
    BY NextBoth
  <2>2. OneChallenge'
    BY <2>1, OneChallengeKept DEF Both
  <2>3. Asked'
    BY <2>1, AskedKept
  <2>4. QED
    BY <2>1, <2>2, <2>3
<1>3. QED
  BY <1>1, <1>2, InitBoth, PTL DEF LinkSpec

\* The monitor goes on after the device's answer only with a device that has
\* its key and drew the challenge it answers (negotiateESPNSHandshake()); in
\* the clear, only with one without a key, and then only if it has none itself
\* or allows that.
THEOREM NeverDowngraded == LinkSpec => []NoDowngrade
<1>1. Both /\ OneChallenge /\ Asked => NoDowngrade
  <2> SUFFICES ASSUME Both, OneChallenge, Asked, host.state \in {"auth", "ready"},
                      Live, client = host.conn
               PROVE  IF host.state = "ready" /\ ~host.secure
                      THEN authKey = NoKey /\ (auth.key = NoKey \/ auth.allow)
                      ELSE authKey = auth.key /\ proto.cn = host.conn /\ proto.sn = host.sn
    BY DEF NoDowngrade
  <2>1. CASE host.state = "ready" /\ ~host.secure
    <3>1. Session /\ ~proto.secure
      BY <2>1, EndsMatch DEF Session
    <3>2. QED
      BY <2>1, <3>1 DEF Both, Inv, AuthCurrent, HostInv, HostMode
  <2>2. CASE host.state = "auth" \/ host.secure
    <3>1. Joined
      BY DEF Both, Inv, SentInv, Accepted, Joined, Live
    <3>2. PICK i \in 1..Len(staged) : ChallengeOf(staged[i], auth.key, host.conn, host.sn)
      BY <2>2, <3>1 DEF Asked
    <3>3. ChallengeOf(staged[i], authKey, proto.cn, proto.sn)
      BY <3>2 DEF OneChallenge, ChallengeOf
    <3>4. Proof(auth.key, "SERVER", host.conn, host.sn) = Proof(authKey, "SERVER", proto.cn, proto.sn)
      BY <3>2, <3>3 DEF ChallengeOf
    <3>5. authKey = auth.key /\ proto.cn = host.conn /\ proto.sn = host.sn
      BY <3>4 DEF Proof
    <3>6. host.state = "auth" => ~host.secure
      BY DEF Both, HostInv, HostConn
    <3>7. QED
      BY <2>2, <3>5, <3>6
  <2>3. QED
    BY <2>1, <2>2
<1>2. QED
  BY <1>1, AnswersInvariant, PTL

---------------------------------------------------------------------------
(* What the monitor reads *)

\* A record that has arrived whole is always the one the monitor expects, with
\* its key and sequence number: partial sends, drops and discarded records
\* never make espnsSecureConn.Read fail (stageSecureRecord(), drainTxPending()).
THEOREM MonitorRefusesNoRecord == LinkSpec => []HostAcceptsRecords
<1>1. Both => HostAcceptsRecords
  BY RecordExpected DEF Both, HostAcceptsRecords
<1>2. QED
  BY <1>1, BothInvariant, PTL

\* What the monitor has read is a prefix of what write() accepted.
THEOREM MonitorReadsPrefix == LinkSpec => []HostReadsPrefix
<1>1. ASSUME Both, host.state = "ready", carrier = host.conn
      PROVE  FirstBytes(got \o host.rxPlain, accepted + InFlight)
  <2>1. Joined
    BY <1>1 DEF Joined
  <2>2. PICK s : s = got \o host.rxPlain
    OBVIOUS
  <2>3. PICK u : u = staged[host.pos]
    OBVIOUS
  <2>4. FirstBytes(s, Upto(u)) /\ Len(s) = Upto(u) /\ host.pos >= 1 /\ host.pos <= Len(wire)
    BY <1>1, <2>1, <2>2, <2>3 DEF Both, HostInv, HostPlace
  <2>5. host.pos \in 1..Len(staged)
    <3>1. host.pos \in Nat /\ wire \in Seq(Unit) /\ staged \in Seq(Unit)
      <4>1. TypeOK /\ HostTypeOK
        BY <1>1 DEF Both, Inv, TypeInv, HostInv
      <4>2. QED
        BY <4>1 DEF TypeOK, HostTypeOK
    <3>2. Len(wire) <= Len(staged)
      BY <1>1 DEF Both, Inv, SentInv, WirePrefix
    <3>4. Len(wire) \in Nat /\ Len(staged) \in Nat
      BY <3>1
    <3>3. QED
      BY <2>4, <3>1, <3>2, <3>4
  <2>6. Upto(u) <= Committed
    BY <1>1, <2>3, <2>5 DEF Both, Inv, SentInv, Bounded
  <2>7. FirstBytes(s, Committed)
    BY <2>4, <2>6 DEF FirstBytes
  <2>8. QED
    BY <2>2, <2>7 DEF Committed
<1>2. Both => HostReadsPrefix
  BY <1>1 DEF HostReadsPrefix
<1>3. QED
  BY <1>2, BothInvariant, PTL

\* What holds of the firmware with any peer holds of it with the monitor.
COROLLARY FirmwareOnTheLink ==
  LinkSpec => [](/\ StreamIntegrity /\ AuthCurrent /\ CleanHandshake /\ NoConnectionLeak
                 /\ BuffersFit /\ AcceptedBytesOnce /\ NonceFresh)
<1>1. ASSUME Both
      PROVE  /\ StreamIntegrity /\ AuthCurrent /\ CleanHandshake /\ NoConnectionLeak
             /\ BuffersFit /\ AcceptedBytesOnce /\ NonceFresh
  <2>1. Inv
    BY <1>1 DEF Both
  <2>2. AcceptedBytesOnce /\ NonceFresh
    BY <2>1, StreamCarries, NonceInvImpliesFresh DEF Inv
  <2>3. StreamIntegrity /\ AuthCurrent /\ NoConnectionLeak /\ BuffersFit
    BY <2>1 DEF Inv, LinkInv
  <2>4. CleanHandshake
    BY <2>1 DEF Inv, SessionInv, Clean, CleanHandshake, Handshaking
  <2>5. QED
    BY <2>2, <2>3, <2>4
<1>2. QED
  BY <1>1, BothInvariant, PTL

\* So are the short writes counted.
COROLLARY ShortWritesOnTheLink == LinkSpec => ShortWriteCounted
<1>1. ASSUME Both, [LinkNext]_allVars PROVE [ReturnsShort => Counted]_vars
  BY <1>1, NextBoth, CountsShortWrite DEF Both
<1>2. QED
  BY <1>1, BothInvariant, PTL DEF LinkSpec, ShortWriteCounted, ReturnsShort, Counted

---------------------------------------------------------------------------
(* The other direction: what the monitor writes and the sketch reads.        *)
(*                                                                           *)
(* What a device in session has received and not read is, with what its      *)
(* decryptor holds, a run of whole and begun records (or of raw bytes) that  *)
(* starts where the sketch's reading ends; as long as the monitor keeps the  *)
(* connection, the run ends where its writing does.                          *)

\* What the device has received of the session and not decrypted, and the
\* bytes it has decrypted.
Arrived == (proto.rxRecord \o proto.rxTag) \o inbox[client]
Delivered == delivered \o proto.rxPlain

\* Records of the monitor under key k, the first with number q after n bytes.
Incoming(s, k, q, n) ==
  /\ Run(s, "h2d")
  /\ \A i \in 1..Len(s) : s[i].kind = "cell" /\ s[i].rec.key = k
  /\ s # <<>> => s[1].at = 1 /\ s[1].rec.seq = q /\ Upto(s[1]) = n + Len(s[1].rec.data)

\* Bytes sent without encryption, the ones after the first n.
IncomingRaw(s, n) == \A i \in 1..Len(s) : s[i].kind = "raw" /\ s[i].byte = n + i

\* Records that end where the monitor's writing does, after all it has sent.
UpToSent(s, q, n) ==
  /\ n <= sent /\ \A i \in 1..Len(s) : Upto(s[i]) <= sent
  /\ s = <<>> => host.txSeq = q /\ sent = n
  /\ s # <<>> => LET last == s[Len(s)]
                 IN RecordEnd(last) /\ NextSeq(last) = host.txSeq /\ Upto(last) = sent

\* A handshake line is sent whole, and nothing follows it before the answer.
LineEnds(s) == \A i \in 1..Len(s) : s[i].kind = "eol" => i = Len(s)
LinesOnly == \A c \in Conn : link[c] = "open" /\ ~(c = client /\ proto.ready) => LineEnds(inbox[c])

\* The sketch has read nothing during the handshake, and a session without
\* encryption was announced first of all.
FirstLine ==
  /\ Handshaking => delivered = <<>> /\ (proto.hs = "WaitingHello" => staged = <<>>)
  /\ Session /\ ~proto.secure => staged[1] = OkLine(FALSE)

\* A tag follows a header; ciphertext among it is never given back.
RxParts == proto.rxTag # <<>> =>
             /\ Len(proto.rxRecord) >= HeaderSize
             /\ Spoiled \/ CiphertextComplete

\* What has arrived goes on from what the sketch has read.
DeviceRx ==
  Session =>
    /\ FirstBytes(Delivered, Len(Delivered))
    /\ proto.secure => /\ RxParts
                       /\ ~Spoiled => Incoming(Arrived, proto.key, proto.rxSeq, Len(Delivered))
    /\ ~proto.secure => /\ proto.rxRecord = <<>> /\ proto.rxTag = <<>> /\ proto.rxPlain = <<>>
                        /\ IncomingRaw(inbox[client], Len(delivered))

DeviceSide == LinesOnly /\ FirstLine /\ DeviceRx

\* The monitor starts a session with nothing sent.
HostFresh ==
  /\ host.state = "closed" => host.conn = NoConn
  /\ host.state \notin {"closed", "ready"} => sent = 0 /\ host.txSeq = 0
  /\ host.state \in {"dialled", "hello"} => host.pos = 0

\* It sends one line at a time and waits for the answer.
Answered ==
  /\ host.state = "dialled" => inbox[host.conn] = <<>> /\ (Joined /\ Live => staged = <<>>)
  /\ host.state = "hello" /\ Joined /\ Live /\ staged # <<>> => inbox[host.conn] = <<>>

\* What has arrived is all that the monitor has sent.
HostTx ==
  Session /\ Joined =>
    /\ proto.secure => /\ Len(Delivered) <= sent
                       /\ ~Spoiled => UpToSent(Arrived, proto.rxSeq, Len(Delivered))
    /\ ~proto.secure => sent = Len(delivered) + Len(inbox[client])

HostSide == HostFresh /\ Answered /\ HostTx

RxInv == DeviceSide /\ HostSide

---------------------------------------------------------------------------
(* Runs of records *)

\* A part of a run is a run.
LEMMA RunPart ==
  ASSUME NEW dir, NEW s \in Seq(Unit), NEW t \in Seq(Unit), NEW p \in Nat, p + Len(t) <= Len(s),
         \A i \in 1..Len(t) : t[i] = s[p + i], Run(s, dir)
  PROVE  Run(t, dir)
<1>1. ASSUME NEW i \in 1..Len(t) PROVE WellSealed(t[i], dir)
  <2>1. p + i \in 1..Len(s)
    OBVIOUS
  <2>2. QED
    BY <2>1 DEF Run
<1>2. ASSUME NEW i \in 1..(Len(t) - 1) PROVE Follows(t[i], t[i + 1])
  <2>1. i \in 1..Len(t) /\ i + 1 \in 1..Len(t) /\ p + i \in 1..(Len(s) - 1) /\ p + (i + 1) = (p + i) + 1
    OBVIOUS
  <2>2. t[i] = s[p + i] /\ t[i + 1] = s[(p + i) + 1]
    BY <2>1
  <2>3. QED
    BY <2>1, <2>2 DEF Run
<1>3. QED
  BY <1>1, <1>2 DEF Run

\* The record at the start of a run of records, as far as it has arrived.
LEMMA FirstRecord ==
  ASSUME NEW s \in Seq(Unit), NEW k, NEW q, NEW n \in Nat, Incoming(s, k, q, n), s # <<>>
  PROVE  /\ s[1].rec.data \in Seq(Nat) /\ Len(s[1].rec.data) \in 1..MaxRecord
         /\ q \in Nat /\ q < SeqMax
         /\ s[1].rec = [key |-> k, dir |-> "h2d", seq |-> q, data |-> s[1].rec.data]
         /\ \A j \in 1..Len(s[1].rec.data) : s[1].rec.data[j] = n + j
         /\ \A m \in 1..Len(s) : m <= HeaderSize + Len(s[1].rec.data) + TagSize =>
              \A i \in 1..m : s[i] = [kind |-> "cell", at |-> i, rec |-> s[1].rec]
<1>1. PICK u : u = s[1]
  OBVIOUS
<1>2. u \in Unit /\ 1 \in 1..Len(s) /\ Len(s) \in Nat
  BY <1>1
<1>3. /\ WellSealed(u, "h2d") /\ u.kind = "cell" /\ u.rec.key = k /\ u.at = 1 /\ u.rec.seq = q
      /\ Upto(u) = n + Len(u.rec.data)
  BY <1>1, <1>2 DEF Incoming, Run
<1>4. PICK r : r = u.rec
  OBVIOUS
<1>5. /\ r.data \in Seq(Nat) /\ r.seq \in Nat
      /\ r = [key |-> r.key, dir |-> r.dir, seq |-> r.seq, data |-> r.data]
  BY <1>2, <1>3, <1>4, CellIs
<1>6. /\ r.dir = "h2d" /\ r.seq < SeqMax /\ Len(r.data) \in 1..MaxRecord /\ r.key = k /\ r.seq = q
      /\ \A j \in 1..Len(r.data) : r.data[j] = (n + Len(r.data)) - Len(r.data) + j
  BY <1>3, <1>4 DEF WellSealed
<1>7. \A j \in 1..Len(r.data) : r.data[j] = n + j
  BY <1>5, <1>6
<1>8. ASSUME NEW m \in 1..Len(s), m <= HeaderSize + Len(r.data) + TagSize
      PROVE  \A i \in 1..m : s[i] = [kind |-> "cell", at |-> i, rec |-> r]
  <2>1. /\ \A i \in 1..(Len(s) - 1) : Follows(s[i], s[i + 1])
        /\ 0 + 1 <= Len(s) /\ 0 \in Nat /\ m \in Nat /\ 0 + m <= Len(s)
        /\ s[0 + 1].kind = "cell" /\ s[0 + 1].at = 1 /\ s[0 + 1].rec = r
        /\ m <= HeaderSize + Len(s[0 + 1].rec.data) + TagSize
    BY <1>1, <1>2, <1>3, <1>4, <1>8 DEF Incoming, Run
  <2>2. \A i \in 1..m : s[0 + i] = [kind |-> "cell", at |-> i, rec |-> s[0 + 1].rec]
    BY <2>1, RecordRun
  <2>3. QED
    BY <2>1, <2>2
<1>9. s[1].rec = r
  BY <1>1, <1>4
<1>10. r = [key |-> k, dir |-> "h2d", seq |-> q, data |-> r.data]
  BY <1>5, <1>6
<1>11. QED
  BY <1>5, <1>6, <1>7, <1>8, <1>9, <1>10

\* t is what is left of s when its first record, z cells, is taken off.
WithoutFirst(t, s, z) ==
  /\ z = HeaderSize + Len(s[1].rec.data) + TagSize /\ z <= Len(s)
  /\ Len(t) = Len(s) - z /\ \A i \in 1..Len(t) : t[i] = s[z + i]

LEMMA RestOfRecords ==
  ASSUME NEW s \in Seq(Unit), NEW k, NEW q, NEW n \in Nat, Incoming(s, k, q, n), s # <<>>,
         NEW z, NEW t \in Seq(Unit), WithoutFirst(t, s, z)
  PROVE  /\ Incoming(t, k, q + 1, n + Len(s[1].rec.data))
         /\ z \in 1..Len(s) /\ RecordEnd(s[z]) /\ NextSeq(s[z]) = q + 1
         /\ Upto(s[z]) = n + Len(s[1].rec.data)
<1>0. /\ z = HeaderSize + Len(s[1].rec.data) + TagSize /\ z <= Len(s)
      /\ Len(t) = Len(s) - z /\ \A i \in 1..Len(t) : t[i] = s[z + i]
  BY DEF WithoutFirst
<1>1. PICK r : r = s[1].rec
  OBVIOUS
<1>2. /\ r.data \in Seq(Nat) /\ Len(r.data) \in 1..MaxRecord /\ q \in Nat /\ r.seq = q
      /\ z = HeaderSize + Len(r.data) + TagSize
  <2>1. /\ r.data \in Seq(Nat) /\ Len(r.data) \in 1..MaxRecord /\ q \in Nat
        /\ r = [key |-> k, dir |-> "h2d", seq |-> q, data |-> r.data]
    BY <1>1, FirstRecord
  <2>2. QED
    BY <1>0, <1>1, <2>1
<1>3. z \in 1..Len(s) /\ z \in Nat /\ Len(s) \in Nat /\ Len(r.data) \in Nat
  <2>1. Len(s) \in Nat /\ Len(r.data) \in Nat
    BY <1>2
  <2>2. z \in Nat /\ z >= 1
    BY <1>2, <2>1, ConstantsAssumption
  <2>3. QED
    BY <1>0, <2>1, <2>2
<1>4. s[z] = [kind |-> "cell", at |-> z, rec |-> r]
  <2>1. \A m \in 1..Len(s) : m <= HeaderSize + Len(r.data) + TagSize =>
          \A i \in 1..m : s[i] = [kind |-> "cell", at |-> i, rec |-> r]
    BY <1>1, FirstRecord
  <2>3. z <= HeaderSize + Len(r.data) + TagSize /\ z \in 1..z
    BY <1>2, <1>3
  <2>2. QED
    BY <1>3, <2>1, <2>3
<1>5. PICK u : u = s[z]
  OBVIOUS
<1>6. u.kind = "cell" /\ u.at = z /\ u.rec = r
  BY <1>4, <1>5
<1>7. RecordEnd(u) /\ NextSeq(u) = q + 1
  BY <1>2, <1>6 DEF RecordEnd, NextSeq
<1>8. Upto(u) = n + Len(r.data)
  <2>1. Upto(s[1]) = n + Len(r.data) /\ s[1].kind = "cell"
    BY <1>1, <1>3 DEF Incoming
  <2>2. Upto(u) = Upto(s[1])
    BY <1>1, <1>6, <2>1 DEF Upto
  <2>3. QED
    BY <2>1, <2>2
<1>9. Run(t, "h2d")
  <2>1. z + Len(t) <= Len(s) /\ Run(s, "h2d")
    BY <1>0, <1>3 DEF Incoming
  <2>2. QED
    BY <1>0, <1>3, <2>1, RunPart
<1>10. ASSUME NEW i \in 1..Len(t) PROVE t[i].kind = "cell" /\ t[i].rec.key = k
  <2>0. i \in Nat /\ 1 <= i /\ i <= Len(s) - z
    BY <1>0, <1>3
  <2>1. z + i \in 1..Len(s)
    BY <1>3, <2>0
  <2>2. QED
    BY <1>0, <2>1 DEF Incoming
<1>11. ASSUME t # <<>>
       PROVE  t[1].at = 1 /\ t[1].rec.seq = q + 1 /\ Upto(t[1]) = (n + Len(r.data)) + Len(t[1].rec.data)
  <2>0. Len(t) \in Nat /\ Len(t) # 0
    BY <1>11
  <2>1. 1 \in 1..Len(t) /\ z \in 1..(Len(s) - 1)
    <3>1. PICK a : a = Len(s)
      OBVIOUS
    <3>2. PICK b : b = Len(t)
      OBVIOUS
    <3>3. b = a - z
      BY <1>0, <3>1, <3>2
    <3>4. a \in Nat /\ b \in Nat /\ b # 0 /\ z \in Nat /\ z >= 1
      BY <1>1, <1>2, <1>3, <2>0, <3>1, <3>2
    <3>5. 1 \in 1..b /\ z \in 1..(a - 1)
      BY <3>3, <3>4
    <3>6. QED
      BY <3>1, <3>2, <3>5
  <2>2. PICK v : v = t[1]
    OBVIOUS
  <2>3. v = s[z + 1] /\ v.kind = "cell" /\ WellSealed(v, "h2d")
    BY <1>0, <1>9, <1>10, <2>1, <2>2 DEF Run
  <2>4. Follows(u, v)
    BY <1>5, <2>1, <2>3 DEF Incoming, Run
  <2>5. ~(v.rec = u.rec /\ v.at = u.at + 1)
    <3>1. SUFFICES ASSUME v.rec = u.rec, v.at = u.at + 1 PROVE FALSE
      OBVIOUS
    <3>2. v.at \in 1..(HeaderSize + Len(r.data) + TagSize)
      BY <1>6, <2>3, <3>1 DEF WellSealed
    <3>3. QED
      BY <1>2, <1>3, <1>6, <3>1, <3>2
  <2>6. v.at = 1 /\ v.rec.seq = NextSeq(u) /\ Upto(v) = Upto(u) + Len(v.rec.data)
    BY <2>3, <2>4, <2>5 DEF Follows
  <2>7. QED
    BY <1>7, <1>8, <2>2, <2>6
<1>12. Incoming(t, k, q + 1, n + Len(r.data))
  BY <1>9, <1>10, <1>11 DEF Incoming
<1>13. QED
  BY <1>1, <1>3, <1>5, <1>7, <1>8, <1>12

---------------------------------------------------------------------------
(* What a step of the firmware does to what it has received *)

\* Nothing: the step is about something else.
RxKept ==
  /\ UNCHANGED <<delivered, client, link, inbox>> /\ (staged' = staged \/ proto.ready)
  /\ proto'.ready = proto.ready /\ proto'.hs = proto.hs /\ proto'.secure = proto.secure
  /\ proto'.key = proto.key /\ proto'.rxSeq = proto.rxSeq
  /\ proto'.rxRecord = proto.rxRecord /\ proto'.rxTag = proto.rxTag
  /\ proto'.rxPlain = proto.rxPlain

\* The client goes, perhaps after the line that says why.
RxClosed == /\ CloseProtocolClient /\ UNCHANGED delivered
            /\ staged' = staged \/ Handshaking

\* The handshake reads a unit; the one that ends a line is answered.
RxLine ==
  /\ Handshaking /\ inbox[client] # <<>>
  /\ inbox' = [inbox EXCEPT ![client] = Tail(@)] /\ UNCHANGED <<client, link, delivered>>
  /\ \/ proto' \in {proto, [proto EXCEPT !.line = @ + 1]} /\ UNCHANGED staged
     \/ /\ Head(inbox[client]).kind = "eol"
        /\ \/ /\ proto.hs = "WaitingHello" /\ proto' = ReadyState(proto)
              /\ SendControlLine([type |-> "OK", secure |-> FALSE], TRUE)
           \/ \E cn, sn, m : proto' = ChallengeState(cn, sn) /\ SendControlLine(m, TRUE)
           \/ /\ proto' = ReadyState([DeriveSessionKeys(proto) EXCEPT !.secure = TRUE])
              /\ SendControlLine([type |-> "OK", secure |-> TRUE], TRUE)

LEMMA RxEffect ==
  ASSUME TypeInv, LoopReady, DeviceNext \/ NetworkNext \/ UNCHANGED vars
  PROVE  \/ RxKept \/ RxClosed \/ RxLine \/ StopServer \/ AcceptReject \/ AcceptClient \/ Take
         \/ \E p \in {"secureRx", "rxAgain"} : SecureRx(p)
         \/ \E c \in Conn : Dial(c) \/ Lose(c)
<1> DEFINE Effect == RxKept \/ RxClosed \/ RxLine \/ StopServer \/ AcceptReject \/ AcceptClient \/ Take
<1>t. proto \in ProtoType
  BY DEF TypeInv, TypeOK
<1>s. UNCHANGED <<slot, staged, app>> => RxKept
  BY DEF slot, app, RxKept
<1>c. CloseProtocolClient /\ UNCHANGED <<staged, app>> => RxClosed
  BY DEF app, RxClosed
<1> USE DEF output
<1>1. CASE AdminCall
  <2>1. UNCHANGED <<staged, app>> /\ (UNCHANGED slot \/ CloseProtocolClient)
    BY <1>1 DEF AdminCall, Begin, End, DisconnectClient, ClearTxDropCounters, ChangeAuthKey
  <2>2. QED
    BY <1>s, <1>c, <2>1
<1>2. CASE CallHandle \/ DataCall
  <2>1. UNCHANGED <<slot, staged, app>>
    BY <1>2 DEF CallHandle, DataCall, StartCall
  <2>2. QED
    BY <1>s, <2>1
<1>3. ASSUME NEW p \in {"handshake", "greet"}, HandleHandshake(p) PROVE Effect
  <2>1. Handshaking /\ UNCHANGED app
    BY <1>3 DEF HandleHandshake
  <2>2. ASSUME Reject PROVE Effect
    BY <2>1, <2>2 DEF Reject, RxClosed, app
  <2>3. CASE inbox[client] # <<>> /\ (HandshakeReturn \/ HandshakeChar)
    BY <2>1, <2>2, <2>3 DEF HandshakeReturn, HandshakeChar, Continue, RxLine, app
  <2>4. CASE inbox[client] # <<>> /\ ProcessHandshakeLine
    <3>1. Head(inbox[client]).kind = "eol"
      BY <2>4 DEF ProcessHandshakeLine
    <3>2. CASE HandshakeBadHello \/ HandshakeBadAuth
      BY <2>2, <3>2 DEF HandshakeBadHello, HandshakeBadAuth
    <3>3. CASE proto.hs = "WaitingHello" /\ HandshakeRaw
      BY <2>1, <2>4, <3>1, <3>3, <1>c DEF HandshakeRaw, Continue, RxLine, app
    <3>4. CASE HandshakeChallenge
      <4>1. CASE Reject
        BY <2>2, <4>1
      <4>2. CASE ~Reject
        BY <2>1, <2>4, <3>1, <3>4, <4>2 DEF HandshakeChallenge, Continue, RxLine, app
      <4>3. QED
        BY <4>1, <4>2
    <3>5. CASE HandshakeSecure
      <4>1. CASE Reject
        BY <2>2, <4>1
      <4>2. CASE ~Reject
        BY <2>1, <2>4, <3>1, <3>5, <4>2 DEF HandshakeSecure, Continue, RxLine, app
      <4>3. QED
        BY <4>1, <4>2
    <3>6. QED
      BY <2>4, <3>2, <3>3, <3>4, <3>5 DEF ProcessHandshakeLine
  <2>5. CASE HandshakeQuiet
    BY <1>s, <2>1, <2>2, <2>5 DEF HandshakeQuiet
  <2>6. QED
    BY <1>3, <2>3, <2>4, <2>5 DEF HandleHandshake
<1>4. ASSUME NEW p \in {"drain", "writeDrain"}, DrainTxPending(p) PROVE Effect
  <2>1. UNCHANGED <<staged, app>>
    BY <1>4 DEF DrainTxPending
  <2>2. CASE UNCHANGED slot \/ CloseProtocolClient
    BY <1>s, <1>c, <2>1, <2>2
  <2>3. ASSUME NEW k, DrainSend(k) PROVE Effect
    BY <1>t, <2>1, <2>3 DEF DrainSend, RxKept, ProtoType, app
  <2>4. QED
    BY <1>4, <2>2, <2>3 DEF DrainTxPending
<1>5. CASE DrainDiscard
  BY <1>t, <1>5 DEF DrainDiscard, RxKept, ProtoType, app
<1>6. CASE WriteStage
  <2>1. proto.ready
    BY <1>6 DEF WriteStage, LoopReady
  <2>2. PICK a, b : proto' = [proto EXCEPT !.txPending = a, !.txSeq = b]
    BY <1>6 DEF WriteStage
  <2>3. UNCHANGED <<delivered, client, link, inbox>>
    BY <1>6 DEF WriteStage, app
  <2>4. QED
    BY <1>t, <2>1, <2>2, <2>3 DEF RxKept, ProtoType
<1>7. CASE WriteFail \/ WriteCheck \/ WriteStart \/ AcceptNone \/ CheckDead
           \/ \E p \in {"handshake", "greet", "secureRx", "rxAgain", "drain"} : SkipStage(p)
  <2>1. UNCHANGED <<staged, delivered>> /\ (UNCHANGED slot \/ CloseProtocolClient)
    BY <1>7 DEF WriteFail, WriteCheck, WriteStart, AcceptNone, CheckDead, SkipStage, app
  <2>2. QED
    BY <2>1 DEF RxKept, RxClosed, slot
<1>8. CASE Step
  BY <1>3, <1>4, <1>5, <1>6, <1>7, <1>8 DEF Step
<1>9. CASE Tick \/ UNCHANGED vars
  <2>1. UNCHANGED <<slot, staged, app>>
    BY <1>9 DEF Tick, vars
  <2>2. QED
    BY <1>s, <2>1
<1>10. QED
  BY <1>1, <1>2, <1>8, <1>9 DEF DeviceNext, NetworkNext

\* A connection that is still served has received what it had.
RxSame ==
  /\ UNCHANGED <<delivered, carrier>>
  /\ \A c \in Conn : inbox'[c] \in {<<>>, inbox[c]}
  /\ \A c \in Conn : link'[c] = "open" =>
       \/ inbox'[c] = <<>>
       \/ /\ inbox'[c] = inbox[c] /\ link[c] = "open"
          /\ c = client /\ proto.ready => c = client' /\ proto'.ready
  /\ Live' => /\ Live /\ client' = client /\ inbox'[client] = inbox[client]
              /\ staged' = staged \/ (proto.ready /\ staged # <<>> /\ staged'[1] = staged[1])
              /\ proto'.ready = proto.ready /\ proto'.hs = proto.hs /\ proto'.secure = proto.secure
              /\ proto'.key = proto.key /\ proto'.rxSeq = proto.rxSeq
              /\ proto'.rxRecord = proto.rxRecord /\ proto'.rxTag = proto.rxTag
              /\ proto'.rxPlain = proto.rxPlain

LEMMA RxSameSteps ==
  ASSUME Inv, Inv', InboxFresh, [AnyNext]_vars, ~AcceptClient,
         \/ RxKept \/ RxClosed \/ StopServer \/ AcceptReject
         \/ \E c \in Conn : Dial(c) \/ Lose(c)
  PROVE  RxSame
<1>t. /\ inbox \in [Conn -> Seq(Unit)] /\ client \in Conn \cup {NoConn} /\ NoConn \notin Conn
      /\ link \in [Conn -> {"none", "open", "lost", "closed"}]
      /\ backlog \in Seq(Conn) /\ staged \in Seq(Unit) /\ TypeOK /\ TypeInv /\ LinkInv
  <2>1. TypeOK /\ TypeInv /\ LinkInv
    BY DEF Inv, TypeInv
  <2>2. NoConn \notin Conn
    BY ConstantsAssumption DEF Conn, NoConn
  <2>3. QED
    BY <2>1, <2>2 DEF TypeOK
<1>l. Live => client \in Conn /\ link[client] = "open"
  BY <1>t DEF Live
<1>g. ASSUME UNCHANGED <<delivered, carrier, client, proto, staged>>,
             \A c \in Conn : \/ inbox'[c] = inbox[c] /\ link'[c] = link[c]
                             \/ inbox'[c] = <<>> /\ (link'[c] = "open" => link[c] = "none")
      PROVE  RxSame
  <2>1. Live' => Live /\ inbox'[client] = inbox[client]
    BY <1>g, <1>t DEF Live, Inv, LinkInv, WasDialled
  <2>2. QED
    BY <1>g, <2>1 DEF RxSame
<1>1. CASE RxKept
  <2>1. carrier' = carrier /\ Continues(staged, staged')
    BY DeviceGrows DEF StreamGrows
  <2>2. ASSUME proto.ready PROVE staged # <<>> /\ staged'[1] = staged[1]
    <3>1. staged # <<>>
      BY <2>2 DEF Inv, SentInv, StreamGoesOn
    <3>2. 1 \in 1..Len(staged)
      BY <1>t, <3>1
    <3>3. QED
      BY <2>1, <3>1, <3>2 DEF Continues
  <2>3. Live' => Live
    BY <1>1 DEF RxKept, Live
  <2>4. QED
    BY <1>1, <2>1, <2>2, <2>3 DEF RxKept, RxSame
<1>2. CASE RxClosed
  <2>1. ~Live' /\ CloseProtocolClient /\ delivered' = delivered
    BY <1>2, <1>t, CloseType DEF RxClosed
  <2>2. carrier' = carrier
    BY DeviceGrows
  <2>3. ASSUME NEW c \in Conn
        PROVE  /\ inbox'[c] \in {<<>>, inbox[c]}
               /\ link'[c] = "open" => inbox'[c] = inbox[c] /\ link[c] = "open" /\ ~(c = client)
    BY <1>t, <2>1 DEF CloseProtocolClient, Live
  <2>4. QED
    BY <1>2, <2>1, <2>2, <2>3 DEF RxSame
<1>3. CASE StopServer
  <2>1. UNCHANGED <<delivered, carrier, client, proto, staged>>
    BY <1>3 DEF StopServer, app, output
  <2>2. \A c \in Conn : \/ inbox'[c] = inbox[c] /\ link'[c] = link[c]
                        \/ inbox'[c] = <<>> /\ link'[c] = "closed"
    BY <1>3 DEF StopServer
  <2>3. QED
    BY <1>g, <2>1, <2>2
<1>4. CASE AcceptReject
  <2>1. UNCHANGED <<delivered, carrier, client, proto, staged>>
    BY <1>4 DEF AcceptReject, app, output
  <2>2. \A c \in Conn : \/ inbox'[c] = inbox[c] /\ link'[c] = link[c]
                        \/ inbox'[c] = <<>> /\ link'[c] = "closed"
    BY <1>4, <1>t DEF AcceptReject
  <2>3. QED
    BY <1>g, <2>1, <2>2
<1>5. ASSUME NEW d \in Conn, Dial(d) PROVE RxSame
  <2>1. UNCHANGED <<delivered, carrier, client, proto, staged>>
    BY <1>5 DEF Dial, app, output
  <2>2. \A c \in Conn : \/ inbox'[c] = inbox[c] /\ link'[c] = link[c]
                        \/ inbox'[c] = <<>> /\ link[c] = "none"
    BY <1>5, <1>t DEF Dial, InboxFresh
  <2>3. QED
    BY <1>g, <2>1, <2>2
<1>6. ASSUME NEW d \in Conn, Lose(d) PROVE RxSame
  <2>1. UNCHANGED <<delivered, carrier, client, proto, staged>>
    BY <1>6 DEF Lose, app, output
  <2>2. \A c \in Conn : \/ inbox'[c] = inbox[c] /\ link'[c] = link[c]
                        \/ inbox'[c] = <<>> /\ link'[c] = "lost"
    BY <1>6, <1>t DEF Lose
  <2>3. QED
    BY <1>g, <2>1, <2>2
<1>7. QED
  BY <1>1, <1>2, <1>3, <1>4, <1>5, <1>6

\* So what is said of the device's side stays true, ...
LEMMA SameDeviceSide ==
  ASSUME DeviceSide, RxSame
  PROVE  DeviceSide'
<1>1. LinesOnly'
  <2>1. LineEnds(<<>>)
    BY DEF LineEnds
  <2>2. QED
    BY <2>1 DEF DeviceSide, LinesOnly, RxSame
<1>2. FirstLine'
  BY DEF DeviceSide, FirstLine, RxSame, Handshaking, Session
<1>3. DeviceRx'
  <2>1. ASSUME Session'
        PROVE  /\ Session /\ Arrived' = Arrived /\ Delivered' = Delivered
               /\ Spoiled' = Spoiled /\ RxParts' = RxParts
    BY <2>1 DEF RxSame, Session, Arrived, Delivered, Spoiled, RxParts, CipherEnd, CiphertextComplete
  <2>2. QED
    BY <2>1 DEF DeviceSide, DeviceRx, RxSame, Session
<1>4. QED
  BY <1>1, <1>2, <1>3 DEF DeviceSide

\* ... and of the monitor's, when it does nothing.
LEMMA SameHostSide ==
  ASSUME Inv, HostConn, HostSide, RxSame, UNCHANGED hostVars
  PROVE  HostSide'
<1>h. host' = host /\ sent' = sent /\ Joined' = Joined
  BY DEF hostVars, RxSame, Joined
<1>1. HostFresh'
  BY <1>h DEF HostSide, HostFresh
<1>2. Answered'
  <2>1. host.state # "closed" => host.conn \in Conn
    BY DEF HostConn
  <2>2. proto.ready => staged # <<>>
    BY DEF Inv, SentInv, StreamGoesOn
  <2>3. host.state = "dialled" => inbox'[host.conn] = <<>>
    BY <2>1 DEF HostSide, Answered, RxSame
  <2>4. host.state = "dialled" /\ Joined /\ Live' => staged' = <<>>
    BY <2>2 DEF HostSide, Answered, RxSame
  <2>5. host.state = "hello" /\ Joined /\ Live' /\ staged' # <<>> => inbox'[host.conn] = <<>>
    BY <2>1, <2>2 DEF HostSide, Answered, RxSame
  <2>6. QED
    BY <1>h, <2>3, <2>4, <2>5 DEF Answered
<1>3. HostTx'
  <2>1. ASSUME Session'
        PROVE  Session /\ Arrived' = Arrived /\ Delivered' = Delivered /\ Spoiled' = Spoiled
    BY <2>1 DEF RxSame, Session, Arrived, Delivered, Spoiled, CipherEnd
  <2>2. UpToSent(Arrived, proto.rxSeq, Len(Delivered)) /\ Session'
          => UpToSent(Arrived, proto.rxSeq, Len(Delivered))'
    BY <1>h, <2>1 DEF UpToSent, RxSame, Session
  <2>3. QED
    BY <1>h, <2>1, <2>2 DEF HostSide, HostTx, RxSame, Session
<1>4. QED
  BY <1>1, <1>2, <1>3 DEF HostSide

\* A connection that is accepted has received lines at most.
LEMMA AcceptRx ==
  ASSUME RxInv, AcceptClient, UNCHANGED hostVars
  PROVE  RxInv'
<1>1. /\ ~Live /\ delivered' = <<>> /\ staged' = <<>> /\ inbox' = inbox /\ link' = link
      /\ ~proto'.ready
  BY DEF AcceptClient, SlotFree, AcceptedState, ResetProtocolState
<1>2. ~Session' /\ host' = host /\ sent' = sent
  BY <1>1 DEF Session, hostVars
<1>3. LinesOnly'
  <2>1. ASSUME NEW c \in Conn, link[c] = "open" PROVE c # client
    BY <1>1, <2>1, ConstantsAssumption DEF Live, Conn, NoConn
  <2>2. QED
    BY <1>1, <2>1 DEF RxInv, DeviceSide, LinesOnly
<1>4. FirstLine' /\ DeviceRx' /\ HostTx'
  BY <1>1, <1>2 DEF FirstLine, DeviceRx, HostTx
<1>5. HostFresh' /\ Answered'
  BY <1>1, <1>2 DEF RxInv, HostSide, HostFresh, Answered
<1>6. QED
  BY <1>3, <1>4, <1>5 DEF RxInv, DeviceSide, HostSide

\* While the device is in the handshake so is the monitor.
LEMMA NotReadyYet ==
  ASSUME Both, Handshaking, Joined
  PROVE  host.state # "ready"
<1>1. SUFFICES ASSUME host.state = "ready" PROVE FALSE
  OBVIOUS
<1>2. PICK i \in 1..Len(staged) : staged[i] = OkLine(host.secure)
  BY <1>1 DEF Both, HostInv, HostPlace
<1>3. staged[i].kind = "line" /\ staged[i].msg.type = "OK"
  BY <1>2 DEF OkLine, Line
<1>4. proto.ready
  BY <1>2, <1>3 DEF Both, Inv, SentInv, OkMeansReady
<1>5. QED
  BY <1>4 DEF Handshaking

\* Without its last unit read, a line leaves nothing.
LEMMA LineRead1 ==
  ASSUME NEW s \in Seq(Unit), s # <<>>, LineEnds(s)
  PROVE  LineEnds(Tail(s)) /\ (Head(s).kind = "eol" => Tail(s) = <<>>)
<1>1. /\ Tail(s) \in Seq(Unit) /\ Len(Tail(s)) = Len(s) - 1 /\ Len(s) \in Nat \ {0} /\ Head(s) = s[1]
      /\ \A i \in 1..Len(Tail(s)) : Tail(s)[i] = s[i + 1] /\ i + 1 \in 1..Len(s)
  OBVIOUS
<1>2. PICK t \in Seq(Unit) : t = Tail(s)
  BY <1>1
<1>3. /\ Len(t) = Len(s) - 1 /\ \A i \in 1..Len(t) : t[i] = s[i + 1] /\ i + 1 \in 1..Len(s)
  BY <1>1, <1>2
<1>4. ASSUME NEW i \in 1..Len(t), t[i].kind = "eol" PROVE i = Len(t)
  <2>1. i + 1 = Len(s)
    BY <1>3, <1>4 DEF LineEnds
  <2>2. QED
    BY <1>3, <2>1
<1>5. ASSUME s[1].kind = "eol" PROVE t = <<>>
  <2>1. 1 \in 1..Len(s)
    BY <1>1
  <2>2. Len(s) = 1
    BY <1>5, <2>1 DEF LineEnds
  <2>3. Len(t) = 0
    BY <1>3, <2>2
  <2>4. QED
    BY <2>3
<1>6. LineEnds(t)
  BY <1>4 DEF LineEnds
<1>7. QED
  BY <1>1, <1>2, <1>5, <1>6

\* A unit of the handshake: the session starts with nothing received.
LEMMA LineRx ==
  ASSUME Both, RxInv, RxLine, carrier' = carrier, UNCHANGED hostVars
  PROVE  RxInv'
<1>t. /\ inbox \in [Conn -> Seq(Unit)] /\ staged \in Seq(Unit) /\ proto \in ProtoType
      /\ delivered \in Seq(Nat) /\ client \in Conn \cup {NoConn}
  BY DEF Both, Inv, TypeInv, TypeOK
<1>1. /\ Handshaking /\ Live /\ ~proto.ready /\ client \in Conn /\ link[client] = "open" /\ client = carrier
  BY <1>t DEF RxLine, Handshaking, Live, Both, Inv, SentInv, Accepted
<1>2. /\ inbox[client] # <<>> /\ inbox' = [inbox EXCEPT ![client] = Tail(@)]
      /\ client' = client /\ link' = link /\ delivered' = delivered
      /\ host' = host /\ sent' = sent /\ Joined' = Joined /\ Live' = Live
  BY DEF RxLine, hostVars, Joined, Live
<1>3. PICK s \in Seq(Unit) : s = inbox[client]
  BY <1>t, <1>1
<1>4. /\ s # <<>> /\ LineEnds(s) /\ LineEnds(Tail(s)) /\ (Head(s).kind = "eol" => Tail(s) = <<>>)
      /\ inbox'[client] = Tail(s) /\ \A c \in Conn : c # client => inbox'[c] = inbox[c]
  <2>1. s # <<>> /\ LineEnds(s)
    BY <1>1, <1>2, <1>3 DEF RxInv, DeviceSide, LinesOnly
  <2>2. QED
    BY <1>1, <1>2, <1>3, <1>t, <2>1, LineRead1
<1>5. LinesOnly'
  BY <1>2, <1>4 DEF RxInv, DeviceSide, LinesOnly
<1>6. HostFresh'
  BY <1>2 DEF RxInv, HostSide, HostFresh
<1>7. delivered = <<>> /\ (proto.hs = "WaitingHello" => staged = <<>>)
  BY <1>1 DEF RxInv, DeviceSide, FirstLine
<1>c. /\ ~proto.secure /\ proto.rxSeq = 0 /\ proto.rxRecord = <<>> /\ proto.rxTag = <<>>
      /\ proto.rxPlain = <<>>
  BY <1>1 DEF Both, Inv, SessionInv, Clean
<1>j. Joined => host.state \notin {"closed", "ready"} /\ client = host.conn /\ sent = 0 /\ host.txSeq = 0
  BY <1>1, NotReadyYet DEF Joined, RxInv, HostSide, HostFresh
<1>8. ASSUME NEW m, SendControlLine(m, TRUE)
      PROVE  staged' # <<>> /\ (staged = <<>> => staged'[1] = Line(m))
  <2>1. PICK u : u = Line(m)
    OBVIOUS
  <2>2. staged' = Append(staged, u)
    BY <1>8, <2>1 DEF SendControlLine
  <2>3. PICK n \in Nat : n = Len(staged)
    BY <1>t
  <2>4. Len(staged') = n + 1 /\ staged'[n + 1] = u
    BY <1>t, <2>2, <2>3
  <2>5. staged = <<>> => n = 0
    BY <2>3
  <2>6. staged' # <<>>
    <3>1. Len(staged') # 0
      BY <2>3, <2>4
    <3>2. QED
      BY <3>1
  <2>7. QED
    BY <2>1, <2>4, <2>5, <2>6
<1>9. Answered'
  <2>1. host.state # "closed" => host.conn \in Conn
    BY DEF Both, HostInv, HostConn
  <2>2. host.state = "dialled" => client # host.conn
    BY <1>2 DEF RxInv, HostSide, Answered
  <2>3. host.state = "dialled" => inbox'[host.conn] = <<>>
    BY <1>4, <2>1, <2>2 DEF RxInv, HostSide, Answered
  <2>4. host.state = "dialled" => ~Joined
    BY <1>j, <2>2
  <2>5. host.state = "hello" /\ Joined /\ staged' # <<>> => inbox'[host.conn] = <<>>
    <3>1. SUFFICES ASSUME host.state = "hello", Joined, staged' # <<>> PROVE Tail(s) = <<>>
      BY <1>4, <1>j
    <3>2. staged = <<>>
      BY <1>1, <1>2, <1>j, <3>1 DEF RxInv, HostSide, Answered
    <3>3. Head(inbox[client]).kind = "eol"
      BY <3>1, <3>2 DEF RxLine
    <3>4. QED
      BY <1>3, <1>4, <3>3
  <2>6. QED
    BY <1>2, <2>3, <2>4, <2>5 DEF Answered
<1>10. ASSUME Head(s).kind = "eol", proto'.ready, proto'.rxSeq = 0, proto'.rxRecord = <<>>,
              proto'.rxTag = <<>>, proto'.rxPlain = <<>>, ~proto'.secure => staged'[1] = OkLine(FALSE)
       PROVE  FirstLine' /\ DeviceRx' /\ HostTx'
  <2>1. inbox'[client'] = <<>> /\ delivered' = <<>> /\ ~Handshaking'
    BY <1>2, <1>4, <1>7, <1>10 DEF Handshaking
  <2>2. PICK none \in Seq(Unit) : none = <<>>
    <3>1. <<>> \in Seq(Unit)
      OBVIOUS
    <3>2. QED
      BY <3>1, Zenon
  <2>3. Arrived' = none /\ Delivered' = <<>> /\ inbox'[client'] = none
    <3>1. none \o none = none
      BY <2>2
    <3>2. QED
      BY <1>10, <2>1, <2>2, <3>1 DEF Arrived, Delivered
  <2>4. Incoming(none, proto'.key, 0, 0) /\ IncomingRaw(none, 0)
    BY <2>2 DEF Incoming, IncomingRaw, Run
  <2>5. DeviceRx'
    BY <1>10, <2>1, <2>3, <2>4 DEF DeviceRx, RxParts, FirstBytes
  <2>6. Joined => UpToSent(none, 0, 0)'
    BY <1>2, <1>j, <2>2 DEF UpToSent
  <2>7. HostTx'
    <3>1. Joined => sent' = Len(delivered') + Len(inbox'[client'])
      <4>1. Len(delivered') = 0 /\ Len(inbox'[client']) = 0
        BY <2>1
      <4>2. QED
        BY <1>2, <1>j, <4>1
    <3>2. Len(<<>>) = 0
      OBVIOUS
    <3>3. QED
      BY <1>2, <1>10, <3>1, <3>2, <2>3, <2>6 DEF HostTx, UpToSent
  <2>8. QED
    BY <1>10, <2>1, <2>5, <2>7 DEF FirstLine, Session
<1>11. ASSUME ~proto'.ready, proto'.hs = "WaitingHello" => staged' = <<>>
       PROVE  FirstLine' /\ DeviceRx' /\ HostTx'
  BY <1>2, <1>7, <1>11 DEF FirstLine, DeviceRx, HostTx, Session
<1>12. FirstLine' /\ DeviceRx' /\ HostTx'
  <2>1. CASE proto' \in {proto, [proto EXCEPT !.line = @ + 1]} /\ UNCHANGED staged
    <3>1. ~proto'.ready /\ proto'.hs = proto.hs
      BY <1>t, <1>1, <2>1 DEF ProtoType
    <3>2. QED
      BY <1>7, <1>11, <2>1, <3>1
  <2>2. ASSUME NEW cn, NEW sn, proto' = ChallengeState(cn, sn) PROVE FirstLine' /\ DeviceRx' /\ HostTx'
    <3>1. ~proto'.ready /\ proto'.hs = "WaitingAuth"
      BY <1>t, <1>1, <2>2 DEF ProtoType, ChallengeState
    <3>2. QED
      BY <1>11, <3>1
  <2>3. ASSUME Head(s).kind = "eol", proto.hs = "WaitingHello", proto' = ReadyState(proto),
               SendControlLine([type |-> "OK", secure |-> FALSE], TRUE)
        PROVE  FirstLine' /\ DeviceRx' /\ HostTx'
    <3>1. /\ proto'.ready /\ proto'.rxSeq = 0 /\ proto'.rxRecord = <<>> /\ proto'.rxTag = <<>>
          /\ proto'.rxPlain = <<>>
      BY <1>t, <1>c, <2>3 DEF ProtoType, ReadyState
    <3>2. staged'[1] = OkLine(FALSE)
      BY <1>7, <1>8, <2>3 DEF OkLine
    <3>3. QED
      BY <1>10, <2>3, <3>1, <3>2
  <2>4. ASSUME Head(s).kind = "eol", proto' = ReadyState([DeriveSessionKeys(proto) EXCEPT !.secure = TRUE])
        PROVE  FirstLine' /\ DeviceRx' /\ HostTx'
    <3>1. /\ proto'.ready /\ proto'.rxSeq = 0 /\ proto'.rxRecord = <<>> /\ proto'.rxTag = <<>>
          /\ proto'.rxPlain = <<>> /\ proto'.secure
      BY <1>t, <2>4 DEF ProtoType, ReadyState, DeriveSessionKeys
    <3>2. QED
      BY <1>10, <2>4, <3>1
  <2>5. QED
    BY <1>3, <2>1, <2>2, <2>3, <2>4 DEF RxLine
<1>13. QED
  BY <1>5, <1>6, <1>9, <1>12 DEF RxInv, DeviceSide, HostSide

\* The device in session has read something, and nothing else has happened.
RxReads ==
  /\ Session /\ UNCHANGED <<client, link, staged, carrier>>
  /\ proto'.ready /\ proto'.secure = proto.secure
  /\ \A c \in Conn : c # client => inbox'[c] = inbox[c]
  /\ inbox[client] = <<>> => inbox'[client] = <<>>

\* The client's stream is all that changes.
LEMMA SessionReads ==
  ASSUME Both, RxInv, RxReads, UNCHANGED hostVars, DeviceRx', HostTx'
  PROVE  RxInv'
<1>h. host' = host /\ sent' = sent /\ Joined' = Joined /\ Live' = Live
  BY DEF hostVars, RxReads, Joined, Live
<1>1. LinesOnly'
  BY DEF RxInv, DeviceSide, LinesOnly, RxReads
<1>2. FirstLine'
  BY DEF RxInv, DeviceSide, FirstLine, RxReads, Session, Handshaking, Live
<1>3. HostFresh'
  BY <1>h DEF RxInv, HostSide, HostFresh
<1>4. Answered'
  <2>1. Live /\ staged # <<>> /\ client = carrier /\ staged' = staged
    BY DEF Both, Inv, SentInv, StreamGoesOn, Accepted, RxReads, Session, Live
  <2>2. host.state # "closed" => host.conn \in Conn
    BY DEF Both, HostInv, HostConn
  <2>3. inbox[host.conn] = <<>> /\ host.state # "closed" => inbox'[host.conn] = <<>>
    BY <2>2 DEF RxReads
  <2>4. host.state = "dialled" => inbox'[host.conn] = <<>> /\ ~Joined
    BY <2>1, <2>3 DEF RxInv, HostSide, Answered
  <2>5. host.state = "hello" /\ Joined => inbox'[host.conn] = <<>>
    BY <2>1, <2>3 DEF RxInv, HostSide, Answered
  <2>6. QED
    BY <1>h, <2>4, <2>5 DEF Answered
<1>5. QED
  BY <1>1, <1>2, <1>3, <1>4 DEF RxInv, DeviceSide, HostSide

LEMMA RegroupUnits ==
  ASSUME NEW r \in Seq(Unit), NEW s \in Seq(Unit), NEW t \in Seq(Unit)
  PROVE  (r \o s) \o t = r \o (s \o t)
  BY ConcatAssociative, SMTT(60)

\* r is the front of s, c the rest of it.
Splits(s, r, c) ==
  /\ r \in Seq(Unit) /\ c \in Seq(Unit) /\ r # <<>> /\ r \o c = s
  /\ Len(s) = Len(r) + Len(c)
  /\ \A i \in 1..Len(r) : s[i] = r[i]
  /\ \A i \in 1..Len(c) : s[Len(r) + i] = c[i]

\* What is taken from the front of b is what follows a.
LEMMA TakeMore ==
  ASSUME NEW a \in Seq(Unit), NEW b \in Seq(Unit), NEW k \in 1..Len(b)
  PROVE  Splits(a \o b, a \o SubSeq(b, 1, k), DropFirst(b, k))
<1>c. PICK c : c = DropFirst(b, k)
  OBVIOUS
<1>1. c \in Seq(Unit) /\ Len(c) \in Nat
  <2>1. k \in 0..Len(b)
    OBVIOUS
  <2>2. QED
    BY <1>c, <2>1, DropFirstType
<1>2. PICK h \in Seq(Unit) : h = SubSeq(b, 1, k)
  <2>1. SubSeq(b, 1, k) \in Seq(Unit)
    OBVIOUS
  <2>2. QED
    BY <2>1, Zenon
<1>3. Len(h) = k /\ h \o c = b
  <2>1. Len(SubSeq(b, 1, k)) = k
    OBVIOUS
  <2>2. SubSeq(b, 1, k) \o DropFirst(b, k) = b
    BY SplitSequence, Zenon
  <2>3. QED
    BY <1>c, <1>2, <2>1, <2>2, Zenon
<1>4. PICK v \in Seq(Unit) : v = a \o h
  <2>1. a \o h \in Seq(Unit)
    OBVIOUS
  <2>2. QED
    BY <2>1, Zenon
<1>5. Len(v) = Len(a) + k /\ Len(a) \in Nat
  <2>1. Len(a \o h) = Len(a) + Len(h) /\ Len(a) \in Nat
    OBVIOUS
  <2>2. QED
    BY <1>3, <1>4, <2>1
<1>6. v \o c = a \o b
  <2>1. (a \o h) \o c = a \o (h \o c)
    BY <1>1, RegroupUnits, Zenon
  <2>2. QED
    BY <1>3, <1>4, <2>1
<1>7. v # <<>>
  <2>1. Len(v) # 0
    BY <1>5
  <2>2. QED
    BY <2>1
<1>8. /\ Len(v \o c) = Len(v) + Len(c) /\ \A i \in 1..Len(v) : (v \o c)[i] = v[i]
      /\ \A i \in 1..Len(c) : (v \o c)[Len(v) + i] = c[i]
  BY <1>1
<1>9. Splits(v \o c, v, c)
  BY <1>1, <1>7, <1>8 DEF Splits
<1>10. QED
  BY <1>c, <1>2, <1>4, <1>6, <1>9, Zenon

\* Records that reach up to what was sent still do without the first of them.
LEMMA RestUpToSent ==
  ASSUME NEW s \in Seq(Unit), NEW k, NEW q, NEW n \in Nat, Incoming(s, k, q, n), s # <<>>,
         UpToSent(s, q, n), NEW z, NEW t \in Seq(Unit), WithoutFirst(t, s, z)
  PROVE  UpToSent(t, q + 1, n + Len(s[1].rec.data))
<1>0. z <= Len(s) /\ Len(t) = Len(s) - z /\ \A i \in 1..Len(t) : t[i] = s[z + i]
  BY DEF WithoutFirst
<1>1. PICK m : m = n + Len(s[1].rec.data)
  OBVIOUS
<1>2. z \in 1..Len(s) /\ RecordEnd(s[z]) /\ NextSeq(s[z]) = q + 1 /\ Upto(s[z]) = m
  <2>1. z \in 1..Len(s) /\ RecordEnd(s[z]) /\ NextSeq(s[z]) = q + 1 /\ Upto(s[z]) = n + Len(s[1].rec.data)
    BY RestOfRecords
  <2>2. QED
    BY <1>1, <2>1
<1>3. m <= sent
  BY <1>2 DEF UpToSent
<1>4. ASSUME NEW i \in 1..Len(t) PROVE Upto(t[i]) <= sent
  <2>1. z + i \in 1..Len(s)
    BY <1>0, <1>2
  <2>2. QED
    BY <1>0, <2>1 DEF UpToSent
<1>5. PICK last : last = s[Len(s)]
  OBVIOUS
<1>6. RecordEnd(last) /\ NextSeq(last) = host.txSeq /\ Upto(last) = sent
  BY <1>5 DEF UpToSent
<1>7. ASSUME t = <<>> PROVE host.txSeq = q + 1 /\ sent = m
  <2>1. Len(t) = 0
    BY <1>7
  <2>2. z = Len(s)
    BY <1>0, <1>2, <2>1
  <2>3. QED
    BY <1>2, <1>5, <1>6, <2>2
<1>8. ASSUME t # <<>> PROVE t[Len(t)] = last
  <2>1. z + Len(t) = Len(s) /\ Len(t) \in Nat
    BY <1>0, <1>2
  <2>3. Len(t) \in 1..Len(t)
    BY <1>8, <2>1
  <2>2. QED
    BY <1>0, <1>5, <2>1, <2>3
<1>9. UpToSent(t, q + 1, m)
  BY <1>3, <1>4, <1>6, <1>7, <1>8 DEF UpToSent
<1>10. QED
  BY <1>1, <1>9

\* What has arrived of the first record: the header names it, and the whole of
\* it is the record that the device expects.
LEMMA RecordIsExpected ==
  ASSUME TypeInv, NEW s \in Seq(Unit), NEW n \in Nat, s # <<>>,
         proto.secure, Incoming(s, proto.key, proto.rxSeq, n),
         NEW r \in Seq(Unit), Len(r) <= Len(s), \A i \in 1..Len(r) : r[i] = s[i],
         Len(r) >= HeaderSize
  PROVE  /\ GoodHeader(r) /\ r[HeaderSize].rec = s[1].rec
         /\ CipherEnd(r) = HeaderSize + Len(s[1].rec.data)
         /\ Len(r) = CipherEnd(r) + TagSize => Decrypts(r)
<1> USE ConstantsAssumption
<1>1. PICK c : c = s[1].rec
  OBVIOUS
<1>2. PICK d : d = c.data
  OBVIOUS
<1>3. /\ d \in Seq(Nat) /\ Len(d) \in 1..MaxRecord /\ proto.rxSeq \in Nat /\ proto.rxSeq < SeqMax
      /\ c = [key |-> proto.key, dir |-> "h2d", seq |-> proto.rxSeq, data |-> d]
      /\ \A m \in 1..Len(s) : m <= HeaderSize + Len(d) + TagSize =>
           \A i \in 1..m : s[i] = [kind |-> "cell", at |-> i, rec |-> c]
  <2>1. PICK k, q : k = proto.key /\ q = proto.rxSeq
    OBVIOUS
  <2>2. Incoming(s, k, q, n)
    BY <2>1
  <2>3. /\ c.data \in Seq(Nat) /\ Len(c.data) \in 1..MaxRecord /\ q \in Nat /\ q < SeqMax
        /\ c = [key |-> k, dir |-> "h2d", seq |-> q, data |-> c.data]
        /\ \A m \in 1..Len(s) : m <= HeaderSize + Len(c.data) + TagSize =>
             \A i \in 1..m : s[i] = [kind |-> "cell", at |-> i, rec |-> c]
    BY <1>1, <2>2, FirstRecord
  <2>4. QED
    BY <1>2, <2>1, <2>3
<1>4. HeaderSize \in 1..Len(s) /\ HeaderSize \in 1..Len(r) /\ HeaderSize <= HeaderSize + Len(d) + TagSize
  BY <1>3
<1>5. r[HeaderSize] = [kind |-> "cell", at |-> HeaderSize, rec |-> c]
  <2>1. s[HeaderSize] = [kind |-> "cell", at |-> HeaderSize, rec |-> c]
    BY <1>3, <1>4
  <2>2. QED
    BY <1>4, <2>1
<1>6. /\ r[HeaderSize].kind = "cell" /\ r[HeaderSize].rec = c /\ c.data = d /\ c.seq = proto.rxSeq
  BY <1>2, <1>3, <1>5
<1>7. GoodHeader(r) /\ CipherEnd(r) = HeaderSize + Len(d)
  BY <1>3, <1>6 DEF GoodHeader, CipherEnd
<1>8. ASSUME Len(r) = HeaderSize + Len(d) + TagSize PROVE Decrypts(r)
  <2>1. PICK x : x = Seal(proto.key, "h2d", proto.rxSeq, d)
    OBVIOUS
  <2>2. x \in Seq(Unit) /\ Len(x) = Len(r)
    <3>1. proto.key \in SessionKey
      BY DEF TypeInv, SecureKey
    <3>2. /\ Seal(proto.key, "h2d", proto.rxSeq, d) \in Seq(Unit)
          /\ Len(Seal(proto.key, "h2d", proto.rxSeq, d)) = HeaderSize + Len(d) + TagSize
      BY <1>3, <3>1, SealType
    <3>3. QED
      BY <1>8, <2>1, <3>2
  <2>3. ASSUME NEW i \in 1..Len(r) PROVE r[i] = x[i]
    <3>1. i \in 1..(HeaderSize + Len(d) + TagSize)
      BY <1>8
    <3>2. x[i] = [kind |-> "cell", at |-> i, rec |-> c]
      BY <1>3, <2>1, <3>1 DEF Seal
    <3>3. PICK m : m = Len(r)
      OBVIOUS
    <3>4. m \in 1..Len(s) /\ m <= HeaderSize + Len(d) + TagSize /\ i \in 1..m
      BY <1>3, <1>8, <3>3
    <3>5. s[i] = [kind |-> "cell", at |-> i, rec |-> c]
      BY <1>3, <3>4
    <3>6. QED
      BY <3>2, <3>5
  <2>4. r = x
    BY <2>2, <2>3
  <2>5. QED
    BY <1>3, <1>6, <2>1, <2>4 DEF Decrypts
<1>9. QED
  BY <1>1, <1>2, <1>6, <1>7, <1>8

\* The units that one reading takes from the front of b, in two parts.
LEMMA TwoParts ==
  ASSUME NEW b \in Seq(Unit), NEW k \in 0..Len(b), NEW t \in Nat, k + t \in 1..Len(b)
  PROVE  /\ SubSeq(b, 1, k) \in Seq(Unit) /\ SubSeq(b, k + 1, k + t) \in Seq(Unit)
         /\ Len(SubSeq(b, 1, k)) = k /\ Len(SubSeq(b, k + 1, k + t)) = t
         /\ SubSeq(b, 1, k) \o SubSeq(b, k + 1, k + t) = SubSeq(b, 1, k + t)
<1>1. PICK h \in Seq(Unit) : h = SubSeq(b, 1, k)
  <2>1. SubSeq(b, 1, k) \in Seq(Unit)
    OBVIOUS
  <2>2. QED
    BY <2>1, Zenon
<1>2. PICK e \in Seq(Unit) : e = SubSeq(b, k + 1, k + t)
  <2>1. SubSeq(b, k + 1, k + t) \in Seq(Unit)
    OBVIOUS
  <2>2. QED
    BY <2>1, Zenon
<1>3. PICK f \in Seq(Unit) : f = SubSeq(b, 1, k + t)
  <2>1. SubSeq(b, 1, k + t) \in Seq(Unit)
    OBVIOUS
  <2>2. QED
    BY <2>1, Zenon
<1>4. Len(h) = k /\ \A i \in 1..k : h[i] = b[i]
  BY <1>1
<1>5. Len(e) = t /\ \A i \in 1..t : e[i] = b[k + i]
  BY <1>2
<1>6. Len(f) = k + t /\ \A i \in 1..(k + t) : f[i] = b[i]
  BY <1>3
<1>7. h \o e \in Seq(Unit) /\ Len(h \o e) = k + t
  <2>1. h \o e \in Seq(Unit) /\ Len(h \o e) = Len(h) + Len(e)
    BY ConcatProperties, Zenon
  <2>2. QED
    BY <1>4, <1>5, <2>1
<1>8. ASSUME NEW i \in 1..(k + t) PROVE (h \o e)[i] = f[i]
  <2>1. CASE i <= k
    <3>1. (h \o e)[i] = h[i]
      BY <1>4, <2>1
    <3>2. QED
      BY <1>4, <1>6, <2>1, <3>1
  <2>2. CASE ~(i <= k)
    <3>1. PICK j : j = i - k
      OBVIOUS
    <3>2. j \in 1..t /\ i = k + j
      BY <2>2, <3>1
    <3>3. (h \o e)[i] = e[j]
      <4>1. j \in 1..Len(e)
        BY <1>5, <3>2
      <4>2. (h \o e)[Len(h) + j] = e[j]
        BY <4>1
      <4>3. QED
        BY <1>4, <3>2, <4>2
    <3>4. QED
      BY <1>5, <1>6, <3>2, <3>3
  <2>3. QED
    BY <2>1, <2>2
<1>9. h \o e = f
  <2>1. Len(h \o e) = Len(f) /\ \A i \in 1..Len(h \o e) : (h \o e)[i] = f[i]
    BY <1>6, <1>7, <1>8, Zenon
  <2>2. QED
    BY <1>7, <2>1, SeqEqual, Zenon
<1>10. QED
  BY <1>1, <1>2, <1>3, <1>4, <1>5, <1>9

\* What a pass of handleSecureRx() makes of the record it assembles: r is its
\* header and ciphertext so far, g its tag, and c is left to read.
Advance(x, c) == /\ proto' = x
                 /\ inbox' = [inbox EXCEPT ![client] = c]
                 /\ UNCHANGED <<client, link>>
Part(r, g, c) == Advance([proto EXCEPT !.rxRecord = r, !.rxTag = g], c)
Whole(r, c) == Advance([proto EXCEPT !.rxRecord = <<>>, !.rxTag = <<>>, !.rxSeq = @ + 1,
                                     !.rxPlain = r[HeaderSize].rec.data], c)

\* Of a record in which ciphertext is among the tag nothing comes but more of
\* it, and the end of the session when it is complete.
LEMMA SpoiledStays ==
  ASSUME TypeInv, Session, Spoiled, RxParts, proto.secure,
         NEW k \in Nat, NEW t \in Nat, k <= Len(inbox[client]), k + t \in 1..Len(inbox[client]),
         SecureRxRead(k, t)
  PROVE  \/ CloseProtocolClient
         \/ /\ \E c, r, g : Part(r, g, c)
            /\ (RxParts /\ Spoiled)'
<1>t. /\ proto \in ProtoType /\ inbox[client] \in Seq(Unit) /\ HeaderSize \in Nat \ {0} /\ TagSize \in Nat
  BY ConstantsAssumption DEF TypeInv, TypeOK, Session, Live
<1>1. PICK a \in Seq(Unit) : a = proto.rxRecord
  BY <1>t DEF ProtoType
<1>2. PICK g \in Seq(Unit) : g = proto.rxTag
  BY <1>t DEF ProtoType
<1>3. PICK b \in Seq(Unit) : b = inbox[client]
  BY <1>t
<1>4. /\ g # <<>> /\ g[1].at # CipherEnd(a) + 1 /\ Len(a) >= HeaderSize
  BY <1>1, <1>2 DEF Spoiled, RxParts
<1>5. PICK h \in Seq(Unit) : h = SubSeq(b, 1, k)
  <2>1. SubSeq(b, 1, k) \in Seq(Unit)
    BY <1>3
  <2>2. QED
    BY <2>1, Zenon
<1>6. PICK e \in Seq(Unit) : e = SubSeq(b, k + 1, k + t)
  <2>1. SubSeq(b, k + 1, k + t) \in Seq(Unit)
    BY <1>3
  <2>2. QED
    BY <2>1, Zenon
<1>7. PICK r \in Seq(Unit) : r = a \o h
  BY Zenon, ConcatProperties
<1>8. PICK tag \in Seq(Unit) : tag = g \o e
  BY Zenon, ConcatProperties
<1>9. Len(r) >= HeaderSize /\ r[HeaderSize] = a[HeaderSize]
  <2>1. HeaderSize \in 1..Len(a)
    BY <1>4, <1>t
  <2>2. (a \o h)[HeaderSize] = a[HeaderSize] /\ Len(a \o h) >= Len(a)
    BY <2>1
  <2>3. QED
    BY <1>4, <1>7, <1>t, <2>2
<1>10. tag # <<>> /\ tag[1] = g[1] /\ Len(tag) >= 1
  <2>1. 1 \in 1..Len(g)
    BY <1>4
  <2>2. (g \o e)[1] = g[1] /\ Len(g \o e) >= 1
    BY <2>1
  <2>3. QED
    BY <1>8, <2>2
<1>11. CipherEnd(r) = CipherEnd(a)
  BY <1>9 DEF CipherEnd
<1>12. /\ r = proto.rxRecord \o SubSeq(inbox[client], 1, k)
       /\ tag = proto.rxTag \o SubSeq(inbox[client], k + 1, k + t)
  BY <1>1, <1>2, <1>3, <1>5, <1>6, <1>7, <1>8
<1>13. \/ CloseProtocolClient
       \/ Part(r, tag, DropFirst(inbox[client], k + t))
       \/ Len(r) = CipherEnd(r) /\ Decrypts(r \o tag)
  <2>1. ~(Len(r) < HeaderSize)
    BY <1>9, <1>t
  <2>2. QED
    BY <1>12, <2>1, SMTT(60) DEF SecureRxRead, Part, Advance
<1>14. ASSUME Len(r) = CipherEnd(r), Decrypts(r \o tag) PROVE FALSE
  <2>1. PICK x \in Seq(Unit) : x = r \o tag
    BY Zenon, ConcatProperties
  <2>2. Len(r) + 1 \in 1..Len(x) /\ x[Len(r) + 1] = tag[1]
    <3>1. 1 \in 1..Len(tag) /\ Len(r) \in Nat
      BY <1>10
    <3>2. (r \o tag)[Len(r) + 1] = tag[1] /\ Len(r) + 1 \in 1..Len(r \o tag)
      BY <3>1
    <3>3. QED
      BY <2>1, <3>2
  <2>3. PICK z, d : x = Seal(proto.key, "h2d", proto.rxSeq, d) /\ z = HeaderSize + Len(d) + TagSize
    BY <1>14, <2>1 DEF Decrypts
  <2>4. DOMAIN x = 1..z /\ \A i \in 1..z : x[i].at = i
    BY <2>3 DEF Seal
  <2>5. DOMAIN x = 1..Len(x)
    OBVIOUS
  <2>6. x[Len(r) + 1].at = Len(r) + 1
    BY <2>2, <2>4, <2>5
  <2>7. QED
    BY <1>4, <1>10, <1>11, <1>14, <2>2, <2>6
<1>15. ASSUME Part(r, tag, DropFirst(inbox[client], k + t)) PROVE (RxParts /\ Spoiled)'
  <2>1. proto'.rxRecord = r /\ proto'.rxTag = tag
    BY <1>15, <1>t DEF Part, Advance, ProtoType
  <2>2. Spoiled'
    BY <1>4, <1>10, <1>11, <2>1 DEF Spoiled, CipherEnd
  <2>3. QED
    BY <1>9, <2>1, <2>2 DEF RxParts
<1>16. QED
  BY <1>13, <1>14, <1>15

\* Two pieces, each with what is added to it, hold the same units as the two
\* pieces and then both additions: the tag is not begun before the ciphertext
\* is complete.
Regroups(a, h, o, e) == (a \o h) \o (o \o e) = (a \o o) \o (h \o e)

LEMMA RegroupPieces ==
  ASSUME NEW a \in Seq(Unit), NEW o \in Seq(Unit), NEW h \in Seq(Unit), NEW e \in Seq(Unit),
         o # <<>> => h = <<>>
  PROVE  Regroups(a, h, o, e)
<1> USE DEF Regroups
<1>1. CASE o = <<>>
  <2>1. o \o e = e /\ a \o o = a
    BY <1>1
  <2>2. (a \o h) \o e = a \o (h \o e)
    BY RegroupUnits, SMTT(30)
  <2>3. QED
    BY <2>1, <2>2, Zenon
<1>2. CASE o # <<>>
  <2>1. h = <<>> /\ a \o h = a /\ h \o e = e
    BY <1>2
  <2>2. (a \o o) \o e = a \o (o \o e)
    BY RegroupUnits, SMTT(30)
  <2>3. QED
    BY <2>1, <2>2, Zenon
<1>3. QED
  BY <1>1, <1>2

\* Otherwise the units that were read are the next ones of what has arrived,
\* and they are put together right, unless ciphertext goes into the tag now.
LEMMA PiecesJoin ==
  ASSUME TypeInv, Session, ~Spoiled, RxParts, proto.secure,
         NEW k \in Nat, NEW t \in Nat, k <= Len(inbox[client]), k + t \in 1..Len(inbox[client]),
         k = 0 <=> CiphertextComplete, SecureRxRead(k, t),
         NEW n \in Nat, Incoming(Arrived, proto.key, proto.rxSeq, n)
  PROVE  \E r \in Seq(Unit), g \in Seq(Unit), c \in Seq(Unit) :
           /\ Splits(Arrived, r \o g, c)
           /\ \/ Part(r, g, c) /\ RxParts'
              \/ /\ Whole(r, c)
                 /\ Len(r \o g) = HeaderSize + Len(Arrived[1].rec.data) + TagSize
                 /\ r[HeaderSize].rec = Arrived[1].rec
<1>t. /\ proto \in ProtoType /\ inbox[client] \in Seq(Unit) /\ HeaderSize \in Nat \ {0} /\ TagSize \in Nat
  BY ConstantsAssumption DEF TypeInv, TypeOK, Session, Live
<1>1. PICK a \in Seq(Unit) : a = proto.rxRecord
  BY <1>t DEF ProtoType
<1>2. PICK o \in Seq(Unit) : o = proto.rxTag
  BY <1>t DEF ProtoType
<1>3. PICK b \in Seq(Unit) : b = inbox[client]
  BY <1>t
<1>4. o # <<>> => k = 0 /\ Len(a) >= HeaderSize /\ Len(a) = CipherEnd(a)
  BY <1>1, <1>2 DEF RxParts, CiphertextComplete
<1>k. k \in 0..Len(b) /\ k + t \in 1..Len(b) /\ Len(b) \in Nat
  BY <1>3
<1>p. /\ SubSeq(b, 1, k) \in Seq(Unit) /\ SubSeq(b, k + 1, k + t) \in Seq(Unit)
      /\ Len(SubSeq(b, 1, k)) = k /\ Len(SubSeq(b, k + 1, k + t)) = t
      /\ SubSeq(b, 1, k) \o SubSeq(b, k + 1, k + t) = SubSeq(b, 1, k + t)
  BY <1>k, TwoParts
<1>5. PICK h \in Seq(Unit) : h = SubSeq(b, 1, k) /\ Len(h) = k
  BY <1>p, Zenon
<1>6. PICK e \in Seq(Unit) : e = SubSeq(b, k + 1, k + t) /\ Len(e) = t
  BY <1>p, Zenon
<1>7. PICK r \in Seq(Unit) : r = a \o h
  BY Zenon, ConcatProperties
<1>8. PICK g \in Seq(Unit) : g = o \o e
  BY Zenon, ConcatProperties
<1>9. PICK c : c = DropFirst(b, k + t)
  OBVIOUS
<1>10. PICK f \in Seq(Unit) : f = r \o g
  BY Zenon, ConcatProperties
<1>11. PICK s \in Seq(Unit) : s = Arrived
  <2>1. PICK ao \in Seq(Unit) : ao = a \o o
    BY Zenon, ConcatProperties
  <2>2. PICK x \in Seq(Unit) : x = ao \o b
    BY Zenon, ConcatProperties
  <2>3. QED
    BY <1>1, <1>2, <1>3, <2>1, <2>2 DEF Arrived
<1>e. ASSUME NEW x \in Seq(Unit) PROVE x \o <<>> = x /\ <<>> \o x = x
  OBVIOUS
<1>12. f = (a \o o) \o SubSeq(b, 1, k + t)
  <2>1. o # <<>> => h = <<>>
    BY <1>4, <1>5
  <2>2. Regroups(a, h, o, e)
    BY <2>1, RegroupPieces, Zenon
  <2>3. h \o e = SubSeq(b, 1, k + t)
    BY <1>5, <1>6, <1>p, Zenon
  <2>4. QED
    BY <1>7, <1>8, <1>10, <2>2, <2>3, Zenon DEF Regroups
<1>13. Splits(s, f, c)
  <2>1. PICK ao \in Seq(Unit) : ao = a \o o
    BY Zenon, ConcatProperties
  <2>2. Splits(ao \o b, ao \o SubSeq(b, 1, k + t), DropFirst(b, k + t))
    BY <1>k, TakeMore
  <2>3. s = ao \o b
    BY <1>1, <1>2, <1>3, <1>11, <2>1 DEF Arrived
  <2>4. QED
    BY <1>9, <1>12, <2>1, <2>2, <2>3
<1>14. /\ f # <<>> /\ c \in Seq(Unit) /\ Len(f) <= Len(s) /\ \A i \in 1..Len(f) : f[i] = s[i]
  BY <1>13 DEF Splits
<1>15. /\ Len(f) = Len(r) + Len(g) /\ \A i \in 1..Len(r) : f[i] = r[i]
       /\ \A i \in 1..Len(g) : f[Len(r) + i] = g[i]
  BY <1>10
<1>16. s # <<>> /\ Len(r) <= Len(s) /\ \A i \in 1..Len(r) : r[i] = s[i]
  <2>1. Len(f) # 0 /\ Len(f) \in Nat /\ Len(s) \in Nat /\ Len(r) \in Nat /\ Len(g) \in Nat
    BY <1>14
  <2>2. s # <<>> /\ Len(r) <= Len(f)
    BY <1>14, <1>15, <2>1
  <2>3. Len(r) <= Len(s)
    BY <1>14, <2>1, <2>2
  <2>4. ASSUME NEW i \in 1..Len(r) PROVE r[i] = s[i]
    <3>1. i \in 1..Len(f)
      BY <2>1, <2>2
    <3>2. QED
      BY <1>14, <1>15, <3>1, Zenon
  <2>5. QED
    BY <2>2, <2>3, <2>4, Zenon
<1>17. Incoming(s, proto.key, proto.rxSeq, n)
  BY <1>11
<1>18. Len(r) >= HeaderSize =>
         /\ GoodHeader(r) /\ r[HeaderSize].rec = s[1].rec
         /\ CipherEnd(r) = HeaderSize + Len(s[1].rec.data)
         /\ Len(f) = CipherEnd(r) + TagSize => Decrypts(f)
  <2>1. SUFFICES ASSUME Len(r) >= HeaderSize
                 PROVE  /\ GoodHeader(r) /\ r[HeaderSize].rec = s[1].rec
                        /\ CipherEnd(r) = HeaderSize + Len(s[1].rec.data)
                        /\ Len(f) = CipherEnd(r) + TagSize => Decrypts(f)
    OBVIOUS
  <2>2. Len(f) >= HeaderSize
    BY <1>15, <1>t, <2>1
  <2>3. /\ GoodHeader(r) /\ r[HeaderSize].rec = s[1].rec
        /\ CipherEnd(r) = HeaderSize + Len(s[1].rec.data)
    BY <1>16, <1>17, <2>1, RecordIsExpected
  <2>4. /\ CipherEnd(f) = HeaderSize + Len(s[1].rec.data)
        /\ Len(f) = CipherEnd(f) + TagSize => Decrypts(f)
    BY <1>14, <1>16, <1>17, <2>2, RecordIsExpected
  <2>5. QED
    BY <2>3, <2>4
<1>19. /\ r = proto.rxRecord \o SubSeq(inbox[client], 1, k)
       /\ g = proto.rxTag \o SubSeq(inbox[client], k + 1, k + t)
       /\ c = DropFirst(inbox[client], k + t)
  BY <1>1, <1>2, <1>3, <1>5, <1>6, <1>7, <1>8, <1>9
<1>20. Len(r) \in Nat /\ Len(g) \in Nat /\ Len(r) = Len(a) + k /\ (o = <<>> => Len(g) = t)
  <2>1. Len(a \o h) = Len(a) + Len(h)
    OBVIOUS
  <2>2. o = <<>> => g = e
    BY <1>8, <1>e
  <2>3. Len(r) \in Nat /\ Len(g) \in Nat
    OBVIOUS
  <2>4. Len(r) = Len(a) + k
    BY <1>5, <1>7, <2>1
  <2>5. QED
    BY <1>6, <2>2, <2>3, <2>4
<1>s. \/ Len(r) < HeaderSize /\ t = 0 /\ Advance([proto EXCEPT !.rxRecord = r], c)
      \/ Len(r) = HeaderSize /\ ~GoodHeader(r)
      \/ /\ Len(r) >= HeaderSize
         /\ Len(r) <= CipherEnd(r) /\ (t > 0 => Len(r) \in {HeaderSize, CipherEnd(r)})
         /\ \/ Part(r, g, c)
            \/ /\ Len(r) = CipherEnd(r) /\ Len(g) = TagSize
               /\ Decrypts(r \o g) => Whole(r, c)
  <2>1. [inbox EXCEPT ![client] = DropFirst(@, k + t)] = [inbox EXCEPT ![client] = c]
    BY <1>19
  <2>2. QED
    BY <1>19, <2>1 DEF SecureRxRead, Part, Whole, Advance
<1>21. \/ /\ Part(r, g, c)
          /\ t = 0 \/ Len(r) \in {HeaderSize, CipherEnd(r)}
          /\ Len(r) < HeaderSize => t = 0
          /\ Len(r) >= HeaderSize => Len(r) <= CipherEnd(r)
       \/ Len(r) >= HeaderSize /\ Len(r) = CipherEnd(r) /\ Len(g) = TagSize /\ Whole(r, c)
  <2>1. CASE Len(r) < HeaderSize /\ t = 0 /\ Advance([proto EXCEPT !.rxRecord = r], c)
    <3>1. t = 0 /\ proto' = [proto EXCEPT !.rxRecord = r] /\ UNCHANGED <<client, link>>
          /\ inbox' = [inbox EXCEPT ![client] = c]
      BY <2>1 DEF Advance
    <3>2. o = <<>>
      BY <1>4, <1>20, <1>t, <2>1
    <3>3. g = <<>>
      BY <1>20, <3>1, <3>2
    <3>4. [proto EXCEPT !.rxRecord = r] = [proto EXCEPT !.rxRecord = r, !.rxTag = g]
      BY <1>2, <1>t, <3>2, <3>3 DEF ProtoType
    <3>5. QED
      BY <1>20, <1>t, <2>1, <3>1, <3>4 DEF Part, Advance
  <2>2. CASE /\ Len(r) >= HeaderSize
             /\ Len(r) <= CipherEnd(r) /\ (t > 0 => Len(r) \in {HeaderSize, CipherEnd(r)})
             /\ \/ Part(r, g, c)
                \/ /\ Len(r) = CipherEnd(r) /\ Len(g) = TagSize
                   /\ Decrypts(r \o g) => Whole(r, c)
    <3>3. Len(r) = CipherEnd(r) /\ Len(g) = TagSize => Decrypts(r \o g)
      BY <1>10, <1>15, <1>18, <2>2
    <3>4. QED
      BY <1>20, <1>t, <2>2, <3>3
  <2>3. QED
    BY <1>18, <1>20, <1>s, <1>t, <2>1, <2>2
<1>22. ASSUME /\ Part(r, g, c)
              /\ t = 0 \/ Len(r) \in {HeaderSize, CipherEnd(r)}
              /\ Len(r) < HeaderSize => t = 0
              /\ Len(r) >= HeaderSize => Len(r) <= CipherEnd(r)
       PROVE  RxParts'
  <2>1. proto'.rxRecord = r /\ proto'.rxTag = g
    BY <1>22, <1>t DEF Part, Advance, ProtoType
  <2>2. SUFFICES ASSUME g # <<>>
                 PROVE  Len(r) >= HeaderSize /\ (Spoiled' \/ Len(r) = CipherEnd(r))
    BY <2>1 DEF RxParts, CiphertextComplete, CipherEnd
  <2>3. CASE o # <<>>
    <3>1. h = <<>>
      BY <1>4, <1>5, <2>3
    <3>2. r = a
      BY <1>7, <1>e, <3>1
    <3>3. QED
      BY <1>4, <2>3, <3>2
  <2>4. CASE o = <<>>
    <3>1. t # 0
      <4>1. Len(g) # 0
        BY <2>2
      <4>2. QED
        BY <1>20, <2>4, <4>1
    <3>2. Len(r) >= HeaderSize /\ Len(r) \in {HeaderSize, CipherEnd(r)}
      BY <1>20, <1>22, <1>t, <3>1
    <3>3. ASSUME Len(r) = HeaderSize, Len(r) # CipherEnd(r) PROVE Spoiled'
      <4>1. CipherEnd(r) = HeaderSize + Len(s[1].rec.data) /\ CipherEnd(r) # HeaderSize
        BY <1>18, <3>2, <3>3
      <4>2. HeaderSize + 1 \in 1..Len(f) /\ g[1] = f[HeaderSize + 1] /\ HeaderSize + 1 \in 1..Len(s)
        <5>1. 1 \in 1..Len(g)
          BY <1>20, <2>2
        <5>2. f[Len(r) + 1] = g[1]
          BY <1>15, <5>1
        <5>3. Len(r) + 1 \in 1..Len(f)
          BY <1>15, <1>20, <5>1
        <5>4. QED
          BY <1>14, <1>16, <1>t, <3>3, <5>2, <5>3
      <4>3. g[1].at = HeaderSize + 1
        <5>1. PICK d : d = s[1].rec
          OBVIOUS
        <5>2. /\ Len(d.data) \in 1..MaxRecord
              /\ \A m \in 1..Len(s) : m <= HeaderSize + Len(d.data) + TagSize =>
                   \A i \in 1..m : s[i] = [kind |-> "cell", at |-> i, rec |-> d]
          BY <1>16, <1>17, <5>1, FirstRecord
        <5>3. PICK m : m = HeaderSize + 1
          OBVIOUS
        <5>4. m \in 1..Len(s) /\ m <= HeaderSize + Len(d.data) + TagSize /\ m \in 1..m
          BY <1>t, <4>2, <5>2, <5>3, ConstantsAssumption
        <5>5. s[m] = [kind |-> "cell", at |-> m, rec |-> d]
          BY <5>2, <5>4
        <5>6. QED
          BY <1>14, <4>2, <5>3, <5>5
      <4>4. g[1].at # CipherEnd(r) + 1
        <5>1. PICK z : z = CipherEnd(r)
          OBVIOUS
        <5>2. z # HeaderSize /\ z \in Int
          <6>1. Len(s[1].rec.data) \in Nat
            <7>1. Len(s[1].rec.data) \in 1..MaxRecord
              BY <1>16, <1>17, FirstRecord, Zenon
            <7>2. MaxRecord \in Nat
              BY ConstantsAssumption
            <7>3. ASSUME NEW l \in 1..MaxRecord PROVE l \in Nat
              BY <7>2
            <7>4. QED
              BY <7>1, <7>3, Zenon
          <6>2. QED
            BY <1>t, <4>1, <5>1, <6>1
        <5>3. QED
          BY <1>t, <4>3, <5>1, <5>2
      <4>5. QED
        BY <2>1, <2>2, <4>4 DEF Spoiled, CipherEnd
    <3>4. QED
      BY <3>2, <3>3
  <2>5. QED
    BY <2>3, <2>4
<1>23. ASSUME Len(r) >= HeaderSize, Len(r) = CipherEnd(r), Len(g) = TagSize
       PROVE  /\ Len(f) = HeaderSize + Len(s[1].rec.data) + TagSize
              /\ r[HeaderSize].rec = s[1].rec
  BY <1>15, <1>18, <1>23
<1>24. QED
  BY <1>10, <1>11, <1>13, <1>14, <1>21, <1>22, <1>23

\* The device decrypts what it reads of a session, and refuses none of it but
\* what it has put together wrongly.
LEMMA SecureRxKeeps ==
  ASSUME Both, Both', RxInv, [AnyNext]_vars, ~AcceptClient,
         NEW p \in {"secureRx", "rxAgain"}, SecureRx(p), UNCHANGED hostVars
  PROVE  RxInv' /\ (proto'.ready \/ Spoiled)
<1>t. /\ TypeInv /\ inbox \in [Conn -> Seq(Unit)] /\ proto \in ProtoType /\ delivered \in Seq(Nat)
  BY DEF Both, Inv, TypeInv, TypeOK
<1>1. /\ Session /\ proto.ready /\ proto.secure /\ proto.rxPlain = <<>> /\ inbox[client] # <<>>
      /\ client \in Conn
  BY <1>t DEF SecureRx, CanReceive, Session, Live, Both, Inv, TypeInv, TypeOK
<1>2. PICK k \in 0..Len(inbox[client]), t \in 0..TagSize :
          /\ k + t \in 1..Len(inbox[client]) /\ (k = 0 <=> CiphertextComplete)
          /\ SecureRxRead(k, t)
  BY DEF SecureRx
<1>k. /\ k \in Nat /\ t \in Nat /\ k <= Len(inbox[client]) /\ k + t \in 1..Len(inbox[client])
  <2>1. Len(inbox[client]) \in Nat
    BY <1>1, <1>t
  <2>2. QED
    BY <1>2, <2>1, ConstantsAssumption
<1>3. PICK n \in Nat : n = Len(delivered)
  BY <1>t
<1>q. PICK q : q = proto.rxSeq
  OBVIOUS
<1>4. Delivered = delivered
  BY <1>1, <1>t DEF Delivered
<1>5. /\ FirstBytes(delivered, n) /\ RxParts /\ (~Spoiled => Incoming(Arrived, proto.key, q, n))
      /\ Joined => n <= sent /\ (~Spoiled => UpToSent(Arrived, q, n))
  BY <1>1, <1>3, <1>4, <1>q DEF RxInv, DeviceSide, HostSide, DeviceRx, HostTx
<1>14. /\ UNCHANGED <<staged, carrier, delivered>> /\ host' = host /\ sent' = sent
       /\ UNCHANGED <<client, link>> => Session' = (Live /\ proto'.ready) /\ Joined' = Joined
  BY DEF SecureRx, hostVars, output, app, Session, Live, Joined
<1>16. ASSUME NEW x, NEW c, Advance(x, c), x.ready, x.secure = proto.secure, DeviceRx', HostTx'
       PROVE  RxInv' /\ proto'.ready
  <2>1. RxReads
    BY <1>1, <1>14, <1>16 DEF RxReads, Advance
  <2>2. QED
    BY <1>16, <2>1, SessionReads DEF Advance
<1>17. ASSUME NEW r, NEW g, NEW c, Part(r, g, c)
       PROVE  /\ Advance([proto EXCEPT !.rxRecord = r, !.rxTag = g], c)
              /\ proto'.ready /\ proto'.secure /\ proto'.key = proto.key /\ proto'.rxSeq = proto.rxSeq
              /\ proto'.rxRecord = r /\ proto'.rxTag = g /\ proto'.rxPlain = <<>>
              /\ inbox'[client'] = c /\ client' = client /\ Joined' = Joined /\ Delivered' = delivered
  <2>1. Advance([proto EXCEPT !.rxRecord = r, !.rxTag = g], c)
    BY <1>17 DEF Part
  <2>2. /\ proto'.ready /\ proto'.secure /\ proto'.key = proto.key /\ proto'.rxSeq = proto.rxSeq
        /\ proto'.rxRecord = r /\ proto'.rxTag = g /\ proto'.rxPlain = <<>>
    BY <1>1, <1>t, <2>1 DEF Advance, ProtoType
  <2>3. inbox'[client'] = c /\ client' = client /\ Joined' = Joined
    BY <1>1, <1>14, <1>t, <2>1 DEF Advance
  <2>4. Delivered' = delivered
    BY <1>14, <1>t, <2>2 DEF Delivered
  <2>5. QED
    BY <2>1, <2>2, <2>3, <2>4
<1>18. CASE Spoiled
  <2>1. \/ CloseProtocolClient
        \/ \E c, r, g : Part(r, g, c) /\ (RxParts /\ Spoiled)'
    BY <1>1, <1>2, <1>5, <1>18, <1>k, <1>t, SpoiledStays
  <2>2. CASE CloseProtocolClient
    <3>1. RxSame
      BY <1>14, <2>2, RxSameSteps DEF RxClosed, Both, HostInv
    <3>2. QED
      BY <1>18, <3>1, SameDeviceSide, SameHostSide DEF RxInv, Both, HostInv
  <2>3. ASSUME NEW r, NEW g, NEW c, Part(r, g, c), (RxParts /\ Spoiled)' PROVE RxInv'
    <3>1. /\ Advance([proto EXCEPT !.rxRecord = r, !.rxTag = g], c)
          /\ proto'.ready /\ proto'.secure /\ Joined' = Joined /\ Delivered' = delivered
      BY <1>17, <2>3
    <3>2. DeviceRx'
      BY <1>3, <1>5, <2>3, <3>1 DEF DeviceRx
    <3>3. HostTx'
      BY <1>3, <1>5, <1>14, <2>3, <3>1 DEF HostTx
    <3>4. PICK x : x = [proto EXCEPT !.rxRecord = r, !.rxTag = g]
      OBVIOUS
    <3>5. Advance(x, c) /\ x.ready /\ x.secure = proto.secure
      BY <1>1, <1>t, <3>1, <3>4 DEF ProtoType
    <3>6. QED
      BY <1>16, <3>2, <3>3, <3>5
  <2>4. QED
    BY <1>18, <2>1, <2>2, <2>3
<1>19. CASE ~Spoiled
  <2>1. PICK r \in Seq(Unit), g \in Seq(Unit), c \in Seq(Unit) :
           /\ Splits(Arrived, r \o g, c)
           /\ \/ Part(r, g, c) /\ RxParts'
              \/ /\ Whole(r, c)
                 /\ Len(r \o g) = HeaderSize + Len(Arrived[1].rec.data) + TagSize
                 /\ r[HeaderSize].rec = Arrived[1].rec
    BY <1>1, <1>2, <1>5, <1>19, <1>k, <1>q, <1>t, PiecesJoin
  <2>2. PICK s \in Seq(Unit) : s = Arrived
    <3>1. PICK f \in Seq(Unit) : f = r \o g
      BY Zenon, ConcatProperties
    <3>2. PICK x \in Seq(Unit) : x = f \o c
      BY Zenon, ConcatProperties
    <3>3. QED
      BY <2>1, <3>1, <3>2 DEF Splits
  <2>3. PICK f \in Seq(Unit) : f = r \o g
    BY Zenon, ConcatProperties
  <2>4. /\ f # <<>> /\ f \o c = s /\ Len(s) = Len(f) + Len(c)
        /\ \A i \in 1..Len(c) : s[Len(f) + i] = c[i]
    BY <2>1, <2>2, <2>3 DEF Splits
  <2>5. s # <<>>
    <3>1. Len(f) # 0 /\ Len(f) \in Nat /\ Len(c) \in Nat
      BY <2>4
    <3>2. Len(s) # 0
      BY <2>4, <3>1
    <3>3. QED
      BY <3>2
  <2>6. Incoming(s, proto.key, q, n) /\ (Joined => n <= sent /\ UpToSent(s, q, n))
    BY <1>5, <1>19, <2>2
  <2>7. ASSUME Part(r, g, c), RxParts' PROVE RxInv' /\ proto'.ready
    <3>1. /\ Advance([proto EXCEPT !.rxRecord = r, !.rxTag = g], c)
          /\ proto'.ready /\ proto'.secure /\ proto'.key = proto.key /\ proto'.rxSeq = proto.rxSeq
          /\ proto'.rxRecord = r /\ proto'.rxTag = g
          /\ inbox'[client'] = c /\ Joined' = Joined /\ Delivered' = delivered
      BY <1>17, <2>7
    <3>2. Arrived' = s
      BY <2>3, <2>4, <3>1 DEF Arrived
    <3>3. DeviceRx'
      BY <1>3, <1>5, <1>q, <2>6, <2>7, <3>1, <3>2 DEF DeviceRx
    <3>4. HostTx'
      <4>1. Joined => UpToSent(s, q, n)'
        BY <1>14, <2>6 DEF UpToSent
      <4>2. QED
        BY <1>3, <1>14, <1>q, <2>6, <3>1, <3>2, <4>1 DEF HostTx, UpToSent
    <3>5. PICK x : x = [proto EXCEPT !.rxRecord = r, !.rxTag = g]
      OBVIOUS
    <3>6. Advance(x, c) /\ x.ready /\ x.secure = proto.secure
      BY <1>1, <1>t, <3>1, <3>5 DEF ProtoType
    <3>7. QED
      BY <1>16, <3>3, <3>4, <3>6
  <2>8. ASSUME Whole(r, c), Len(f) = HeaderSize + Len(s[1].rec.data) + TagSize,
               r[HeaderSize].rec = s[1].rec
        PROVE  RxInv' /\ proto'.ready
    <3>1. PICK d : d = s[1].rec.data
      OBVIOUS
    <3>2. d \in Seq(Nat) /\ \A j \in 1..Len(d) : d[j] = n + j
      BY <2>5, <2>6, <3>1, FirstRecord
    <3>3. PICK x : x = [proto EXCEPT !.rxRecord = <<>>, !.rxTag = <<>>, !.rxSeq = @ + 1, !.rxPlain = d]
      OBVIOUS
    <3>4. Advance(x, c) /\ x.ready /\ x.secure = proto.secure
      BY <1>1, <1>t, <2>8, <3>1, <3>3 DEF Whole, ProtoType
    <3>5. /\ proto'.ready /\ proto'.secure /\ proto'.key = proto.key /\ proto'.rxSeq = q + 1
          /\ proto'.rxRecord = <<>> /\ proto'.rxTag = <<>> /\ proto'.rxPlain = d
      BY <1>1, <1>t, <1>q, <3>3, <3>4 DEF Advance, ProtoType
    <3>6. inbox'[client'] = c /\ client' = client /\ Joined' = Joined
      BY <1>1, <1>14, <1>t, <3>4 DEF Advance
    <3>7. Arrived' = c /\ Delivered' = delivered \o d /\ ~Spoiled' /\ RxParts'
      BY <1>14, <1>t, <3>5, <3>6 DEF Arrived, Delivered, Spoiled, RxParts
    <3>8. PICK z : z = Len(f)
      OBVIOUS
    <3>9. WithoutFirst(c, s, z)
      <4>1. z = HeaderSize + Len(s[1].rec.data) + TagSize /\ \A i \in 1..Len(c) : c[i] = s[z + i]
        BY <2>4, <2>8, <3>8
      <4>2. z \in Nat /\ Len(c) \in Nat /\ Len(s) = z + Len(c)
        BY <2>4, <3>8
      <4>3. z <= Len(s) /\ Len(c) = Len(s) - z
        BY <4>2
      <4>4. QED
        BY <4>1, <4>3 DEF WithoutFirst
    <3>10. Incoming(c, proto.key, q + 1, n + Len(d))
      BY <2>5, <2>6, <3>1, <3>9, RestOfRecords
    <3>11. Joined => UpToSent(c, q + 1, n + Len(d))
      BY <2>5, <2>6, <3>1, <3>9, RestUpToSent
    <3>12. FirstBytes(delivered \o d, n + Len(d)) /\ Len(delivered \o d) = n + Len(d)
      BY <1>3, <1>5, <1>t, <3>2, MoreBytes
    <3>13. DeviceRx'
      BY <3>5, <3>7, <3>10, <3>12 DEF DeviceRx
    <3>14. HostTx'
      <4>1. Joined => UpToSent(c, q + 1, n + Len(d))'
        BY <1>14, <3>11 DEF UpToSent
      <4>2. QED
        BY <1>14, <3>5, <3>6, <3>7, <3>12, <4>1 DEF HostTx, UpToSent
    <3>15. QED
      BY <1>16, <3>4, <3>13, <3>14
  <2>9. QED
    BY <2>1, <2>2, <2>3, <2>7, <2>8
<1>20. QED
  BY <1>18, <1>19

\* Bytes that are read move from what has arrived to what was delivered.
LEMMA TakeKeeps ==
  ASSUME Both, RxInv, Take, UNCHANGED hostVars
  PROVE  RxInv'
<1>t. /\ TypeInv /\ TypeOK /\ inbox \in [Conn -> Seq(Unit)] /\ proto \in ProtoType /\ delivered \in Seq(Nat)
      /\ call.size \in Nat /\ proto.rxPlain \in Seq(Nat) /\ client \in Conn \cup {NoConn}
  <2>1. TypeInv /\ TypeOK
    BY DEF Both, Inv, TypeInv
  <2>2. QED
    BY <2>1 DEF TypeOK, ProtoType
<1>1. PICK d \in Seq(Nat) : d = Readable
  BY <1>t, ReadableType
<1>2. PICK n : n = Least(call.size, Len(d))
  OBVIOUS
<1>3. n \in 0..Len(d)
  <2>1. Len(d) \in Nat
    OBVIOUS
  <2>2. QED
    BY <1>t, <1>2, <2>1 DEF Least
<1>4. /\ delivered' = delivered \o SubSeq(d, 1, n)
      /\ IF Session /\ ~proto.secure
         THEN inbox' = [inbox EXCEPT ![client] = DropFirst(@, n)] /\ UNCHANGED proto
         ELSE proto' = [proto EXCEPT !.rxPlain = DropFirst(@, n)] /\ UNCHANGED inbox
      /\ UNCHANGED <<client, link, staged, carrier>> /\ host' = host /\ sent' = sent
  BY <1>1, <1>2 DEF Take, hostVars, output
<1>5. PICK h \in Seq(Nat) : h = SubSeq(d, 1, n)
  <2>1. SubSeq(d, 1, n) \in Seq(Nat)
    BY <1>3
  <2>2. QED
    BY <2>1, Zenon
<1>6. Len(h) = n /\ \A i \in 1..n : h[i] = d[i]
  BY <1>3, <1>5
<1>7. DropFirst(d, n) \in Seq(Nat) /\ h \o DropFirst(d, n) = d
  <2>1. DropFirst(d, n) \in Seq(Nat)
    BY <1>3, DropFirstType
  <2>2. CASE n = 0
    <3>1. h = <<>> /\ DropFirst(d, n) = d
      BY <1>6, <2>2 DEF DropFirst
    <3>2. QED
      BY <2>1, <3>1
  <2>3. CASE n # 0
    <3>1. n \in 1..Len(d)
      BY <1>3, <2>3
    <3>2. SubSeq(d, 1, n) \o DropFirst(d, n) = d
      BY <3>1, SplitSequence
    <3>3. QED
      BY <1>5, <2>1, <3>2
  <2>4. QED
    BY <2>2, <2>3
<1>8. delivered' = delivered \o h
  BY <1>4, <1>5
<1>9. CASE ~Session
  <2>1. d = <<>> /\ n = 0
    <3>1. d = <<>>
      BY <1>1, <1>9, <1>t, ReadableType
    <3>2. Len(d) = 0
      BY <3>1
    <3>3. QED
      BY <1>3, <3>1, <3>2
  <2>2. delivered' = delivered
    <3>1. h = <<>>
      BY <1>6, <2>1
    <3>2. QED
      BY <1>8, <1>t, <3>1
  <2>3. proto' = proto /\ inbox' = inbox
    <3>1. DropFirst(proto.rxPlain, 0) = proto.rxPlain
      BY <1>t DEF DropFirst
    <3>2. QED
      BY <1>4, <1>9, <1>t, <2>1, <3>1 DEF ProtoType
  <2>4. RxSame
    BY <1>4, <2>2, <2>3 DEF RxSame, Live
  <2>5. QED
    BY <2>4, SameDeviceSide, SameHostSide DEF RxInv, Both, HostInv
<1>10. CASE Session /\ proto.secure
  <2>1. d = proto.rxPlain
    BY <1>1, <1>10, <1>t, ReadableType
  <2>2. /\ proto'.ready = proto.ready /\ proto'.secure = proto.secure /\ proto'.key = proto.key
        /\ proto'.rxSeq = proto.rxSeq /\ proto'.rxRecord = proto.rxRecord
        /\ proto'.rxTag = proto.rxTag
        /\ proto'.rxPlain = DropFirst(d, n) /\ inbox' = inbox /\ client' = client
    BY <1>4, <1>10, <1>t, <2>1 DEF ProtoType
  <2>s. Spoiled' = Spoiled /\ RxParts' = RxParts
    BY <2>2 DEF Spoiled, RxParts, CipherEnd, CiphertextComplete
  <2>3. Delivered' = Delivered /\ Arrived' = Arrived
    <3>3. PICK e \in Seq(Nat) : e = DropFirst(d, n)
      BY <1>7, Zenon
    <3>4. \A a, b, c \in Seq(Nat) : (a \o b) \o c = a \o (b \o c)
      BY Regroup, Zenon
    <3>5. delivered \in Seq(Nat)
      BY <1>t, Zenon
    <3>1. (delivered \o h) \o DropFirst(d, n) = delivered \o (h \o DropFirst(d, n))
      BY <3>3, <3>4, <3>5, Zenon
    <3>2. QED
      BY <1>7, <1>8, <2>1, <2>2, <3>1 DEF Delivered, Arrived
  <2>4. Session' = Session /\ Joined' = Joined /\ proto'.ready
    BY <1>4, <1>10, <2>2 DEF Session, Joined, Live
  <2>5. RxReads
    BY <1>4, <1>10, <2>2, <2>4 DEF RxReads
  <2>6. DeviceRx'
    <3>1. /\ FirstBytes(Delivered, Len(Delivered)) /\ RxParts
          /\ ~Spoiled => Incoming(Arrived, proto.key, proto.rxSeq, Len(Delivered))
      BY <1>10 DEF RxInv, DeviceSide, DeviceRx
    <3>2. proto'.secure
      BY <1>10, <2>2
    <3>3. QED
      BY <2>2, <2>3, <2>s, <3>1, <3>2 DEF DeviceRx
  <2>7. HostTx'
    <3>1. UpToSent(Arrived, proto.rxSeq, Len(Delivered)) => UpToSent(Arrived, proto.rxSeq, Len(Delivered))'
      BY <1>4, <2>2, <2>3 DEF UpToSent
    <3>2. QED
      BY <1>4, <1>10, <2>2, <2>3, <2>4, <2>s, <3>1 DEF RxInv, HostSide, HostTx
  <2>8. QED
    BY <2>5, <2>6, <2>7, SessionReads
<1>11. CASE Session /\ ~proto.secure
  <2>1. client \in Conn
    BY <1>11, <1>t DEF Session, Live
  <2>2. PICK b \in Seq(Unit) : b = inbox[client]
    BY <2>1, <1>t
  <2>3. PICK m \in Nat : m = Len(delivered)
    BY <1>t
  <2>4. Len(b) = Len(d) /\ Len(b) \in Nat /\ \A i \in 1..Len(b) : d[i] = ByteOf(b[i])
    BY <1>1, <1>11, <2>2 DEF Readable
  <2>5. proto.rxRecord = <<>> /\ proto.rxTag = <<>> /\ proto.rxPlain = <<>> /\ IncomingRaw(b, m)
    BY <1>11, <2>2, <2>3 DEF RxInv, DeviceSide, DeviceRx
  <2>6. Delivered = delivered /\ Delivered' = delivered'
    <3>1. delivered \o <<>> = delivered /\ delivered' \o <<>> = delivered'
      BY <1>8, <1>t
    <3>2. QED
      BY <1>4, <1>11, <2>5, <3>1 DEF Delivered
  <2>7. FirstBytes(delivered, m)
    BY <1>11, <2>3, <2>6 DEF RxInv, DeviceSide, DeviceRx
  <2>8. \A i \in 1..n : h[i] = m + i
    <3>1. SUFFICES ASSUME NEW i \in 1..n PROVE h[i] = m + i
      OBVIOUS
    <3>2. i \in 1..Len(b)
      BY <1>3, <2>4
    <3>3. h[i] = ByteOf(b[i]) /\ b[i].kind = "raw" /\ b[i].byte = m + i
      BY <1>6, <2>4, <2>5, <3>2 DEF IncomingRaw
    <3>4. QED
      BY <3>3 DEF ByteOf
  <2>9. FirstBytes(delivered', m + n) /\ Len(delivered') = m + n
    <3>1. Len(h) = n /\ \A i \in 1..Len(h) : h[i] = m + i
      BY <1>6, <2>8
    <3>2. delivered \in Seq(Nat)
      BY <1>t, Zenon
    <3>3. FirstBytes(delivered \o h, m + Len(h)) /\ Len(delivered \o h) = m + Len(h)
      BY <2>3, <2>7, <3>1, <3>2, MoreBytes
    <3>4. QED
      BY <1>8, <3>1, <3>3
  <2>10. PICK c : c = DropFirst(b, n)
    OBVIOUS
  <2>11. c \in Seq(Unit) /\ Len(c) = Len(b) - n /\ \A i \in 1..Len(c) : c[i] = b[n + i] /\ n + i \in 1..Len(b)
    <3>1. n \in 0..Len(b) /\ n \in Nat
      BY <1>3, <2>4
    <3>2. c \in Seq(Unit) /\ Len(c) = Len(b) - n
      BY <2>10, <3>1, DropFirstType
    <3>3. ASSUME NEW i \in 1..Len(c) PROVE c[i] = b[n + i] /\ n + i \in 1..Len(b)
      <4>1. n + i \in 1..Len(b)
        BY <2>4, <3>1, <3>2
      <4>2. i \in 1..(Len(b) - (n + 1) + 1)
        BY <2>4, <3>1, <3>2
      <4>3. SubSeq(b, n + 1, Len(b))[i] = b[(n + 1) + i - 1] /\ (n + 1) + i - 1 = n + i
        BY <2>4, <3>1, <4>1, <4>2
      <4>4. QED
        BY <2>10, <4>1, <4>3 DEF DropFirst
    <3>4. QED
      BY <3>2, <3>3
  <2>12. IncomingRaw(c, m + n)
    <3>1. ASSUME NEW i \in 1..Len(c) PROVE c[i].kind = "raw" /\ c[i].byte = (m + n) + i
      <4>1. c[i].kind = "raw" /\ c[i].byte = m + (n + i)
        BY <2>5, <2>11 DEF IncomingRaw
      <4>2. QED
        BY <1>3, <4>1
    <3>2. QED
      BY <3>1 DEF IncomingRaw
  <2>13. /\ inbox'[client'] = c /\ proto' = proto /\ client' = client
         /\ \A x \in Conn : x # client => inbox'[x] = inbox[x]
    BY <1>4, <1>11, <1>t, <2>1, <2>2, <2>10
  <2>14. Session' /\ Joined' = Joined
    BY <1>4, <1>11, <2>13 DEF Session, Joined, Live
  <2>15. inbox[client] = <<>> => inbox'[client] = <<>>
    <3>1. SUFFICES ASSUME b = <<>> PROVE c = <<>>
      BY <2>2, <2>13
    <3>2. Len(b) = 0 /\ Len(d) = 0
      BY <2>4, <3>1
    <3>3. Len(c) = 0
      <4>1. n = 0
        BY <1>3, <3>2
      <4>2. QED
        BY <2>11, <3>2, <4>1
    <3>4. QED
      BY <2>11, <3>3
  <2>16. RxReads
    BY <1>4, <1>11, <2>13, <2>15 DEF RxReads, Session
  <2>17. DeviceRx'
    BY <1>11, <2>5, <2>6, <2>9, <2>12, <2>13 DEF DeviceRx
  <2>18. HostTx'
    <3>1. Joined => sent = m + Len(b)
      BY <1>11, <2>2, <2>3 DEF RxInv, HostSide, HostTx
    <3>2. m + Len(b) = (m + n) + Len(c)
      BY <1>3, <2>4, <2>11
    <3>3. QED
      BY <1>4, <1>11, <2>9, <2>13, <2>14, <3>1, <3>2 DEF HostTx
  <2>19. QED
    BY <2>16, <2>17, <2>18, SessionReads
<1>12. QED
  BY <1>9, <1>10, <1>11

---------------------------------------------------------------------------
(* Every step *)

LEMMA InitRx == LinkInit => RxInv
<1> SUFFICES ASSUME LinkInit PROVE RxInv
  OBVIOUS
<1>1. ~Live /\ host = NoHost /\ \A c \in Conn : link[c] = "none"
  BY DEF LinkInit, Init, Live
<1>2. ~Session /\ ~Handshaking /\ host.state = "closed" /\ host.conn = NoConn
  BY <1>1 DEF Session, Handshaking, NoHost
<1>3. QED
  BY <1>1, <1>2 DEF RxInv, DeviceSide, HostSide, LinesOnly, FirstLine, DeviceRx, HostFresh, Answered, HostTx

\* A step of the firmware, the clock or the network.
LEMMA DeviceStepRx ==
  ASSUME Both, Both', RxInv, DeviceStep, [AnyNext]_vars
  PROVE  RxInv'
<1>1. /\ Inv /\ Inv' /\ TypeInv /\ LoopReady /\ InboxFresh /\ HostConn /\ DeviceSide /\ HostSide
      /\ UNCHANGED hostVars
  BY DEF Both, Inv, SessionInv, HostInv, RxInv, DeviceStep
<1>2. CASE AcceptClient
  BY <1>1, <1>2, AcceptRx
<1>3. CASE ~AcceptClient
  <2>1. carrier' = carrier
    BY <1>1, <1>3, DeviceGrows
  <2>2. \/ RxKept \/ RxClosed \/ RxLine \/ StopServer \/ AcceptReject \/ Take
        \/ \E p \in {"secureRx", "rxAgain"} : SecureRx(p)
        \/ \E c \in Conn : Dial(c) \/ Lose(c)
    BY <1>1, <1>3, RxEffect DEF DeviceStep, NetworkNext
  <2>3. CASE RxLine
    BY <1>1, <2>1, <2>3, LineRx
  <2>4. CASE Take
    BY <1>1, <2>4, TakeKeeps
  <2>5. ASSUME NEW p \in {"secureRx", "rxAgain"}, SecureRx(p) PROVE RxInv'
    BY <1>1, <1>3, <2>5, SecureRxKeeps
  <2>6. CASE \/ RxKept \/ RxClosed \/ StopServer \/ AcceptReject
             \/ \E c \in Conn : Dial(c) \/ Lose(c)
    <3>1. RxSame
      BY <1>1, <1>3, <2>6, RxSameSteps
    <3>2. QED
      BY <1>1, <3>1, SameDeviceSide, SameHostSide DEF RxInv
  <2>7. QED
    BY <2>2, <2>3, <2>4, <2>5, <2>6
<1>4. QED
  BY <1>2, <1>3

\* The monitor reads, enters a session or closes its connection.
LEMMA HostQuietRx ==
  ASSUME RxInv, UNCHANGED vars, sent' = sent,
         \/ host' = NoHost
         \/ /\ host.state # "closed" /\ host'.state = "ready" /\ host'.conn = host.conn
            /\ host'.txSeq = host.txSeq
  PROVE  RxInv'
<1>1. RxSame /\ carrier' = carrier /\ Session' = Session /\ Arrived' = Arrived /\ Delivered' = Delivered
      /\ proto' = proto /\ delivered' = delivered /\ inbox' = inbox /\ client' = client
      /\ Spoiled' = Spoiled
  BY DEF RxSame, vars, slot, app, output, Live, Session, Arrived, Delivered, Spoiled, CipherEnd
<1>2. DeviceSide'
  BY <1>1, SameDeviceSide DEF RxInv
<1>3. CASE host' = NoHost
  <2>1. host'.state = "closed" /\ host'.conn = NoConn
    BY <1>3 DEF NoHost
  <2>2. QED
    BY <1>2, <2>1 DEF RxInv, HostSide, HostFresh, Answered, HostTx, Joined
<1>4. CASE /\ host.state # "closed" /\ host'.state = "ready" /\ host'.conn = host.conn
           /\ host'.txSeq = host.txSeq
  <2>1. HostFresh' /\ Answered'
    BY <1>4 DEF HostFresh, Answered
  <2>2. Joined' = Joined
    BY <1>1, <1>4 DEF Joined
  <2>3. UpToSent(Arrived, proto.rxSeq, Len(Delivered)) => UpToSent(Arrived, proto.rxSeq, Len(Delivered))'
    BY <1>1, <1>4 DEF UpToSent
  <2>4. HostTx'
    BY <1>1, <2>2, <2>3 DEF RxInv, HostSide, HostTx
  <2>5. QED
    BY <1>2, <2>1, <2>4 DEF RxInv, HostSide
<1>5. QED
  BY <1>3, <1>4

\* A new connection has received nothing.
LEMMA DialRx ==
  ASSUME Both, Both', RxInv, [AnyNext]_vars, NEW c \in Conn, HostDial(c)
  PROVE  RxInv'
<1>1. /\ Dial(c) /\ host' = [NoHost EXCEPT !.conn = c, !.state = "dialled"] /\ sent' = 0
      /\ link[c] = "none"
  BY DEF HostDial, Dial
<1>2. host'.state = "dialled" /\ host'.conn = c /\ host'.txSeq = 0 /\ host'.pos = 0
  BY <1>1 DEF NoHost
<1>3. Inv /\ Inv' /\ InboxFresh /\ TypeOK
  BY DEF Both, HostInv, Inv, TypeInv
<1>4. ~AcceptClient
  BY <1>1, <1>3 DEF AcceptClient, Dial, TypeOK
<1>5. RxSame
  BY <1>1, <1>3, <1>4, RxSameSteps
<1>6. DeviceSide'
  BY <1>5, SameDeviceSide DEF RxInv
<1>7. inbox'[c] = <<>>
  BY <1>1, <1>3, <1>5 DEF InboxFresh, RxSame
<1>8. ~Joined'
  <2>1. carrier' # c
    <3>1. SUFFICES ASSUME carrier = c PROVE FALSE
      BY <1>5 DEF RxSame
    <3>2. carrier # NoConn
      BY <3>1, ConstantsAssumption DEF Conn, NoConn
    <3>3. QED
      BY <1>1, <1>3, <3>1, <3>2 DEF Inv, SentInv, Accepted
  <2>2. QED
    BY <1>2, <2>1 DEF Joined
<1>9. HostFresh' /\ Answered' /\ HostTx'
  BY <1>1, <1>2, <1>7, <1>8 DEF HostFresh, Answered, HostTx
<1>10. QED
  BY <1>6, <1>9 DEF RxInv, HostSide

\* The monitor sends units: they arrive, and the device does nothing.
PeerRx(units) ==
  /\ link[host.conn] = "open" /\ inbox' = [inbox EXCEPT ![host.conn] = @ \o units]
  /\ UNCHANGED <<client, carrier, staged, proto, link, delivered>>

\* A line to a device that is not in session with the monitor.
LEMMA LineSentRx ==
  ASSUME Both, RxInv, NEW units \in Seq(Unit), LineEnds(units), PeerRx(units), host.conn \in Conn,
         inbox[host.conn] = <<>>, Session => client # host.conn
  PROVE  DeviceSide' /\ Session' = Session /\ Live' = Live
<1>1. inbox \in [Conn -> Seq(Unit)] /\ client \in Conn \cup {NoConn}
  BY DEF Both, Inv, TypeInv, TypeOK
<1>2. inbox'[host.conn] = units /\ \A c \in Conn : c # host.conn => inbox'[c] = inbox[c]
  <2>1. <<>> \o units = units
    OBVIOUS
  <2>2. QED
    BY <1>1, <2>1 DEF PeerRx
<1>3. LinesOnly'
  BY <1>2 DEF PeerRx, RxInv, DeviceSide, LinesOnly
<1>4. Session' = Session /\ Live' = Live /\ Handshaking' = Handshaking
  BY DEF PeerRx, Session, Live, Handshaking
<1>5. FirstLine'
  BY <1>4 DEF PeerRx, RxInv, DeviceSide, FirstLine
<1>6. DeviceRx'
  <2>1. Delivered' = Delivered
    BY DEF PeerRx, Delivered
  <2>2. Session => inbox'[client'] = inbox[client] /\ Arrived' = Arrived
    BY <1>1, <1>2 DEF PeerRx, Session, Live, Arrived
  <2>3. Spoiled' = Spoiled /\ RxParts' = RxParts
    BY DEF PeerRx, Spoiled, RxParts, CipherEnd, CiphertextComplete
  <2>4. QED
    BY <1>4, <2>1, <2>2, <2>3 DEF PeerRx, RxInv, DeviceSide, DeviceRx
<1>7. QED
  BY <1>3, <1>4, <1>5, <1>6 DEF DeviceSide

\* HELLO: the device has not answered anything yet.
LEMMA HelloRx ==
  ASSUME Both, RxInv, HostHello
  PROVE  RxInv'
<1> DEFINE units == <<[kind |-> "char"], [kind |-> "eol", msg |-> [type |-> "HELLO", nonce |-> host.conn]]>>
<1>t. host.conn \in Conn /\ host.conn \in Nat /\ HostTypeOK
  BY DEF Both, HostInv, HostConn, HostHello, HostTypeOK, Conn
<1>1. units \in Seq(Unit) /\ LineEnds(units)
  <2>1. [type |-> "HELLO", nonce |-> host.conn] \in Message
    BY <1>t DEF Message
  <2>2. [kind |-> "char"] \in Unit /\ [kind |-> "eol", msg |-> [type |-> "HELLO", nonce |-> host.conn]] \in Unit
    BY <2>1 DEF Unit
  <2>3. units \in Seq(Unit) /\ Len(units) = 2 /\ units[1].kind = "char"
    BY <2>2
  <2>4. \A j \in 1..Len(units) : j = 1 \/ j = 2
    BY <2>3
  <2>5. QED
    BY <2>3, <2>4 DEF LineEnds
<1>2. /\ host.state = "dialled" /\ PeerSend(host.conn, units)
      /\ host' = [host EXCEPT !.state = "hello"] /\ sent' = sent
  BY DEF HostHello
<1> HIDE DEF units
<1>3. PeerRx(units)
  BY <1>2 DEF PeerSend, PeerRx, app, output
<1>4. /\ host'.conn = host.conn /\ host'.state = "hello" /\ host'.pos = host.pos /\ host'.txSeq = host.txSeq
  BY <1>t, <1>2 DEF HostTypeOK
<1>5. inbox[host.conn] = <<>> /\ (Joined /\ Live => staged = <<>>)
  BY <1>2 DEF RxInv, HostSide, Answered
<1>6. Session => client # host.conn /\ ~Joined
  <2>1. SUFFICES ASSUME Session PROVE ~Joined /\ client = carrier
    BY <1>2 DEF Joined
  <2>2. Live /\ staged # <<>> /\ client = carrier
    BY <2>1 DEF Both, Inv, SentInv, StreamGoesOn, Accepted, Session, Live
  <2>3. QED
    BY <1>5, <2>2
<1>7. DeviceSide' /\ Session' = Session /\ Live' = Live
  BY <1>1, <1>3, <1>5, <1>6, <1>t, LineSentRx
<1>8. Joined' = Joined /\ staged' = staged
  BY <1>2, <1>3, <1>4 DEF PeerRx, Joined
<1>9. HostFresh'
  BY <1>2, <1>4 DEF RxInv, HostSide, HostFresh
<1>10. Answered' /\ HostTx'
  BY <1>4, <1>5, <1>6, <1>7, <1>8 DEF Answered, HostTx
<1>11. QED
  BY <1>7, <1>9, <1>10 DEF RxInv, HostSide

\* AUTH: the device has sent a challenge, and its handshake is not over.
LEMMA AuthRx ==
  ASSUME Both, RxInv, HostAuth
  PROVE  RxInv'
<1> DEFINE proof == EspnsHMAC("CLIENT", LineText.nonce)
           units == <<[kind |-> "char"], [kind |-> "eol", msg |-> [type |-> "AUTH", proof |-> proof]]>>
<1>t. TypeInv /\ HostTypeOK /\ Inv /\ HostInv
  BY DEF Both, Inv, HostInv
<1>1. /\ ReadsLine("hello") /\ AcceptsChallenge /\ PeerSend(host.conn, units)
      /\ host' = [host EXCEPT !.state = "auth", !.sn = LineText.nonce, !.pos = @ + 1]
      /\ sent' = sent
  BY DEF HostAuth
<1>2. /\ host.state = "hello" /\ Joined /\ ~Waiting(host.conn)
      /\ host.pos + 1 \in 1..Len(staged) /\ staged[host.pos + 1].msg = LineText
      /\ staged[host.pos + 1] \in Unit /\ staged[host.pos + 1].kind = "line"
  BY <1>t, <1>1, LineSeen
<1>3. LineText.nonce \in Nat /\ auth.key \in AuthKeys /\ host.conn \in Nat /\ host.conn \in Conn
  BY <1>t, <1>1, <1>2, LineIs, KeysType DEF AcceptsChallenge, HostInv, HostConn
<1>4. units \in Seq(Unit) /\ LineEnds(units)
  <2>1. proof \in ProofType
    BY <1>3 DEF EspnsHMAC, Proof, ProofType
  <2> HIDE DEF proof
  <2>2. [type |-> "AUTH", proof |-> proof] \in Message
    BY <2>1 DEF Message
  <2>3. [kind |-> "char"] \in Unit /\ [kind |-> "eol", msg |-> [type |-> "AUTH", proof |-> proof]] \in Unit
    BY <2>2 DEF Unit
  <2>4. units \in Seq(Unit) /\ Len(units) = 2 /\ units[1].kind = "char"
    BY <2>3
  <2>5. \A j \in 1..Len(units) : j = 1 \/ j = 2
    BY <2>4
  <2>6. QED
    BY <2>4, <2>5 DEF LineEnds
<1> HIDE DEF units
<1>5. PeerRx(units)
  BY <1>1 DEF PeerSend, PeerRx, app, output
<1>6. host'.conn = host.conn /\ host'.state = "auth" /\ host'.txSeq = host.txSeq
  BY <1>t, <1>1 DEF HostTypeOK
<1>7. staged # <<>> /\ staged[1].msg.type = "CHALLENGE"
  <2>1. host.pos = 0
    BY <1>2 DEF RxInv, HostSide, HostFresh
  <2>2. 1 \in 1..Len(staged) /\ staged[1].msg = LineText
    BY <1>2, <2>1
  <2>3. QED
    BY <1>1, <2>2 DEF AcceptsChallenge
<1>8. client = host.conn /\ Live
  <2>1. link[host.conn] = "open"
    BY <1>5 DEF PeerRx
  <2>2. client = host.conn
    BY <1>t, <1>2, <1>3, <2>1 DEF Inv, LinkInv, NoConnectionLeak
  <2>3. client # NoConn
    BY <1>3, <2>2, ConstantsAssumption DEF Conn, NoConn
  <2>4. QED
    BY <2>1, <2>2, <2>3 DEF Live
<1>9. ~Session
  <2>1. SUFFICES ASSUME Session PROVE FALSE
    OBVIOUS
  <2>2. CASE proto.secure
    BY <1>t, <1>2, <2>1, <2>2 DEF HostInv, SameKeys, Proves, Session
  <2>3. CASE ~proto.secure
    <3>1. staged[1] = OkLine(FALSE)
      BY <2>1, <2>3 DEF RxInv, DeviceSide, FirstLine
    <3>2. staged[1].msg.type = "OK"
      BY <3>1 DEF OkLine, Line
    <3>3. QED
      BY <1>7, <3>2
  <2>4. QED
    BY <2>2, <2>3
<1>10. inbox[host.conn] = <<>>
  BY <1>2, <1>7, <1>8 DEF RxInv, HostSide, Answered
<1>11. DeviceSide' /\ Session' = Session
  BY <1>3, <1>4, <1>5, <1>9, <1>10, LineSentRx
<1>12. HostFresh' /\ Answered' /\ HostTx'
  BY <1>1, <1>2, <1>6, <1>9, <1>11 DEF RxInv, HostSide, HostFresh, Answered, HostTx
<1>13. QED
  BY <1>11, <1>12 DEF RxInv, HostSide

\* The front of what may arrive may arrive.
LEMMA IncomingFront ==
  ASSUME NEW w \in Seq(Unit), NEW v \in Seq(Unit), Len(v) <= Len(w), \A i \in 1..Len(v) : v[i] = w[i],
         NEW n
  PROVE  /\ \A k, q : Incoming(w, k, q, n) => Incoming(v, k, q, n)
         /\ IncomingRaw(w, n) => IncomingRaw(v, n)
<1>1. \A i \in 1..Len(v) : i \in 1..Len(w)
  OBVIOUS
<1>2. ASSUME NEW k, NEW q, Incoming(w, k, q, n) PROVE Incoming(v, k, q, n)
  <2>1. Run(v, "h2d")
    <3>1. 0 + Len(v) <= Len(w) /\ \A i \in 1..Len(v) : v[i] = w[0 + i]
      OBVIOUS
    <3>2. Run(w, "h2d") /\ 0 \in Nat
      BY <1>2 DEF Incoming
    <3>3. QED
      BY <3>1, <3>2, RunPart
  <2>2. v # <<>> => w # <<>> /\ v[1] = w[1]
    <3>1. SUFFICES ASSUME v # <<>> PROVE w # <<>> /\ v[1] = w[1]
      OBVIOUS
    <3>2. 1 \in 1..Len(v) /\ Len(w) # 0
      BY <3>1
    <3>3. QED
      BY <3>2
  <2>3. QED
    BY <1>1, <1>2, <2>1, <2>2 DEF Incoming
<1>3. QED
  BY <1>1, <1>2 DEF IncomingRaw

\* A record written after all that has arrived.
LEMMA RecordsJoin ==
  ASSUME NEW s \in Seq(Unit), NEW u \in Seq(Unit), NEW k, NEW q, NEW n \in Nat, NEW data,
         Incoming(s, k, q, n), UpToSent(s, q, n), sent \in Nat, Len(data) \in Nat,
         SealedCells("h2d", u, k, host.txSeq, sent, data)
  PROVE  /\ Incoming(s \o u, k, q, n)
         /\ host'.txSeq = host.txSeq + 1 /\ sent' = sent + Len(data) => UpToSent(s \o u, q, n)'
<1>1. PICK w \in Seq(Unit) : w = s \o u
  <2>1. s \o u \in Seq(Unit)
    OBVIOUS
  <2>2. QED
    BY <2>1, Zenon
<1>2. /\ Len(w) = Len(s) + Len(u) /\ Len(s) \in Nat /\ Len(u) \in Nat
      /\ \A i \in 1..Len(s) : w[i] = s[i] /\ i \in 1..Len(w)
      /\ \A i \in 1..Len(u) : w[Len(s) + i] = u[i] /\ Len(s) + i \in 1..Len(w)
      /\ \A i \in 1..Len(w) : i \in 1..Len(s) \/ i - Len(s) \in 1..Len(u)
  BY <1>1
<1>3. /\ u # <<>> /\ 1 \in 1..Len(u) /\ Len(u) \in 1..Len(u)
      /\ \A i \in 1..Len(u) : Upto(u[i]) = sent + Len(data) /\ u[i].kind = "cell" /\ u[i].rec.key = k
      /\ u[1].at = 1 /\ u[1].rec.seq = host.txSeq /\ u[1].rec.data = data
      /\ RecordEnd(u[Len(u)]) /\ u[Len(u)].rec.seq = host.txSeq /\ Run(u, "h2d")
  <2>1. u # <<>>
    BY DEF SealedCells
  <2>2. 1 \in 1..Len(u) /\ Len(u) \in 1..Len(u)
    BY <2>1
  <2>3. QED
    BY <2>1, <2>2 DEF SealedCells, Run
<1>4. ASSUME NEW i \in 1..Len(w) PROVE w[i] \in {s[j] : j \in 1..Len(s)} \cup {u[j] : j \in 1..Len(u)}
  <2>1. CASE i \in 1..Len(s)
    BY <1>2, <2>1
  <2>2. CASE i - Len(s) \in 1..Len(u)
    <3>1. PICK j \in 1..Len(u) : j = i - Len(s)
      BY <2>2
    <3>2. i = Len(s) + j
      BY <1>2, <3>1
    <3>3. QED
      BY <1>2, <3>1, <3>2
  <2>3. QED
    BY <1>2, <2>1, <2>2
<1>5. s # <<>> =>
        /\ 1 \in 1..Len(s) /\ w[1] = s[1] /\ RecordEnd(s[Len(s)])
        /\ NextSeq(s[Len(s)]) = host.txSeq /\ Upto(s[Len(s)]) = sent
  <2>1. SUFFICES ASSUME s # <<>> PROVE 1 \in 1..Len(s)
    BY <1>2 DEF UpToSent
  <2>2. QED
    BY <1>2, <2>1
<1>6. s = <<>> => w[1] = u[1] /\ host.txSeq = q /\ sent = n
  <2>1. SUFFICES ASSUME s = <<>> PROVE w[1] = u[1]
    BY DEF UpToSent
  <2>2. Len(s) = 0
    BY <2>1
  <2>3. w[Len(s) + 1] = u[1]
    BY <1>2, <1>3
  <2>4. QED
    BY <2>2, <2>3
<1>7. Run(w, "h2d")
  <2>1. s # <<>> => Follows(s[Len(s)], u[1])
    BY <1>3, <1>5 DEF Follows
  <2>2. Run(s, "h2d")
    BY DEF Incoming
  <2>3. Run(s \o u, "h2d")
    BY <1>3, <2>1, <2>2, RunJoin
  <2>4. QED
    BY <1>1, <2>3
<1>8. Incoming(w, k, q, n)
  <2>1. \A i \in 1..Len(w) : w[i].kind = "cell" /\ w[i].rec.key = k
    BY <1>3, <1>4 DEF Incoming
  <2>2. w[1].at = 1 /\ w[1].rec.seq = q /\ Upto(w[1]) = n + Len(w[1].rec.data)
    BY <1>3, <1>5, <1>6 DEF Incoming
  <2>3. QED
    BY <1>7, <2>1, <2>2 DEF Incoming
<1>9. ASSUME host'.txSeq = host.txSeq + 1, sent' = sent + Len(data) PROVE UpToSent(w, q, n)'
  <2>1. n <= sent + Len(data) /\ n <= sent
    BY DEF UpToSent
  <2>2. ASSUME NEW i \in 1..Len(w) PROVE Upto(w[i]) <= sent + Len(data)
    <3>1. ASSUME NEW j \in 1..Len(s) PROVE Upto(s[j]) <= sent + Len(data)
      <4>1. WellSealed(s[j], "h2d") /\ s[j] \in Unit
        BY DEF Incoming, Run
      <4>2. Upto(s[j]) \in Nat
        BY <4>1, UptoType
      <4>3. Upto(s[j]) <= sent
        BY DEF UpToSent
      <4>4. QED
        BY <4>2, <4>3
    <3>2. ASSUME NEW j \in 1..Len(u) PROVE Upto(u[j]) <= sent + Len(data)
      BY <1>3
    <3>3. QED
      BY <1>4, <3>1, <3>2
  <2>3. w # <<>> /\ w[Len(w)] = u[Len(u)]
    <3>1. w[Len(s) + Len(u)] = u[Len(u)] /\ Len(w) # 0
      BY <1>2, <1>3
    <3>2. QED
      BY <1>2, <3>1
  <2>4. PICK last : last = u[Len(u)]
    OBVIOUS
  <2>5. RecordEnd(last) /\ NextSeq(last) = host.txSeq + 1 /\ Upto(last) = sent + Len(data)
    BY <1>3, <2>4 DEF NextSeq
  <2>6. QED
    BY <1>9, <2>1, <2>2, <2>3, <2>4, <2>5 DEF UpToSent
<1>10. QED
  BY <1>1, <1>8, <1>9

\* Bytes written after all that has arrived.
LEMMA RawJoin ==
  ASSUME NEW s \in Seq(Unit), NEW u \in Seq(Unit), NEW n \in Nat,
         IncomingRaw(s, n), RawBytes(u, n + Len(s), Len(u))
  PROVE  IncomingRaw(s \o u, n)
<1>1. ASSUME NEW i \in 1..Len(s \o u) PROVE (s \o u)[i].kind = "raw" /\ (s \o u)[i].byte = n + i
  <2>1. CASE i \in 1..Len(s)
    <3>1. (s \o u)[i] = s[i]
      BY <2>1
    <3>2. QED
      BY <2>1, <3>1 DEF IncomingRaw
  <2>2. CASE i \notin 1..Len(s)
    <3>1. PICK j : j = i - Len(s)
      OBVIOUS
    <3>2. j \in 1..Len(u) /\ i = Len(s) + j /\ (s \o u)[i] = u[j]
      BY <2>2, <3>1
    <3>3. u[j].kind = "raw" /\ u[j].byte = (n + Len(s)) + j
      BY <3>2 DEF RawBytes
    <3>4. QED
      BY <3>2, <3>3
  <2>3. QED
    BY <2>1, <2>2
<1>2. QED
  BY <1>1 DEF IncomingRaw

\* A device that the monitor can still write to is in session with it.
LEMMA WriterIs ==
  ASSUME Both, host.state = "ready", link[host.conn] = "open"
  PROVE  /\ host.conn \in Conn /\ client = host.conn /\ Session /\ Joined
         /\ host.secure = proto.secure /\ host.key = proto.key
<1>1. host.conn \in Conn /\ ~Waiting(host.conn)
  BY DEF Both, HostInv, HostConn
<1>2. client = host.conn
  BY <1>1 DEF Both, Inv, LinkInv, NoConnectionLeak
<1>3. client # NoConn
  BY <1>1, <1>2, ConstantsAssumption DEF Conn, NoConn
<1>4. Live
  BY <1>2, <1>3 DEF Live
<1>5. Joined /\ proto.ready /\ host.secure = proto.secure /\ host.key = proto.key
  BY <1>2, <1>4, EndsMatch
<1>6. QED
  BY <1>1, <1>2, <1>4, <1>5 DEF Session

\* What it writes goes on from what has arrived.
LEMMA WrittenFits ==
  ASSUME Both, RxInv, NEW n \in HostWriteSizes, CanWrite(n), link[host.conn] = "open",
         NEW u, u = HostEncode(HostChunk(n))
  PROVE  /\ u \in Seq(Unit) /\ Len(HostChunk(n)) \in Nat
         /\ proto.secure /\ ~Spoiled =>
              \E s \in Seq(Unit), q \in Nat, m \in Nat :
                /\ s = Arrived /\ q = proto.rxSeq /\ m = Len(Delivered)
                /\ Incoming(s \o u, proto.key, q, m)
                /\ host'.txSeq = host.txSeq + 1 /\ sent' = sent + Len(HostChunk(n)) => UpToSent(s \o u, q, m)'
         /\ ~proto.secure => /\ IncomingRaw(inbox[client] \o u, Len(delivered))
                             /\ Len(u) = Len(HostChunk(n))
<1>t. /\ inbox \in [Conn -> Seq(Unit)] /\ proto \in ProtoType /\ delivered \in Seq(Nat)
      /\ proto.rxRecord \in Seq(Unit) /\ proto.rxTag \in Seq(Unit)
      /\ proto.rxPlain \in Seq(Nat) /\ proto.rxSeq \in Nat
      /\ sent \in Nat /\ host.txSeq \in 0..SeqMax /\ n \in Nat \ {0}
  <2>1. TypeOK /\ HostTypeOK
    BY DEF Both, Inv, TypeInv, HostInv
  <2>2. QED
    BY <2>1, ConstantsAssumption, HostAssumption DEF TypeOK, HostTypeOK, ProtoType
<1>1. /\ host.conn \in Conn /\ client = host.conn /\ Session /\ Joined
      /\ host.secure = proto.secure /\ host.key = proto.key
  BY WriterIs DEF CanWrite
<1>2. PICK d : d = HostChunk(n)
  OBVIOUS
<1>3. d \in Seq(Nat) /\ u \in Seq(Unit)
  <2>1. HostInv
    BY DEF Both
  <2>2. QED
    BY <1>2, <1>t, <2>1, HostEncodeType
<1>4. Len(d) \in 1..MaxRecord /\ Len(d) \in Nat /\ \A j \in 1..Len(d) : d[j] = sent + j
  <2>1. PICK z : z = Least(n, MaxRecord)
    OBVIOUS
  <2>2. z \in 1..MaxRecord
    BY <1>t, <2>1, ConstantsAssumption DEF Least
  <2>3. d = [i \in 1..z |-> sent + i]
    BY <1>2, <2>1 DEF HostChunk
  <2>4. Len(d) = z
    BY <2>2, <2>3
  <2>5. QED
    BY <2>2, <2>3, <2>4
<1>5. ASSUME proto.secure, ~Spoiled
      PROVE  \E s \in Seq(Unit), q \in Nat, m \in Nat :
                /\ s = Arrived /\ q = proto.rxSeq /\ m = Len(Delivered)
                /\ Incoming(s \o u, proto.key, q, m)
                /\ host'.txSeq = host.txSeq + 1 /\ sent' = sent + Len(d) => UpToSent(s \o u, q, m)'
  <2>1. PICK s \in Seq(Unit) : s = Arrived
    <3>1. inbox[client] \in Seq(Unit)
      BY <1>1, <1>t
    <3>2. Arrived \in Seq(Unit)
      BY <1>t, <3>1, ConcatProperties, Zenon DEF Arrived
    <3>3. QED
      BY <3>2, Zenon
  <2>2. PICK m \in Nat : m = Len(Delivered)
    <3>1. Delivered \in Seq(Nat)
      BY <1>t DEF Delivered
    <3>2. PICK x \in Seq(Nat) : x = Delivered
      BY <3>1, Zenon
    <3>3. QED
      BY <3>2
  <2>3. PICK q \in Nat : q = proto.rxSeq
    BY <1>t
  <2>4. Incoming(s, proto.key, q, m) /\ UpToSent(s, q, m)
    BY <1>1, <1>5, <2>1, <2>2, <2>3 DEF RxInv, DeviceSide, HostSide, DeviceRx, HostTx
  <2>5. SealedCells("h2d", u, proto.key, host.txSeq, sent, d)
    <3>1. proto.key \in SessionKey /\ host.txSeq # SeqMax
      BY <1>1, <1>5 DEF Both, Inv, TypeInv, SecureKey, CanWrite
    <3>2. u = Seal(proto.key, "h2d", host.txSeq, d)
      BY <1>1, <1>2, <1>5 DEF HostEncode
    <3>3. QED
      BY <1>3, <1>4, <1>t, <3>1, <3>2, SealChain
  <2>6. /\ Incoming(s \o u, proto.key, q, m)
        /\ host'.txSeq = host.txSeq + 1 /\ sent' = sent + Len(d) => UpToSent(s \o u, q, m)'
    BY <1>3, <1>4, <1>t, <2>4, <2>5, RecordsJoin
  <2>7. QED
    BY <2>1, <2>2, <2>3, <2>6
<1>6. ASSUME ~proto.secure PROVE IncomingRaw(inbox[client] \o u, Len(delivered)) /\ Len(u) = Len(d)
  <2>1. PICK b \in Seq(Unit) : b = inbox[client]
    BY <1>1, <1>t
  <2>2. PICK m \in Nat : m = Len(delivered)
    BY <1>t
  <2>3. IncomingRaw(b, m) /\ sent = m + Len(b)
    BY <1>1, <1>6, <2>1, <2>2 DEF RxInv, DeviceSide, HostSide, DeviceRx, HostTx
  <2>4. RawBytes(u, sent, Len(d)) /\ Len(u) = Len(d)
    <3>1. u = [i \in 1..Len(d) |-> [kind |-> "raw", byte |-> d[i]]]
      BY <1>1, <1>2, <1>6 DEF HostEncode
    <3>2. Len(d) > 0 /\ sent \in Nat /\ \A j \in 1..Len(d) : d[j] = sent + j
      BY <1>4, <1>t
    <3>4. RawBytes(u, sent, Len(d))
      BY <1>3, <3>1, <3>2, RawChain, Zenon
    <3>3. QED
      BY <3>4 DEF RawBytes
  <2>5. IncomingRaw(b \o u, m)
    BY <1>3, <2>3, <2>4, RawJoin
  <2>6. QED
    BY <2>1, <2>2, <2>4, <2>5
<1>7. QED
  BY <1>2, <1>3, <1>4, <1>5, <1>6

\* Units that go on from what has arrived reach the device in session.
LEMMA DataRx ==
  ASSUME Both, RxInv, NEW v \in Seq(Unit), PeerRx(v), Session, client = host.conn,
         proto.secure /\ ~Spoiled => Incoming(Arrived \o v, proto.key, proto.rxSeq, Len(Delivered)),
         ~proto.secure => IncomingRaw(inbox[client] \o v, Len(delivered))
  PROVE  /\ DeviceSide' /\ Session' /\ Arrived' = Arrived \o v /\ Delivered' = Delivered
         /\ inbox'[client'] = inbox[client] \o v /\ Spoiled' = Spoiled
<1>1. /\ inbox \in [Conn -> Seq(Unit)] /\ client \in Conn /\ proto.rxRecord \in Seq(Unit)
      /\ proto.rxTag \in Seq(Unit)
  <2>1. TypeOK
    BY DEF Both, Inv, TypeInv
  <2>2. QED
    BY <2>1 DEF TypeOK, ProtoType, Session, Live
<1>2. /\ inbox'[client'] = inbox[client] \o v /\ client' = client /\ proto' = proto
      /\ delivered' = delivered /\ staged' = staged /\ link' = link
      /\ \A c \in Conn : c # client => inbox'[c] = inbox[c]
  BY <1>1 DEF PeerRx
<1>3. Session' /\ ~Handshaking' /\ proto.ready
  BY <1>2 DEF Session, Handshaking, Live
<1>4. Delivered' = Delivered
  BY <1>2 DEF Delivered
<1>5. Arrived' = Arrived \o v
  <2>1. PICK b \in Seq(Unit) : b = inbox[client]
    BY <1>1
  <2>2. PICK x \in Seq(Unit) : x = proto.rxRecord \o proto.rxTag
    BY <1>1, ConcatProperties, Zenon
  <2>3. (x \o b) \o v = x \o (b \o v)
    BY RegroupUnits, Zenon
  <2>4. QED
    BY <1>2, <2>1, <2>2, <2>3 DEF Arrived
<1>s. Spoiled' = Spoiled /\ RxParts' = RxParts
  BY <1>2 DEF Spoiled, RxParts, CipherEnd, CiphertextComplete
<1>6. LinesOnly'
  BY <1>2, <1>3 DEF RxInv, DeviceSide, LinesOnly
<1>7. FirstLine'
  BY <1>2, <1>3 DEF RxInv, DeviceSide, FirstLine
<1>8. DeviceRx'
  BY <1>2, <1>4, <1>5, <1>s DEF RxInv, DeviceSide, DeviceRx
<1>9. QED
  BY <1>2, <1>3, <1>4, <1>5, <1>6, <1>7, <1>8, <1>s DEF DeviceSide

\* A record, or bytes without encryption.
LEMMA WriteRx ==
  ASSUME Both, RxInv, NEW n \in HostWriteSizes, HostWrite(n)
  PROVE  RxInv'
<1>1. PICK u : u = HostEncode(HostChunk(n))
  OBVIOUS
<1>2. /\ CanWrite(n) /\ host.state = "ready" /\ WriteAll(u, Len(u)) /\ sent' = sent + Len(HostChunk(n))
      /\ host' = [host EXCEPT !.txSeq = IF host.secure THEN @ + 1 ELSE @]
  BY <1>1 DEF HostWrite, CanWrite
<1>3. link[host.conn] = "open"
  BY <1>2 DEF WriteAll, PeerSend
<1>4. /\ host.conn \in Conn /\ client = host.conn /\ Session /\ Joined /\ host.secure = proto.secure
  BY <1>2, <1>3, WriterIs
<1>5. /\ u \in Seq(Unit) /\ Len(HostChunk(n)) \in Nat
      /\ proto.secure /\ ~Spoiled =>
           \E s \in Seq(Unit), q \in Nat, m \in Nat :
             /\ s = Arrived /\ q = proto.rxSeq /\ m = Len(Delivered)
             /\ Incoming(s \o u, proto.key, q, m)
             /\ host'.txSeq = host.txSeq + 1 /\ sent' = sent + Len(HostChunk(n)) => UpToSent(s \o u, q, m)'
      /\ ~proto.secure => /\ IncomingRaw(inbox[client] \o u, Len(delivered))
                          /\ Len(u) = Len(HostChunk(n))
  BY <1>1, <1>2, <1>3, WrittenFits
<1>6. PeerRx(u)
  <2>1. SubSeq(u, 1, Len(u)) = u
    BY <1>5
  <2>2. QED
    BY <1>2, <2>1 DEF WriteAll, PeerSend, PeerRx, app, output
<1>7. /\ DeviceSide' /\ Session' /\ Arrived' = Arrived \o u /\ Delivered' = Delivered
      /\ inbox'[client'] = inbox[client] \o u /\ Spoiled' = Spoiled
  BY <1>4, <1>5, <1>6, DataRx
<1>8. /\ host'.state = "ready" /\ host'.conn = host.conn
      /\ host'.txSeq = IF host.secure THEN host.txSeq + 1 ELSE host.txSeq
  BY <1>2 DEF Both, HostInv, HostTypeOK
<1>9. HostFresh' /\ Answered'
  BY <1>8 DEF HostFresh, Answered
<1>10. HostTx'
  <2>0. CASE proto.secure /\ Spoiled
    <3>1. Len(Delivered) <= sent /\ sent \in Nat
      BY <1>4, <2>0 DEF RxInv, HostSide, HostTx, Both, HostInv, HostTypeOK
    <3>2. Len(Delivered) \in Nat
      <4>1. PICK x \in Seq(Nat) : x = Delivered
        <5>1. delivered \in Seq(Nat) /\ proto.rxPlain \in Seq(Nat)
          BY DEF Both, Inv, TypeInv, TypeOK, ProtoType
        <5>2. QED
          BY <5>1, ConcatProperties, Zenon DEF Delivered
      <4>2. QED
        BY <4>1
    <3>3. Len(Delivered) <= sent'
      BY <1>2, <1>5, <3>1, <3>2
    <3>4. proto'.secure
      BY <1>6, <2>0 DEF PeerRx
    <3>5. QED
      BY <1>7, <2>0, <3>3, <3>4 DEF HostTx
  <2>1. CASE proto.secure /\ ~Spoiled
    <3>1. PICK s \in Seq(Unit), q \in Nat, m \in Nat :
             /\ s = Arrived /\ q = proto.rxSeq /\ m = Len(Delivered)
             /\ host'.txSeq = host.txSeq + 1 /\ sent' = sent + Len(HostChunk(n)) => UpToSent(s \o u, q, m)'
      BY <1>5, <2>1
    <3>2. UpToSent(s \o u, q, m)'
      BY <1>2, <1>4, <1>8, <2>1, <3>1
    <3>3. proto' = proto
      BY <1>6 DEF PeerRx
    <3>4. s \o u = Arrived' /\ q = proto'.rxSeq /\ m = Len(Delivered')
      BY <1>7, <3>1, <3>3
    <3>5. QED
      BY <1>7, <2>1, <3>2, <3>3, <3>4 DEF HostTx, UpToSent
  <2>2. CASE ~proto.secure
    <3>1. PICK b \in Seq(Unit) : b = inbox[client]
      BY <1>4 DEF Both, Inv, TypeInv, TypeOK
    <3>2. delivered \in Seq(Nat)
      BY DEF Both, Inv, TypeInv, TypeOK
    <3>3. sent = Len(delivered) + Len(b) /\ Len(delivered) \in Nat /\ Len(b) \in Nat /\ Len(u) \in Nat
      BY <1>4, <1>5, <2>2, <3>1, <3>2 DEF RxInv, HostSide, HostTx
    <3>4. Len(b \o u) = Len(b) + Len(u)
      BY <1>5, <3>1
    <3>5. sent' = Len(delivered) + Len(b \o u)
      BY <1>2, <1>5, <2>2, <3>3, <3>4
    <3>6. proto' = proto /\ delivered' = delivered
      BY <1>6 DEF PeerRx
    <3>7. QED
      BY <1>7, <2>2, <3>1, <3>5, <3>6 DEF HostTx
  <2>3. QED
    BY <2>0, <2>1, <2>2
<1>11. QED
  BY <1>7, <1>9, <1>10 DEF RxInv, HostSide

\* The front of one, when the write fails: the monitor is gone.
LEMMA WriteFailsRx ==
  ASSUME Both, RxInv, NEW n \in HostWriteSizes, NEW k \in Nat, HostWriteFails(n, k)
  PROVE  RxInv'
<1>1. PICK u : u = HostEncode(HostChunk(n))
  OBVIOUS
<1>2. CanWrite(n) /\ host.state = "ready" /\ k < Len(u) /\ WriteAll(u, k) /\ host' = NoHost
  BY <1>1 DEF HostWriteFails, CanWrite
<1>3. link[host.conn] = "open"
  BY <1>2 DEF WriteAll, PeerSend
<1>4. /\ host.conn \in Conn /\ client = host.conn /\ Session
  BY <1>2, <1>3, WriterIs
<1>5. /\ u \in Seq(Unit)
      /\ proto.secure /\ ~Spoiled => Incoming(Arrived \o u, proto.key, proto.rxSeq, Len(Delivered))
      /\ ~proto.secure => IncomingRaw(inbox[client] \o u, Len(delivered))
  BY <1>1, <1>2, <1>3, WrittenFits
<1>6. PICK v \in Seq(Unit) : v = SubSeq(u, 1, k)
  <2>1. SubSeq(u, 1, k) \in Seq(Unit)
    BY <1>2, <1>5
  <2>2. QED
    BY <2>1, Zenon
<1>7. Len(v) = k /\ Len(v) <= Len(u) /\ \A i \in 1..Len(v) : v[i] = u[i]
  BY <1>2, <1>5, <1>6
<1>8. PeerRx(v)
  BY <1>2, <1>6 DEF WriteAll, PeerSend, PeerRx, app, output
<1>9. ASSUME NEW s \in Seq(Unit)
      PROVE  /\ s \o u \in Seq(Unit) /\ s \o v \in Seq(Unit) /\ Len(s \o v) <= Len(s \o u)
             /\ \A i \in 1..Len(s \o v) : (s \o v)[i] = (s \o u)[i]
  <2>1. s \o u \in Seq(Unit) /\ s \o v \in Seq(Unit) /\ Len(s \o v) <= Len(s \o u)
    BY <1>5, <1>7
  <2>2. ASSUME NEW i \in 1..Len(s \o v) PROVE (s \o v)[i] = (s \o u)[i]
    <3>1. CASE i \in 1..Len(s)
      <4>1. (s \o v)[i] = s[i] /\ (s \o u)[i] = s[i]
        BY <1>5, <3>1
      <4>2. QED
        BY <4>1
    <3>2. CASE i \notin 1..Len(s)
      <4>1. PICK j : j = i - Len(s)
        OBVIOUS
      <4>2. j \in 1..Len(v) /\ j \in 1..Len(u) /\ (s \o v)[i] = v[j] /\ (s \o u)[i] = u[j]
        BY <1>5, <1>7, <3>2, <4>1
      <4>3. QED
        BY <1>7, <4>2
    <3>3. QED
      BY <3>1, <3>2
  <2>3. QED
    BY <2>1, <2>2
<1>10. /\ inbox[client] \in Seq(Unit) /\ Arrived \in Seq(Unit)
  <2>1. TypeOK
    BY DEF Both, Inv, TypeInv
  <2>2. inbox[client] \in Seq(Unit) /\ proto.rxRecord \in Seq(Unit) /\ proto.rxTag \in Seq(Unit)
    BY <1>4, <2>1 DEF TypeOK, ProtoType
  <2>3. QED
    BY <2>2, ConcatProperties, Zenon DEF Arrived
<1>11. /\ proto.secure /\ ~Spoiled => Incoming(Arrived \o v, proto.key, proto.rxSeq, Len(Delivered))
       /\ ~proto.secure => IncomingRaw(inbox[client] \o v, Len(delivered))
  <2>1. ASSUME proto.secure, ~Spoiled PROVE Incoming(Arrived \o v, proto.key, proto.rxSeq, Len(Delivered))
    <3>1. PICK s \in Seq(Unit) : s = Arrived
      BY <1>10, Zenon
    <3>2. Incoming(s \o u, proto.key, proto.rxSeq, Len(Delivered))
      BY <1>5, <2>1, <3>1
    <3>3. Incoming(s \o v, proto.key, proto.rxSeq, Len(Delivered))
      BY <1>9, <3>2, IncomingFront
    <3>4. QED
      BY <3>1, <3>3
  <2>2. ASSUME ~proto.secure PROVE IncomingRaw(inbox[client] \o v, Len(delivered))
    <3>1. PICK s \in Seq(Unit) : s = inbox[client]
      BY <1>10, Zenon
    <3>2. IncomingRaw(s \o u, Len(delivered))
      BY <1>5, <2>2, <3>1
    <3>3. IncomingRaw(s \o v, Len(delivered))
      BY <1>9, <3>2, IncomingFront
    <3>4. QED
      BY <3>1, <3>3
  <2>3. QED
    BY <2>1, <2>2
<1>12. DeviceSide'
  BY <1>4, <1>8, <1>11, DataRx
<1>13. host'.state = "closed" /\ host'.conn = NoConn
  BY <1>2 DEF NoHost
<1>14. HostSide'
  BY <1>13 DEF HostSide, HostFresh, Answered, HostTx, Joined
<1>15. QED
  BY <1>12, <1>14 DEF RxInv

LEMMA NextRx ==
  ASSUME Both, Both', RxInv, [LinkNext]_allVars, [AnyNext]_vars
  PROVE  RxInv'
<1>t. HostTypeOK
  BY DEF Both, HostInv
<1>1. ASSUME NEW c \in Conn, HostDial(c) PROVE RxInv'
  BY <1>1, DialRx
<1>2. CASE HostRaw
  <2>1. /\ host.state = "hello" /\ host'.state = "ready" /\ host'.conn = host.conn
        /\ host'.txSeq = host.txSeq /\ UNCHANGED vars /\ sent' = sent
    BY <1>2, <1>t DEF HostRaw, ReadsLine, HostTypeOK
  <2>2. QED
    BY <2>1, HostQuietRx
<1>3. CASE HostSecure
  <2>1. /\ host.state = "auth" /\ host'.state = "ready" /\ host'.conn = host.conn
        /\ host'.txSeq = host.txSeq /\ UNCHANGED vars /\ sent' = sent
    BY <1>3, <1>t DEF HostSecure, ReadsLine, HostTypeOK
  <2>2. QED
    BY <2>1, HostQuietRx
<1>4. CASE HostRefuse \/ HostGivesUp
  BY <1>4, HostQuietRx DEF HostRefuse, HostGivesUp
<1>5. ASSUME NEW n \in HostReadSizes, HostRead(n) PROVE RxInv'
  <2>1. host.state = "ready" /\ UNCHANGED vars /\ sent' = sent
    BY <1>5 DEF HostRead, ReadReady
  <2>2. \/ host' = NoHost
        \/ host'.state = "ready" /\ host'.conn = host.conn /\ host'.txSeq = host.txSeq
    BY <1>5, <1>t, <2>1 DEF HostRead, HostTypeOK
  <2>3. QED
    BY <2>1, <2>2, HostQuietRx
<1>6. ASSUME NEW n \in HostReadSizes, HostReadRest(n) \/ HostReadRaw(n) PROVE RxInv'
  <2>1. /\ host.state = "ready" /\ UNCHANGED vars /\ sent' = sent
        /\ host'.state = "ready" /\ host'.conn = host.conn /\ host'.txSeq = host.txSeq
    BY <1>6, <1>t DEF HostReadRest, HostReadRaw, ReadReady, HostTypeOK
  <2>2. QED
    BY <2>1, HostQuietRx
<1>7. ASSUME NEW n \in HostWriteSizes, NEW k \in 0..(HeaderSize + MaxRecord + TagSize), HostWriteFails(n, k)
      PROVE  RxInv'
  <2>1. k \in Nat
    BY ConstantsAssumption
  <2>2. QED
    BY <1>7, <2>1, WriteFailsRx
<1>8. CASE HostNext
  BY <1>1, <1>2, <1>3, <1>4, <1>5, <1>6, <1>7, <1>8, HelloRx, AuthRx, WriteRx DEF HostNext
<1>9. CASE DeviceStep
  BY <1>9, DeviceStepRx
<1>10. QED
  BY <1>8, <1>9 DEF LinkNext, DeviceStep, allVars

LEMMA RxInvariant == LinkSpec => [](Both /\ RxInv)
<1>1. Both /\ RxInv /\ [LinkNext]_allVars => (Both /\ RxInv)'
  BY NextBoth, NextRx
<1>2. QED
  BY InitBoth, InitRx, <1>1, PTL DEF LinkSpec

\* What the sketch has read, with what its decryptor holds for it, is a prefix
\* of what the monitor has written to the connection the device holds: bytes,
\* records and their parts arrive once and in order, in whatever pieces they
\* come, between any two of the device's questions for more, and when a write is
\* cut off.  Even ciphertext that ends up in the buffer for the tag never reaches
\* the sketch as wrong bytes (handleSecureRx(), read()).
THEOREM SketchReadsPrefix == LinkSpec => []DeviceReadsPrefix
<1>1. ASSUME Both, RxInv, Session, client = host.conn PROVE FirstBytes(delivered \o proto.rxPlain, sent)
  <2>1. host.state # "closed"
    BY <1>1 DEF RxInv, HostSide, HostFresh, Session, Live
  <2>2. Joined
    BY <1>1, <2>1 DEF Both, Inv, SentInv, Accepted, Joined, Session, Live
  <2>3. FirstBytes(Delivered, Len(Delivered))
    BY <1>1 DEF RxInv, DeviceSide, DeviceRx
  <2>4. Len(Delivered) <= sent
    <3>1. CASE proto.secure
      BY <1>1, <2>2, <3>1 DEF RxInv, HostSide, HostTx, UpToSent
    <3>2. CASE ~proto.secure
      <4>1. /\ inbox[client] \in Seq(Unit) /\ delivered \in Seq(Nat)
        BY <1>1 DEF Both, Inv, TypeInv, TypeOK, Session, Live
      <4>2. Delivered = delivered
        BY <1>1, <3>2, <4>1 DEF RxInv, DeviceSide, DeviceRx, Delivered
      <4>3. sent = Len(delivered) + Len(inbox[client])
        BY <1>1, <2>2, <3>2 DEF RxInv, HostSide, HostTx
      <4>4. Len(delivered) \in Nat /\ Len(inbox[client]) \in Nat
        BY <4>1
      <4>5. QED
        BY <4>2, <4>3, <4>4
    <3>3. QED
      BY <3>1, <3>2
  <2>5. QED
    BY <2>3, <2>4 DEF FirstBytes, Delivered
<1>2. Both /\ RxInv => DeviceReadsPrefix
  BY <1>1 DEF DeviceReadsPrefix
<1>3. QED
  BY <1>2, RxInvariant, PTL

\* handleSecureRx() ends the session of a monitor that follows the protocol only
\* after ciphertext that arrived between its questions for ciphertext and for
\* the tag went into the buffer for the tag: in every other case the header, the
\* sequence number, the keys and the tag of a record are the ones expected.
THEOREM DeviceRefusesOnlySpoiled == LinkSpec => OnlySpoiledRefused
<1>1. ASSUME [LinkNext]_allVars, pc' # pc, pc \in {"secureRx", "rxAgain"}
      PROVE  UNCHANGED hostVars /\ \E p \in {"secureRx", "rxAgain"} : SkipStage(p) \/ SecureRx(p)
  <2>1. ASSUME HostNext PROVE FALSE
    <3>1. pc' = pc
      BY <2>1 DEF HostNext, HostDial, HostHello, HostRaw, HostAuth, HostSecure, HostRefuse, HostGivesUp,
                  HostWrite, HostWriteFails, WriteAll, HostRead, HostReadRest, HostReadRaw, PeerSend, Dial, vars
    <3>2. QED
      BY <1>1, <3>1
  <2>2. ASSUME Tick \/ \E c \in Conn : Lose(c) PROVE FALSE
    BY <1>1, <2>2 DEF Tick, Lose
  <2>3. ASSUME AdminCall \/ CallHandle \/ DataCall PROVE FALSE
    BY <1>1, <2>3 DEF AdminCall, CallHandle, DataCall, StartCall, Begin, End, DisconnectClient,
                      ClearTxDropCounters, ChangeAuthKey
  <2>4. ASSUME Step PROVE \E p \in {"secureRx", "rxAgain"} : SkipStage(p) \/ SecureRx(p)
    BY <1>1, <2>4 DEF Step, StopServer, CheckDead, SkipStage, HandleHandshake, SecureRx, DrainTxPending,
                      DrainDiscard, AcceptNone, AcceptReject, AcceptClient, WriteStart, WriteStage,
                      WriteFail, WriteCheck, Take
  <2>5. QED
    BY <1>1, <2>1, <2>2, <2>3, <2>4 DEF LinkNext, DeviceNext, allVars, vars
<1>2. ASSUME Both, RxInv, [LinkNext]_allVars, pc' # pc, pc \in {"secureRx", "rxAgain"}, Session
      PROVE  proto'.ready \/ Spoiled
  <2>1. UNCHANGED hostVars
    BY <1>1, <1>2
  <2>2. PICK p \in {"secureRx", "rxAgain"} : SkipStage(p) \/ SecureRx(p)
    BY <1>1, <1>2
  <2>3. CASE SkipStage(p)
    BY <1>2, <2>3 DEF SkipStage, slot, Session
  <2>4. CASE SecureRx(p)
    <3>1. Both' /\ [AnyNext]_vars
      BY <1>2, NextBoth
    <3>2. ~AcceptClient
      BY <1>2 DEF AcceptClient
    <3>3. QED
      BY <1>2, <2>1, <2>4, <3>1, <3>2, SecureRxKeeps
  <2>5. QED
    BY <2>2, <2>3, <2>4
<1>3. Both /\ RxInv /\ [LinkNext]_allVars
        => [pc' # pc /\ pc \in {"secureRx", "rxAgain"} /\ Session => proto'.ready \/ Spoiled]_allVars
  BY <1>2
<1>4. QED
  BY <1>3, RxInvariant, PTL DEF LinkSpec, OnlySpoiledRefused

=============================================================================
