------------------------ MODULE DeviceTransportProofs ------------------------
(***************************************************************************)
(* Safety of the firmware transport for every value of its constants: any  *)
(* record size, any number of connections, any peer.                       *)
(***************************************************************************)
EXTENDS DeviceTransport, SequenceTheorems, TLAPS

---------------------------------------------------------------------------
(* What the operators of the model return *)

\* A control line is something that can be sent.
LEMMA LineType == ASSUME NEW m \in Message PROVE Line(m) \in Unit
  BY DEF Line, Unit

\* The lines the firmware sends.
LEMMA MessageTypes ==
  /\ [type |-> "ERR"] \in Message
  /\ \A b \in BOOLEAN : [type |-> "OK", secure |-> b] \in Message
  /\ \A n \in Nat, p \in ProofType : [type |-> "CHALLENGE", nonce |-> n, proof |-> p] \in Message
  BY DEF Message

\* What a received line carries.
LEMMA ReceivedMessage ==
  ASSUME NEW u \in Unit, u.kind = "eol"
  PROVE  /\ u.msg \in Message
         /\ u.msg.type = "HELLO" => u.msg.nonce \in Nat
         /\ u.msg.type = "AUTH" => u.msg.proof \in ProofType
<1>1. u.msg \in Message
  BY DEF Unit
<1>2. QED
  BY <1>1 DEF Message

\* A cell belongs to a record.
LEMMA ReceivedCell == ASSUME NEW u \in Unit, u.kind = "cell" PROVE u.rec \in Record
  BY DEF Unit

\* A sealed record is a sequence of HeaderSize + Len(data) + TagSize units.
LEMMA SealType ==
  ASSUME NEW k \in SessionKey, NEW dir \in {"d2h", "h2d"}, NEW n \in Nat,
         NEW data \in Seq(Nat)
  PROVE  /\ Seal(k, dir, n, data) \in Seq(Unit)
         /\ Len(Seal(k, dir, n, data)) = HeaderSize + Len(data) + TagSize
<1> DEFINE size == HeaderSize + Len(data) + TagSize
           rec == [key |-> k, dir |-> dir, seq |-> n, data |-> data]
<1>1. size \in Nat
  BY ConstantsAssumption
<1>2. rec \in Record
  BY DEF Record
<1>3. ASSUME NEW i \in 1..size PROVE [kind |-> "cell", at |-> i, rec |-> rec] \in Unit
  BY <1>1, <1>2, <1>3 DEF Unit
<1>4. QED
  BY <1>1, <1>3 DEF Seal

\* The bytes of a raw connection.
LEMMA RawType ==
  ASSUME NEW data \in Seq(Nat)
  PROVE  /\ [i \in 1..Len(data) |-> [kind |-> "raw", byte |-> data[i]]] \in Seq(Unit)
         /\ Len([i \in 1..Len(data) |-> [kind |-> "raw", byte |-> data[i]]]) = Len(data)
<1>1. ASSUME NEW i \in 1..Len(data) PROVE [kind |-> "raw", byte |-> data[i]] \in Unit
  BY <1>1 DEF Unit
<1>2. QED
  BY <1>1

\* The rest of a sequence after its first k elements.
LEMMA DropFirstType ==
  ASSUME NEW S, NEW s \in Seq(S), NEW k \in 0..Len(s)
  PROVE  /\ DropFirst(s, k) \in Seq(S)
         /\ Len(DropFirst(s, k)) = Len(s) - k
  BY DEF DropFirst

\* The first k elements and the rest are the whole sequence.
LEMMA SplitSequence ==
  ASSUME NEW S, NEW s \in Seq(S), NEW k \in 1..Len(s)
  PROVE  SubSeq(s, 1, k) \o DropFirst(s, k) = s
  BY ConcatAdjacentSubSeq, SubSeqFull DEF DropFirst

---------------------------------------------------------------------------
(* Type correctness *)

\* write() goes round its loop only with bytes left; a session that is secure
\* has keys.
CallShape ==
  /\ call.op = "write" /\ pc \notin {"writeDrain", "writeCheck"} => call.total < call.size
  /\ pc \in {"write", "writeLoop", "writeDrain", "writeCheck"} => call.op = "write"
SecureKey == proto.secure => proto.key \in SessionKey

TypeInv == TypeOK /\ CallShape /\ SecureKey

\* A reset leaves a well-formed state.
LEMMA ResetType ==
  /\ ResetProtocolState \in ProtoType
  /\ ~ResetProtocolState.secure /\ ~ResetProtocolState.ready
  /\ ResetProtocolState.txPending = <<>>
  BY ConstantsAssumption DEF ResetProtocolState, ProtoType

\* Closing the client leaves a well-formed slot without a live connection.
LEMMA CloseType ==
  ASSUME TypeOK, CloseProtocolClient
  PROVE  /\ client' \in Conn \cup {NoConn} /\ proto' = ResetProtocolState
         /\ link' \in [Conn -> {"none", "open", "lost", "closed"}]
         /\ inbox' \in [Conn -> Seq(Unit)]
         /\ ~Live'
<1>1. proto' = ResetProtocolState
  BY DEF CloseProtocolClient
<1>2. CASE /\ client # NoConn /\ client' = NoConn
           /\ link' = [link EXCEPT ![client] = "closed"]
           /\ inbox' = [inbox EXCEPT ![client] = <<>>]
  BY <1>1, <1>2 DEF TypeOK, Live
<1>3. CASE ~Live /\ UNCHANGED <<client, link, inbox>>
  BY <1>1, <1>3 DEF TypeOK, Live
<1>4. QED
  BY <1>2, <1>3 DEF CloseProtocolClient

\* Sending a control line keeps the histories well formed.
LEMMA SendType ==
  ASSUME TypeOK, NEW m \in Message, NEW ok \in BOOLEAN, SendControlLine(m, ok)
  PROVE  wire' \in Seq(Unit) /\ staged' \in Seq(Unit)
<1>1. Line(m) \in Unit
  BY LineType
<1>2. \/ wire' = Append(wire, Line(m)) /\ staged' = Append(staged, Line(m))
      \/ UNCHANGED output
  BY Zenon DEF SendControlLine
<1>3. wire \in Seq(Unit) /\ staged \in Seq(Unit)
  BY DEF TypeOK
<1>4. CASE wire' = Append(wire, Line(m)) /\ staged' = Append(staged, Line(m))
  BY <1>1, <1>3, <1>4
<1>5. CASE UNCHANGED output
  BY <1>3, <1>5 DEF output
<1>6. QED
  BY <1>2, <1>4, <1>5

\* So does a rejection.
LEMMA RejectType ==
  ASSUME TypeOK, Reject
  PROVE  /\ CloseProtocolClient
         /\ wire' \in Seq(Unit) /\ staged' \in Seq(Unit)
  BY SendType, MessageTypes DEF Reject

\* Both drop counters stay within their width.
LEMMA DropType ==
  ASSUME TypeOK, NEW n \in Nat, RecordTxDrop(n)
  PROVE  dropped' \in [bytes : 0..DropBytesMax, writes : 0..DropWritesMax]
<1>1. PICK b, w : b = dropped.bytes /\ w = dropped.writes
  OBVIOUS
<1>2. b \in 0..DropBytesMax /\ w \in 0..DropWritesMax /\ DropBytesMax \in Nat /\ DropWritesMax \in Nat
  BY <1>1, ConstantsAssumption DEF TypeOK
<1>3. PICK d, e : /\ d = (IF DropBytesMax - b < n THEN DropBytesMax ELSE b + n)
                  /\ e = (IF w # DropWritesMax THEN w + 1 ELSE w)
  OBVIOUS
<1>4. d \in 0..DropBytesMax /\ e \in 0..DropWritesMax
  BY <1>2, <1>3
<1>5. dropped' = [bytes |-> d, writes |-> e]
  BY <1>1, <1>3 DEF RecordTxDrop
<1>6. QED
  BY <1>4, <1>5

\* The next chunk of a write that has bytes left.
LEMMA ChunkType ==
  ASSUME TypeOK, call.total < call.size
  PROVE  Chunk \in Seq(Nat) /\ Len(Chunk) \in 1..MaxRecord
<1> DEFINE n == Least(call.size - call.total, MaxRecord)
<1>1. n \in 1..MaxRecord
  BY ConstantsAssumption DEF TypeOK, Least
<1>2. ASSUME NEW i \in 1..n PROVE accepted + call.total + i \in Nat
  <2>1. accepted \in Nat /\ call.total \in Nat
    BY DEF TypeOK
  <2>2. i \in Nat
    <3> HIDE DEF n
    <3> QED
      BY <1>1
  <2>3. QED
    BY <2>1, <2>2
<1>3. QED
  BY <1>1, <1>2 DEF Chunk

\* What a chunk becomes: at most one wire record.
LEMMA EncodeType ==
  ASSUME TypeInv, NEW data \in Seq(Nat), Len(data) <= MaxRecord
  PROVE  /\ Encode(data) \in Seq(Unit)
         /\ Len(Encode(data)) <= HeaderSize + MaxRecord + TagSize
<1>1. CASE proto.secure
  <2>1. proto.key \in SessionKey /\ proto.txSeq \in Nat
    BY <1>1, ConstantsAssumption DEF TypeInv, TypeOK, SecureKey, ProtoType
  <2>2. QED
    BY <1>1, <2>1, SealType, ConstantsAssumption DEF Encode
<1>2. CASE ~proto.secure
  BY <1>2, RawType, ConstantsAssumption DEF Encode
<1>3. QED
  BY <1>1, <1>2

---------------------------------------------------------------------------
(* The invariants are shown for a peer that may send anything, any number of *)
(* units at a time, of which both Spec and the monitor's link are instances. *)

AnyPeerNext == \E c \in Conn, units \in Seq(Unit) : PeerSend(c, units)
AnyNext == DeviceNext \/ NetworkNext \/ AnyPeerNext

LEMMA NextIsAny == Next => AnyNext
<1> SUFFICES ASSUME NEW c \in Conn, NEW u \in PeerUnits, PeerSend(c, <<u>>)
             PROVE AnyPeerNext
  BY DEF Next, AnyNext, PeerNext
<1>1. u \in Unit
  BY ConstantsAssumption
<1>2. <<u>> \in Seq(Unit)
  BY <1>1
<1>3. QED
  BY <1>2 DEF AnyPeerNext

\* The constructor establishes the types.
LEMMA InitType == Init => TypeInv
<1> SUFFICES ASSUME Init PROVE TypeInv
  OBVIOUS
<1>1. TypeOK
  <2>1. /\ link \in [Conn -> {"none"}] /\ backlog \in Seq(Conn)
        /\ inbox \in [Conn -> Seq(Unit)] /\ wire \in Seq(Unit) /\ staged \in Seq(Unit)
        /\ delivered \in Seq(Nat)
    BY DEF Init
  <2>2. /\ dropped \in [bytes : 0..DropBytesMax, writes : 0..DropWritesMax]
        /\ millis \in 0..(MillisMod - 1) /\ age \in 0..(MillisMod - 1)
    BY ConstantsAssumption DEF Init
  <2>3. call \in [op : {"none", "handle", "write", "read"}, size : Nat, total : Nat]
    BY DEF Init, NoCall
  <2>4. QED
    BY <2>1, <2>2, <2>3, ResetType DEF Init, TypeOK, PcSet
<1>2. QED
  BY <1>1, ResetType DEF Init, TypeInv, CallShape, SecureKey, NoCall

\* Where a call goes on once handle() has returned.
LEMMA AfterHandleIs ==
  ASSUME NEW op
  PROVE  \/ AfterHandle(op) \in {"rxAgain", "idle"}
         \/ AfterHandle(op) = "write" /\ op = "write"
  BY DEF AfterHandle

\* Where the handshake stages lead to.
LEMMA AfterGreet ==
  ASSUME NEW p \in {"handshake", "greet"}
  PROVE  \/ After(p) \in {"secureRx", "rxAgain", "idle"}
         \/ After(p) = "write" /\ call.op = "write"
<1>1. CASE p = "handshake"
  BY <1>1 DEF After
<1>2. CASE p = "greet"
  <2>1. After(p) = AfterHandle(call.op)
    BY <1>2 DEF After
  <2>2. QED
    BY <2>1, AfterHandleIs
<1>3. QED
  BY <1>1, <1>2

\* A step of the handshake that reads a unit or runs into the timeout.
LEMMA HandshakeType ==
  ASSUME TypeInv, NEW p \in {"handshake", "greet"}, HandleHandshake(p)
  PROVE  TypeInv'
<1> USE DEF TypeInv, CallShape, SecureKey
<1> DEFINE SlotTyped == /\ client \in Conn \cup {NoConn} /\ proto \in ProtoType
                        /\ link \in [Conn -> {"none", "open", "lost", "closed"}]
                        /\ inbox \in [Conn -> Seq(Unit)]
                        /\ wire \in Seq(Unit) /\ staged \in Seq(Unit)
                        /\ nonceCount \in Nat /\ age \in 0..(MillisMod - 1)
                        /\ SecureKey
<1>1. SUFFICES SlotTyped'
  <2>1. \/ pc' \in {"handshake", "greet", "secureRx", "rxAgain", "idle"}
        \/ pc' = "write" /\ call.op = "write"
    BY AfterGreet DEF HandleHandshake
  <2>2. UNCHANGED <<config, dropped, call, backlog, app, millis, used>>
    BY DEF HandleHandshake
  <2>3. QED
    BY <1>1, <2>1, <2>2 DEF TypeOK, config, app, PcSet, HandleHandshake
<1>2. SlotTyped /\ Handshaking /\ client \in Conn
  BY DEF TypeOK, HandleHandshake, Handshaking, Live
<1>3. ASSUME Reject, UNCHANGED <<nonceCount, age>> PROVE SlotTyped'
  BY <1>2, <1>3, RejectType, CloseType, ResetType
<1>4. ASSUME inbox[client] # <<>>, NEW s \in ProtoType, Continue(s),
             s.secure => s.key \in SessionKey,
             wire' \in Seq(Unit), staged' \in Seq(Unit),
             nonceCount' \in Nat, age' \in 0..(MillisMod - 1)
      PROVE SlotTyped'
  BY <1>2, <1>4 DEF Continue
<1>5. ASSUME CloseProtocolClient, UNCHANGED output, UNCHANGED <<nonceCount, age>>
      PROVE SlotTyped'
  BY <1>2, <1>5, CloseType, ResetType DEF output
<1>6. ASSUME inbox[client] # <<>>, HandshakeChar PROVE SlotTyped'
  <2>1. CASE LineTooLong
    BY <1>3, <1>6, <2>1 DEF HandshakeChar
  <2>2. CASE ~LineTooLong
    <3> DEFINE s == [proto EXCEPT !.line = @ + 1]
    <3>1. s \in ProtoType /\ s.secure = proto.secure /\ s.key = proto.key
      <4>1. proto \in ProtoType
        BY DEF TypeOK
      <4>2. proto.line + 1 \in 0..(LineMax - 1)
        BY <2>2, <4>1, ConstantsAssumption DEF ProtoType, LineTooLong
      <4>3. QED
        BY <4>1, <4>2 DEF ProtoType
    <3>2. Continue(s) /\ UNCHANGED output /\ UNCHANGED <<nonceCount, age>>
      BY <1>6, <2>2 DEF HandshakeChar
    <3>3. QED
      BY <1>2, <1>4, <1>6, <3>1, <3>2 DEF output
  <2>3. QED
    BY <2>1, <2>2
<1>7. ASSUME inbox[client] # <<>>, ProcessHandshakeLine PROVE SlotTyped'
  <2>1. /\ LineRead.type = "HELLO" => LineRead.nonce \in Nat
        /\ LineRead.type = "AUTH" => LineRead.proof \in ProofType
    <3>1. Head(inbox[client]) \in Unit /\ Head(inbox[client]).kind = "eol"
      BY <1>2, <1>7 DEF ProcessHandshakeLine
    <3>2. QED
      BY <3>1, ReceivedMessage DEF LineRead
  <2>2. CASE HandshakeBadHello \/ HandshakeBadAuth
    BY <1>3, <2>2 DEF HandshakeBadHello, HandshakeBadAuth
  <2>3. CASE HandshakeRaw
    <3> DEFINE s == ReadyState(proto)
    <3>1. s \in ProtoType /\ s.secure = proto.secure /\ s.key = proto.key
      BY <1>2 DEF ProtoType, ReadyState
    <3>2. ASSUME SendControlLine([type |-> "OK", secure |-> FALSE], TRUE), Continue(s)
          PROVE SlotTyped'
      BY <1>2, <1>4, <1>7, <2>3, <3>1, <3>2, SendType, MessageTypes DEF HandshakeRaw
    <3>3. QED
      BY <1>5, <2>3, <3>2 DEF HandshakeRaw
  <2>4. CASE HandshakeChallenge
    <3> DEFINE cn == LineRead.nonce
               sn == nonceCount + 1
               proof == Proof(authKey, "SERVER", cn, sn)
               s == ChallengeState(cn, sn)
    <3>1. cn \in Nat /\ sn \in Nat /\ authKey \in AuthKeys /\ nonceCount' = sn
      BY <1>2, <2>1, <2>4 DEF HandshakeChallenge, HelloAccepted, TypeOK
    <3>2. [type |-> "CHALLENGE", nonce |-> sn, proof |-> proof] \in Message
      BY <3>1, MessageTypes DEF Proof, ProofType
    <3>3. s \in ProtoType /\ s.secure = proto.secure /\ s.key = proto.key
      <4>1. proto \in ProtoType /\ millis \in 0..(MillisMod - 1) /\ 0 \in 0..(LineMax - 1)
        BY ConstantsAssumption DEF TypeOK
      <4>2. QED
        BY <3>1, <4>1 DEF ProtoType, ChallengeState
    <3>4. ASSUME SendControlLine([type |-> "CHALLENGE", nonce |-> sn, proof |-> proof], TRUE),
                 Continue(s), age' = 0
          PROVE SlotTyped'
      <4>1. age' \in 0..(MillisMod - 1)
        BY <3>4, ConstantsAssumption
      <4>2. QED
        BY <1>2, <1>4, <1>7, <3>1, <3>2, <3>3, <3>4, <4>1, SendType
    <3>5. ASSUME Reject, UNCHANGED age PROVE SlotTyped'
      BY <1>2, <3>1, <3>5, RejectType, CloseType, ResetType
    <3>6. QED
      BY <2>4, <3>4, <3>5 DEF HandshakeChallenge
  <2>5. CASE HandshakeSecure
    <3> DEFINE s == ReadyState([DeriveSessionKeys(proto) EXCEPT !.secure = TRUE])
    <3>1. authKey \in AuthKeys
      BY <2>1, <2>5 DEF HandshakeSecure, ProofAccepted, Proof, ProofType
    <3>2. s \in ProtoType /\ s.key \in SessionKey
      <4>1. proto \in ProtoType /\ 0 \in 0..SeqMax
        BY ConstantsAssumption DEF TypeOK
      <4> DEFINE k == [auth |-> authKey, cn |-> proto.cn, sn |-> proto.sn]
                 d == [proto EXCEPT !.key = k, !.txSeq = 0, !.rxSeq = 0,
                                    !.rxRecord = <<>>, !.rxTag = <<>>, !.rxPlain = <<>>]
      <4>2. k \in SessionKey
        BY <3>1, <4>1 DEF ProtoType, SessionKey
      <4>3. d \in ProtoType /\ d.key \in SessionKey
        <5>1. <<>> \in Seq(Unit) /\ <<>> \in Seq(Nat)
          OBVIOUS
        <5> HIDE DEF k
        <5>2. d \in ProtoType
          BY <4>1, <4>2, <5>1 DEF ProtoType
        <5>3. d.key = k
          BY <4>1 DEF ProtoType
        <5>4. QED
          BY <4>2, <5>2, <5>3
      <4>4. s = ReadyState([d EXCEPT !.secure = TRUE])
        BY DEF DeriveSessionKeys
      <4>5. QED
        <5> HIDE DEF d
        <5> QED
          BY <4>3, <4>4 DEF ProtoType, ReadyState
    <3>3. ASSUME SendControlLine([type |-> "OK", secure |-> TRUE], TRUE), Continue(s)
          PROVE SlotTyped'
      BY <1>2, <1>4, <1>7, <2>5, <3>2, <3>3, SendType, MessageTypes DEF HandshakeSecure
    <3>4. QED
      BY <1>3, <2>5, <3>3 DEF HandshakeSecure
  <2>6. QED
    BY <1>7, <2>2, <2>3, <2>4, <2>5 DEF ProcessHandshakeLine
<1>8. CASE HandshakeQuiet
  BY <1>2, <1>3, <1>8 DEF HandshakeQuiet, slot, output
<1>9. ASSUME inbox[client] # <<>>, HandshakeReturn PROVE SlotTyped'
  BY <1>2, <1>4, <1>9 DEF HandshakeReturn, output, TypeOK
<1>10. QED
  BY <1>6, <1>7, <1>8, <1>9 DEF HandleHandshake

\* A step of handleSecureRx.
LEMMA SecureRxType ==
  ASSUME TypeInv, NEW p \in {"secureRx", "rxAgain"}, SecureRx(p)
  PROVE  TypeInv'
<1> USE DEF TypeInv, CallShape, SecureKey
<1>1. PICK k \in 0..Len(inbox[client]), t \in 0..TagSize :
        k + t \in 1..Len(inbox[client]) /\ SecureRxRead(k, t)
  BY DEF SecureRx
<1>2. /\ client \in Conn /\ inbox[client] \in Seq(Unit) /\ proto \in ProtoType
      /\ proto.rxRecord \in Seq(Unit) /\ proto.rxTag \in Seq(Unit) /\ k \in Nat /\ t \in Nat
      /\ k + t \in 1..Len(inbox[client])
  BY <1>1, ConstantsAssumption DEF TypeOK, SecureRx, CanReceive, Session, Live, ProtoType
<1> DEFINE r == proto.rxRecord \o SubSeq(inbox[client], 1, k)
           tag == proto.rxTag \o SubSeq(inbox[client], k + 1, k + t)
           Keep(s) == /\ proto' = s
                      /\ inbox' = [inbox EXCEPT ![client] = DropFirst(@, k + t)]
                      /\ UNCHANGED <<client, link>>
           SlotTyped == /\ client \in Conn \cup {NoConn} /\ proto \in ProtoType
                        /\ link \in [Conn -> {"none", "open", "lost", "closed"}]
                        /\ inbox \in [Conn -> Seq(Unit)] /\ SecureKey
<1>3. r \in Seq(Unit) /\ tag \in Seq(Unit)
  <2>1. PICK s \in Seq(Unit) : s = inbox[client]
    BY <1>2
  <2>2. SubSeq(s, 1, k) \in Seq(Unit) /\ SubSeq(s, k + 1, k + t) \in Seq(Unit)
    BY <1>2, <2>1
  <2>3. QED
    BY <1>2, <2>1, <2>2
<1>4. ASSUME proto' \in ProtoType, proto'.secure = proto.secure, proto'.key = proto.key,
             inbox' = [inbox EXCEPT ![client] = DropFirst(@, k + t)], UNCHANGED <<client, link>>
      PROVE SlotTyped'
  <2>1. DropFirst(inbox[client], k + t) \in Seq(Unit)
    <3>1. PICK b \in Seq(Unit) : b = inbox[client]
      BY <1>2
    <3>2. k + t \in 0..Len(b)
      BY <1>2, <3>1
    <3>3. QED
      BY <3>1, <3>2, DropFirstType
  <2>2. inbox' \in [Conn -> Seq(Unit)]
    BY <1>4, <2>1 DEF TypeOK
  <2>3. client' \in Conn \cup {NoConn} /\ link' \in [Conn -> {"none", "open", "lost", "closed"}]
    BY <1>4 DEF TypeOK
  <2>4. QED
    BY <1>4, <2>2, <2>3 DEF TypeOK
<1>5. ASSUME CloseProtocolClient PROVE SlotTyped'
  BY <1>5, CloseType, ResetType
<1>6. ASSUME NEW g \in Seq(Unit), Keep([proto EXCEPT !.rxRecord = r, !.rxTag = g]) PROVE SlotTyped'
  <2> DEFINE s == [proto EXCEPT !.rxRecord = r, !.rxTag = g]
  <2>1. s \in ProtoType /\ s.secure = proto.secure /\ s.key = proto.key
    <3> HIDE DEF r
    <3> QED
      BY <1>2, <1>3 DEF ProtoType
  <2>2. /\ proto' = s /\ UNCHANGED <<client, link>>
        /\ inbox' = [inbox EXCEPT ![client] = DropFirst(@, k + t)]
    BY <1>6
  <2> HIDE DEF s
  <2>3. QED
    BY <1>4, <2>1, <2>2
<1>7. ASSUME Len(r) >= HeaderSize, GoodHeader(r), Decrypts(r \o tag),
             Keep([proto EXCEPT !.rxRecord = <<>>, !.rxTag = <<>>, !.rxSeq = @ + 1,
                                !.rxPlain = r[HeaderSize].rec.data])
      PROVE SlotTyped'
  <2> DEFINE data == r[HeaderSize].rec.data
  <2>1. data \in Seq(Nat)
    <3>1. r[HeaderSize] \in Unit /\ r[HeaderSize].kind = "cell"
      <4>1. r[HeaderSize].kind = "cell" /\ Len(r) >= HeaderSize
        BY <1>7 DEF GoodHeader
      <4> HIDE DEF r
      <4>2. QED
        BY <1>3, <4>1, ConstantsAssumption
    <3>2. QED
      BY <3>1, ReceivedCell DEF Record
  <2>2. proto.rxSeq + 1 \in 0..SeqMax
    <3>1. proto.rxSeq # SeqMax /\ proto.rxSeq \in 0..SeqMax
      BY <1>2, <1>7 DEF ProtoType, Decrypts
    <3>2. QED
      BY <3>1, ConstantsAssumption
  <2> DEFINE s == [proto EXCEPT !.rxRecord = <<>>, !.rxTag = <<>>, !.rxSeq = @ + 1, !.rxPlain = data]
  <2>3. s \in ProtoType /\ s.secure = proto.secure /\ s.key = proto.key
    <3>1. <<>> \in Seq(Unit)
      OBVIOUS
    <3> HIDE DEF data
    <3> QED
      BY <1>2, <2>1, <2>2, <3>1 DEF ProtoType
  <2>4. /\ proto' = s /\ UNCHANGED <<client, link>>
        /\ inbox' = [inbox EXCEPT ![client] = DropFirst(@, k + t)]
    BY <1>7
  <2> HIDE DEF s
  <2>5. QED
    BY <1>4, <2>3, <2>4
<1>8. SlotTyped'
  <2>1. \/ Keep([proto EXCEPT !.rxRecord = r]) \/ CloseProtocolClient
        \/ Keep([proto EXCEPT !.rxRecord = r, !.rxTag = tag])
        \/ /\ Len(r) >= HeaderSize /\ GoodHeader(r) /\ Decrypts(r \o tag)
           /\ Keep([proto EXCEPT !.rxRecord = <<>>, !.rxTag = <<>>, !.rxSeq = @ + 1,
                                 !.rxPlain = r[HeaderSize].rec.data])
    BY <1>1, Zenon DEF SecureRxRead
  <2>2. [proto EXCEPT !.rxRecord = r] = [proto EXCEPT !.rxRecord = r, !.rxTag = proto.rxTag]
    <3> HIDE DEF r
    <3> QED
      BY <1>2 DEF ProtoType
  <2>3. proto.rxTag \in Seq(Unit) /\ tag \in Seq(Unit)
    BY <1>2, <1>3
  <2> HIDE DEF r, tag
  <2>4. QED
    BY <1>5, <1>6, <1>7, <2>1, <2>2, <2>3
<1>9. pc' \in {"drain", "take"}
  BY DEF SecureRx, After
<1>10. QED
  BY <1>8, <1>9 DEF TypeOK, SecureRx, config, output, app, clock, crypto, PcSet

\* A byte of a raw connection.
LEMMA ByteOfType == ASSUME NEW u \in Unit PROVE ByteOf(u) \in Nat
  BY DEF ByteOf, Unit

\* What a read may return.
LEMMA ReadableType ==
  ASSUME TypeOK
  PROVE  /\ Readable \in Seq(Nat)
         /\ Session /\ ~proto.secure => Len(Readable) = Len(inbox[client])
         /\ Session /\ proto.secure => Readable = proto.rxPlain
         /\ ~Session => Readable = <<>>
<1>1. CASE ~Session
  BY <1>1 DEF Readable
<1>2. CASE Session /\ proto.secure
  BY <1>2 DEF Readable, TypeOK, ProtoType
<1>3. CASE Session /\ ~proto.secure
  <2>1. inbox[client] \in Seq(Unit)
    BY <1>3 DEF TypeOK, Session, Live
  <2>2. ASSUME NEW i \in 1..Len(inbox[client]) PROVE ByteOf(inbox[client][i]) \in Nat
    BY <2>1, <2>2, ByteOfType
  <2>3. Readable = [i \in 1..Len(inbox[client]) |-> ByteOf(inbox[client][i])]
    BY <1>3 DEF Readable
  <2>4. QED
    BY <1>3, <2>1, <2>2, <2>3
<1>4. QED
  BY <1>1, <1>2, <1>3

\* A read keeps the types.
LEMMA TakeType == ASSUME TypeInv, Take PROVE TypeInv'
<1> USE DEF TypeInv, CallShape, SecureKey
<1> DEFINE n == Least(call.size, Len(Readable))
<1>1. /\ Readable \in Seq(Nat) /\ n \in 0..Len(Readable)
  BY ReadableType DEF TypeOK, Least
<1>2. delivered' \in Seq(Nat)
  <2>1. delivered' = delivered \o SubSeq(Readable, 1, n) /\ delivered \in Seq(Nat)
    BY DEF Take, TypeOK
  <2>2. SubSeq(Readable, 1, n) \in Seq(Nat)
    BY <1>1, SubSeqProperties
  <2> HIDE DEF n
  <2>3. QED
    BY <2>1, <2>2
<1>3. call' = NoCall /\ pc' = "idle"
  BY DEF Take, Return
<1>4. CASE Session /\ ~proto.secure
  <2>1. inbox' = [inbox EXCEPT ![client] = DropFirst(@, n)] /\ UNCHANGED proto
    BY <1>4 DEF Take
  <2>2. client \in Conn /\ inbox[client] \in Seq(Unit) /\ n \in 0..Len(inbox[client])
    BY <1>1, <1>4, ReadableType DEF TypeOK, Session, Live
  <2>3. DropFirst(inbox[client], n) \in Seq(Unit)
    <3> HIDE DEF n
    <3> QED
      BY <2>2, DropFirstType
  <2>4. inbox' \in [Conn -> Seq(Unit)]
    <3> HIDE DEF n
    <3> QED
      BY <2>1, <2>2, <2>3 DEF TypeOK
  <2>5. QED
    BY <1>2, <1>3, <2>1, <2>4
    DEF TypeOK, Take, NoCall, config, output, clock, crypto, PcSet
<1>5. CASE ~(Session /\ ~proto.secure)
  <2>1. proto' = [proto EXCEPT !.rxPlain = DropFirst(@, n)] /\ UNCHANGED inbox
    BY <1>5 DEF Take
  <2>2. proto \in ProtoType /\ proto.rxPlain \in Seq(Nat) /\ n \in 0..Len(proto.rxPlain)
    <3>1. proto \in ProtoType /\ proto.rxPlain \in Seq(Nat) /\ call.size \in Nat
      BY DEF TypeOK, ProtoType
    <3>2. CASE Session
      BY <1>1, <1>5, <3>1, <3>2, ReadableType
    <3>3. CASE ~Session
      <4>1. Len(Readable) = 0
        BY <3>3, ReadableType
      <4>2. n = 0
        BY <3>1, <4>1 DEF Least
      <4>3. QED
        BY <3>1, <4>2
    <3>4. QED
      BY <3>2, <3>3
  <2>3. DropFirst(proto.rxPlain, n) \in Seq(Nat)
    <3> HIDE DEF n
    <3> QED
      BY <2>2, DropFirstType
  <2>4. proto' \in ProtoType /\ proto'.secure = proto.secure /\ proto'.key = proto.key
    <3> HIDE DEF n
    <3> QED
      BY <2>1, <2>2, <2>3 DEF ProtoType
  <2>5. QED
    BY <1>2, <1>3, <2>1, <2>4
    DEF TypeOK, Take, NoCall, config, output, clock, crypto, PcSet
<1>6. QED
  BY <1>4, <1>5

\* Every step of the firmware, the network and any peer keeps the types.
LEMMA NextType == TypeInv /\ [AnyNext]_vars => TypeInv'
<1> SUFFICES ASSUME TypeInv, [AnyNext]_vars PROVE TypeInv'
  OBVIOUS
<1> USE DEF TypeInv, CallShape, SecureKey
<1>1. TypeOK
  OBVIOUS
<1>2. ASSUME CloseProtocolClient
      PROVE  /\ client' \in Conn \cup {NoConn} /\ proto' \in ProtoType
             /\ link' \in [Conn -> {"none", "open", "lost", "closed"}]
             /\ inbox' \in [Conn -> Seq(Unit)] /\ ~proto'.secure
  BY <1>1, <1>2, CloseType, ResetType
<1>3. CASE Begin
  BY <1>3 DEF TypeOK, Begin, slot, output, app, clock, crypto
<1>4. CASE End
  BY <1>2, <1>4 DEF TypeOK, End, config, output, app, clock, crypto, PcSet
<1>5. CASE StopServer
  <2>1. /\ link' \in [Conn -> {"none", "open", "lost", "closed"}]
        /\ inbox' \in [Conn -> Seq(Unit)] /\ backlog' \in Seq(Conn)
    <3>1. <<>> \in Seq(Unit) /\ <<>> \in Seq(Conn)
      OBVIOUS
    <3>2. QED
      BY <1>5, <3>1 DEF TypeOK, StopServer
  <2>2. QED
    BY <1>5, <2>1 DEF TypeOK, StopServer, output, app, clock, crypto, PcSet
<1>6. ASSUME NEW k \in AuthKeys \cup {NoKey}, ChangeAuthKey(k) PROVE TypeInv'
  <2>1. CASE CloseProtocolClient
    BY <1>2, <1>6, <2>1 DEF TypeOK, ChangeAuthKey, output, app, clock, crypto
  <2>2. CASE UNCHANGED slot
    BY <1>6, <2>2 DEF TypeOK, ChangeAuthKey, slot, output, app, clock, crypto
  <2>3. QED
    BY <1>6, <2>1, <2>2 DEF ChangeAuthKey
<1>7. CASE DisconnectClient
  BY <1>2, <1>7 DEF TypeOK, DisconnectClient, config, output, app, clock, crypto
<1>8. CASE ClearTxDropCounters
  BY <1>8, ConstantsAssumption
  DEF TypeOK, ClearTxDropCounters, config, slot, output, app, clock, crypto
<1>9. ASSUME NEW op \in {"handle", "write", "read"}, NEW n \in Nat, StartCall(op, n),
             op = "write" => n > 0
      PROVE TypeInv'
  <2>1. call' = [op |-> op, size |-> n, total |-> 0]
    BY <1>9 DEF StartCall
  <2>2. \/ pc' \in {"dead", "rxAgain", "idle"}
        \/ pc' = "write" /\ op = "write"
    BY <1>9, AfterHandleIs DEF StartCall
  <2>3. QED
    BY <1>9, <2>1, <2>2
    DEF TypeOK, StartCall, config, slot, output, app, clock, crypto, PcSet
<1>10. CASE CheckDead
  <2>1. CASE CloseProtocolClient
    BY <1>2, <1>10, <2>1 DEF TypeOK, CheckDead, config, output, app, clock, crypto, PcSet
  <2>2. CASE UNCHANGED slot
    BY <1>10, <2>2 DEF TypeOK, CheckDead, config, slot, output, app, clock, crypto, PcSet
  <2>3. QED
    BY <1>10, <2>1, <2>2 DEF CheckDead
<1>11. ASSUME NEW p \in {"handshake", "greet", "secureRx", "rxAgain", "drain"}, SkipStage(p)
       PROVE TypeInv'
  <2>1. \/ pc' \in {"secureRx", "rxAgain", "idle", "drain", "accept", "take"}
        \/ pc' = "write" /\ call.op = "write"
    <3>1. CASE p \in {"handshake", "greet"}
      BY <1>11, <3>1, AfterGreet DEF SkipStage
    <3>2. CASE p \in {"secureRx", "rxAgain", "drain"}
      BY <1>11, <3>2 DEF SkipStage, After
    <3>3. QED
      BY <3>1, <3>2
  <2>2. QED
    BY <1>11, <2>1 DEF TypeOK, SkipStage, config, slot, output, app, clock, crypto, PcSet
<1>12. ASSUME NEW p \in {"handshake", "greet"}, HandleHandshake(p) PROVE TypeInv'
  BY <1>12, HandshakeType
<1>13. ASSUME NEW p \in {"secureRx", "rxAgain"}, SecureRx(p) PROVE TypeInv'
  BY <1>13, SecureRxType
<1>14. ASSUME NEW p \in {"drain", "writeDrain"}, DrainTxPending(p) PROVE TypeInv'
  <2>1. \/ pc = "drain" /\ pc' = "accept"
        \/ pc = "writeDrain" /\ pc' = "writeCheck"
    BY <1>14 DEF DrainTxPending, After
  <2>2. ASSUME NEW k \in 1..Len(proto.txPending), DrainSend(k) PROVE TypeInv'
    <3>1. proto \in ProtoType /\ proto.txPending \in Seq(Unit) /\ wire \in Seq(Unit)
      BY DEF TypeOK, ProtoType
    <3>2. /\ SubSeq(proto.txPending, 1, k) \in Seq(Unit)
          /\ DropFirst(proto.txPending, k) \in Seq(Unit)
      BY <3>1, DropFirstType, SubSeqProperties
    <3>3. wire' \in Seq(Unit)
      BY <2>2, <3>1, <3>2 DEF DrainSend
    <3>4. proto' \in ProtoType /\ proto'.secure = proto.secure /\ proto'.key = proto.key
      BY <2>2, <3>1, <3>2 DEF DrainSend, ProtoType
    <3>5. UNCHANGED <<client, link, inbox>>
      BY <2>2 DEF DrainSend
    <3>6. QED
      BY <1>14, <2>1, <3>3, <3>4, <3>5
      DEF TypeOK, DrainTxPending, config, app, clock, crypto, PcSet
  <2>3. CASE UNCHANGED <<slot, wire>>
    BY <1>14, <2>1, <2>3 DEF TypeOK, DrainTxPending, config, slot, app, clock, crypto, PcSet
  <2>4. CASE CloseProtocolClient /\ UNCHANGED wire
    BY <1>2, <1>14, <2>1, <2>4 DEF TypeOK, DrainTxPending, config, app, clock, crypto, PcSet
  <2>5. QED
    BY <1>14, <2>2, <2>3, <2>4 DEF DrainTxPending
<1>15. CASE DrainDiscard
  <2>1. proto' \in ProtoType /\ proto'.secure = proto.secure /\ proto'.key = proto.key
    <3>1. proto \in ProtoType /\ <<>> \in Seq(Unit)
      BY DEF TypeOK
    <3>2. QED
      BY <1>15, <3>1 DEF DrainDiscard, ProtoType
  <2>2. pc' = "writeCheck"
    BY <1>15 DEF DrainDiscard, After
  <2>3. QED
    BY <1>15, <2>1, <2>2 DEF TypeOK, DrainDiscard, config, output, app, clock, crypto, PcSet
<1>16. CASE AcceptNone
  <2>1. \/ pc' \in {"rxAgain", "idle"}
        \/ pc' = "write" /\ call.op = "write"
    BY <1>16, AfterHandleIs DEF AcceptNone
  <2>2. QED
    BY <1>16, <2>1 DEF TypeOK, AcceptNone, config, slot, output, app, clock, crypto, PcSet
<1>17. CASE AcceptReject
  <2>1. \/ pc' \in {"rxAgain", "idle"}
        \/ pc' = "write" /\ call.op = "write"
    BY <1>17, AfterHandleIs DEF AcceptReject
  <2>2. /\ backlog' \in Seq(Conn) /\ inbox' \in [Conn -> Seq(Unit)]
        /\ link' \in [Conn -> {"none", "open", "lost", "closed"}]
    BY <1>17 DEF TypeOK, AcceptReject
  <2>3. QED
    BY <1>17, <2>1, <2>2 DEF TypeOK, AcceptReject, config, output, app, clock, crypto, PcSet
<1>18. CASE AcceptClient
  <2>1. proto' \in ProtoType /\ ~proto'.secure
    <3>1. proto' = [ResetProtocolState EXCEPT !.startedAt = millis]
      BY <1>18 DEF AcceptClient, AcceptedState
    <3>2. millis \in 0..(MillisMod - 1)
      BY DEF TypeOK
    <3>3. QED
      BY <3>1, <3>2, ResetType DEF ProtoType
  <2>2. client' \in Conn /\ backlog' \in Seq(Conn) /\ carrier' \in Conn
    BY <1>18 DEF TypeOK, AcceptClient
  <2>3. /\ age' \in 0..(MillisMod - 1) /\ wire' \in Seq(Unit) /\ staged' \in Seq(Unit)
        /\ accepted' \in Nat /\ delivered' \in Seq(Nat)
    BY <1>18, ConstantsAssumption DEF AcceptClient
  <2>4. QED
    BY <1>18, <2>1, <2>2, <2>3 DEF TypeOK, AcceptClient, config, crypto, PcSet
<1>19. CASE WriteStart
  <2>1. CASE Session /\ proto.txPending = <<>>
    BY <1>19, <2>1
    DEF TypeOK, WriteStart, config, slot, output, app, clock, crypto, PcSet
  <2>2. CASE ~(Session /\ proto.txPending = <<>>)
    <3>1. dropped' \in [bytes : 0..DropBytesMax, writes : 0..DropWritesMax]
      <4>1. call.size \in Nat /\ dropped \in [bytes : 0..DropBytesMax, writes : 0..DropWritesMax]
        BY DEF TypeOK
      <4>2. QED
        BY <1>1, <1>19, <4>1, DropType DEF WriteStart
    <3>2. call' \in [op : {"none", "handle", "write", "read"}, size : Nat, total : Nat]
          /\ call'.op = "none" /\ pc' = "idle"
      BY <1>19, <2>2 DEF WriteStart, Return, NoCall
    <3>3. QED
      BY <1>19, <3>1, <3>2 DEF TypeOK, WriteStart, config, slot, output, app, clock, crypto, PcSet
  <2>3. QED
    BY <2>1, <2>2
<1>20. CASE WriteStage
  <2>1. Chunk \in Seq(Nat) /\ Len(Chunk) \in 1..MaxRecord
    BY <1>1, <1>20, ChunkType DEF WriteStage
  <2>2. Encode(Chunk) \in Seq(Unit)
    BY <2>1, EncodeType, ConstantsAssumption
  <2>3. proto' \in ProtoType /\ proto'.secure = proto.secure /\ proto'.key = proto.key
    <3> DEFINE n == IF proto.secure THEN NextTxSequence ELSE proto.txSeq
    <3>1. proto \in ProtoType /\ proto.txSeq \in 0..SeqMax /\ (proto.secure => proto.txSeq # SeqMax)
      BY <1>20 DEF TypeOK, ProtoType, WriteStage
    <3>2. n \in 0..SeqMax
      BY <3>1, ConstantsAssumption DEF NextTxSequence
    <3>3. proto' = [proto EXCEPT !.txPending = Encode(Chunk), !.txSeq = n]
      BY <1>20 DEF WriteStage
    <3>4. QED
      <4> HIDE DEF n
      <4> QED
        BY <2>2, <3>1, <3>2, <3>3 DEF ProtoType
  <2>4. call' \in [op : {"none", "handle", "write", "read"}, size : Nat, total : Nat]
    <3>1. call' = [call EXCEPT !.total = @ + Len(Chunk)]
      BY <1>20 DEF WriteStage
    <3>2. Len(Chunk) \in Nat
      BY <2>1
    <3>3. call \in [op : {"none", "handle", "write", "read"}, size : Nat, total : Nat]
      BY DEF TypeOK
    <3>4. call.total + Len(Chunk) \in Nat
      BY <3>2, <3>3
    <3>5. QED
      BY <3>1, <3>3, <3>4
  <2>5. staged' \in Seq(Unit)
    BY <1>20, <2>2 DEF TypeOK, WriteStage
  <2>6. used' \subseteq [key : SessionKey, seq : Nat]
    <3>1. proto.secure => [key |-> proto.key, seq |-> proto.txSeq] \in [key : SessionKey, seq : Nat]
      BY ConstantsAssumption DEF TypeOK, ProtoType
    <3>2. QED
      BY <1>20, <3>1 DEF TypeOK, WriteStage
  <2>7. QED
    BY <1>20, <2>3, <2>4, <2>5, <2>6 DEF TypeOK, WriteStage, config, app, clock, PcSet
<1>21. CASE WriteFail
  <2>1. accepted' \in Nat
    BY <1>21 DEF TypeOK, WriteFail
  <2>2. call' = NoCall /\ pc' = "idle"
    BY <1>21 DEF WriteFail, Return
  <2>3. QED
    BY <1>2, <1>21, <2>1, <2>2 DEF TypeOK, WriteFail, NoCall, config, output, clock, crypto, PcSet
<1>22. CASE WriteCheck
  <2>1. dropped' \in [bytes : 0..DropBytesMax, writes : 0..DropWritesMax]
    <3>1. /\ dropped \in [bytes : 0..DropBytesMax, writes : 0..DropWritesMax]
          /\ call.total < call.size => call.size - call.total \in Nat
      BY DEF TypeOK
    <3>2. QED
      BY <1>1, <1>22, <3>1, DropType DEF WriteCheck
  <2>2. CASE Session /\ proto.txPending = <<>> /\ call.total < call.size
    <3>1. pc' = "writeLoop" /\ UNCHANGED <<call, accepted>>
      BY <1>22, <2>2 DEF WriteCheck
    <3>2. QED
      BY <1>22, <2>1, <2>2, <3>1
      DEF TypeOK, WriteCheck, config, slot, output, clock, crypto, PcSet
  <2>3. CASE ~(Session /\ proto.txPending = <<>> /\ call.total < call.size)
    <3>1. accepted' \in Nat /\ call' = NoCall /\ pc' = "idle"
      BY <1>22, <2>3 DEF TypeOK, WriteCheck, Return
    <3>2. QED
      BY <1>22, <2>1, <3>1
      DEF TypeOK, WriteCheck, NoCall, config, slot, output, clock, crypto, PcSet
  <2>4. QED
    BY <2>2, <2>3
<1>23. CASE Take
  BY <1>1, <1>23, TakeType DEF TypeOK
<1>24. ASSUME NEW c \in Conn, Dial(c) PROVE TypeInv'
  <2>1. /\ backlog' \in Seq(Conn)
        /\ link' \in [Conn -> {"none", "open", "lost", "closed"}]
    BY <1>24 DEF TypeOK, Dial
  <2>2. QED
    BY <1>24, <2>1 DEF TypeOK, Dial, config, output, app, clock, crypto
<1>25. ASSUME NEW c \in Conn, NEW units \in Seq(Unit), PeerSend(c, units) PROVE TypeInv'
  <2>1. inbox' \in [Conn -> Seq(Unit)]
    BY <1>25 DEF TypeOK, PeerSend
  <2>2. QED
    BY <1>25, <2>1 DEF TypeOK, PeerSend, config, output, app, clock, crypto
<1>26. ASSUME NEW c \in Conn, Lose(c) PROVE TypeInv'
  <2>1. /\ inbox' \in [Conn -> Seq(Unit)]
        /\ link' \in [Conn -> {"none", "open", "lost", "closed"}]
    BY <1>26 DEF TypeOK, Lose
  <2>2. QED
    BY <1>26, <2>1 DEF TypeOK, Lose, config, output, app, clock, crypto
<1>27. CASE Tick
  <2>1. millis' \in 0..(MillisMod - 1)
    BY <1>27, ConstantsAssumption DEF TypeOK, Tick
  <2>2. age' \in 0..(MillisMod - 1)
    BY <1>27, ConstantsAssumption DEF TypeOK, Tick
  <2>3. QED
    BY <1>27, <2>1, <2>2 DEF TypeOK, Tick, config, slot, output, app, crypto
<1>28. CASE UNCHANGED vars
  BY <1>28 DEF TypeOK, vars, config, slot, output, app, clock, crypto
<1>29. CASE AdminCall
  BY <1>3, <1>4, <1>6, <1>7, <1>8, <1>29 DEF AdminCall
<1>30. CASE CallHandle \/ DataCall
  BY <1>9, <1>30, ConstantsAssumption DEF CallHandle, DataCall
<1>31. CASE Step
  BY <1>5, <1>10, <1>11, <1>12, <1>13, <1>14, <1>15, <1>16, <1>17, <1>18, <1>19, <1>20,
     <1>21, <1>22, <1>23, <1>31 DEF Step
<1>32. QED
  BY <1>24, <1>25, <1>26, <1>27, <1>28, <1>29, <1>30, <1>31
  DEF AnyNext, DeviceNext, NetworkNext, AnyPeerNext

---------------------------------------------------------------------------

\* The types hold in every reachable state.
LEMMA TypeInvariance == Spec => []TypeInv
<1>1. TypeInv /\ [Next]_vars => TypeInv'
  BY NextType, NextIsAny
<1>2. QED
  BY InitType, <1>1, PTL DEF Spec

\* Type correctness of the firmware transport: every buffer index, counter,
\* sequence number and line length stays in its range, whatever peers send.
THEOREM TypeCorrect == Spec => []TypeOK
<1>1. TypeInv => TypeOK
  BY DEF TypeInv
<1>2. QED
  BY TypeInvariance, <1>1, PTL

=============================================================================
