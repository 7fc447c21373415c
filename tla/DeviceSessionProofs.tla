------------------------- MODULE DeviceSessionProofs -------------------------
(***************************************************************************)
(* The sessions of the firmware transport: what is sent is what was        *)
(* committed, no nonce is used twice, a handshake starts clean, a session  *)
(* has the protection the installed key asks for, no connection leaks, and *)
(* the handshake timer works across the wrap of millis().                  *)
(*                                                                         *)
(* The steps of the firmware are first sorted by their effect on the       *)
(* connections (LinkEffect) and on the protocol state (ProtoEffect); each  *)
(* invariant is then shown effect by effect.                               *)
(***************************************************************************)
EXTENDS DeviceTransportProofs, WellFoundedInduction

---------------------------------------------------------------------------
(* Effects of a step on the connections *)

LinksKept == UNCHANGED <<client, link, backlog>>

LEMMA LinkEffect ==
  [AnyNext]_vars =>
    \/ LinksKept
    \/ CloseProtocolClient /\ UNCHANGED backlog
    \/ StopServer \/ AcceptReject \/ AcceptClient
    \/ \E c \in Conn : Dial(c) \/ Lose(c)
<1> SUFFICES ASSUME [AnyNext]_vars
             PROVE  \/ LinksKept
                    \/ CloseProtocolClient /\ UNCHANGED backlog
                    \/ StopServer \/ AcceptReject \/ AcceptClient
                    \/ \E c \in Conn : Dial(c) \/ Lose(c)
  OBVIOUS
<1> USE DEF LinksKept, slot
<1>1. CASE AdminCall
  BY <1>1 DEF AdminCall, Begin, End, DisconnectClient, ClearTxDropCounters, ChangeAuthKey
<1>2. CASE CallHandle \/ DataCall
  BY <1>2 DEF CallHandle, DataCall, StartCall
<1>3. ASSUME NEW p \in {"handshake", "greet"}, HandleHandshake(p)
      PROVE LinksKept \/ (CloseProtocolClient /\ UNCHANGED backlog)
  BY <1>3 DEF HandleHandshake, HandshakeReturn, HandshakeChar, ProcessHandshakeLine,
       HandshakeQuiet, HandshakeBadHello, HandshakeRaw, HandshakeChallenge, HandshakeBadAuth,
       HandshakeSecure, Reject, Continue
<1>4. ASSUME NEW p \in {"secureRx", "rxAgain"}, SecureRx(p)
      PROVE LinksKept \/ (CloseProtocolClient /\ UNCHANGED backlog)
  BY <1>4 DEF SecureRx, SecureRxRead
<1>5. ASSUME NEW p \in {"drain", "writeDrain"}, DrainTxPending(p)
      PROVE LinksKept \/ (CloseProtocolClient /\ UNCHANGED backlog)
  BY <1>5 DEF DrainTxPending, DrainSend
<1>6. CASE Step
  BY <1>3, <1>4, <1>5, <1>6
  DEF Step, CheckDead, SkipStage, DrainDiscard, AcceptNone, WriteStart, WriteStage, WriteFail,
      WriteCheck, Take
<1>7. QED
  BY <1>1, <1>2, <1>6
  DEF AnyNext, DeviceNext, NetworkNext, AnyPeerNext, PeerSend, Tick, vars

---------------------------------------------------------------------------
(* Connections *)

\* The client and the backlog are connections that were made, and with them
\* all open connections are accounted for.
WasDialled == /\ client # NoConn => link[client] # "none"
              /\ \A i \in 1..Len(backlog) : link[backlog[i]] # "none"
LinkInv == WasDialled /\ NoConnectionLeak

LEMMA NextLink == TypeInv /\ LinkInv /\ [AnyNext]_vars => LinkInv'
<1> SUFFICES ASSUME TypeInv, LinkInv, [AnyNext]_vars PROVE LinkInv'
  OBVIOUS
<1> USE DEF LinkInv, WasDialled, NoConnectionLeak, Waiting
<1>1. /\ link \in [Conn -> {"none", "open", "lost", "closed"}]
      /\ backlog \in Seq(Conn) /\ client \in Conn \cup {NoConn} /\ NoConn \notin Conn
  BY ConstantsAssumption DEF TypeInv, TypeOK, Conn, NoConn
<1>2. CASE LinksKept
  BY <1>2 DEF LinksKept
<1>3. CASE CloseProtocolClient /\ UNCHANGED backlog
  BY <1>1, <1>3 DEF CloseProtocolClient, Live
<1>4. CASE StopServer
  BY <1>1, <1>4 DEF StopServer
<1>5. CASE AcceptReject
  <2>1. /\ Head(backlog) \in Conn /\ link' = [link EXCEPT ![Head(backlog)] = "closed"]
        /\ backlog' = Tail(backlog) /\ client' = client /\ backlog # <<>>
    BY <1>1, <1>5 DEF AcceptReject
  <2>2. ASSUME NEW c \in Conn, link'[c] = "open" PROVE c = client' \/ Waiting(c)'
    <3>1. c # Head(backlog) /\ link[c] = "open"
      BY <1>1, <2>1, <2>2
    <3>2. CASE c = client
      BY <2>1, <3>2
    <3>3. ASSUME NEW i \in 1..Len(backlog), backlog[i] = c PROVE Waiting(c)'
      <4>1. i # 1 /\ i - 1 \in 1..Len(Tail(backlog)) /\ Tail(backlog)[i - 1] = c
        BY <1>1, <2>1, <3>1, <3>3
      <4>2. QED
        BY <2>1, <4>1
    <3>4. QED
      BY <3>1, <3>2, <3>3
  <2>3. WasDialled'
    BY <1>1, <2>1
  <2>4. QED
    BY <2>2, <2>3
<1>6. CASE AcceptClient
  <2>1. /\ Head(backlog) = backlog[1] /\ Head(backlog) \in Conn /\ UNCHANGED link
        /\ backlog' = Tail(backlog) /\ client' = Head(backlog) /\ backlog # <<>> /\ ~Live
    BY <1>1, <1>6 DEF AcceptClient, SlotFree
  <2>2. ASSUME NEW c \in Conn, link'[c] = "open" PROVE c = client' \/ Waiting(c)'
    <3>1. link[c] = "open" /\ c # client
      BY <1>1, <2>1, <2>2 DEF Live
    <3>2. ASSUME NEW i \in 1..Len(backlog), backlog[i] = c PROVE c = client' \/ Waiting(c)'
      <4>1. CASE i = 1
        BY <2>1, <3>2, <4>1
      <4>2. CASE i # 1
        <5>1. i - 1 \in 1..Len(Tail(backlog)) /\ Tail(backlog)[i - 1] = c
          BY <1>1, <2>1, <3>2, <4>2
        <5>2. QED
          BY <2>1, <5>1
      <4>3. QED
        BY <4>1, <4>2
    <3>3. QED
      BY <3>1, <3>2
  <2>3. WasDialled'
    BY <1>1, <2>1
  <2>4. QED
    BY <2>2, <2>3
<1>7. ASSUME NEW c \in Conn, Dial(c) PROVE LinkInv'
  <2>1. /\ link' = [link EXCEPT ![c] = "open"] /\ backlog' = Append(backlog, c)
        /\ client' = client
    BY <1>7 DEF Dial
  <2>2. /\ Len(backlog') = Len(backlog) + 1 /\ backlog'[Len(backlog) + 1] = c
        /\ \A i \in 1..Len(backlog) : backlog'[i] = backlog[i]
    BY <1>1, <2>1
  <2>3. WasDialled'
    BY <1>1, <2>1, <2>2
  <2>4. ASSUME NEW d \in Conn, link'[d] = "open" PROVE d = client' \/ Waiting(d)'
    <3>1. CASE d = c
      <4>1. Len(backlog) + 1 \in 1..Len(backlog')
        BY <1>1, <2>2
      <4>2. QED
        BY <2>2, <3>1, <4>1
    <3>2. CASE d # c
      <4>1. d = client \/ \E i \in 1..Len(backlog) : backlog[i] = d
        BY <1>1, <2>1, <2>4, <3>2
      <4>2. QED
        BY <1>1, <2>1, <2>2, <4>1
    <3>3. QED
      BY <3>1, <3>2
  <2>5. QED
    BY <2>3, <2>4
<1>8. ASSUME NEW c \in Conn, Lose(c) PROVE LinkInv'
  BY <1>1, <1>8 DEF Lose
<1>9. QED
  BY <1>2, <1>3, <1>4, <1>5, <1>6, <1>7, <1>8, LinkEffect

\* A connection becomes live only by being accepted; then it stays the client
\* until it is dead for good.
LEMMA LiveStable ==
  TypeInv /\ LinkInv /\ [AnyNext]_vars => (Live' => (Live /\ client' = client) \/ AcceptClient)
<1> SUFFICES ASSUME TypeInv, LinkInv, [AnyNext]_vars, Live', ~AcceptClient
             PROVE  Live /\ client' = client
  OBVIOUS
<1> USE DEF LinkInv, WasDialled, Live
<1>1. /\ link \in [Conn -> {"none", "open", "lost", "closed"}]
      /\ backlog \in Seq(Conn) /\ client \in Conn \cup {NoConn}
  BY DEF TypeInv, TypeOK
<1>2. CASE LinksKept
  BY <1>2 DEF LinksKept
<1>3. CASE CloseProtocolClient /\ UNCHANGED backlog
  BY <1>3, CloseType DEF TypeInv
<1>4. CASE StopServer
  BY <1>1, <1>4 DEF StopServer
<1>5. CASE AcceptReject
  BY <1>1, <1>5 DEF AcceptReject
<1>6. ASSUME NEW c \in Conn, Dial(c) PROVE Live /\ client' = client
  BY <1>1, <1>6 DEF Dial
<1>7. ASSUME NEW c \in Conn, Lose(c) PROVE Live /\ client' = client
  BY <1>1, <1>7 DEF Lose
<1>8. QED
  BY <1>2, <1>3, <1>4, <1>5, <1>6, <1>7, LinkEffect

---------------------------------------------------------------------------
(* Effects of a step on the protocol state *)

\* Nothing happens to it, or the installed key changes without a session.
Quiet == /\ UNCHANGED <<proto, wire, staged, nonceCount, used>>
         /\ UNCHANGED authKey \/ (~Live /\ UNCHANGED <<client, link>>)

\* The client is closed, perhaps after an error line.
Closed == /\ CloseProtocolClient /\ UNCHANGED used
          /\ \/ UNCHANGED output
             \/ Handshaking /\ SendControlLine([type |-> "ERR"], TRUE)
          /\ nonceCount' \in {nonceCount, nonceCount + 1}

\* The handshake reads a character, or a line that it answers.
Reads == /\ Handshaking /\ UNCHANGED <<authKey, used>>
         /\ \/ /\ proto' = [proto EXCEPT !.line = @ + 1]
               /\ UNCHANGED <<wire, staged, nonceCount>>
            \/ /\ authKey = NoKey /\ proto' = ReadyState(proto)
               /\ SendControlLine([type |-> "OK", secure |-> FALSE], TRUE)
               /\ UNCHANGED nonceCount
            \/ \E cn : /\ proto.hs = "WaitingHello" /\ nonceCount' = nonceCount + 1
                       /\ proto' = ChallengeState(cn, nonceCount')
                       /\ SendControlLine([type |-> "CHALLENGE", nonce |-> nonceCount',
                                           proof |-> Proof(authKey, "SERVER", cn, nonceCount')], TRUE)
            \/ /\ proto.hs = "WaitingAuth" /\ authKey \in AuthKeys
               /\ inbox[client] # <<>> /\ Head(inbox[client]).kind = "eol" /\ ProofAccepted
               /\ proto' = ReadyState([DeriveSessionKeys(proto) EXCEPT !.secure = TRUE])
               /\ SendControlLine([type |-> "OK", secure |-> TRUE], TRUE)
               /\ UNCHANGED nonceCount

\* One wire record, the size of the arrays for records.
WireRecord == HeaderSize + MaxRecord + TagSize

\* a, g and c fit the arrays for header and ciphertext, tag and plaintext.
FitRx(a, g, c) == Len(a) <= HeaderSize + MaxRecord /\ Len(g) <= TagSize /\ Len(c) <= MaxRecord

\* They do if what is there does.
StillFits(a, g, c) == FitRx(proto.rxRecord, proto.rxTag, proto.rxPlain) => FitRx(a, g, c)

\* The receiving side of a session advances.
Receives ==
  /\ UNCHANGED <<authKey, wire, staged, nonceCount, used>>
  /\ \E a, g, b, c : /\ proto' = [proto EXCEPT !.rxRecord = a, !.rxTag = g, !.rxSeq = b, !.rxPlain = c]
                     /\ Session /\ StillFits(a, g, c)

\* Some of the pending record is sent, or it is discarded without a session.
Sends == /\ UNCHANGED <<authKey, staged, nonceCount, used>>
         /\ \/ Session /\ \E k \in 1..Len(proto.txPending) : DrainSend(k)
            \/ ~Session /\ proto' = [proto EXCEPT !.txPending = <<>>] /\ UNCHANGED wire

\* A header that was accepted is of a record that fits.
LEMMA RecordFits ==
  ASSUME NEW r, GoodHeader(r)
  PROVE  /\ Len(r[HeaderSize].rec.data) <= MaxRecord
         /\ CipherEnd(r) <= HeaderSize + MaxRecord /\ CipherEnd(r) \in Nat
<1>1. PICK n : n = Len(r[HeaderSize].rec.data)
  OBVIOUS
<1>2. n \in 1..MaxRecord
  BY <1>1 DEF GoodHeader
<1>3. QED
  BY <1>1, <1>2, ConstantsAssumption DEF CipherEnd

\* What a step does to the protocol state.
LEMMA ProtoEffect ==
  TypeInv /\ [AnyNext]_vars =>
    Quiet \/ Closed \/ Reads \/ Receives \/ Sends \/ AcceptClient \/ WriteStage
<1> DEFINE Effect == Quiet \/ Closed \/ Reads \/ Receives \/ Sends \/ AcceptClient \/ WriteStage
<1> SUFFICES ASSUME TypeInv, [AnyNext]_vars PROVE Effect
  OBVIOUS
<1> USE DEF slot, config, output, crypto
<1>1. CASE AdminCall
  <2>1. CASE Begin \/ ClearTxDropCounters
    BY <2>1 DEF Begin, ClearTxDropCounters, Quiet
  <2>2. CASE End \/ DisconnectClient
    BY <2>2 DEF End, DisconnectClient, Closed
  <2>3. ASSUME NEW k \in AuthKeys \cup {NoKey}, ChangeAuthKey(k) PROVE Effect
    BY <2>3 DEF ChangeAuthKey, Quiet, Closed
  <2>4. QED
    BY <1>1, <2>1, <2>2, <2>3 DEF AdminCall
<1>2. CASE CallHandle \/ DataCall
  BY <1>2 DEF CallHandle, DataCall, StartCall, Quiet
<1>3. ASSUME NEW p \in {"handshake", "greet"}, HandleHandshake(p) PROVE Effect
  <2>1. Handshaking /\ UNCHANGED <<authKey, used>>
    BY <1>3 DEF HandleHandshake
  <2>2. ASSUME Reject, nonceCount' \in {nonceCount, nonceCount + 1} PROVE Effect
    <3>1. PICK ok \in BOOLEAN : SendControlLine([type |-> "ERR"], ok)
      BY <2>2 DEF Reject
    <3>2. UNCHANGED output \/ SendControlLine([type |-> "ERR"], TRUE)
      BY <3>1 DEF SendControlLine
    <3>3. QED
      BY <2>1, <2>2, <3>2 DEF Reject, Closed
  <2>r. CASE HandshakeReturn
    BY <2>1, <2>r DEF HandshakeReturn, Continue, Quiet
  <2>3. CASE HandshakeChar
    BY <2>1, <2>2, <2>3 DEF HandshakeChar, Continue, Reads
  <2>4. CASE HandshakeBadHello \/ HandshakeBadAuth
    BY <2>2, <2>4 DEF HandshakeBadHello, HandshakeBadAuth
  <2>5. CASE HandshakeRaw
    BY <2>1, <2>5 DEF HandshakeRaw, Continue, Reads, Closed
  <2>6. CASE HandshakeChallenge /\ proto.hs = "WaitingHello"
    <3>1. nonceCount' = nonceCount + 1
      BY <2>6 DEF HandshakeChallenge
    <3>2. CASE Reject
      BY <2>2, <3>1, <3>2
    <3>3. CASE ~Reject
      BY <2>1, <2>6, <3>1, <3>3 DEF HandshakeChallenge, Continue, Reads
    <3>4. QED
      BY <3>2, <3>3
  <2>7. CASE HandshakeSecure /\ proto.hs = "WaitingAuth" /\ inbox[client] # <<>>
             /\ Head(inbox[client]).kind = "eol"
    <3>1. authKey \in AuthKeys
      <4>1. Head(inbox[client]) \in Unit
        BY <2>1, <2>7 DEF TypeInv, TypeOK, Handshaking, Live
      <4>2. LineRead.type = "AUTH" => LineRead.proof \in ProofType
        BY <2>7, <4>1, ReceivedMessage DEF LineRead
      <4>3. QED
        BY <2>7, <4>2 DEF HandshakeSecure, ProofAccepted, Proof, ProofType
    <3>2. CASE Reject
      BY <2>2, <2>7, <3>2 DEF HandshakeSecure
    <3>3. CASE ~Reject
      BY <2>1, <2>7, <3>1, <3>3 DEF HandshakeSecure, Continue, Reads
    <3>4. QED
      BY <3>2, <3>3
  <2>8. CASE HandshakeQuiet
    BY <2>1, <2>2, <2>8 DEF HandshakeQuiet, Quiet
  <2>9. QED
    BY <1>3, <2>r, <2>3, <2>4, <2>5, <2>6, <2>7, <2>8 DEF HandleHandshake, ProcessHandshakeLine
<1>4. ASSUME NEW p \in {"secureRx", "rxAgain"}, SecureRx(p) PROVE Effect
  <2>1. /\ Session /\ UNCHANGED <<authKey, wire, staged, nonceCount, used>>
        /\ proto \in ProtoType
    BY <1>4 DEF SecureRx, CanReceive, TypeInv, TypeOK
  <2>2. PICK k \in 0..Len(inbox[client]), t \in 0..TagSize : SecureRxRead(k, t)
    BY <1>4 DEF SecureRx
  <2> DEFINE r == proto.rxRecord \o SubSeq(inbox[client], 1, k)
             tag == proto.rxTag \o SubSeq(inbox[client], k + 1, k + t)
             Rx(a, g, c) == [proto EXCEPT !.rxRecord = a, !.rxTag = g, !.rxSeq = @ + 1, !.rxPlain = c]
  <2>r. Len(r) \in Nat
    <3>1. client \in Conn /\ inbox[client] \in Seq(Unit) /\ proto.rxRecord \in Seq(Unit)
      BY <2>1 DEF TypeInv, TypeOK, Session, Live, ProtoType
    <3>2. PICK s \in Seq(Unit) : s = inbox[client]
      BY <3>1
    <3>3. SubSeq(s, 1, k) \in Seq(Unit)
      BY <3>2
    <3>4. proto.rxRecord \o SubSeq(s, 1, k) \in Seq(Unit)
      BY <3>1, <3>3, ConcatProperties
    <3>5. r \in Seq(Unit)
      BY <3>2, <3>4
    <3> HIDE DEF r
    <3>6. QED
      BY <3>5
  <2>s. ASSUME proto' = [proto EXCEPT !.rxRecord = r], Len(r) < HeaderSize PROVE Effect
    <3> HIDE DEF r
    <3>1. proto' = [proto EXCEPT !.rxRecord = r, !.rxTag = proto.rxTag, !.rxSeq = proto.rxSeq,
                                 !.rxPlain = proto.rxPlain]
      BY <2>1, <2>s DEF ProtoType
    <3>2. Len(r) <= HeaderSize + MaxRecord
      BY <2>r, <2>s, ConstantsAssumption
    <3>3. QED
      BY <2>1, <3>1, <3>2 DEF Receives, StillFits, FitRx
  <2>3. ASSUME proto' = [proto EXCEPT !.rxRecord = r, !.rxTag = tag],
               GoodHeader(r), Len(r) <= CipherEnd(r), Len(tag) <= TagSize
        PROVE  Effect
    <3> HIDE DEF r, tag
    <3>1. proto' = [proto EXCEPT !.rxRecord = r, !.rxTag = tag, !.rxSeq = proto.rxSeq,
                                 !.rxPlain = proto.rxPlain]
      BY <2>1, <2>3 DEF ProtoType
    <3>2. Len(r) <= HeaderSize + MaxRecord
      <4>1. CipherEnd(r) <= HeaderSize + MaxRecord /\ CipherEnd(r) \in Nat
        BY <2>3, RecordFits
      <4>2. PICK e \in Nat : e = CipherEnd(r)
        BY <4>1
      <4>3. PICK l \in Nat : l = Len(r)
        BY <2>r
      <4>4. l <= e /\ e <= HeaderSize + MaxRecord
        BY <2>3, <4>1, <4>2, <4>3
      <4>5. QED
        BY <4>3, <4>4, ConstantsAssumption
    <3>3. StillFits(r, tag, proto.rxPlain)
      BY <2>3, <3>2 DEF StillFits, FitRx
    <3>4. QED
      BY <2>1, <3>1, <3>3 DEF Receives
  <2>4. ASSUME GoodHeader(r), proto' = Rx(<<>>, <<>>, r[HeaderSize].rec.data)
        PROVE Effect
    <3> HIDE DEF r
    <3>1. PICK c : c = r[HeaderSize].rec.data
      OBVIOUS
    <3>2. Len(c) <= MaxRecord
      BY <2>4, <3>1, RecordFits
    <3>3. Len(<<>>) <= HeaderSize + MaxRecord /\ Len(<<>>) <= TagSize
      BY ConstantsAssumption
    <3>4. QED
      BY <2>1, <2>4, <3>1, <3>2, <3>3 DEF Receives, StillFits, FitRx
  <2>5. CASE CloseProtocolClient
    BY <2>1, <2>5 DEF Closed
  <2>6. \/ proto' = [proto EXCEPT !.rxRecord = r] /\ Len(r) < HeaderSize
        \/ CloseProtocolClient
        \/ /\ GoodHeader(r) /\ Len(r) <= CipherEnd(r) /\ Len(tag) <= TagSize
           /\ proto' = [proto EXCEPT !.rxRecord = r, !.rxTag = tag]
        \/ GoodHeader(r) /\ proto' = Rx(<<>>, <<>>, r[HeaderSize].rec.data)
    BY <2>2, Zenon DEF SecureRxRead
  <2>7. QED
    <3> HIDE DEF r, tag, Rx, Effect
    <3>1. QED
      BY <2>s, <2>3, <2>4, <2>5, <2>6
<1>5. ASSUME NEW p \in {"drain", "writeDrain"}, DrainTxPending(p) PROVE Effect
  BY <1>5 DEF DrainTxPending, Sends, Quiet, Closed
<1>6. CASE Take
  <2>1. CASE Session /\ ~proto.secure
    BY <1>6, <2>1 DEF Take, Quiet
  <2>2. CASE Session /\ proto.secure
    <3>t. proto \in ProtoType /\ proto.rxPlain \in Seq(Nat) /\ call.size \in Nat
      BY DEF TypeInv, TypeOK, ProtoType
    <3>1. PICK n : n = Least(call.size, Len(proto.rxPlain))
      OBVIOUS
    <3>2. n \in 0..Len(proto.rxPlain)
      BY <3>t, <3>1 DEF Least
    <3>3. PICK c : c = DropFirst(proto.rxPlain, n)
      OBVIOUS
    <3>4. Len(c) <= Len(proto.rxPlain) /\ Len(c) \in Nat /\ Len(proto.rxPlain) \in Nat
      BY <3>t, <3>2, <3>3, DropFirstType
    <3>5. proto' = [proto EXCEPT !.rxPlain = c]
      BY <1>6, <2>2, <3>1, <3>3 DEF Take, Readable
    <3>6. proto' = [proto EXCEPT !.rxRecord = proto.rxRecord, !.rxTag = proto.rxTag,
                                 !.rxSeq = proto.rxSeq, !.rxPlain = c]
      BY <3>t, <3>5 DEF ProtoType
    <3>7. StillFits(proto.rxRecord, proto.rxTag, c)
      BY <3>4, ConstantsAssumption DEF StillFits, FitRx
    <3>8. QED
      BY <1>6, <2>2, <3>6, <3>7 DEF Take, Receives
  <2>3. CASE ~Session
    <3>1. Readable = <<>> /\ call.size \in Nat /\ proto \in ProtoType
      BY <2>3 DEF Readable, TypeInv, TypeOK
    <3>2. Least(call.size, Len(Readable)) = 0
      BY <3>1 DEF Least
    <3>3. proto' = [proto EXCEPT !.rxPlain = DropFirst(@, 0)]
      BY <1>6, <2>3, <3>2 DEF Take
    <3>4. DropFirst(proto.rxPlain, 0) = proto.rxPlain
      BY <3>1, SubSeqFull DEF DropFirst, ProtoType
    <3>5. proto' = proto
      BY <3>1, <3>3, <3>4 DEF ProtoType
    <3>6. QED
      BY <1>6, <3>5 DEF Take, Quiet
  <2>4. QED
    BY <2>1, <2>2, <2>3
<1>7. CASE CheckDead
  BY <1>7 DEF CheckDead, Closed, Quiet
<1>8. CASE DrainDiscard
  BY <1>8 DEF DrainDiscard, Sends
<1>9. CASE WriteFail
  BY <1>9 DEF WriteFail, Closed
<1>10. CASE Step
  BY <1>3, <1>4, <1>5, <1>6, <1>7, <1>8, <1>9, <1>10
  DEF Step, StopServer, SkipStage, AcceptNone, AcceptReject, WriteStart, WriteCheck, Quiet
<1>11. QED
  BY <1>1, <1>2, <1>10
  DEF AnyNext, DeviceNext, NetworkNext, AnyPeerNext, PeerSend, Dial, Lose, Tick, vars, Quiet

---------------------------------------------------------------------------
(* The session state *)

\* _protocolReady and the handshake state agree; before a session the record
\* layer is in its initial state; write() starts a chunk only in a state that
\* is ready and has sent everything (also when the connection died since).
HsReady == proto.ready <=> proto.hs = "Ready"
Clean == ~proto.ready => /\ ~proto.secure /\ proto.txSeq = 0 /\ proto.rxSeq = 0
                         /\ proto.txPending = <<>>
                         /\ proto.rxPlain = <<>> /\ proto.rxRecord = <<>> /\ proto.rxTag = <<>>
LoopReady == pc = "writeLoop" => proto.ready /\ proto.txPending = <<>>
SessionInv == HsReady /\ Clean /\ LoopReady

\* The statement after each stage is never the head of write()'s loop.
LEMMA AfterNotLoop ==
  ASSUME NEW p \in {"handshake", "greet", "secureRx", "rxAgain", "drain", "writeDrain"}
  PROVE  After(p) # "writeLoop"
<1>1. CASE p \in {"handshake", "greet"}
  BY <1>1, AfterGreet
<1>2. CASE p \in {"secureRx", "rxAgain", "drain", "writeDrain"}
  BY <1>2 DEF After
<1>3. QED
  BY <1>1, <1>2

\* How write() comes to the head of its loop, and what may happen there.
LEMMA LoopEffect ==
  [AnyNext]_vars /\ pc' = "writeLoop" =>
    /\ UNCHANGED proto
    /\ pc = "writeLoop" \/ (Session /\ proto.txPending = <<>>)
<1> SUFFICES ASSUME [AnyNext]_vars, pc' = "writeLoop"
             PROVE  /\ UNCHANGED proto
                    /\ pc = "writeLoop" \/ (Session /\ proto.txPending = <<>>)
  OBVIOUS
<1> USE DEF slot
<1>1. ASSUME NEW op PROVE AfterHandle(op) # "writeLoop"
  BY AfterHandleIs
<1>2. ~AdminCall
  BY DEF AdminCall, Begin, End, DisconnectClient, ClearTxDropCounters, ChangeAuthKey
<1>3. ~(CallHandle \/ DataCall)
  BY <1>1 DEF CallHandle, DataCall, StartCall
<1>4. ASSUME NEW p \in {"handshake", "greet"}, HandleHandshake(p) PROVE FALSE
  BY <1>4, AfterNotLoop DEF HandleHandshake
<1>5. ASSUME NEW p \in {"handshake", "greet", "secureRx", "rxAgain", "drain"}, SkipStage(p)
      PROVE FALSE
  BY <1>5, AfterNotLoop DEF SkipStage
<1>6. ASSUME NEW p \in {"secureRx", "rxAgain"}, SecureRx(p) PROVE FALSE
  BY <1>6, AfterNotLoop DEF SecureRx
<1>7. ASSUME NEW p \in {"drain", "writeDrain"}, DrainTxPending(p) PROVE FALSE
  BY <1>7, AfterNotLoop DEF DrainTxPending
<1>8. ~(AcceptNone \/ AcceptReject \/ AcceptClient \/ DrainDiscard)
  BY <1>1, AfterNotLoop DEF AcceptNone, AcceptReject, AcceptClient, DrainDiscard
<1>9. CASE WriteStart \/ WriteCheck
  BY <1>9 DEF WriteStart, WriteCheck, Return
<1>10. CASE Step
  BY <1>4, <1>5, <1>6, <1>7, <1>8, <1>9, <1>10
  DEF Step, StopServer, CheckDead, WriteStage, WriteFail, Take, Return
<1>11. QED
  BY <1>2, <1>3, <1>10
  DEF AnyNext, DeviceNext, NetworkNext, AnyPeerNext, PeerSend, Dial, Lose, Tick, vars

LEMMA NextSession == TypeInv /\ SessionInv /\ [AnyNext]_vars => SessionInv'
<1> SUFFICES ASSUME TypeInv, SessionInv, [AnyNext]_vars PROVE SessionInv'
  OBVIOUS
<1>1. proto \in ProtoType
  BY DEF TypeInv, TypeOK
<1>2. LoopReady'
  BY LoopEffect DEF SessionInv, LoopReady, Session
<1>3. ASSUME proto' = ResetProtocolState \/ proto' = AcceptedState
      PROVE  HsReady' /\ Clean'
  BY <1>3 DEF HsReady, Clean, AcceptedState, ResetProtocolState
<1>4. CASE Quiet
  BY <1>2, <1>4 DEF Quiet, SessionInv, HsReady, Clean
<1>5. CASE Closed
  BY <1>2, <1>3, <1>5 DEF Closed, CloseProtocolClient, SessionInv
<1>6. CASE Reads
  <2>1. Handshaking /\ ~proto.ready /\ Clean /\ HsReady
    BY <1>6 DEF Reads, Handshaking, SessionInv
  <2>2. ASSUME proto' = [proto EXCEPT !.line = @ + 1]
        PROVE  Clean' /\ HsReady'
    BY <1>1, <2>1, <2>2 DEF Clean, HsReady, ProtoType
  <2>3. ASSUME proto' = ReadyState(proto)
        PROVE  Clean' /\ HsReady'
    BY <1>1, <2>1, <2>3 DEF Clean, HsReady, ProtoType, ReadyState
  <2>4. ASSUME NEW cn, proto' = ChallengeState(cn, nonceCount') PROVE Clean' /\ HsReady'
    BY <1>1, <2>1, <2>4 DEF Clean, HsReady, ProtoType, ChallengeState
  <2>5. ASSUME proto' = ReadyState([DeriveSessionKeys(proto) EXCEPT !.secure = TRUE])
        PROVE  Clean' /\ HsReady'
    BY <1>1, <2>1, <2>5 DEF Clean, HsReady, ProtoType, ReadyState, DeriveSessionKeys
  <2>6. QED
    BY <1>2, <1>6, <2>2, <2>3, <2>4, <2>5 DEF Reads, SessionInv
<1>7. CASE Receives
  <2>1. PICK a, g, b, c : proto' = [proto EXCEPT !.rxRecord = a, !.rxTag = g, !.rxSeq = b, !.rxPlain = c]
    BY <1>7 DEF Receives
  <2>2. proto.ready
    BY <1>7 DEF Receives, Session
  <2>3. proto'.ready = proto.ready /\ proto'.hs = proto.hs
    BY <1>1, <2>1 DEF ProtoType
  <2>4. QED
    BY <1>2, <2>2, <2>3 DEF SessionInv, HsReady, Clean
<1>8. CASE Sends
  <2>1. PICK t : proto' = [proto EXCEPT !.txPending = t]
    BY <1>8 DEF Sends, DrainSend
  <2>2. /\ proto'.ready = proto.ready /\ proto'.hs = proto.hs
        /\ proto'.secure = proto.secure /\ proto'.txSeq = proto.txSeq
        /\ proto'.rxSeq = proto.rxSeq /\ proto'.rxRecord = proto.rxRecord
        /\ proto'.rxTag = proto.rxTag /\ proto'.rxPlain = proto.rxPlain
    BY <1>1, <2>1 DEF ProtoType
  <2>3. ~proto.ready => proto'.txPending = <<>>
    <3>1. ASSUME ~proto.ready, NEW k \in 1..Len(proto.txPending) PROVE FALSE
      BY <3>1 DEF SessionInv, Clean
    <3>2. QED
      BY <1>1, <1>8, <3>1 DEF Sends, ProtoType
  <2>4. QED
    BY <1>2, <2>2, <2>3 DEF SessionInv, HsReady, Clean
<1>9. CASE AcceptClient
  BY <1>2, <1>3, <1>9 DEF AcceptClient, SessionInv
<1>10. CASE WriteStage
  <2>1. proto.ready
    BY <1>10 DEF WriteStage, SessionInv, LoopReady
  <2>2. PICK t, n : proto' = [proto EXCEPT !.txPending = t, !.txSeq = n]
    BY <1>10 DEF WriteStage
  <2>3. proto'.ready = proto.ready /\ proto'.hs = proto.hs
    BY <1>1, <2>2 DEF ProtoType
  <2>4. QED
    BY <1>2, <2>1, <2>3 DEF SessionInv, HsReady, Clean
<1>11. QED
  BY <1>2, <1>4, <1>5, <1>6, <1>7, <1>8, <1>9, <1>10, ProtoEffect DEF SessionInv

\* Receiving, sending and staging keep who the session is with.
LEMMA SessionKept ==
  ASSUME TypeInv, Receives \/ Sends \/ WriteStage
  PROVE  /\ proto'.ready = proto.ready /\ proto'.hs = proto.hs /\ proto'.sn = proto.sn
         /\ proto'.secure = proto.secure /\ proto'.key = proto.key
         /\ UNCHANGED <<authKey, nonceCount>>
<1>1. proto \in ProtoType
  BY DEF TypeInv, TypeOK
<1>2. UNCHANGED <<authKey, nonceCount>>
  BY DEF Receives, Sends, WriteStage, config
<1>3. CASE Receives
  <2>1. PICK a, g, b, c : proto' = [proto EXCEPT !.rxRecord = a, !.rxTag = g, !.rxSeq = b, !.rxPlain = c]
    BY <1>3 DEF Receives
  <2>2. QED
    BY <1>1, <1>2, <2>1 DEF ProtoType
<1>4. CASE Sends
  <2>1. PICK t : proto' = [proto EXCEPT !.txPending = t]
    BY <1>4 DEF Sends, DrainSend
  <2>2. QED
    BY <1>1, <1>2, <2>1 DEF ProtoType
<1>5. CASE WriteStage
  <2>1. PICK t, n : proto' = [proto EXCEPT !.txPending = t, !.txSeq = n]
    BY <1>5 DEF WriteStage
  <2>2. QED
    BY <1>1, <1>2, <2>1 DEF ProtoType
<1>6. QED
  BY <1>3, <1>4, <1>5

---------------------------------------------------------------------------
(* The buffers *)

\* A chunk is encoded into at most one wire record, receiving stops at the end
\* of a record that was announced to fit, and sending only shortens.
LEMMA NextBuffers == ASSUME TypeInv, BuffersFit, [AnyNext]_vars PROVE BuffersFit'
<1>t. proto \in ProtoType /\ proto.txPending \in Seq(Unit)
  BY DEF TypeInv, TypeOK, ProtoType
<1>f. Len(proto.txPending) <= WireRecord /\ FitRx(proto.rxRecord, proto.rxTag, proto.rxPlain)
  BY DEF BuffersFit, WireRecord, FitRx
<1>l. proto'.line < LineMax
  <2>1. proto'.line \in 0..(LineMax - 1)
    BY NextType DEF TypeInv, TypeOK, ProtoType
  <2>2. QED
    BY <2>1, ConstantsAssumption
<1> DEFINE Fit == Len(proto.txPending) <= WireRecord /\ FitRx(proto.rxRecord, proto.rxTag, proto.rxPlain)
<1> SUFFICES Fit'
  BY <1>l DEF BuffersFit, WireRecord, FitRx
<1>e. ASSUME proto'.txPending = <<>>, proto'.rxRecord = <<>>, proto'.rxTag = <<>>, proto'.rxPlain = <<>>
      PROVE  Fit'
  BY <1>e, ConstantsAssumption DEF WireRecord, FitRx
<1>1. CASE Quiet
  BY <1>1, <1>f DEF Quiet
<1>2. CASE Closed
  BY <1>2, <1>e DEF Closed, CloseProtocolClient, ResetProtocolState
<1>3. CASE Reads
  <2>1. proto'.txPending = proto.txPending
    BY <1>3, <1>t DEF Reads, ReadyState, ChallengeState, DeriveSessionKeys, ProtoType
  <2>2. \/ /\ proto'.rxRecord = proto.rxRecord /\ proto'.rxTag = proto.rxTag
           /\ proto'.rxPlain = proto.rxPlain
        \/ proto'.rxRecord = <<>> /\ proto'.rxTag = <<>> /\ proto'.rxPlain = <<>>
    BY <1>3, <1>t DEF Reads, ReadyState, ChallengeState, DeriveSessionKeys, ProtoType
  <2>3. QED
    BY <1>f, <2>1, <2>2, ConstantsAssumption DEF WireRecord, FitRx
<1>4. CASE Receives
  <2>1. PICK a, g, b, c : /\ proto' = [proto EXCEPT !.rxRecord = a, !.rxTag = g, !.rxSeq = b, !.rxPlain = c]
                          /\ StillFits(a, g, c)
    BY <1>4 DEF Receives
  <2>2. /\ proto'.rxRecord = a /\ proto'.rxTag = g /\ proto'.rxPlain = c
        /\ proto'.txPending = proto.txPending
    BY <1>t, <2>1 DEF ProtoType
  <2>3. QED
    BY <1>f, <2>1, <2>2 DEF StillFits
<1>5. CASE Sends
  <2>1. PICK t : proto' = [proto EXCEPT !.txPending = t] /\ (t = <<>> \/ \E k \in 1..Len(proto.txPending) : t = DropFirst(proto.txPending, k))
    BY <1>5 DEF Sends, DrainSend
  <2>2. /\ proto'.txPending = t /\ proto'.rxRecord = proto.rxRecord /\ proto'.rxTag = proto.rxTag
        /\ proto'.rxPlain = proto.rxPlain
    BY <1>t, <2>1 DEF ProtoType
  <2>3. Len(t) <= WireRecord
    <3>1. WireRecord \in Nat
      BY ConstantsAssumption DEF WireRecord
    <3>2. CASE t = <<>>
      BY <3>1, <3>2
    <3>3. ASSUME NEW k \in 1..Len(proto.txPending), t = DropFirst(proto.txPending, k) PROVE Len(t) <= WireRecord
      <4>1. Len(proto.txPending) \in Nat /\ k \in 0..Len(proto.txPending)
        BY <1>t
      <4>2. Len(t) = Len(proto.txPending) - k
        BY <1>t, <3>3, <4>1, DropFirstType
      <4>3. QED
        BY <1>f, <3>1, <4>1, <4>2
    <3>4. QED
      BY <2>1, <3>2, <3>3
  <2>4. QED
    BY <1>f, <2>2, <2>3
<1>6. CASE AcceptClient
  BY <1>6, <1>e DEF AcceptClient, AcceptedState, ResetProtocolState
<1>7. CASE WriteStage
  <2>1. PICK n : proto' = [proto EXCEPT !.txPending = Encode(Chunk), !.txSeq = n]
    BY <1>7 DEF WriteStage
  <2>2. /\ proto'.txPending = Encode(Chunk) /\ proto'.rxRecord = proto.rxRecord
        /\ proto'.rxTag = proto.rxTag /\ proto'.rxPlain = proto.rxPlain
    BY <1>t, <2>1 DEF ProtoType
  <2>3. call.total < call.size
    BY <1>7 DEF WriteStage, TypeInv, CallShape
  <2>4. Chunk \in Seq(Nat) /\ Len(Chunk) <= MaxRecord
    BY <2>3, ChunkType, ConstantsAssumption DEF TypeInv
  <2>5. Len(Encode(Chunk)) <= WireRecord
    BY <2>4, EncodeType DEF WireRecord
  <2>6. QED
    BY <1>f, <2>2, <2>5
<1>8. QED
  BY <1>1, <1>2, <1>3, <1>4, <1>5, <1>6, <1>7, ProtoEffect

---------------------------------------------------------------------------
(* The bytes of a connection *)

LEMMA NextStream ==
  TypeInv /\ LinkInv /\ SessionInv /\ StreamIntegrity /\ [AnyNext]_vars => StreamIntegrity'
<1> SUFFICES ASSUME TypeInv, LinkInv, SessionInv, StreamIntegrity, [AnyNext]_vars, Live'
             PROVE  wire' \o proto'.txPending = staged'
  BY DEF StreamIntegrity
<1>1. /\ proto \in ProtoType /\ proto.txPending \in Seq(Unit)
      /\ wire \in Seq(Unit) /\ staged \in Seq(Unit)
  BY DEF TypeInv, TypeOK, ProtoType
<1>2. wire' \in Seq(Unit) /\ staged' \in Seq(Unit)
  BY NextType DEF TypeInv, TypeOK
<1>3. ~Closed
  BY CloseType DEF Closed, TypeInv
<1>4. CASE AcceptClient
  BY <1>4 DEF AcceptClient, AcceptedState, ResetProtocolState
<1>5. ASSUME ~AcceptClient
      PROVE  /\ Live /\ wire \o proto.txPending = staged
             /\ proto.txPending = <<>> => wire = staged
  BY <1>1, <1>5, LiveStable DEF StreamIntegrity
<1>6. CASE Quiet /\ ~AcceptClient
  BY <1>5, <1>6 DEF Quiet
<1>7. CASE Reads /\ ~AcceptClient
  <2>1. proto.txPending = <<>>
    BY <1>7 DEF Reads, Handshaking, SessionInv, Clean
  <2>2. proto'.txPending = <<>>
    <3>1. CASE proto' = [proto EXCEPT !.line = @ + 1]
      BY <1>1, <2>1, <3>1 DEF ProtoType
    <3>2. CASE proto' = ReadyState(proto)
      BY <1>1, <2>1, <3>2 DEF ProtoType, ReadyState
    <3>3. ASSUME NEW cn, proto' = ChallengeState(cn, nonceCount') PROVE proto'.txPending = <<>>
      BY <1>1, <2>1, <3>3 DEF ProtoType, ChallengeState
    <3>4. CASE proto' = ReadyState([DeriveSessionKeys(proto) EXCEPT !.secure = TRUE])
      BY <1>1, <2>1, <3>4 DEF ProtoType, ReadyState, DeriveSessionKeys
    <3>5. QED
      BY <1>7, <3>1, <3>2, <3>3, <3>4 DEF Reads
  <2>3. wire' = staged'
    <3>1. wire = staged
      BY <1>5, <1>7, <2>1
    <3>2. ASSUME NEW m, SendControlLine(m, TRUE) PROVE wire' = staged'
      BY <3>1, <3>2 DEF SendControlLine
    <3>3. QED
      BY <1>7, <3>1, <3>2 DEF Reads
  <2>4. QED
    BY <1>2, <2>2, <2>3
<1>8. CASE Receives /\ ~AcceptClient
  <2>1. PICK a, g, b, c : proto' = [proto EXCEPT !.rxRecord = a, !.rxTag = g, !.rxSeq = b, !.rxPlain = c]
    BY <1>8 DEF Receives
  <2>2. proto'.txPending = proto.txPending
    BY <1>1, <2>1 DEF ProtoType
  <2>3. QED
    BY <1>5, <1>8, <2>2 DEF Receives
<1>9. CASE Sends /\ ~AcceptClient
  <2>1. ASSUME NEW k \in 1..Len(proto.txPending), DrainSend(k)
        PROVE  wire' \o proto'.txPending = wire \o proto.txPending
    <3>1. /\ wire' = wire \o SubSeq(proto.txPending, 1, k)
          /\ proto' = [proto EXCEPT !.txPending = DropFirst(@, k)]
      BY <2>1 DEF DrainSend
    <3>2. proto'.txPending = DropFirst(proto.txPending, k)
      BY <1>1, <3>1 DEF ProtoType
    <3>3. SubSeq(proto.txPending, 1, k) \in Seq(Unit) /\ DropFirst(proto.txPending, k) \in Seq(Unit)
      BY <1>1, DropFirstType
    <3>4. SubSeq(proto.txPending, 1, k) \o DropFirst(proto.txPending, k) = proto.txPending
      BY <1>1, SplitSequence
    <3>5. (wire \o SubSeq(proto.txPending, 1, k)) \o DropFirst(proto.txPending, k)
            = wire \o (SubSeq(proto.txPending, 1, k) \o DropFirst(proto.txPending, k))
      BY SMTT(60), <1>1, <3>3, ConcatAssociative
    <3>6. QED
      BY <3>1, <3>2, <3>4, <3>5
  <2>2. ASSUME ~Session, proto' = [proto EXCEPT !.txPending = <<>>], UNCHANGED wire
        PROVE  wire' \o proto'.txPending = wire \o proto.txPending
    <3>1. proto.txPending = <<>>
      BY <1>5, <1>9, <2>2 DEF Session, SessionInv, Clean
    <3>2. proto'.txPending = <<>>
      BY <1>1, <2>2 DEF ProtoType
    <3>3. QED
      BY <2>2, <3>1, <3>2
  <2>3. QED
    BY <1>5, <1>9, <2>1, <2>2 DEF Sends
<1>10. CASE WriteStage /\ ~AcceptClient
  <2>1. /\ proto.txPending = <<>> /\ UNCHANGED wire /\ staged' = staged \o Encode(Chunk)
    BY <1>10 DEF WriteStage, SessionInv, LoopReady
  <2>2. proto'.txPending = Encode(Chunk)
    <3>1. PICK n : proto' = [proto EXCEPT !.txPending = Encode(Chunk), !.txSeq = n]
      BY <1>10 DEF WriteStage
    <3>2. QED
      BY <1>1, <3>1 DEF ProtoType
  <2>3. QED
    BY <1>5, <1>10, <2>1, <2>2
<1>11. QED
  BY <1>3, <1>4, <1>6, <1>7, <1>8, <1>9, <1>10, ProtoEffect

---------------------------------------------------------------------------
(* Nonces *)

\* Every key in use so far was derived from a nonce drawn before; the current
\* session has used its key for the sequence numbers below the next one; the
\* nonce of a pending challenge is the nonce of no key used yet.
UsedKeysOld == \A u \in used : u.key.sn <= nonceCount
KeyAhead == proto.secure => /\ proto.key.sn <= nonceCount
                            /\ \A u \in used : u.key = proto.key => u.seq < proto.txSeq
ChallengeUnused == proto.hs = "WaitingAuth" =>
                      /\ proto.sn <= nonceCount
                      /\ \A u \in used : u.key.sn # proto.sn
NonceInv == UsedKeysOld /\ KeyAhead /\ ChallengeUnused

LEMMA NextNonce == TypeInv /\ SessionInv /\ NonceInv /\ [AnyNext]_vars => NonceInv'
<1> SUFFICES ASSUME TypeInv, SessionInv, NonceInv, [AnyNext]_vars PROVE NonceInv'
  OBVIOUS
<1>1. proto \in ProtoType /\ nonceCount \in Nat /\ used \subseteq [key : SessionKey, seq : Nat]
  BY DEF TypeInv, TypeOK
<1>2. /\ proto.txSeq \in Nat /\ proto.sn \in Nat
      /\ \A u \in used : u.key \in SessionKey /\ u.key.sn \in Nat /\ u.seq \in Nat
  BY <1>1, ConstantsAssumption DEF ProtoType, SessionKey
<1>3. ASSUME proto' = ResetProtocolState \/ proto' = AcceptedState
      PROVE  ~proto'.secure /\ proto'.hs = "WaitingHello"
  BY <1>3 DEF AcceptedState, ResetProtocolState
<1>4. CASE Quiet
  BY <1>4 DEF Quiet, NonceInv, UsedKeysOld, KeyAhead, ChallengeUnused
<1>5. CASE Closed
  <2>1. ~proto'.secure /\ proto'.hs = "WaitingHello"
    BY <1>3, <1>5 DEF Closed, CloseProtocolClient
  <2>2. UsedKeysOld'
    BY <1>1, <1>2, <1>5 DEF Closed, NonceInv, UsedKeysOld
  <2>3. QED
    BY <2>1, <2>2 DEF NonceInv, KeyAhead, ChallengeUnused
<1>6. CASE Reads
  <2>1. /\ UNCHANGED used /\ ~proto.ready /\ proto.hs # "Ready" /\ ~proto.secure
    BY <1>6 DEF Reads, Handshaking, SessionInv, Clean, HsReady
  <2>2. UsedKeysOld'
    <3>1. nonceCount' \in {nonceCount, nonceCount + 1}
      BY <1>6, Zenon DEF Reads
    <3>2. QED
      BY <1>1, <1>2, <2>1, <3>1 DEF NonceInv, UsedKeysOld
  <2>3. ASSUME proto' = [proto EXCEPT !.line = @ + 1], UNCHANGED nonceCount
        PROVE  KeyAhead' /\ ChallengeUnused'
    <3>1. proto'.secure = proto.secure /\ proto'.hs = proto.hs /\ proto'.sn = proto.sn
      BY <1>1, <2>3 DEF ProtoType
    <3>2. QED
      BY <2>1, <2>3, <3>1 DEF NonceInv, KeyAhead, ChallengeUnused
  <2>4. ASSUME proto' = ReadyState(proto) PROVE  KeyAhead' /\ ChallengeUnused'
    <3>1. proto'.secure = proto.secure /\ proto'.hs = "Ready"
      BY <1>1, <2>4 DEF ProtoType, ReadyState
    <3>2. QED
      BY <2>1, <3>1 DEF KeyAhead, ChallengeUnused
  <2>5. ASSUME NEW cn, proto' = ChallengeState(cn, nonceCount'), nonceCount' = nonceCount + 1
        PROVE  KeyAhead' /\ ChallengeUnused'
    <3>1. proto'.secure = proto.secure /\ proto'.sn = nonceCount + 1
      BY <1>1, <2>5 DEF ProtoType, ChallengeState
    <3>2. \A u \in used : u.key.sn # nonceCount + 1
      BY <1>1, <1>2 DEF NonceInv, UsedKeysOld
    <3>3. QED
      BY <1>1, <2>1, <2>5, <3>1, <3>2 DEF KeyAhead, ChallengeUnused
  <2>6. ASSUME proto' = ReadyState([DeriveSessionKeys(proto) EXCEPT !.secure = TRUE]),
               UNCHANGED nonceCount, proto.hs = "WaitingAuth"
        PROVE  KeyAhead' /\ ChallengeUnused'
    <3>1. proto'.hs = "Ready" /\ proto'.key.sn = proto.sn
      BY <1>1, <2>6 DEF ProtoType, ReadyState, DeriveSessionKeys
    <3>2. proto.sn <= nonceCount /\ \A u \in used : u.key # proto'.key
      BY <2>6, <3>1 DEF NonceInv, ChallengeUnused
    <3>3. QED
      BY <2>1, <2>6, <3>1, <3>2 DEF KeyAhead, ChallengeUnused
  <2>7. KeyAhead' /\ ChallengeUnused'
    BY <1>6, <2>3, <2>4, <2>5, <2>6 DEF Reads
  <2>8. QED
    BY <2>2, <2>7 DEF NonceInv
<1>7. CASE Receives \/ Sends
  <2>1. UNCHANGED <<nonceCount, used>>
    BY <1>7 DEF Receives, Sends
  <2>2. proto'.txSeq = proto.txSeq
    <3>1. CASE Receives
      <4>1. PICK a, g, b, c : proto' = [proto EXCEPT !.rxRecord = a, !.rxTag = g, !.rxSeq = b, !.rxPlain = c]
        BY <3>1 DEF Receives
      <4>2. QED
        BY <1>1, <4>1 DEF ProtoType
    <3>2. CASE Sends
      <4>1. PICK t : proto' = [proto EXCEPT !.txPending = t]
        BY <3>2 DEF Sends, DrainSend
      <4>2. QED
        BY <1>1, <4>1 DEF ProtoType
    <3>3. QED
      BY <1>7, <3>1, <3>2
  <2>3. QED
    BY <1>7, <2>1, <2>2, SessionKept DEF NonceInv, UsedKeysOld, KeyAhead, ChallengeUnused
<1>8. CASE AcceptClient
  <2>1. ~proto'.secure /\ proto'.hs = "WaitingHello" /\ UNCHANGED <<nonceCount, used>>
    BY <1>3, <1>8 DEF AcceptClient, crypto
  <2>2. QED
    BY <2>1 DEF NonceInv, UsedKeysOld, KeyAhead, ChallengeUnused
<1>9. CASE WriteStage
  <2>1. proto.hs = "Ready" /\ proto'.hs = "Ready"
    BY <1>9, SessionKept DEF WriteStage, SessionInv, LoopReady, HsReady
  <2>2. CASE ~proto.secure
    <3>1. UNCHANGED used /\ ~proto'.secure /\ UNCHANGED nonceCount
      BY <1>9, <2>2, SessionKept DEF WriteStage
    <3>2. QED
      BY <2>1, <3>1 DEF NonceInv, UsedKeysOld, KeyAhead, ChallengeUnused
  <2>3. CASE proto.secure
    <3>1. /\ used' = used \cup {[key |-> proto.key, seq |-> proto.txSeq]}
          /\ UNCHANGED nonceCount /\ proto'.key = proto.key
      BY <1>9, <2>3, SessionKept DEF WriteStage
    <3>2. proto'.txSeq = proto.txSeq + 1
      <4>1. PICK t : proto' = [proto EXCEPT !.txPending = t, !.txSeq = proto.txSeq + 1]
        BY <1>9, <2>3 DEF WriteStage, NextTxSequence
      <4>2. QED
        BY <1>1, <4>1 DEF ProtoType
    <3>3. /\ proto.key.sn <= nonceCount
          /\ \A u \in used : u.key = proto.key => u.seq < proto.txSeq
      BY <2>3 DEF NonceInv, KeyAhead
    <3>4. ASSUME NEW u \in used', u.key = proto.key PROVE u.seq < proto.txSeq + 1
      <4>1. CASE u \in used
        BY <1>2, <3>3, <3>4, <4>1
      <4>2. CASE u = [key |-> proto.key, seq |-> proto.txSeq]
        BY <1>2, <4>2
      <4>3. QED
        BY <3>1, <4>1, <4>2
    <3>5. UsedKeysOld'
      BY <3>1, <3>3 DEF NonceInv, UsedKeysOld
    <3>6. KeyAhead'
      BY <3>1, <3>2, <3>3, <3>4 DEF KeyAhead
    <3>7. QED
      BY <2>1, <3>5, <3>6 DEF NonceInv, ChallengeUnused
  <2>4. QED
    BY <2>2, <2>3
<1>10. QED
  BY <1>4, <1>5, <1>6, <1>7, <1>8, <1>9, ProtoEffect

LEMMA NonceInvImpliesFresh == TypeInv /\ NonceInv => NonceFresh
<1> SUFFICES ASSUME TypeInv, NonceInv, proto.secure,
                    [key |-> proto.key, seq |-> proto.txSeq] \in used
             PROVE  FALSE
  BY DEF NonceFresh
<1>1. proto.txSeq < proto.txSeq
  BY DEF NonceInv, KeyAhead
<1>2. proto.txSeq \in Nat
  BY ConstantsAssumption DEF TypeInv, TypeOK, ProtoType
<1>3. QED
  BY <1>1, <1>2

---------------------------------------------------------------------------
(* Authentication *)

LEMMA NextAuth ==
  TypeInv /\ LinkInv /\ SessionInv /\ AuthCurrent /\ [AnyNext]_vars => AuthCurrent'
<1> SUFFICES ASSUME TypeInv, LinkInv, SessionInv, AuthCurrent, [AnyNext]_vars,
                    Live', proto'.ready
             PROVE  /\ proto'.secure <=> authKey' # NoKey
                    /\ proto'.secure => proto'.key.auth = authKey'
  BY DEF AuthCurrent, Session
<1>1. proto \in ProtoType
  BY DEF TypeInv, TypeOK
<1>2. ~Closed
  BY CloseType DEF Closed, TypeInv
<1>3. ~AcceptClient
  BY DEF AcceptClient, AcceptedState, ResetProtocolState
<1>4. Live
  BY <1>3, LiveStable
<1>5. CASE Quiet
  BY <1>4, <1>5 DEF Quiet, AuthCurrent, Session, Live
<1>6. CASE Reads
  <2>1. /\ UNCHANGED authKey /\ ~proto.ready /\ ~proto.secure
    BY <1>6 DEF Reads, Handshaking, SessionInv, Clean
  <2>2. proto' # [proto EXCEPT !.line = @ + 1]
    BY <1>1, <2>1 DEF ProtoType
  <2>3. ASSUME NEW cn, proto' = ChallengeState(cn, nonceCount') PROVE FALSE
    BY <1>1, <2>1, <2>3 DEF ProtoType, ChallengeState
  <2>4. CASE authKey = NoKey /\ proto' = ReadyState(proto)
    <3>1. proto'.secure = proto.secure
      BY <1>1, <2>4 DEF ProtoType, ReadyState
    <3>2. QED
      BY <2>1, <2>4, <3>1
  <2>5. CASE /\ authKey \in AuthKeys
             /\ proto' = ReadyState([DeriveSessionKeys(proto) EXCEPT !.secure = TRUE])
    <3>1. proto'.secure /\ proto'.key.auth = authKey
      BY <1>1, <2>5 DEF ProtoType, ReadyState, DeriveSessionKeys
    <3>2. QED
      BY <2>1, <2>5, <3>1, ConstantsAssumption
  <2>6. QED
    BY <1>6, <2>2, <2>3, <2>4, <2>5 DEF Reads
<1>7. CASE Receives \/ Sends \/ WriteStage
  BY <1>4, <1>7, SessionKept DEF AuthCurrent, Session
<1>8. QED
  BY <1>2, <1>3, <1>5, <1>6, <1>7, ProtoEffect

---------------------------------------------------------------------------
(* What is sent *)

\* No connection waits twice, none that was accepted still waits, and the
\* client is the one accepted last.
Accepted ==
  /\ \A i, j \in 1..Len(backlog) : backlog[i] = backlog[j] => i = j
  /\ carrier # NoConn => link[carrier] # "none" /\ ~Waiting(carrier)
  /\ client # NoConn => client = carrier
  /\ proto.ready => client # NoConn

\* Only sessions with encryption have keys.
RawHasNoKey == ~proto.secure => proto.key = NoSession

\* TCP has been given the beginning of what was committed.
WirePrefix == Len(wire) <= Len(staged) /\ \A i \in 1..Len(wire) : wire[i] = staged[i]

OkLine(secure) == Line([type |-> "OK", secure |-> secure])

\* The bytes of the session's stream up to the end of the record, or byte, u.
Upto(u) == IF u.kind = "line" THEN 0
           ELSE IF u.kind = "raw" THEN u.byte ELSE u.rec.data[Len(u.rec.data)]
RecordEnd(u) == u.kind = "cell" /\ u.at = HeaderSize + Len(u.rec.data) + TagSize
NextSeq(u) == IF u.kind = "cell" THEN u.rec.seq + 1 ELSE 0

\* A unit sent in a direction; a cell is of a record that continues the stream.
WellSealed(u, dir) ==
  /\ u.kind \in {"line", "raw", "cell"}
  /\ u.kind = "cell" =>
       /\ u.rec.dir = dir /\ u.rec.seq < SeqMax
       /\ u.at \in 1..(HeaderSize + Len(u.rec.data) + TagSize)
       /\ Len(u.rec.data) \in 1..MaxRecord
       /\ \A j \in 1..Len(u.rec.data) : u.rec.data[j] = Upto(u) - Len(u.rec.data) + j

\* What may be sent right after u: a line while the handshake lasts, then the
\* bytes of the stream, or records with consecutive numbers that carry them.
Follows(u, v) ==
  \/ v.kind = "line" /\ u.kind = "line" /\ u.msg.type # "OK"
  \/ v.kind = "raw" /\ (u = OkLine(FALSE) \/ u.kind = "raw") /\ v.byte = Upto(u) + 1
  \/ v.kind = "cell" /\ u.kind = "cell" /\ v.rec = u.rec /\ v.at = u.at + 1
  \/ /\ v.kind = "cell" /\ v.at = 1 /\ (u = OkLine(TRUE) \/ RecordEnd(u))
     /\ v.rec.seq = NextSeq(u) /\ Upto(v) = Upto(u) + Len(v.rec.data)

Chained(s) ==
  /\ \A i \in 1..Len(s) : WellSealed(s[i], "d2h")
  /\ \A i \in 1..(Len(s) - 1) : Follows(s[i], s[i + 1])
  /\ Len(s) > 0 => s[1].kind = "line"

\* The bytes write() has committed in this session.
Committed == accepted + InFlight
CallFresh == pc \notin {"writeLoop", "writeDrain", "writeCheck"} => call.total = 0

\* The stream is at its beginning during the handshake, ...
StreamStarts == Handshaking => Committed = 0 /\ \A i \in 1..Len(staged) : staged[i].kind = "line"

\* ... an OK line says which session there is, ...
OkMeansReady ==
  proto.ready \/ Handshaking =>
    \A i \in 1..Len(staged) : staged[i].kind = "line" /\ staged[i].msg.type = "OK" =>
      proto.ready /\ staged[i] = OkLine(proto.secure)

\* ... and the next record or byte continues what was committed last.
StreamGoesOn ==
  proto.ready =>
    /\ staged # <<>>
    /\ LET last == staged[Len(staged)]
       IN /\ Upto(last) = Committed
          /\ IF proto.secure THEN (last = OkLine(TRUE) \/ RecordEnd(last)) /\ NextSeq(last) = proto.txSeq
             ELSE last = OkLine(FALSE) \/ last.kind = "raw"

Bounded == \A i \in 1..Len(staged) : Upto(staged[i]) <= Committed

SentInv == /\ Accepted /\ RawHasNoKey /\ WirePrefix /\ CallFresh
           /\ Chained(staged) /\ StreamStarts /\ OkMeansReady /\ StreamGoesOn /\ Bounded

\* How a step changes who is served, and what was committed.
LEMMA AppEffect ==
  ASSUME TypeInv, CallFresh, [AnyNext]_vars
  PROVE  /\ CallFresh'
         /\ \/ AcceptClient /\ Committed' = 0
            \/ /\ UNCHANGED carrier
               /\ Committed' = Committed \/ (WriteStage /\ Committed' = Committed + Len(Chunk))
<1> DEFINE Same == UNCHANGED carrier /\ Committed' = Committed
           Goal == /\ CallFresh'
                   /\ \/ AcceptClient /\ Committed' = 0
                      \/ Same
                      \/ UNCHANGED carrier /\ WriteStage /\ Committed' = Committed + Len(Chunk)
<1>t. /\ accepted \in Nat /\ call.total \in Nat /\ pc \in PcSet
      /\ call \in [op : {"none", "handle", "write", "read"}, size : Nat, total : Nat]
  BY DEF TypeInv, TypeOK
<1> SUFFICES Goal
  OBVIOUS
<1>k. ASSUME UNCHANGED <<carrier, accepted, call>>,
             \/ UNCHANGED pc
             \/ call.total = 0 /\ pc' \notin {"writeLoop", "writeDrain", "writeCheck"}
             \/ pc \in {"writeLoop", "writeDrain", "writeCheck"} /\ pc' \in {"writeLoop", "writeDrain", "writeCheck"}
      PROVE  Goal
  BY <1>k, <1>t DEF CallFresh, Committed, InFlight
<1>f. pc \notin {"writeLoop", "writeDrain", "writeCheck"} => call.total = 0 /\ InFlight = 0
  BY DEF CallFresh, InFlight
<1>w. pc \in {"writeLoop", "writeDrain", "writeCheck"} => InFlight = call.total
  BY DEF InFlight
<1>n. NoCall.total = 0
  BY DEF NoCall
<1> HIDE DEF Goal
<1> USE DEF app
<1>1. CASE AdminCall
  BY <1>1, <1>k, <1>f DEF AdminCall, Begin, End, DisconnectClient, ClearTxDropCounters, ChangeAuthKey
<1>2. CASE CallHandle \/ DataCall
  <2>1. /\ UNCHANGED <<carrier, accepted>> /\ call'.total = 0 /\ pc = "idle"
        /\ pc' \notin {"writeLoop", "writeDrain", "writeCheck"}
    BY <1>2 DEF CallHandle, DataCall, StartCall, AfterHandle
  <2>2. QED
    BY <2>1, <1>f, <1>t DEF CallFresh, Committed, InFlight, Goal
<1>3. ASSUME NEW p \in {"handshake", "greet", "secureRx", "rxAgain", "drain"},
             SkipStage(p) \/ HandleHandshake(p) \/ SecureRx(p) \/ DrainTxPending(p)
      PROVE  Goal
  <2>1. pc = p /\ pc' \in {pc, After(p)} /\ UNCHANGED <<carrier, accepted, call>>
    BY <1>3 DEF SkipStage, HandleHandshake, SecureRx, DrainTxPending
  <2>2. After(p) \notin {"writeLoop", "writeDrain", "writeCheck"}
    BY <1>3 DEF After, AfterHandle
  <2>3. QED
    BY <2>1, <2>2, <1>f, <1>k
<1>4. CASE DrainTxPending("writeDrain") \/ DrainDiscard
  BY <1>4, <1>k DEF DrainTxPending, DrainDiscard, After
<1>5. CASE CheckDead \/ StopServer \/ AcceptNone \/ AcceptReject
  BY <1>5, <1>f, <1>k DEF CheckDead, StopServer, AcceptNone, AcceptReject, AfterHandle
<1>6. CASE AcceptClient
  <2>1. accepted' = 0 /\ call' = call /\ pc = "accept" /\ pc' = "greet"
    BY <1>6 DEF AcceptClient
  <2>2. QED
    BY <1>6, <2>1, <1>f DEF CallFresh, Committed, InFlight, Goal
<1>7. CASE WriteStart
  <2>1. /\ UNCHANGED <<carrier, accepted>> /\ pc = "write"
        /\ (pc' = "writeLoop" /\ UNCHANGED call) \/ (pc' = "idle" /\ call' = NoCall)
    BY <1>7 DEF WriteStart, Return
  <2>2. QED
    BY <2>1, <1>f, <1>n, <1>t DEF CallFresh, Committed, InFlight, Goal
<1>8. CASE WriteStage
  <2>1. /\ UNCHANGED <<carrier, accepted>> /\ pc = "writeLoop" /\ pc' = "writeDrain"
        /\ call' = [call EXCEPT !.total = @ + Len(Chunk)]
    BY <1>8 DEF WriteStage
  <2>2. Len(Chunk) \in Nat
    <3>1. call.total < call.size
      BY <2>1, <1>8 DEF TypeInv, CallShape
    <3>2. QED
      BY <3>1, ChunkType DEF TypeInv
  <2>3. call'.total = call.total + Len(Chunk)
    BY <2>1, <1>t
  <2>4. QED
    BY <1>8, <2>1, <2>2, <2>3, <1>t DEF CallFresh, Committed, InFlight, Goal
<1>9. CASE WriteFail \/ WriteCheck
  <2>1. /\ UNCHANGED carrier /\ pc \in {"writeLoop", "writeCheck"}
        /\ \/ pc' = "writeLoop" /\ UNCHANGED <<call, accepted>>
           \/ pc' = "idle" /\ call' = NoCall /\ accepted' = accepted + call.total
    BY <1>9 DEF WriteFail, WriteCheck, Return
  <2>2. QED
    BY <2>1, <1>w, <1>n, <1>t DEF CallFresh, Committed, InFlight, Goal
<1>10. CASE Take
  <2>1. UNCHANGED <<carrier, accepted>> /\ pc = "take" /\ pc' = "idle" /\ call' = NoCall
    BY <1>10 DEF Take, Return
  <2>2. QED
    BY <2>1, <1>f, <1>n, <1>t DEF CallFresh, Committed, InFlight, Goal
<1>11. CASE NetworkNext \/ AnyPeerNext \/ UNCHANGED vars
  BY <1>11, <1>k DEF NetworkNext, AnyPeerNext, PeerSend, Dial, Lose, Tick, vars
<1>12. CASE Step
  BY <1>3, <1>4, <1>5, <1>6, <1>7, <1>8, <1>9, <1>10, <1>12 DEF Step
<1>13. QED
  BY <1>1, <1>2, <1>11, <1>12 DEF AnyNext, DeviceNext

\* Who is served, by the effect on the connections.
LEMMA NextAccepted ==
  ASSUME TypeInv, LinkInv, CallFresh, Accepted, [AnyNext]_vars
  PROVE  Accepted'
<1>t. /\ link \in [Conn -> {"none", "open", "lost", "closed"}]
      /\ backlog \in Seq(Conn) /\ client \in Conn \cup {NoConn} /\ carrier \in Conn \cup {NoConn}
      /\ NoConn \notin Conn
  BY ConstantsAssumption DEF TypeInv, TypeOK, Conn, NoConn
<1>a. /\ \A i, j \in 1..Len(backlog) : backlog[i] = backlog[j] => i = j
      /\ carrier # NoConn => link[carrier] # "none" /\ ~Waiting(carrier)
      /\ client # NoConn => client = carrier
      /\ proto.ready => client # NoConn
  BY DEF Accepted
<1>w. \A i \in 1..Len(backlog) : link[backlog[i]] # "none"
  BY DEF LinkInv, WasDialled
<1>c. carrier' = carrier \/ AcceptClient
  BY AppEffect
<1>r. AcceptClient \/ (client' \in {client, NoConn} /\ (proto'.ready => client' # NoConn))
  <2>1. client' = client \/ CloseProtocolClient \/ AcceptClient
    BY LinkEffect DEF LinksKept, StopServer, AcceptReject, Dial, Lose
  <2>2. CloseProtocolClient => client' \in {client, NoConn} /\ ~proto'.ready
    BY ResetType DEF CloseProtocolClient
  <2>3. AcceptClient => ~proto'.ready
    BY DEF AcceptClient, AcceptedState, ResetProtocolState
  <2>4. Quiet \/ Receives \/ Sends \/ WriteStage => proto'.ready = proto.ready
    BY SessionKept DEF Quiet
  <2>5. Reads => client # NoConn
    BY DEF Reads, Handshaking, Live
  <2>6. QED
    BY <1>a, <2>1, <2>2, <2>3, <2>4, <2>5, ProtoEffect DEF Closed
<1>g. ASSUME carrier' = carrier, client' \in {client, NoConn},
             \A c \in Conn : link[c] # "none" => link'[c] # "none",
             backlog' = backlog \/ backlog' = <<>>,
             proto'.ready => client' # NoConn
      PROVE  Accepted'
  BY <1>a, <1>g, <1>t DEF Accepted, Waiting
<1>h. ASSUME backlog # <<>>, backlog' = Tail(backlog)
      PROVE  /\ backlog' \in Seq(Conn) /\ Head(backlog) \in Conn /\ link[Head(backlog)] # "none"
             /\ \A i \in 1..Len(backlog') : backlog'[i] = backlog[i + 1] /\ i + 1 \in 1..Len(backlog)
                                            /\ backlog'[i] # Head(backlog)
  <2>1. /\ Len(backlog) \in Nat \ {0} /\ Head(backlog) = backlog[1] /\ 1 \in 1..Len(backlog)
        /\ backlog' \in Seq(Conn) /\ Len(backlog') = Len(backlog) - 1
    BY <1>h, <1>t
  <2>2. \A i \in 1..Len(backlog') : backlog'[i] = backlog[i + 1] /\ i + 1 \in 1..Len(backlog) /\ i + 1 # 1
    BY <1>h, <1>t, <2>1
  <2>3. QED
    BY <1>a, <1>t, <1>w, <2>1, <2>2
<1>i. ASSUME backlog # <<>>, backlog' = Tail(backlog)
      PROVE  \A i, j \in 1..Len(backlog') : backlog'[i] = backlog'[j] => i = j
  <2>1. SUFFICES ASSUME NEW i \in 1..Len(backlog'), NEW j \in 1..Len(backlog'), backlog'[i] = backlog'[j]
                 PROVE i = j
    OBVIOUS
  <2>2. i + 1 = j + 1
    BY <1>a, <1>h, <1>i, <2>1
  <2>3. QED
    BY <2>2
<1>1. CASE LinksKept /\ ~AcceptClient
  BY <1>c, <1>g, <1>r, <1>1 DEF LinksKept
<1>2. CASE CloseProtocolClient /\ UNCHANGED backlog /\ ~AcceptClient
  <2>1. client' \in {client, NoConn} /\ \A c \in Conn : link[c] # "none" => link'[c] # "none"
    BY <1>2, <1>t DEF CloseProtocolClient
  <2>2. ~proto'.ready
    BY <1>2, ResetType DEF CloseProtocolClient
  <2>3. QED
    BY <1>2, <1>c, <1>g, <2>1, <2>2
<1>3. CASE StopServer /\ ~AcceptClient
  BY <1>c, <1>g, <1>r, <1>3, <1>t DEF StopServer
<1>4. CASE AcceptReject /\ ~AcceptClient
  <2>1. /\ backlog # <<>> /\ backlog' = Tail(backlog) /\ client' = client
        /\ link' = [link EXCEPT ![Head(backlog)] = "closed"]
    BY <1>4 DEF AcceptReject
  <2>2. \A c \in Conn : link[c] # "none" => link'[c] # "none"
    BY <1>t, <2>1
  <2>3. Waiting(carrier)' => Waiting(carrier)
    BY <1>c, <1>4, <1>h, <2>1 DEF Waiting
  <2>4. QED
    BY <1>4, <1>a, <1>c, <1>i, <1>r, <1>t, <2>1, <2>2, <2>3 DEF Accepted
<1>5. CASE AcceptClient
  <2>1. /\ backlog # <<>> /\ backlog' = Tail(backlog) /\ client' = Head(backlog) /\ carrier' = Head(backlog)
        /\ link' = link /\ ~proto'.ready
    BY <1>5 DEF AcceptClient, AcceptedState, ResetProtocolState
  <2>2. ~Waiting(carrier)'
    BY <1>h, <2>1 DEF Waiting
  <2>3. QED
    BY <1>h, <1>i, <2>1, <2>2 DEF Accepted
<1>6. ASSUME NEW c \in Conn, Dial(c), ~AcceptClient PROVE Accepted'
  <2>1. /\ link[c] = "none" /\ link' = [link EXCEPT ![c] = "open"] /\ backlog' = Append(backlog, c)
        /\ client' = client
    BY <1>6 DEF Dial
  <2>2. /\ Len(backlog') = Len(backlog) + 1 /\ backlog'[Len(backlog) + 1] = c
        /\ \A i \in 1..Len(backlog) : backlog'[i] = backlog[i] /\ backlog[i] # c
        /\ \A i \in 1..Len(backlog') : i \in 1..Len(backlog) \/ i = Len(backlog) + 1
    BY <1>t, <1>w, <2>1
  <2>3. \A i, j \in 1..Len(backlog') : backlog'[i] = backlog'[j] => i = j
    BY <1>a, <2>2
  <2>4. carrier # NoConn => ~Waiting(carrier)' /\ link'[carrier] # "none"
    <3>1. SUFFICES ASSUME carrier # NoConn PROVE ~Waiting(carrier)' /\ link'[carrier] # "none"
      OBVIOUS
    <3>2. carrier # c /\ link'[carrier] # "none"
      BY <1>a, <1>t, <2>1, <3>1
    <3>3. \A i \in 1..Len(backlog') : backlog'[i] # carrier
      BY <1>a, <2>2, <3>1, <3>2 DEF Waiting
    <3>4. QED
      BY <1>c, <1>6, <3>2, <3>3 DEF Waiting
  <2>5. QED
    BY <1>6, <1>a, <1>c, <1>r, <2>1, <2>3, <2>4 DEF Accepted
<1>7. ASSUME NEW c \in Conn, Lose(c), ~AcceptClient PROVE Accepted'
  BY <1>7, <1>c, <1>g, <1>r, <1>t DEF Lose
<1>8. QED
  BY <1>1, <1>2, <1>3, <1>4, <1>5, <1>6, <1>7, LinkEffect

\* A unit that was sent ends at some byte of the stream.
LEMMA UptoType == ASSUME NEW dir, NEW u \in Unit, WellSealed(u, dir) PROVE Upto(u) \in Nat
<1>0. CASE u.kind = "line"
  BY <1>0 DEF Upto
<1>1. CASE u.kind = "raw"
  BY <1>1 DEF Upto, Unit
<1>2. CASE u.kind = "cell"
  <2>1. u.rec.data \in Seq(Nat) /\ Len(u.rec.data) \in 1..Len(u.rec.data)
    BY <1>2, ReceivedCell DEF Record, WellSealed
  <2>2. QED
    BY <1>2, <2>1 DEF Upto
<1>3. QED
  BY <1>0, <1>1, <1>2 DEF WellSealed

\* Units that are sent one after the other in a direction.
Run(s, dir) == /\ \A i \in 1..Len(s) : WellSealed(s[i], dir)
               /\ \A i \in 1..(Len(s) - 1) : Follows(s[i], s[i + 1])

\* Two such sequences make one.
LEMMA RunJoin ==
  ASSUME NEW dir, NEW s \in Seq(Unit), NEW u \in Seq(Unit), Run(s, dir), Run(u, dir),
         s # <<>> /\ u # <<>> => Follows(s[Len(s)], u[1])
  PROVE  Run(s \o u, dir)
<1> DEFINE v == s \o u
<1>1. /\ Len(s) \in Nat /\ Len(u) \in Nat /\ Len(v) = Len(s) + Len(u)
      /\ \A i \in 1..Len(s) : v[i] = s[i]
      /\ \A i \in 1..Len(u) : v[Len(s) + i] = u[i]
      /\ s # <<>> => Len(s) \in 1..Len(s)
      /\ s = <<>> <=> Len(s) = 0
      /\ u = <<>> <=> Len(u) = 0
  OBVIOUS
<1> HIDE DEF v
<1>2. ASSUME NEW i \in 1..Len(v) PROVE WellSealed(v[i], dir)
  <2>1. CASE i \in 1..Len(s)
    BY <1>1, <2>1 DEF Run
  <2>2. CASE i \notin 1..Len(s)
    <3>1. i - Len(s) \in 1..Len(u) /\ Len(s) + (i - Len(s)) = i
      BY <1>1, <2>2
    <3>2. QED
      BY <1>1, <3>1 DEF Run
  <2>3. QED
    BY <2>1, <2>2
<1>3. ASSUME NEW i \in 1..(Len(v) - 1) PROVE Follows(v[i], v[i + 1])
  <2>1. CASE i < Len(s)
    <3>1. i \in 1..(Len(s) - 1) /\ i \in 1..Len(s) /\ i + 1 \in 1..Len(s)
      BY <1>1, <2>1
    <3>2. QED
      BY <1>1, <3>1 DEF Run
  <2>2. CASE i = Len(s)
    <3>1. s # <<>> /\ u # <<>> /\ v[i] = s[Len(s)] /\ v[i + 1] = u[1]
      BY <1>1, <2>2
    <3>2. QED
      BY <3>1
  <2>3. CASE i > Len(s)
    <3>1. PICK j \in 1..(Len(u) - 1) : i = Len(s) + j
      <4>1. i - Len(s) \in 1..(Len(u) - 1) /\ i = Len(s) + (i - Len(s))
        BY <1>1, <2>3
      <4>2. QED
        BY <4>1
    <3>2. j \in 1..Len(u) /\ j + 1 \in 1..Len(u) /\ i + 1 = Len(s) + (j + 1)
      BY <1>1, <3>1
    <3>3. v[i] = u[j] /\ v[i + 1] = u[j + 1]
      BY <1>1, <3>1, <3>2
    <3>4. QED
      BY <3>1, <3>3 DEF Run
  <2>4. QED
    BY <1>1, <2>1, <2>2, <2>3
<1>4. Run(v, dir)
  BY <1>2, <1>3 DEF Run
<1>5. QED
  BY <1>4 DEF v

\* A sequence of units that is continued properly.
LEMMA ChainJoin ==
  ASSUME NEW s \in Seq(Unit), NEW u \in Seq(Unit), Chained(s), u # <<>>,
         \A i \in 1..Len(u) : WellSealed(u[i], "d2h"),
         \A i \in 1..(Len(u) - 1) : Follows(u[i], u[i + 1]),
         s = <<>> => u[1].kind = "line",
         s # <<>> => Follows(s[Len(s)], u[1])
  PROVE  Chained(s \o u)
<1> DEFINE v == s \o u
<1>1. /\ Len(s) \in Nat /\ Len(u) \in Nat \ {0} /\ Len(v) = Len(s) + Len(u)
      /\ \A i \in 1..Len(s) : v[i] = s[i]
      /\ \A i \in 1..Len(u) : v[Len(s) + i] = u[i]
      /\ s # <<>> => Len(s) \in 1..Len(s)
      /\ s = <<>> <=> Len(s) = 0
  OBVIOUS
<1> HIDE DEF v
<1>2. Run(s, "d2h") /\ Run(u, "d2h")
  BY DEF Run, Chained
<1>3. Run(v, "d2h")
  BY <1>2, RunJoin DEF v
<1>4. v[1].kind = "line"
  <2>1. CASE s = <<>>
    <3>1. v[0 + 1] = u[1]
      BY <1>1, <2>1
    <3>2. QED
      BY <2>1, <3>1
  <2>2. CASE s # <<>>
    BY <1>1, <2>2 DEF Chained
  <2>3. QED
    BY <2>1, <2>2
<1>5. Chained(v)
  BY <1>3, <1>4 DEF Chained, Run
<1>6. QED
  BY <1>5 DEF v

\* The cells of a record with the bytes after the first n, ...
SealedCells(dir, s, k, q, n, data) ==
  /\ s # <<>>
  /\ \A i \in 1..Len(s) : /\ WellSealed(s[i], dir) /\ Upto(s[i]) = n + Len(data)
                          /\ s[i].kind = "cell" /\ s[i].rec.key = k
  /\ \A i \in 1..(Len(s) - 1) : Follows(s[i], s[i + 1])
  /\ s[1].at = 1 /\ s[1].rec.seq = q /\ s[1].rec.data = data
  /\ RecordEnd(s[Len(s)]) /\ s[Len(s)].rec.seq = q

\* ... and those bytes sent without encryption.
RawBytes(s, n, m) ==
  /\ s # <<>> /\ Len(s) = m
  /\ \A i \in 1..Len(s) : WellSealed(s[i], "d2h") /\ s[i].kind = "raw" /\ Upto(s[i]) = n + i /\ s[i].byte = n + i
  /\ \A i \in 1..(Len(s) - 1) : Follows(s[i], s[i + 1])

\* The cells of a record with the bytes after the first n follow each other.
LEMMA SealChain ==
  ASSUME NEW dir \in {"d2h", "h2d"}, NEW k \in SessionKey, NEW q \in 0..SeqMax, q # SeqMax, NEW n \in Nat,
         NEW data \in Seq(Nat), Len(data) \in 1..MaxRecord, \A j \in 1..Len(data) : data[j] = n + j,
         NEW s, s = Seal(k, dir, q, data)
  PROVE  SealedCells(dir, s, k, q, n, data)
<1> DEFINE size == HeaderSize + Len(data) + TagSize
           rec == [key |-> k, dir |-> dir, seq |-> q, data |-> data]
<1>1. size \in Nat \ {0} /\ SeqMax \in Nat /\ MaxRecord \in Nat
  BY ConstantsAssumption
<1>2. s = [i \in 1..size |-> [kind |-> "cell", at |-> i, rec |-> rec]]
  BY DEF Seal
<1>r. rec.key = k /\ rec.dir = dir /\ rec.seq = q /\ rec.data = data
  OBVIOUS
<1> HIDE DEF rec
<1>3. s \in Seq(Unit) /\ Len(s) = size
  BY SealType, ConstantsAssumption
<1>4. ASSUME NEW i \in 1..size PROVE s[i].kind = "cell" /\ s[i].at = i /\ s[i].rec = rec
  <2>1. s[i] = [kind |-> "cell", at |-> i, rec |-> rec]
    BY <1>2
  <2>2. QED
    BY <2>1
<1>5. ASSUME NEW i \in 1..size PROVE Upto(s[i]) = n + Len(data)
  BY <1>4, <1>r DEF Upto
<1>6. ASSUME NEW i \in 1..size PROVE WellSealed(s[i], dir)
  <2>1. \A j \in 1..Len(data) : data[j] = (n + Len(data)) - Len(data) + j
    OBVIOUS
  <2>2. q < SeqMax
    BY <1>1
  <2>3. QED
    <3>1. /\ s[i].rec.dir = dir /\ s[i].rec.seq = q /\ s[i].rec.data = data /\ s[i].at = i
          /\ Upto(s[i]) = n + Len(data)
      BY <1>4, <1>5, <1>r
    <3>2. s[i].at \in 1..(HeaderSize + Len(s[i].rec.data) + TagSize)
      BY <3>1
    <3>3. QED
      BY <1>4, <3>1, <3>2, <2>1, <2>2 DEF WellSealed
<1>7. ASSUME NEW i \in 1..(size - 1) PROVE Follows(s[i], s[i + 1])
  <2>1. i \in 1..size /\ i + 1 \in 1..size
    BY <1>1
  <2>2. QED
    BY <1>4, <2>1 DEF Follows
<1>8. 1 \in 1..size /\ size \in 1..size
  BY <1>1
<1>9. RecordEnd(s[size])
  BY <1>4, <1>8, <1>r DEF RecordEnd
<1>10. QED
  BY <1>1, <1>3, <1>4, <1>5, <1>6, <1>7, <1>8, <1>9, <1>r DEF SealedCells

\* The bytes after the first n, sent without encryption, do.
LEMMA RawChain ==
  ASSUME NEW n \in Nat, NEW data \in Seq(Nat), Len(data) > 0, \A j \in 1..Len(data) : data[j] = n + j,
         NEW s, s = [i \in 1..Len(data) |-> [kind |-> "raw", byte |-> data[i]]]
  PROVE  RawBytes(s, n, Len(data))
<1>1. s \in Seq(Unit) /\ Len(s) = Len(data) /\ Len(data) \in Nat
  BY RawType
<1>2. \A i \in 1..Len(s) : s[i].kind = "raw" /\ s[i].byte = n + i
  BY <1>1
<1>3. \A i \in 1..Len(s) : WellSealed(s[i], "d2h") /\ Upto(s[i]) = n + i
  BY <1>2 DEF WellSealed, Upto
<1>4. ASSUME NEW i \in 1..(Len(s) - 1) PROVE Follows(s[i], s[i + 1])
  <2>1. i \in 1..Len(s) /\ i + 1 \in 1..Len(s)
    BY <1>1
  <2>2. s[i + 1].byte = Upto(s[i]) + 1
    <3>1. s[i + 1].byte = n + (i + 1) /\ Upto(s[i]) = n + i
      BY <1>2, <1>3, <2>1
    <3>2. QED
      BY <3>1, <2>1
  <2>3. QED
    BY <1>2, <2>1, <2>2 DEF Follows
<1>5. s # <<>>
  BY <1>1
<1>6. QED
  BY <1>1, <1>2, <1>3, <1>4, <1>5 DEF RawBytes

\* Among natural numbers there is a least one.
LEMMA LeastOne ==
  ASSUME NEW T, T \subseteq Nat, T # {}
  PROVE  \E x \in T : \A y \in T : x <= y
<1>1. PICK x \in T : \A y \in T : ~ (<<y, x>> \in OpToRel(<, Nat))
  BY WFMin, NatLessThanWellFounded
<1>2. \A y \in T : ~(y < x)
  BY <1>1 DEF OpToRel
<1>3. QED
  BY <1>2


\* How many bytes of the stream have been carried when u has been sent.
Carried(u) ==
  IF u.kind # "cell" THEN Upto(u)
  ELSE Upto(u) - Len(u.rec.data)
         + (IF u.at <= HeaderSize THEN 0
            ELSE IF u.at <= HeaderSize + Len(u.rec.data) THEN u.at - HeaderSize ELSE Len(u.rec.data))

\* A unit with a byte carries the last of these, ...
LEMMA CarriedType ==
  ASSUME NEW u \in Unit, WellSealed(u, "d2h")
  PROVE  Carried(u) \in Int /\ (DataUnit(u) => PlainByte(u) = Carried(u))
<1>1. Upto(u) \in Nat
  BY UptoType
<1>2. CASE u.kind # "cell"
  BY <1>1, <1>2 DEF Carried, DataUnit, PlainByte, Upto
<1>3. CASE u.kind = "cell"
  <2>1. PICK m, a, h, n, d : m = Len(u.rec.data) /\ a = u.at /\ h = HeaderSize /\ n = Upto(u) /\ d = u.rec.data
    OBVIOUS
  <2>2. m \in Nat /\ a \in Nat /\ h \in Nat /\ n \in Int /\ \A j \in 1..m : d[j] = n - m + j
    BY <1>1, <1>3, <2>1, ConstantsAssumption DEF WellSealed
  <2>3. Carried(u) = n - m + (IF a <= h THEN 0 ELSE IF a <= h + m THEN a - h ELSE m)
    BY <1>3, <2>1 DEF Carried
  <2>4. Carried(u) \in Int
    BY <2>2, <2>3
  <2>5. ASSUME DataUnit(u) PROVE PlainByte(u) = Carried(u)
    <3>1. a \in h + 1 .. h + m /\ PlainByte(u) = d[a - h]
      BY <1>3, <2>1, <2>5 DEF DataUnit, PlainByte
    <3>2. a - h \in 1..m /\ a > h /\ a <= h + m
      BY <2>2, <3>1
    <3>3. PlainByte(u) = n - m + (a - h) /\ Carried(u) = n - m + (a - h)
      BY <2>2, <2>3, <3>1, <3>2
    <3>4. QED
      BY <3>3
  <2>6. QED
    BY <2>4, <2>5
<1>4. QED
  BY <1>2, <1>3

\* ... and each unit carries at most one byte more than the one before it.
LEMMA CarriedStep ==
  ASSUME NEW u \in Unit, NEW v \in Unit, WellSealed(u, "d2h"), WellSealed(v, "d2h"), Follows(u, v)
  PROVE  Carried(v) = Carried(u) + (IF DataUnit(v) THEN 1 ELSE 0)
<1>1. Upto(u) \in Nat /\ Upto(v) \in Nat
  BY UptoType
<1>o. ASSUME NEW b, u = OkLine(b) PROVE u.kind = "line"
  BY <1>o DEF OkLine, Line
<1>2. CASE v.kind = "line" /\ u.kind = "line"
  BY <1>2 DEF Carried, Upto, DataUnit
<1>3. CASE v.kind = "raw" /\ (u = OkLine(FALSE) \/ u.kind = "raw") /\ v.byte = Upto(u) + 1
  <2>1. u.kind # "cell"
    BY <1>3, <1>o
  <2>2. QED
    BY <1>1, <1>3, <2>1 DEF Carried, Upto, DataUnit
<1>4. CASE v.kind = "cell" /\ u.kind = "cell" /\ v.rec = u.rec /\ v.at = u.at + 1
  <2>1. PICK m, a, h, n : m = Len(u.rec.data) /\ a = u.at /\ h = HeaderSize /\ n = Upto(u)
    OBVIOUS
  <2>2. m \in Nat /\ a \in Nat /\ h \in Nat /\ n \in Nat
    BY <1>1, <1>4, <2>1, ConstantsAssumption DEF WellSealed
  <2>3. Carried(u) = n - m + (IF a <= h THEN 0 ELSE IF a <= h + m THEN a - h ELSE m)
    BY <1>4, <2>1 DEF Carried
  <2>4. Carried(v) = n - m + (IF a + 1 <= h THEN 0 ELSE IF a + 1 <= h + m THEN a + 1 - h ELSE m)
    <3>1. Upto(v) = n
      BY <1>4, <2>1 DEF Upto
    <3>2. v.kind = "cell" /\ Len(v.rec.data) = m /\ v.at = a + 1
      BY <1>4, <2>1
    <3>3. Carried(v) = Upto(v) - Len(v.rec.data)
                       + (IF v.at <= HeaderSize THEN 0
                          ELSE IF v.at <= HeaderSize + Len(v.rec.data) THEN v.at - HeaderSize
                          ELSE Len(v.rec.data))
      BY <3>2 DEF Carried
    <3>4. QED
      BY SMTT(60), <2>1, <2>2, <3>1, <3>2, <3>3
  <2>5. DataUnit(v) <=> a + 1 \in h + 1 .. h + m
    BY <1>4, <2>1 DEF DataUnit
  <2>6. QED
    BY <2>2, <2>3, <2>4, <2>5
<1>5. CASE /\ v.kind = "cell" /\ v.at = 1 /\ (u = OkLine(TRUE) \/ RecordEnd(u))
           /\ Upto(v) = Upto(u) + Len(v.rec.data)
  <2>2. Len(v.rec.data) \in Nat
    BY <1>5 DEF WellSealed
  <2>1. ~DataUnit(v) /\ Carried(v) = Upto(v) - Len(v.rec.data)
    <3>1. HeaderSize \in Nat /\ 1 <= HeaderSize /\ 1 \notin HeaderSize + 1 .. HeaderSize + Len(v.rec.data)
      BY <2>2, ConstantsAssumption
    <3>2. Carried(v) = Upto(v) - Len(v.rec.data) + 0
      BY <1>5, <3>1 DEF Carried
    <3>3. ~DataUnit(v)
      BY <1>5, <3>1 DEF DataUnit
    <3>4. QED
      BY <1>1, <2>2, <3>2, <3>3
  <2>3. Carried(u) = Upto(u)
    <3>1. CASE u = OkLine(TRUE)
      BY <3>1, <1>o DEF Carried
    <3>2. CASE RecordEnd(u)
      <4>1. PICK m, h, n, t : m = Len(u.rec.data) /\ h = HeaderSize /\ n = Upto(u) /\ t = TagSize
        OBVIOUS
      <4>2. m \in Nat /\ h \in Nat /\ n \in Nat /\ t \in Nat \ {0} /\ u.kind = "cell" /\ u.at = h + m + t
        BY <1>1, <3>2, <4>1, ConstantsAssumption DEF WellSealed, RecordEnd
      <4>3. Carried(u) = n - m + (IF u.at <= h THEN 0 ELSE IF u.at <= h + m THEN u.at - h ELSE m)
        BY <4>1, <4>2 DEF Carried
      <4>4. QED
        BY <4>1, <4>2, <4>3
    <3>3. QED
      BY <1>5, <3>1, <3>2
  <2>4. QED
    BY <1>1, <1>5, <2>1, <2>2, <2>3
<1>6. QED
  BY <1>2, <1>3, <1>4, <1>5 DEF Follows

\* A chained sequence carries its bytes in order and without a gap.  The proof
\* looks at the first unit that would go back, and at the first one that
\* reaches a byte.
LEMMA ChainCarries ==
  ASSUME NEW s \in Seq(Unit), s # <<>>, Chained(s), NEW n \in Nat, Carried(s[Len(s)]) = n
  PROVE  CarriesFirst(s, n)
<1> DEFINE C(i) == Carried(s[i])
           N == Len(s)
<1>1. /\ N \in Nat \ {0} /\ 1 \in 1..N /\ N \in 1..N
      /\ \A i \in 1..N : s[i] \in Unit /\ WellSealed(s[i], "d2h")
  BY DEF Chained
<1>2. \A i \in 1..N : C(i) \in Int /\ (DataUnit(s[i]) => PlainByte(s[i]) = C(i))
  BY <1>1, CarriedType
<1>3. ASSUME NEW i \in 1..N, i # 1
      PROVE  i - 1 \in 1..N /\ C(i) = C(i - 1) + (IF DataUnit(s[i]) THEN 1 ELSE 0)
  <2>1. i - 1 \in 1..(N - 1) /\ i - 1 \in 1..N /\ (i - 1) + 1 = i
    BY <1>1, <1>3
  <2>2. Follows(s[i - 1], s[i])
    BY <2>1 DEF Chained
  <2>3. QED
    BY <1>1, <2>1, <2>2, CarriedStep
<1>4. C(1) = 0 /\ ~DataUnit(s[1])
  <2>1. s[1].kind = "line"
    BY <1>1 DEF Chained
  <2>2. QED
    BY <2>1 DEF Carried, Upto, DataUnit
<1>5. C(N) = n
  OBVIOUS
<1> HIDE DEF C, N
<1>6. ASSUME NEW i \in 1..N, NEW j \in 1..N, i <= j PROVE C(i) <= C(j)
  <2> DEFINE T == {k \in 1..N : i <= k /\ C(k) < C(i)}
  <2>1. SUFFICES ASSUME T # {} PROVE FALSE
    BY <1>2, <1>6
  <2>2. PICK k \in T : \A y \in T : k <= y
    <3>1. T \subseteq Nat
      BY <1>1
    <3>2. QED
      BY <2>1, <3>1, LeastOne
  <2>3. k \in 1..N /\ i <= k /\ C(k) < C(i) /\ k # i
    BY <1>2, <2>2
  <2>4. k # 1 /\ i <= k - 1
    BY <2>3
  <2>5. k - 1 \in 1..N /\ C(k) >= C(k - 1)
    <3>1. k - 1 \in 1..N /\ C(k) = C(k - 1) + (IF DataUnit(s[k]) THEN 1 ELSE 0)
      BY <1>3, <2>3, <2>4
    <3>2. C(k) \in Int /\ C(k - 1) \in Int
      BY <1>2, <2>3, <3>1
    <3>3. QED
      BY <3>1, <3>2
  <2>6. C(k - 1) < C(i)
    BY <1>2, <2>3, <2>5
  <2>7. k - 1 \in T
    BY <2>4, <2>5, <2>6
  <2>8. k <= k - 1
    BY <2>2, <2>7
  <2>9. QED
    BY <2>3, <2>8
<1>7. ASSUME NEW i \in 1..N, NEW j \in 1..N, DataUnit(s[i]), DataUnit(s[j]), i < j
      PROVE  PlainByte(s[i]) < PlainByte(s[j])
  <2>1. j # 1 /\ i <= j - 1
    BY <1>7
  <2>2. j - 1 \in 1..N /\ C(j) = C(j - 1) + 1
    BY <1>3, <1>7, <2>1
  <2>3. C(i) <= C(j - 1)
    BY <1>6, <2>1, <2>2
  <2>4. QED
    BY <1>2, <1>7, <2>2, <2>3
<1>8. ASSUME NEW i \in 1..N, DataUnit(s[i]) PROVE PlainByte(s[i]) \in 1..n
  <2>1. i # 1
    BY <1>4, <1>8
  <2>2. i - 1 \in 1..N /\ C(i) = C(i - 1) + 1
    BY <1>3, <1>8, <2>1
  <2>3. C(1) <= C(i - 1) /\ C(i) <= C(N)
    BY <1>1, <1>6, <2>2
  <2>4. QED
    BY <1>2, <1>4, <1>5, <1>8, <2>2, <2>3
<1>9. ASSUME NEW b \in 1..n PROVE \E i \in 1..N : DataUnit(s[i]) /\ PlainByte(s[i]) = b
  <2> DEFINE T == {k \in 1..N : C(k) >= b}
  <2>1. PICK k \in T : \A y \in T : k <= y
    <3>1. T \subseteq Nat
      BY <1>1
    <3>2. N \in T
      BY <1>1, <1>5
    <3>3. QED
      BY <3>1, <3>2, LeastOne
  <2>2. k \in 1..N /\ C(k) >= b /\ k # 1
    BY <1>4, <2>1
  <2>3. k - 1 \in 1..N /\ C(k) = C(k - 1) + (IF DataUnit(s[k]) THEN 1 ELSE 0)
    BY <1>3, <2>2
  <2>4. C(k - 1) < b
    <3>1. k - 1 \notin T
      <4>1. ASSUME k - 1 \in T PROVE FALSE
        <5>1. k <= k - 1
          BY <2>1, <4>1
        <5>2. QED
          BY <2>2, <5>1
      <4>2. QED
        BY <4>1
    <3>2. QED
      BY <1>2, <2>3, <3>1
  <2>5. DataUnit(s[k]) /\ C(k) = b
    BY <1>2, <2>2, <2>3, <2>4
  <2>6. QED
    BY <1>2, <2>2, <2>5
<1>10. QED
  BY <1>7, <1>8, <1>9 DEF CarriesFirst, N

\* write() continues the stream.
LEMMA Staging ==
  ASSUME TypeInv, SessionInv, SentInv, WriteStage, Committed' = Committed + Len(Chunk)
  PROVE  /\ Chained(staged') /\ Bounded' /\ StreamGoesOn' /\ OkMeansReady' /\ ~Handshaking'
         /\ \E u \in Seq(Unit) : staged' = staged \o u
<1>t. /\ proto \in ProtoType /\ staged \in Seq(Unit) /\ accepted \in Nat /\ call.total \in Nat
      /\ proto.txSeq \in 0..SeqMax /\ Committed \in Nat
  <2>1. proto \in ProtoType /\ staged \in Seq(Unit) /\ accepted \in Nat /\ call.total \in Nat
    BY DEF TypeInv, TypeOK
  <2>2. proto.txSeq \in 0..SeqMax
    BY <2>1 DEF ProtoType
  <2>3. Committed \in Nat
    BY <2>1 DEF Committed, InFlight
  <2>4. QED
    BY <2>1, <2>2, <2>3
<1>1. pc = "writeLoop" /\ proto.ready /\ call.total < call.size /\ Committed = accepted + call.total
  BY DEF WriteStage, SessionInv, LoopReady, TypeInv, CallShape, Committed, InFlight
<1>2. /\ Chunk \in Seq(Nat) /\ Len(Chunk) \in 1..MaxRecord
      /\ \A j \in 1..Len(Chunk) : Chunk[j] = Committed + j
  <2>1. Chunk \in Seq(Nat) /\ Len(Chunk) \in 1..MaxRecord
    BY <1>1, ChunkType DEF TypeInv
  <2>2. PICK m : m = Least(call.size - call.total, MaxRecord)
    OBVIOUS
  <2>3. m \in Nat
    <3>1. call.size \in Nat /\ call.total \in Nat /\ MaxRecord \in Nat
      BY ConstantsAssumption DEF TypeInv, TypeOK
    <3>2. call.size - call.total \in Nat
      BY <1>1, <3>1
    <3>3. QED
      BY <2>2, <3>1, <3>2 DEF Least
  <2>4. Chunk = [i \in 1..m |-> accepted + call.total + i] /\ Len(Chunk) = m
    BY <2>2, <2>3 DEF Chunk
  <2>5. \A j \in 1..Len(Chunk) : Chunk[j] = accepted + call.total + j
    BY <2>4
  <2>6. QED
    BY <1>1, <2>1, <2>5
<1>3. PICK u : u = Encode(Chunk)
  OBVIOUS
<1>4. u \in Seq(Unit)
  BY <1>2, <1>3, EncodeType, ConstantsAssumption
<1>5. staged' = staged \o u
  BY <1>3 DEF WriteStage
<1>6. proto'.ready /\ proto'.secure = proto.secure
  BY <1>1, SessionKept
<1>7. /\ proto.secure => proto'.txSeq = proto.txSeq + 1 /\ proto.txSeq # SeqMax /\ proto.key \in SessionKey
      /\ proto'.key = proto.key
  <2>1. proto' = [proto EXCEPT !.txPending = Encode(Chunk), !.txSeq = IF proto.secure THEN NextTxSequence ELSE @]
    BY DEF WriteStage
  <2>2. QED
    BY <2>1, <1>t DEF NextTxSequence, WriteStage, ProtoType, TypeInv, SecureKey
<1>8. PICK last : last = staged[Len(staged)]
  OBVIOUS
<1>9. /\ Chained(staged) /\ Bounded /\ staged # <<>> /\ Upto(last) = Committed
      /\ IF proto.secure THEN (last = OkLine(TRUE) \/ RecordEnd(last)) /\ NextSeq(last) = proto.txSeq
         ELSE last = OkLine(FALSE) \/ last.kind = "raw"
  BY <1>1, <1>8 DEF SentInv, StreamGoesOn
<1>10. /\ u # <<>>
       /\ \A i \in 1..Len(u) : WellSealed(u[i], "d2h") /\ u[i].kind # "line" /\ Upto(u[i]) <= Committed + Len(Chunk)
       /\ \A i \in 1..(Len(u) - 1) : Follows(u[i], u[i + 1])
       /\ Follows(last, u[1])
       /\ Upto(u[Len(u)]) = Committed + Len(Chunk)
       /\ IF proto.secure THEN RecordEnd(u[Len(u)]) /\ NextSeq(u[Len(u)]) = proto.txSeq + 1
          ELSE u[Len(u)].kind = "raw"
  <2>1. CASE proto.secure
    <3>1. u = Seal(proto.key, "d2h", proto.txSeq, Chunk)
      BY <1>3, <2>1 DEF Encode
    <3>2. SealedCells("d2h", u, proto.key, proto.txSeq, Committed, Chunk)
      BY <1>2, <1>7, <1>t, <2>1, <3>1, SealChain
    <3>3. 1 \in 1..Len(u) /\ Len(u) \in 1..Len(u)
      BY <1>4, <3>2 DEF SealedCells
    <3>4. Follows(last, u[1])
      BY <1>9, <2>1, <3>2, <3>3 DEF Follows, SealedCells
    <3>5. NextSeq(u[Len(u)]) = proto.txSeq + 1
      BY <3>2, <3>3 DEF NextSeq, SealedCells
    <3>6. Committed + Len(Chunk) \in Nat
      BY <1>2, <1>t
    <3>7. QED
      BY <2>1, <3>2, <3>3, <3>4, <3>5, <3>6 DEF SealedCells
  <2>2. CASE ~proto.secure
    <3>1. u = [i \in 1..Len(Chunk) |-> [kind |-> "raw", byte |-> Chunk[i]]]
      BY <1>3, <2>2 DEF Encode
    <3>2. Len(Chunk) > 0
      BY <1>2
    <3>3. RawBytes(u, Committed, Len(Chunk))
      BY <1>2, <1>t, <3>1, <3>2, RawChain
    <3>4. 1 \in 1..Len(u) /\ Len(u) \in 1..Len(u)
      BY <1>4, <3>3 DEF RawBytes
    <3>5. Follows(last, u[1])
      BY <1>9, <2>2, <3>3, <3>4 DEF Follows, RawBytes
    <3>6. \A i \in 1..Len(u) : Upto(u[i]) <= Committed + Len(Chunk)
      <4>1. Len(u) = Len(Chunk) /\ \A i \in 1..Len(u) : Upto(u[i]) = Committed + i
        BY <3>3 DEF RawBytes
      <4>2. QED
        BY <1>2, <1>t, <4>1
    <3>7. QED
      BY <2>2, <3>3, <3>4, <3>5, <3>6 DEF RawBytes
  <2>3. QED
    BY <2>1, <2>2
<1>11. Chained(staged')
  BY <1>t, <1>4, <1>5, <1>8, <1>9, <1>10, ChainJoin
<1>12. /\ Len(staged') = Len(staged) + Len(u) /\ staged' # <<>>
       /\ staged'[Len(staged')] = u[Len(u)]
       /\ \A i \in 1..Len(staged') : \/ i \in 1..Len(staged) /\ staged'[i] = staged[i]
                                     \/ i - Len(staged) \in 1..Len(u) /\ staged'[i] = u[i - Len(staged)]
  BY <1>t, <1>4, <1>5, <1>10
<1>13. Bounded'
  <2>1. \A i \in 1..Len(staged) : Upto(staged[i]) <= Committed /\ Upto(staged[i]) \in Int
    <3>1. \A i \in 1..Len(staged) : Upto(staged[i]) <= Committed
      BY <1>9 DEF Bounded
    <3>2. ASSUME NEW i \in 1..Len(staged) PROVE Upto(staged[i]) \in Int
      <4>1. staged[i] \in Unit /\ WellSealed(staged[i], "d2h")
        BY <1>t, <1>9 DEF Chained
      <4>2. QED
        BY <4>1, UptoType
    <3>3. QED
      BY <3>1, <3>2
  <2>2. \A i \in 1..Len(staged) : Upto(staged[i]) <= Committed + Len(Chunk)
    BY <1>2, <1>t, <2>1
  <2>3. ASSUME NEW i \in 1..Len(staged') PROVE Upto(staged'[i]) <= Committed + Len(Chunk)
    BY <1>10, <1>12, <2>2
  <2>4. QED
    BY <2>3 DEF Bounded
<1>14. StreamGoesOn'
  BY <1>6, <1>7, <1>10, <1>12 DEF StreamGoesOn
<1>15. OkMeansReady'
  BY <1>1, <1>6, <1>10, <1>12 DEF OkMeansReady, SentInv
<1>16. ~Handshaking'
  BY <1>6 DEF Handshaking
<1>17. QED
  BY <1>4, <1>5, <1>11, <1>13, <1>14, <1>15, <1>16

\* What a step leaves alone that sends nothing and starts no session.
LEMMA NothingSent ==
  ASSUME SentInv, UNCHANGED <<wire, staged>>, Committed' = Committed,
         proto'.ready => /\ proto.ready /\ proto'.secure = proto.secure
                         /\ proto'.txSeq = proto.txSeq,
         Handshaking' => Handshaking
  PROVE  /\ WirePrefix' /\ Chained(staged') /\ StreamStarts' /\ OkMeansReady' /\ StreamGoesOn'
         /\ Bounded'
<1> USE DEF SentInv
<1>1. WirePrefix' /\ Chained(staged') /\ Bounded'
  BY DEF WirePrefix, Bounded
<1>2. StreamStarts'
  BY DEF StreamStarts
<1>3. StreamGoesOn'
  BY DEF StreamGoesOn
<1>4. OkMeansReady'
  BY DEF OkMeansReady, Handshaking
<1>5. QED
  BY <1>1, <1>2, <1>3, <1>4

\* A line of the handshake is sent, which may be the OK that ends it.
LEMMA LineSent ==
  ASSUME TypeInv, TypeInv', SessionInv, StreamIntegrity, SentInv, Handshaking,
         NEW m, SendControlLine(m, TRUE), Committed' = Committed,
         m.type = "OK" => m = [type |-> "OK", secure |-> proto'.secure],
         m.type = "OK" <=> proto'.ready,
         proto'.ready /\ proto'.secure => proto'.txSeq = 0
  PROVE  /\ WirePrefix' /\ Chained(staged') /\ StreamStarts' /\ OkMeansReady' /\ StreamGoesOn'
         /\ Bounded'
<1>t. /\ proto \in ProtoType /\ wire \in Seq(Unit) /\ staged \in Seq(Unit) /\ staged' \in Seq(Unit)
  BY DEF TypeInv, TypeOK
<1>1. wire = staged
  <2>1. proto.txPending = <<>> /\ Live
    BY DEF Handshaking, SessionInv, Clean
  <2>2. QED
    BY <1>t, <2>1 DEF StreamIntegrity
<1>2. PICK u : u = <<Line(m)>>
  OBVIOUS
<1>3. wire' = staged' /\ staged' = Append(staged, Line(m))
  BY <1>1 DEF SendControlLine
<1>4. /\ Len(staged') = Len(staged) + 1 /\ staged'[Len(staged) + 1] = Line(m)
      /\ \A i \in 1..Len(staged) : staged'[i] = staged[i]
      /\ Len(staged) \in Nat /\ staged' # <<>>
      /\ \A i \in 1..Len(staged') : i = Len(staged) + 1 \/ i \in 1..Len(staged)
  BY <1>t, <1>3
<1>5. Line(m) \in Unit
  <2>1. Len(staged) + 1 \in 1..Len(staged')
    BY <1>4
  <2>2. QED
    BY <1>4, <1>t, <2>1
<1>6. /\ Line(m).kind = "line" /\ Line(m).msg = m
      /\ Upto(Line(m)) = 0 /\ NextSeq(Line(m)) = 0 /\ WellSealed(Line(m), "d2h")
  BY DEF Line, Upto, NextSeq, WellSealed
<1>7. /\ Committed = 0 /\ Chained(staged) /\ Bounded
      /\ \A i \in 1..Len(staged) : staged[i].kind = "line" /\ staged[i].msg.type # "OK"
  BY DEF SentInv, StreamStarts, OkMeansReady, Handshaking
<1>8. Chained(staged')
  <2>1. u \in Seq(Unit) /\ u # <<>> /\ Len(u) = 1 /\ u[1] = Line(m) /\ staged' = staged \o u
    BY <1>t, <1>2, <1>3, <1>5
  <2>2. \A i \in 1..Len(u) : WellSealed(u[i], "d2h")
    BY <2>1, <1>6
  <2>3. \A i \in 1..(Len(u) - 1) : Follows(u[i], u[i + 1])
    BY <2>1
  <2>4. staged # <<>> => Follows(staged[Len(staged)], u[1])
    <3>1. staged # <<>> => Len(staged) \in 1..Len(staged)
      BY <1>t
    <3>2. QED
      BY <1>6, <1>7, <2>1, <3>1 DEF Follows
  <2>5. QED
    BY <1>t, <1>6, <1>7, <2>1, <2>2, <2>3, <2>4, ChainJoin
<1>9. WirePrefix'
  BY <1>3, <1>4 DEF WirePrefix
<1>10. Bounded'
  BY <1>4, <1>6, <1>7 DEF Bounded
<1>11. StreamStarts'
  BY <1>4, <1>6, <1>7 DEF StreamStarts
<1>12. OkMeansReady'
  BY <1>4, <1>6, <1>7 DEF OkMeansReady, OkLine
<1>13. StreamGoesOn'
  <2>1. Len(staged') = Len(staged) + 1 /\ staged'[Len(staged')] = Line(m)
    BY <1>4
  <2>2. proto'.ready => Line(m) = OkLine(proto'.secure) /\ proto'.secure \in BOOLEAN
    BY DEF OkLine, TypeInv, TypeOK, ProtoType
  <2>3. QED
    BY <1>4, <1>6, <1>7, <2>1, <2>2 DEF StreamGoesOn
<1>14. QED
  BY <1>8, <1>9, <1>10, <1>11, <1>12, <1>13

\* What has been sent stays what was committed, whatever the step.
LEMMA NextSent ==
  ASSUME TypeInv, LinkInv, SessionInv, StreamIntegrity, SentInv, [AnyNext]_vars
  PROVE  SentInv'
<1> DEFINE Stream == /\ WirePrefix' /\ Chained(staged') /\ StreamStarts' /\ OkMeansReady'
                     /\ StreamGoesOn' /\ Bounded'
<1>t. /\ proto \in ProtoType /\ wire \in Seq(Unit) /\ staged \in Seq(Unit)
      /\ wire' \in Seq(Unit) /\ staged' \in Seq(Unit) /\ TypeInv'
  BY NextType DEF TypeInv, TypeOK
<1>1. Accepted' /\ CallFresh'
  BY NextAccepted, AppEffect DEF SentInv
<1>2. CASE AcceptClient
  <2>1. /\ wire' = <<>> /\ staged' = <<>> /\ ~proto'.ready /\ ~proto'.secure /\ proto'.key = NoSession
    BY <1>2 DEF AcceptClient, AcceptedState, ResetProtocolState
  <2>2. Committed' = 0
    <3>1. pc' = "greet" /\ accepted' = 0
      BY <1>2 DEF AcceptClient
    <3>2. QED
      BY <3>1 DEF Committed, InFlight
  <2>3. QED
    BY <1>1, <2>1, <2>2
    DEF SentInv, RawHasNoKey, WirePrefix, Chained, StreamStarts, OkMeansReady, StreamGoesOn, Bounded
<1>3. CASE WriteStage
  <2>1. Committed' = Committed + Len(Chunk)
    <3>1. /\ pc = "writeLoop" /\ pc' = "writeDrain" /\ accepted' = accepted
          /\ call' = [call EXCEPT !.total = @ + Len(Chunk)] /\ call.total \in Nat
          /\ accepted \in Nat /\ Len(Chunk) \in Nat
      <4>1. Chunk \in Seq(Nat)
        BY <1>3, ChunkType DEF TypeInv, CallShape, WriteStage
      <4>2. QED
        BY <1>3, <4>1 DEF WriteStage, app, TypeInv, TypeOK
    <3>2. call'.total = call.total + Len(Chunk)
      BY <3>1 DEF TypeInv, TypeOK
    <3>3. QED
      BY <3>1, <3>2 DEF Committed, InFlight
  <2>2. /\ Chained(staged') /\ Bounded' /\ StreamGoesOn' /\ OkMeansReady' /\ ~Handshaking'
        /\ \E u \in Seq(Unit) : staged' = staged \o u
    BY <1>3, <2>1, Staging
  <2>3. WirePrefix'
    <3>1. PICK u \in Seq(Unit) : staged' = staged \o u
      BY <2>2
    <3>2. wire' = wire
      BY <1>3 DEF WriteStage
    <3>3. Len(staged) <= Len(staged') /\ \A i \in 1..Len(staged) : staged'[i] = staged[i]
      BY <1>t, <3>1
    <3>4. QED
      BY <1>t, <3>2, <3>3 DEF WirePrefix, SentInv
  <2>4. RawHasNoKey'
    BY <1>3, SessionKept DEF RawHasNoKey, SentInv
  <2>5. QED
    BY <1>1, <2>2, <2>3, <2>4 DEF SentInv, StreamStarts
<1>4. CASE ~AcceptClient /\ ~WriteStage
  <2>c. Committed' = Committed
    BY <1>4, AppEffect DEF SentInv
  <2>l. Live' => Live /\ client' = client
    BY <1>4, LiveStable
  <2>1. CASE Quiet
    <3>1. proto' = proto /\ wire' = wire /\ staged' = staged
      BY <2>1 DEF Quiet
    <3>2. Stream
      BY <2>c, <2>l, <3>1, NothingSent DEF Handshaking
    <3>3. QED
      BY <1>1, <3>1, <3>2 DEF SentInv, RawHasNoKey
  <2>2. CASE Closed
    <3>1. ~proto'.ready /\ ~proto'.secure /\ proto'.key = NoSession /\ ~Live'
      BY <2>2, CloseType DEF Closed, TypeInv, CloseProtocolClient, ResetProtocolState
    <3>2. Stream
      <4>1. CASE UNCHANGED output
        BY <2>c, <3>1, <4>1, NothingSent DEF Handshaking, output
      <4>2. CASE Handshaking /\ SendControlLine([type |-> "ERR"], TRUE)
        <5>1. PICK m : m = [type |-> "ERR"]
          OBVIOUS
        <5>2. m.type # "OK" /\ SendControlLine(m, TRUE)
          BY <4>2, <5>1
        <5>3. QED
          BY <1>t, <2>c, <3>1, <4>2, <5>2, LineSent
      <4>3. QED
        BY <2>2, <4>1, <4>2 DEF Closed
    <3>3. QED
      BY <1>1, <3>1, <3>2 DEF SentInv, RawHasNoKey
  <2>3. CASE Reads
    <3>h. Handshaking /\ ~proto.ready /\ ~proto.secure /\ proto.key = NoSession
      BY <2>3 DEF Reads, Handshaking, SessionInv, Clean, SentInv, RawHasNoKey
    <3>1. ASSUME proto' = [proto EXCEPT !.line = @ + 1], UNCHANGED <<wire, staged>> PROVE SentInv'
      <4>1. proto'.ready = proto.ready /\ proto'.secure = proto.secure /\ proto'.key = proto.key
        BY <1>t, <3>1 DEF ProtoType
      <4>2. Stream
        BY <2>c, <2>l, <3>1, <3>h, <4>1, NothingSent DEF Handshaking
      <4>3. QED
        BY <1>1, <3>h, <4>1, <4>2 DEF SentInv, RawHasNoKey
    <3>2. ASSUME proto' = ReadyState(proto), SendControlLine([type |-> "OK", secure |-> FALSE], TRUE)
          PROVE  SentInv'
      <4>1. proto'.ready /\ ~proto'.secure /\ proto'.key = NoSession
        BY <1>t, <3>2, <3>h DEF ProtoType, ReadyState
      <4>2. PICK m : m = [type |-> "OK", secure |-> FALSE]
        OBVIOUS
      <4>3. m.type = "OK" /\ m = [type |-> "OK", secure |-> proto'.secure] /\ SendControlLine(m, TRUE)
        <5>1. proto'.secure = FALSE
          BY <1>t, <4>1 DEF TypeInv, TypeOK, ProtoType
        <5>2. QED
          BY <3>2, <4>2, <5>1
      <4>4. Stream
        BY <1>t, <2>c, <3>h, <4>1, <4>3, LineSent
      <4>5. QED
        BY <1>1, <4>1, <4>4 DEF SentInv, RawHasNoKey
    <3>3. ASSUME NEW cn, NEW proof, proto' = ChallengeState(cn, nonceCount'),
                 SendControlLine([type |-> "CHALLENGE", nonce |-> nonceCount', proof |-> proof], TRUE)
          PROVE  SentInv'
      <4>1. ~proto'.ready /\ ~proto'.secure /\ proto'.key = NoSession
        BY <1>t, <3>3, <3>h DEF ProtoType, ChallengeState
      <4>2. PICK m : m = [type |-> "CHALLENGE", nonce |-> nonceCount', proof |-> proof]
        OBVIOUS
      <4>3. m.type # "OK" /\ SendControlLine(m, TRUE)
        BY <3>3, <4>2
      <4>4. Stream
        BY <1>t, <2>c, <3>h, <4>1, <4>3, LineSent
      <4>5. QED
        BY <1>1, <4>1, <4>4 DEF SentInv, RawHasNoKey
    <3>4. ASSUME proto' = ReadyState([DeriveSessionKeys(proto) EXCEPT !.secure = TRUE]),
                 SendControlLine([type |-> "OK", secure |-> TRUE], TRUE)
          PROVE  SentInv'
      <4>1. proto'.ready /\ proto'.secure = TRUE /\ proto'.txSeq = 0
        BY <1>t, <3>4, <3>h DEF ProtoType, ReadyState, DeriveSessionKeys
      <4>2. PICK m : m = [type |-> "OK", secure |-> TRUE]
        OBVIOUS
      <4>3. m.type = "OK" /\ m = [type |-> "OK", secure |-> proto'.secure] /\ SendControlLine(m, TRUE)
        BY <3>4, <4>1, <4>2
      <4>4. Stream
        BY <1>t, <2>c, <3>h, <4>1, <4>3, LineSent
      <4>5. QED
        BY <1>1, <4>1, <4>4 DEF SentInv, RawHasNoKey
    <3>5. QED
      BY <2>3, <3>1, <3>2, <3>3, <3>4 DEF Reads
  <2>4. CASE Receives \/ Sends
    <3>1. /\ proto'.ready = proto.ready /\ proto'.secure = proto.secure /\ proto'.key = proto.key
      BY <2>4, SessionKept
    <3>2. proto'.txSeq = proto.txSeq
      <4>1. CASE Receives
        <5>1. PICK a, g, b, c : proto' = [proto EXCEPT !.rxRecord = a, !.rxTag = g, !.rxSeq = b, !.rxPlain = c]
          BY <4>1 DEF Receives
        <5>2. QED
          BY <1>t, <5>1 DEF ProtoType
      <4>2. CASE Sends
        <5>1. PICK t : proto' = [proto EXCEPT !.txPending = t]
          BY <4>2 DEF Sends, DrainSend
        <5>2. QED
          BY <1>t, <5>1 DEF ProtoType
      <4>3. QED
        BY <2>4, <4>1, <4>2
    <3>3. RawHasNoKey'
      BY <3>1 DEF RawHasNoKey, SentInv
    <3>4. CASE wire' = wire
      <4>1. staged' = staged
        BY <2>4 DEF Receives, Sends
      <4>2. Stream
        BY <2>c, <2>l, <3>1, <3>2, <3>4, <4>1, NothingSent DEF Handshaking
      <4>3. QED
        BY <1>1, <3>3, <4>2 DEF SentInv
    <3>5. ASSUME Session, NEW k \in 1..Len(proto.txPending), wire' = wire \o SubSeq(proto.txPending, 1, k),
                 staged' = staged
          PROVE  SentInv'
      <4>1. PICK p : p = proto.txPending
        OBVIOUS
      <4>2. p \in Seq(Unit) /\ k \in 1..Len(p) /\ staged = wire \o p /\ wire' = wire \o SubSeq(p, 1, k)
        BY <1>t, <3>5, <4>1 DEF ProtoType, Session, StreamIntegrity
      <4>3. /\ Len(wire') = Len(wire) + k /\ Len(staged) = Len(wire) + Len(p)
            /\ \A i \in 1..Len(wire') : wire'[i] = staged[i]
        BY <1>t, <4>2
      <4>4. WirePrefix'
        BY SMTT(60), <1>t, <3>5, <4>2, <4>3 DEF WirePrefix
      <4>5. ~Handshaking' /\ proto'.ready /\ proto.ready
        BY <3>1, <3>5 DEF Handshaking, Session
      <4>6. Chained(staged') /\ Bounded' /\ OkMeansReady' /\ StreamGoesOn' /\ StreamStarts'
        BY <2>c, <3>1, <3>2, <3>5, <4>5
        DEF SentInv, Bounded, OkMeansReady, StreamGoesOn, StreamStarts
      <4>7. QED
        BY <1>1, <3>3, <4>4, <4>6 DEF SentInv
    <3>6. QED
      BY <2>4, <3>4, <3>5 DEF Receives, Sends, DrainSend
  <2>5. QED
    BY <1>4, <2>1, <2>2, <2>3, <2>4, ProtoEffect
<1>5. QED
  BY <1>2, <1>3, <1>4

---------------------------------------------------------------------------
(* The theorems *)

\* The inductive invariant: the types, and what was shown part by part above.
Inv == TypeInv /\ LinkInv /\ SessionInv /\ StreamIntegrity /\ NonceInv /\ AuthCurrent /\ SentInv
         /\ BuffersFit

LEMMA InitInv == Init => Inv
<1> SUFFICES ASSUME Init PROVE Inv
  OBVIOUS
<1>1. TypeInv
  BY InitType
<1>2. ~Live /\ LinkInv
  BY DEF Init, Live, LinkInv, WasDialled, NoConnectionLeak
<1>3. SessionInv
  BY DEF Init, ResetProtocolState, SessionInv, HsReady, Clean, LoopReady
<1>4. NonceInv
  BY DEF Init, ResetProtocolState, NonceInv, UsedKeysOld, KeyAhead, ChallengeUnused
<1>5. SentInv
  <2>1. Accepted
    BY DEF Init, ResetProtocolState, Accepted
  <2>2. staged = <<>> /\ wire = <<>> /\ ~proto.ready /\ proto.key = NoSession /\ call.total = 0
    BY DEF Init, ResetProtocolState, NoCall
  <2>3. QED
    BY <1>2, <2>1, <2>2
    DEF SentInv, RawHasNoKey, WirePrefix, CallFresh, Chained, StreamStarts, OkMeansReady,
        StreamGoesOn, Bounded, Handshaking
<1>6. BuffersFit
  <2>1. /\ proto.line = 0 /\ proto.txPending = <<>> /\ proto.rxRecord = <<>> /\ proto.rxTag = <<>>
        /\ proto.rxPlain = <<>>
    BY DEF Init, ResetProtocolState
  <2>2. QED
    BY <2>1, ConstantsAssumption DEF BuffersFit
<1>7. QED
  BY <1>1, <1>2, <1>3, <1>4, <1>5, <1>6 DEF Inv, StreamIntegrity, AuthCurrent, Session

LEMMA NextInv == Inv /\ [AnyNext]_vars => Inv'
  BY NextType, NextLink, NextSession, NextStream, NextNonce, NextAuth, NextSent, NextBuffers DEF Inv

LEMMA Invariance == Spec => []Inv
<1>1. [Next]_vars => [AnyNext]_vars
  BY NextIsAny
<1>2. QED
  BY <1>1, InitInv, NextInv, PTL DEF Spec

\* Partial sends, drops and disconnects never lose, repeat or reorder a byte
\* of a connection that is still alive (write(), drainTxPending()).
THEOREM BytesInOrder == Spec => []StreamIntegrity
<1>1. Inv => StreamIntegrity
  BY DEF Inv
<1>2. QED
  BY <1>1, Invariance, PTL

\* No two records of any sessions are sealed with the same key and nonce
\* (stageSecureRecord(), deriveSessionKeys(), resetProtocolState()).
THEOREM NoncesAreFresh == Spec => []NonceFresh
<1>1. Inv => NonceFresh
  BY NonceInvImpliesFresh DEF Inv
<1>2. QED
  BY <1>1, Invariance, PTL

\* A session in use always has the protection that the key installed now asks
\* for (setAuthKey(), clearAuthKey(), processHandshakeLine()).
THEOREM SessionMatchesKey == Spec => []AuthCurrent
<1>1. Inv => AuthCurrent
  BY DEF Inv
<1>2. QED
  BY <1>1, Invariance, PTL

\* A handshake never starts with anything left of an earlier session
\* (resetProtocolState() on close and on accept).
THEOREM HandshakeStartsClean == Spec => []CleanHandshake
<1>1. Inv => CleanHandshake
  BY DEF Inv, SessionInv, Clean, CleanHandshake, Handshaking
<1>2. QED
  BY <1>1, Invariance, PTL

\* Every open connection is the client or still in the backlog: handle()
\* leaks none when it replaces or rejects a client.
THEOREM NoConnectionLost == Spec => []NoConnectionLeak
<1>1. Inv => NoConnectionLeak
  BY DEF Inv, LinkInv
<1>2. QED
  BY <1>1, Invariance, PTL

\* No record, line or plaintext overruns the array declared for it, whatever a
\* peer announces in its headers and wherever its bytes are cut
\* (stageSecureRecord(), handleSecureRx(), handleHandshake()).
THEOREM NoBufferOverrun == Spec => []BuffersFit
<1>1. Inv => BuffersFit
  BY DEF Inv
<1>2. QED
  BY <1>1, Invariance, PTL

\* A session's stream ends where write() has got to.
LEMMA StreamCarries == Inv => AcceptedBytesOnce
<1> SUFFICES ASSUME Inv, Session PROVE CarriesFirst(staged, Committed)
  BY DEF AcceptedBytesOnce, Committed
<1>1. /\ staged \in Seq(Unit) /\ staged # <<>> /\ Chained(staged) /\ Committed \in Nat
  <2>1. TypeOK
    BY DEF Inv, TypeInv
  <2>2. staged # <<>> /\ Chained(staged)
    BY DEF Inv, SentInv, StreamGoesOn, Session
  <2>3. QED
    BY <2>1, <2>2 DEF TypeOK, Committed, InFlight
<1>2. PICK last : last = staged[Len(staged)]
  OBVIOUS
<1>3. Upto(last) = Committed /\ (last = OkLine(TRUE) \/ last = OkLine(FALSE) \/ last.kind = "raw" \/ RecordEnd(last))
  BY <1>2 DEF Inv, SentInv, StreamGoesOn, Session
<1>4. Carried(last) = Committed
  <2>1. CASE last.kind # "cell"
    BY <1>3, <2>1 DEF Carried
  <2>2. CASE last.kind = "cell"
    <3>1. RecordEnd(last) /\ WellSealed(last, "d2h")
      <4>1. last \notin {OkLine(TRUE), OkLine(FALSE)}
        BY <2>2 DEF OkLine, Line
      <4>2. Len(staged) \in 1..Len(staged)
        BY <1>1
      <4>3. QED
        BY <1>1, <1>2, <1>3, <2>2, <4>1, <4>2 DEF Chained
    <3>2. PICK m, h, n, t : m = Len(last.rec.data) /\ h = HeaderSize /\ n = Upto(last) /\ t = TagSize
      OBVIOUS
    <3>3. m \in Nat /\ h \in Nat /\ n \in Nat /\ t \in Nat \ {0} /\ last.at = h + m + t
      BY <1>1, <1>3, <2>2, <3>1, <3>2, ConstantsAssumption DEF WellSealed, RecordEnd
    <3>4. Carried(last) = n - m + (IF last.at <= h THEN 0 ELSE IF last.at <= h + m THEN last.at - h ELSE m)
      BY <2>2, <3>2 DEF Carried
    <3>5. QED
      BY <1>3, <3>2, <3>3, <3>4
  <2>3. QED
    BY <2>1, <2>2
<1>5. QED
  BY <1>1, <1>2, <1>4, ChainCarries

\* What write() reports as accepted is committed to the session's stream, every
\* byte once and in order, whatever stayed pending or was dropped.
THEOREM AcceptedOnce == Spec => []AcceptedBytesOnce
BY StreamCarries, Invariance, PTL

\* recordTxDrop() adds up to the maximum and stays there.
LEMMA DropCounts ==
  ASSUME TypeOK, NEW n \in Nat, RecordTxDrop(n)
  PROVE  dropped' = [bytes |-> Least(DropBytesMax, dropped.bytes + n),
                     writes |-> Least(DropWritesMax, dropped.writes + 1)]
<1>1. PICK b, w : b = dropped.bytes /\ w = dropped.writes
  OBVIOUS
<1>2. b \in 0..DropBytesMax /\ w \in 0..DropWritesMax /\ DropBytesMax \in Nat /\ DropWritesMax \in Nat
  BY <1>1, ConstantsAssumption DEF TypeOK
<1>3. (IF DropBytesMax - b < n THEN DropBytesMax ELSE b + n) = Least(DropBytesMax, b + n)
  BY <1>2 DEF Least
<1>4. (IF w # DropWritesMax THEN w + 1 ELSE w) = Least(DropWritesMax, w + 1)
  BY <1>2 DEF Least
<1>5. QED
  BY <1>1, <1>3, <1>4 DEF RecordTxDrop

\* Only write() itself leaves its two stages that may return short.
LEMMA WriteReturns ==
  ASSUME [AnyNext]_vars, pc' # pc, pc \in {"write", "writeCheck"}
  PROVE  WriteStart \/ WriteCheck
<1> USE DEF AfterHandle
<1>1. ~AdminCall /\ ~CallHandle /\ ~DataCall
  BY DEF AdminCall, Begin, End, DisconnectClient, ClearTxDropCounters, ChangeAuthKey, CallHandle,
         DataCall, StartCall
<1>2. ~NetworkNext /\ ~AnyPeerNext /\ ~UNCHANGED vars
  BY DEF NetworkNext, AnyPeerNext, PeerSend, Dial, Lose, Tick, vars
<1>3. ASSUME NEW p \in {"handshake", "greet", "secureRx", "rxAgain", "drain", "writeDrain"}
      PROVE  ~SkipStage(p) /\ ~HandleHandshake(p) /\ ~SecureRx(p) /\ ~DrainTxPending(p)
  BY DEF SkipStage, HandleHandshake, SecureRx, DrainTxPending
<1>4. Step
  BY <1>1, <1>2 DEF AnyNext, DeviceNext
<1>5. QED
  BY <1>3, <1>4 DEF Step, StopServer, CheckDead, DrainDiscard, AcceptNone, AcceptReject, AcceptClient,
                    WriteStage, WriteFail, Take

\* write() returns short although the session goes on, ...
ReturnsShort == /\ pc' # pc /\ pc \in {"write", "writeCheck"} /\ pc' = "idle" /\ Session
                /\ call.total < call.size

\* ... and the counters have what it did not take.
Counted == dropped' = [bytes |-> Least(DropBytesMax, dropped.bytes + call.size - call.total),
                       writes |-> Least(DropWritesMax, dropped.writes + 1)]

\* Whoever the peer is, a short write is counted.
LEMMA CountsShortWrite == ASSUME Inv, [AnyNext]_vars, ReturnsShort PROVE Counted
<1> USE DEF ReturnsShort
<1>1. /\ TypeOK /\ CallFresh /\ call.size \in Nat /\ call.total \in Nat /\ dropped.bytes \in Nat
      /\ call.size - call.total \in Nat
  <2>1. TypeOK /\ CallFresh
    BY DEF Inv, SentInv, TypeInv
  <2>2. call.size \in Nat /\ call.total \in Nat /\ dropped.bytes \in Nat
    BY <2>1, ConstantsAssumption DEF TypeOK
  <2>3. QED
    BY <2>1, <2>2
<1>2. RecordTxDrop(call.size - call.total)
  <2>1. CASE WriteStart
    <3>1. call.total = 0
      BY <1>1, <2>1 DEF CallFresh, WriteStart
    <3>2. RecordTxDrop(call.size)
      BY <2>1 DEF WriteStart
    <3>3. call.size - call.total = call.size
      BY <1>1, <3>1
    <3>4. QED
      BY <3>2, <3>3
  <2>2. CASE WriteCheck
    BY <2>2 DEF WriteCheck
  <2>3. QED
    BY <2>1, <2>2, WriteReturns
<1>3. dropped.bytes + (call.size - call.total) = dropped.bytes + call.size - call.total
  BY <1>1
<1>4. QED
  BY <1>1, <1>2, <1>3, DropCounts DEF Counted

\* The drop counters tell exactly what write() did not take, on every path that
\* returns short in a session that goes on (recordTxDrop()).
THEOREM ShortWritesCounted == Spec => ShortWriteCounted
<1>1. Inv /\ [Next]_vars => [ReturnsShort => Counted]_vars
  BY CountsShortWrite, NextIsAny
<1>2. QED
  BY <1>1, Invariance, PTL DEF Spec, ShortWriteCounted, ReturnsShort, Counted

---------------------------------------------------------------------------
(* The handshake timer *)

\* What the code subtracts from millis() is the age of the timer, also when
\* millis() has wrapped since the timer was armed.
TimerTrue == Handshaking => age = (millis - proto.startedAt) % MillisMod

\* The difference of two readings of a clock that wraps at m.
LEMMA WrappedDifference ==
  ASSUME NEW m \in Nat \ {0}, NEW a \in 0..(m - 1), NEW b \in 0..(m - 1)
  PROVE  (a - b) % m = IF a >= b THEN a - b ELSE (a - b) + m
<1>1. CASE a >= b
  BY <1>1
<1>2. CASE a < b
  <2>1. (a - b) + m \in 0..(m - 1) /\ a - b = m * (-1) + ((a - b) + m)
    BY <1>2
  <2>2. QED
    BY <1>2, <2>1
<1>3. QED
  BY <1>1, <1>2

\* A step that leaves the clock alone, and sends no challenge.
Untimed == UNCHANGED clock /\ (UNCHANGED nonceCount \/ CloseProtocolClient)

\* The timer is armed by an accept and by a challenge; only millis() lets it age.
LEMMA ClockEffect ==
  [AnyNext]_vars => Tick \/ Untimed \/ AcceptClient
                    \/ (age' = 0 /\ UNCHANGED millis /\ \E cn, sn : proto' = ChallengeState(cn, sn))
<1> SUFFICES ASSUME [AnyNext]_vars, ~Tick, ~AcceptClient
             PROVE  \/ Untimed
                    \/ age' = 0 /\ UNCHANGED millis /\ \E cn, sn : proto' = ChallengeState(cn, sn)
  OBVIOUS
<1> USE DEF Untimed, clock, crypto
<1>1. CASE AdminCall
  BY <1>1 DEF AdminCall, Begin, End, DisconnectClient, ClearTxDropCounters, ChangeAuthKey
<1>2. CASE CallHandle \/ DataCall
  BY <1>2 DEF CallHandle, DataCall, StartCall
<1>3. ASSUME NEW p \in {"handshake", "greet"}, HandleHandshake(p)
      PROVE  \/ Untimed
             \/ age' = 0 /\ UNCHANGED millis /\ \E cn, sn : proto' = ChallengeState(cn, sn)
  <2>1. UNCHANGED millis
    BY <1>3 DEF HandleHandshake
  <2>2. CASE HandshakeChallenge
    <3>1. \/ UNCHANGED age /\ CloseProtocolClient
          \/ age' = 0 /\ Continue(ChallengeState(LineRead.nonce, nonceCount + 1))
      BY <2>2 DEF HandshakeChallenge, Reject
    <3>2. QED
      BY <2>1, <3>1 DEF Continue
  <2>3. CASE ~HandshakeChallenge
    <3>1. UNCHANGED <<age, nonceCount>>
      BY <1>3, <2>3 DEF HandleHandshake, HandshakeReturn, HandshakeChar, ProcessHandshakeLine,
           HandshakeQuiet, HandshakeBadHello, HandshakeRaw, HandshakeBadAuth, HandshakeSecure
    <3>2. QED
      BY <2>1, <3>1
  <2>4. QED
    BY <2>2, <2>3
<1>4. CASE Step
  BY <1>3, <1>4
  DEF Step, StopServer, CheckDead, SkipStage, SecureRx, DrainTxPending, DrainDiscard, AcceptNone,
      AcceptReject, WriteStart, WriteStage, WriteFail, WriteCheck, Take
<1>5. QED
  BY <1>1, <1>2, <1>4
  DEF AnyNext, DeviceNext, NetworkNext, AnyPeerNext, PeerSend, Dial, Lose, vars

\* While a connection stays in the handshake its timer is left alone or armed.
LEMMA TimerEffect ==
  ASSUME Inv, [AnyNext]_vars, Handshaking'
  PROVE  \/ Tick
         \/ UNCHANGED clock /\ Handshaking /\ proto'.startedAt = proto.startedAt
         \/ age' = 0 /\ UNCHANGED millis /\ proto'.startedAt = millis
<1>1. proto \in ProtoType /\ TypeInv /\ LinkInv
  BY DEF Inv, TypeInv, TypeOK
<1>2. CASE AcceptClient
  BY <1>2 DEF AcceptClient, AcceptedState, ResetProtocolState
<1>3. ASSUME NEW cn, NEW sn, proto' = ChallengeState(cn, sn) PROVE proto'.startedAt = millis
  BY <1>1, <1>3 DEF ChallengeState, ProtoType
<1>4. ASSUME Untimed, ~AcceptClient
      PROVE  UNCHANGED clock /\ Handshaking /\ proto'.startedAt = proto.startedAt
  <2>0. Live /\ Live'
    BY <1>1, <1>4, LiveStable DEF Handshaking
  <2>a. UNCHANGED <<clock, nonceCount>> /\ nonceCount \in Nat
    BY <1>1, <1>4, <2>0, CloseType DEF Untimed, CloseProtocolClient, Live, TypeInv, TypeOK
  <2>1. CASE Quiet
    BY <2>a, <2>0, <2>1 DEF Quiet, Handshaking
  <2>2. CASE Closed
    BY <1>1, <2>0, <2>2, CloseType DEF Closed, CloseProtocolClient, Live
  <2>3. CASE Reads
    <3>1. CASE proto' = [proto EXCEPT !.line = @ + 1]
      BY <1>1, <2>a, <2>3, <3>1 DEF Reads, ProtoType
    <3>2. CASE proto' = ReadyState(proto) \/ proto' = ReadyState([DeriveSessionKeys(proto) EXCEPT !.secure = TRUE])
      <4>1. proto'.ready
        BY <1>1, <3>2 DEF ReadyState, DeriveSessionKeys, ProtoType
      <4>2. QED
        BY <4>1 DEF Handshaking
    <3>3. nonceCount' # nonceCount + 1
      BY <2>a
    <3>4. QED
      BY <2>3, <3>1, <3>2, <3>3 DEF Reads
  <2>4. CASE Receives
    BY <1>1, <2>a, <2>0, <2>4 DEF Receives, Session, Handshaking, ProtoType
  <2>5. CASE Sends
    BY <1>1, <2>a, <2>0, <2>5 DEF Sends, DrainSend, Handshaking, ProtoType
  <2>6. CASE WriteStage
    BY <1>1, <2>a, <2>0, <2>6 DEF WriteStage, Handshaking, ProtoType
  <2>7. QED
    BY <1>1, <1>4, <2>1, <2>2, <2>3, <2>4, <2>5, <2>6, ProtoEffect
<1>5. CASE age' = 0 /\ UNCHANGED millis /\ \E cn, sn : proto' = ChallengeState(cn, sn)
  BY <1>3, <1>5
<1>6. AcceptClient => age' = 0 /\ UNCHANGED millis
  BY DEF AcceptClient
<1>7. QED
  BY <1>2, <1>4, <1>5, <1>6, ClockEffect

\* Every step keeps the timer true, whoever the peers are.
LEMMA NextTimer == Inv /\ TimerTrue /\ [AnyNext]_vars => TimerTrue'
<1> SUFFICES ASSUME Inv, TimerTrue, [AnyNext]_vars, Handshaking'
             PROVE  age' = (millis' - proto'.startedAt) % MillisMod
  BY DEF TimerTrue
<1>1. /\ proto \in ProtoType /\ millis \in 0..(MillisMod - 1) /\ age \in 0..(MillisMod - 1)
      /\ proto.startedAt \in 0..(MillisMod - 1) /\ MillisMod \in Nat \ {0}
  BY ConstantsAssumption DEF Inv, TypeInv, TypeOK, ProtoType
<1>2. CASE Tick
  <2>1. /\ Handshaking /\ proto' = proto /\ age < MillisMod - 1 /\ age' = age + 1
        /\ millis' = (millis + 1) % MillisMod
    BY <1>2 DEF Tick, slot, Handshaking, Live
  <2>2. PICK m, a, s, g : m = MillisMod /\ a = millis /\ s = proto.startedAt /\ g = age
    BY <1>1
  <2>3. m \in Nat \ {0} /\ a \in 0..(m - 1) /\ s \in 0..(m - 1) /\ g \in 0..(m - 1) /\ g < m - 1
    BY <1>1, <2>1, <2>2
  <2>4. g = IF a >= s THEN a - s ELSE (a - s) + m
    BY <2>1, <2>2, <2>3, WrappedDifference DEF TimerTrue
  <2>5. (a + 1) % m = IF a = m - 1 THEN 0 ELSE a + 1
    BY <2>3
  <2>6. PICK b \in 0..(m - 1) : b = (a + 1) % m
    BY <2>3, <2>5
  <2>7. (b - s) % m = IF b >= s THEN b - s ELSE (b - s) + m
    BY <2>3, <2>6, WrappedDifference
  <2>8. g + 1 = IF b >= s THEN b - s ELSE (b - s) + m
    BY <2>3, <2>4, <2>5, <2>6
  <2>9. QED
    BY <2>1, <2>2, <2>6, <2>7, <2>8
<1>3. CASE UNCHANGED clock /\ Handshaking /\ proto'.startedAt = proto.startedAt
  BY <1>3 DEF clock, TimerTrue
<1>4. CASE age' = 0 /\ UNCHANGED millis /\ proto'.startedAt = millis
  BY <1>1, <1>4
<1>5. QED
  BY <1>2, <1>3, <1>4, TimerEffect

\* In every reachable state the timer tells the truth.
LEMMA TimerInvariance == Spec => []TimerTrue
<1>1. Init => TimerTrue
  BY DEF Init, TimerTrue, Handshaking, Live
<1>2. [Next]_vars => [AnyNext]_vars
  BY NextIsAny
<1>3. QED
  BY <1>1, <1>2, NextTimer, Invariance, PTL DEF Spec

\* Only handleHandshake() leaves its stage while the handshake goes on.
LEMMA HandshakeLeft ==
  ASSUME [AnyNext]_vars, pc' # pc, pc \in {"handshake", "greet"}, Handshaking'
  PROVE  HandshakeQuiet
<1> USE DEF AfterHandle
<1>1. ~AdminCall /\ ~CallHandle /\ ~DataCall
  BY DEF AdminCall, Begin, End, DisconnectClient, ClearTxDropCounters, ChangeAuthKey, CallHandle,
         DataCall, StartCall
<1>2. ~NetworkNext /\ ~AnyPeerNext /\ ~UNCHANGED vars
  BY DEF NetworkNext, AnyPeerNext, PeerSend, Dial, Lose, Tick, vars
<1>3. Step
  BY <1>1, <1>2 DEF AnyNext, DeviceNext
<1>4. ASSUME NEW p \in {"secureRx", "rxAgain", "drain", "writeDrain"}
      PROVE  ~SecureRx(p) /\ ~DrainTxPending(p)
  BY DEF SecureRx, DrainTxPending
<1>5. ASSUME NEW p \in {"handshake", "greet", "secureRx", "rxAgain", "drain"} PROVE ~SkipStage(p)
  BY DEF SkipStage, slot, Handshaking, Live
<1>6. PICK p \in {"handshake", "greet"} : HandleHandshake(p)
  BY <1>3, <1>4, <1>5 DEF Step, StopServer, CheckDead, DrainDiscard, AcceptNone, AcceptReject, AcceptClient,
                          WriteStart, WriteStage, WriteFail, WriteCheck, Take
<1>7. QED
  BY <1>6 DEF HandleHandshake

\* The documented handshake timeout holds with one exception, which the code's
\* use of 0 for "no handshake is timed" makes: a timer that was armed while
\* millis() was 0.  However often millis() wraps, a handshake is never left open
\* by handleHandshake() once its timer has run for the timeout.
Overdue == pc' # pc /\ pc \in {"handshake", "greet"} /\ Handshaking' /\ age >= HandshakeTimeout
THEOREM TimeoutButAtZero == Spec => [][Overdue => proto.startedAt = 0]_vars
<1>1. ASSUME Inv, TimerTrue, [AnyNext]_vars, Overdue PROVE proto.startedAt = 0
  <2>1. HandshakeQuiet /\ Handshaking'
    BY <1>1, HandshakeLeft DEF Overdue
  <2>2. TypeInv /\ TypeOK
    BY <1>1 DEF Inv, TypeInv
  <2>3. ~HandshakeExpired
    BY <2>1, <2>2, CloseType DEF HandshakeQuiet, Reject, Handshaking
  <2>4. Handshaking
    BY <2>1, <2>3 DEF HandshakeQuiet, slot, Handshaking, Live
  <2>5. age = (millis - proto.startedAt) % MillisMod
    BY <1>1, <2>4 DEF TimerTrue
  <2>6. age \in Nat /\ HandshakeTimeout \in Nat
    BY <2>2, ConstantsAssumption DEF TypeOK
  <2>7. QED
    BY <1>1, <2>3, <2>5, <2>6 DEF HandshakeExpired, Overdue
<1>2. [Next]_vars => [AnyNext]_vars
  BY NextIsAny
<1>3. Inv /\ TimerTrue /\ [Next]_vars => [Overdue => proto.startedAt = 0]_vars
  BY <1>1, <1>2
<1>4. QED
  BY <1>3, TimerInvariance, Invariance, PTL DEF Spec

=============================================================================
