-------------------------- MODULE DeviceTransport --------------------------
(***************************************************************************)
(* ESPNetworkSerialTCP, the firmware side of the ESPNS/1 protocol: one TCP *)
(* server, one client slot, a line handshake with optional HMAC            *)
(* authentication, an AES-GCM record layer, and a transmit path that never *)
(* blocks the sketch.                                                      *)
(*                                                                         *)
(* The class is single-threaded, but TCP is not: a connection may arrive,  *)
(* deliver bytes or die between any two statements.  So an API call runs   *)
(* as a sequence of steps (pc) that follow the statements of handle(),     *)
(* write() and read(), and the network steps interleave with them.         *)
(*                                                                         *)
(* Data is abstracted to what the control flow tells apart.  A handshake   *)
(* line is a "char" unit (its first part) followed by an "eol" unit that   *)
(* completes it; a "cr" unit is a '\r', which is skipped; a sealed record  *)
(* is a sequence of cells, one per byte of header, ciphertext and tag;     *)
(* HMACs and session keys are records of what they are computed from.      *)
(***************************************************************************)
EXTENDS Integers, Sequences, FiniteSets

CONSTANTS
  MaxConns,          \* bound: connections that peers open
  AuthKeys,          \* the keys setAuthKey() may install
  NoKey,             \* no key installed: authentication disabled
  HeaderSize,        \* ESPNETWORKSERIAL_SECURE_HEADER_SIZE
  TagSize,           \* ESPNETWORKSERIAL_SECURE_TAG_SIZE
  MaxRecord,         \* ESPNETWORKSERIAL_SECURE_MAX_RECORD
  SeqMax,            \* UINT64_MAX, the sequence number never used
  DropBytesMax,      \* UINT64_MAX, where _txDroppedBytes saturates
  DropWritesMax,     \* UINT32_MAX, where _txDroppedWrites saturates
  LineMax,           \* ESPNETWORKSERIAL_HANDSHAKE_MAX_LENGTH
  HandshakeTimeout,  \* ESPNETWORKSERIAL_HANDSHAKE_TIMEOUT_MS
  MillisMod,         \* 2^32, where millis() wraps
  WriteSizes,        \* sizes of the sketch's write() calls
  ReadSizes,         \* sizes of its read() calls; 0 is available()/peek()
  MaxAccepted,       \* bound: bytes accepted in one session
  MaxInbox,          \* bound: undelivered units of one connection
  PeerUnits          \* what a peer of unknown behaviour may send

NoConn == 0
Conn == 1..MaxConns

(* Symbolic cryptography: an HMAC proof and a pair of session keys are the *)
(* values they are computed from; a record names its key and direction.    *)
ProofType == [key : AuthKeys, role : {"SERVER", "CLIENT"}, cn : Nat, sn : Nat]
SessionKey == [auth : AuthKeys, cn : Nat, sn : Nat]
NoSession == [auth |-> NoKey, cn |-> 0, sn |-> 0]
Record == [key : SessionKey, dir : {"d2h", "h2d"}, seq : Nat, data : Seq(Nat)]

Message == [type : {"HELLO"}, nonce : Nat] \cup [type : {"AUTH"}, proof : ProofType]
             \cup [type : {"OK"}, secure : BOOLEAN]
             \cup [type : {"CHALLENGE"}, nonce : Nat, proof : ProofType]
             \cup [type : {"ERR", "JUNK"}]

Unit == [kind : {"char", "cr"}] \cup [kind : {"eol", "line"}, msg : Message]
          \cup [kind : {"raw"}, byte : Nat]
          \cup [kind : {"cell"}, rec : Record, at : Nat]

ASSUME ConstantsAssumption ==
  /\ MaxConns \in Nat /\ HeaderSize \in Nat \ {0} /\ TagSize \in Nat \ {0}
  /\ MaxRecord \in Nat \ {0} /\ SeqMax \in Nat \ {0}
  /\ DropBytesMax \in Nat /\ DropWritesMax \in Nat
  /\ LineMax \in Nat \ {0, 1} /\ HandshakeTimeout \in Nat \ {0}
  /\ MillisMod \in Nat /\ MillisMod > HandshakeTimeout
  /\ MaxAccepted \in Nat /\ MaxInbox \in Nat
  /\ \A n \in WriteSizes : n \in Nat \ {0}
  /\ \A n \in ReadSizes : n \in Nat
  /\ NoKey \notin AuthKeys
  /\ \A u \in PeerUnits : u \in Unit

VARIABLES
  started,     \* _started
  authKey,     \* _authKey, NoKey when _authKeyLength is 0
  client,      \* the connection _client refers to
  proto,       \* everything resetProtocolState() resets
  dropped,     \* _txDroppedBytes and _txDroppedWrites
  millis,      \* the value millis() returns
  pc,          \* the next statement of the API call in progress
  call,        \* that call: its operation, its size, the bytes done so far
  link,        \* each connection as connected() sees it
  backlog,     \* connections the server has not accepted yet
  inbox,       \* units that reached each connection and are still unread
  nonceCount,  \* nonces drawn by esp_fill_random(): every one is fresh
  wire,        \* history: units handed to TCP on the current connection
  staged,      \* history: units committed to that connection, in order
  carrier,     \* history: the connection accepted last, that wire belongs to
  accepted,    \* history: bytes write() reported as accepted in the session
  delivered,   \* history: bytes read() returned in the session
  used,        \* history: the (key, sequence) pairs records were sealed with
  age          \* history: ticks since the handshake timer was last armed

config == <<started, authKey>>
slot == <<client, proto, link, inbox>>
output == <<wire, staged>>
app == <<carrier, accepted, delivered>>
clock == <<millis, age>>
crypto == <<nonceCount, used>>
vars == <<config, slot, dropped, pc, call, backlog, output, app, clock, crypto>>

---------------------------------------------------------------------------
(* State and helpers *)

\* Wrong variants of some definitions stand just before the definition they
\* vary: a dropped guard, a missing reset, an off-by-one.  Nothing uses them;
\* they document which slip each property of this module detects.

\* resetProtocolState: the handshake, both directions of the record layer and
\* the pending transmit buffer.
ResetProtocolState ==
  [ready |-> FALSE, hs |-> "WaitingHello", startedAt |-> 0, line |-> 0,
   cn |-> 0, sn |-> 0, secure |-> FALSE, key |-> NoSession, txSeq |-> 0,
   rxSeq |-> 0, rxRecord |-> <<>>, rxTag |-> <<>>, rxPlain |-> <<>>,
   txPending |-> <<>>]

NoCall == [op |-> "none", size |-> 0, total |-> 0]

\* _client && _client.connected()
Live == client # NoConn /\ link[client] = "open"
Handshaking == Live /\ ~proto.ready
Session == Live /\ proto.ready

Waiting(c) == \E i \in 1..Len(backlog) : backlog[i] = c

Least(a, b) == IF a < b THEN a ELSE b
DropFirst(s, k) == SubSeq(s, k + 1, Len(s))

Line(m) == [kind |-> "line", msg |-> m]
Proof(k, role, cn, sn) == [key |-> k, role |-> role, cn |-> cn, sn |-> sn]

\* The cells of one sealed record: header, ciphertext and tag.
Seal(key, dir, seq, data) ==
  [i \in 1..(HeaderSize + Len(data) + TagSize) |->
     [kind |-> "cell", at |-> i,
      rec |-> [key |-> key, dir |-> dir, seq |-> seq, data |-> data]]]

\* The statement that follows handle(), and the one that follows stage p.
AfterHandle(op) == IF op = "write" THEN "write" ELSE IF op = "read" THEN "rxAgain" ELSE "idle"
After(p) == [handshake |-> "secureRx", secureRx |-> "drain", drain |-> "accept",
             greet |-> AfterHandle(call.op), rxAgain |-> "take",
             writeDrain |-> "writeCheck"][p]

\* closeProtocolClient.  operator bool of a client whose connection is dead
\* is not fixed by this code (in the ESP32 core it is connected()), so the
\* stop() of a dead client may or may not happen; the state is always reset.
CloseProtocolClient ==
  /\ proto' = ResetProtocolState
  /\ \/ /\ client # NoConn
        /\ client' = NoConn
        /\ link' = [link EXCEPT ![client] = "closed"]
        /\ inbox' = [inbox EXCEPT ![client] = <<>>]
     \/ ~Live /\ UNCHANGED <<client, link, inbox>>

\* sendControlLine: one non-blocking send; ok says whether all of it went out.
SendControlLine(m, ok) ==
  IF ok THEN wire' = Append(wire, Line(m)) /\ staged' = Append(staged, Line(m))
        ELSE UNCHANGED output

\* sendControlLine("ESPNS/1 ERR ..."); closeProtocolClient();
Reject == /\ \E ok \in BOOLEAN : SendControlLine([type |-> "ERR"], ok)
          /\ CloseProtocolClient

RecordTxDropWraps(n) ==
  dropped' = [bytes |-> (dropped.bytes + n) % (DropBytesMax + 1),
              writes |-> (dropped.writes + 1) % (DropWritesMax + 1)]

\* recordTxDrop: both counters saturate.
RecordTxDrop(n) ==
  dropped' = [bytes |-> IF DropBytesMax - dropped.bytes < n
                        THEN DropBytesMax ELSE dropped.bytes + n,
              writes |-> IF dropped.writes # DropWritesMax
                         THEN dropped.writes + 1 ELSE dropped.writes]

---------------------------------------------------------------------------
(* API calls that do not run handle() *)

Begin ==
  /\ pc = "idle" /\ ~started
  /\ started' = TRUE
  /\ UNCHANGED <<authKey, slot, dropped, pc, call, backlog, output, app, clock, crypto>>

\* end() closes the client, then stops the server.
End ==
  /\ pc = "idle" /\ started
  /\ pc' = "stop"
  /\ CloseProtocolClient
  /\ UNCHANGED <<config, dropped, call, backlog, output, app, clock, crypto>>

StopServer ==
  /\ pc = "stop"
  /\ pc' = "idle"
  /\ started' = FALSE
  /\ backlog' = <<>>
  /\ link' = [c \in Conn |-> IF Waiting(c) THEN "closed" ELSE link[c]]
  /\ inbox' = [c \in Conn |-> IF Waiting(c) THEN <<>> ELSE inbox[c]]
  /\ UNCHANGED <<authKey, client, proto, dropped, call, output, app, clock, crypto>>

ChangeAuthKeyKeepsClient(k) ==
  /\ pc = "idle"
  /\ authKey' = k
  /\ UNCHANGED <<started, slot, dropped, pc, call, backlog, output, app, clock, crypto>>

\* setAuthKey(k) with a key of legal length, or clearAuthKey() for NoKey.
ChangeAuthKey(k) ==
  /\ pc = "idle"
  /\ authKey' = k
  /\ \/ client # NoConn /\ CloseProtocolClient
     \/ ~Live /\ UNCHANGED slot
  /\ UNCHANGED <<started, dropped, pc, call, backlog, output, app, clock, crypto>>

DisconnectClient ==
  /\ pc = "idle"
  /\ CloseProtocolClient
  /\ UNCHANGED <<config, dropped, pc, call, backlog, output, app, clock, crypto>>

ClearTxDropCounters ==
  /\ pc = "idle"
  /\ dropped' = [bytes |-> 0, writes |-> 0]
  /\ UNCHANGED <<config, slot, pc, call, backlog, output, app, clock, crypto>>

---------------------------------------------------------------------------
(* API calls that run handle(): handle, connected, flush and each turn of    *)
(* waitForConnection ("handle"), write, and read, available and peek         *)
(* ("read", the last two with size 0).                                       *)

\* handle() returns at once before begin(); a read that has plaintext left
\* from the last record does not run it.
StartCall(op, size) ==
  /\ pc = "idle"
  /\ op = "write" => accepted + size <= MaxAccepted
  /\ call' = [op |-> op, size |-> size, total |-> 0]
  /\ pc' = IF started /\ ~(op = "read" /\ Session /\ proto.secure /\ proto.rxPlain # <<>>)
           THEN "dead" ELSE AfterHandle(op)
  /\ UNCHANGED <<config, slot, dropped, backlog, output, app, clock, crypto>>

\* handle(): if (_client && !_client.connected()) closeProtocolClient();
CheckDead ==
  /\ pc = "dead"
  /\ pc' = "handshake"
  /\ \/ client # NoConn /\ ~Live /\ CloseProtocolClient
     \/ UNCHANGED slot
  /\ UNCHANGED <<config, dropped, call, backlog, output, app, clock, crypto>>

CanReceiveAlways == Session /\ proto.secure /\ inbox[client] # <<>>

CanReceive == /\ Session /\ proto.secure
              /\ proto.rxPlain = <<>> /\ inbox[client] # <<>>

\* The condition before a stage of handle() or of read() does not hold.
SkipStage(p) ==
  /\ pc = p
  /\ pc' = After(p)
  /\ p \in {"handshake", "greet"} => ~Handshaking
  /\ p \in {"secureRx", "rxAgain"} => ~CanReceive
  /\ p = "drain" => ~Session \/ proto.txPending = <<>>
  /\ UNCHANGED <<config, slot, dropped, call, backlog, output, app, clock, crypto>>

---------------------------------------------------------------------------
(* handleHandshake, from handle() (p = "handshake") and after an accept      *)
(* (p = "greet").  HandshakeStep adds what none of its cases changes.        *)

\* The unit read leaves the connection in state s.
Continue(s) == /\ proto' = s
               /\ inbox' = [inbox EXCEPT ![client] = Tail(@)]
               /\ UNCHANGED <<client, link>>

\* No room for this character and the terminating NUL.
LineTooLong == proto.line + 1 >= LineMax

\* '\r' is skipped wherever it comes, and fills no buffer: a peer may keep the
\* loop busy with it for as long as it likes, and handle() does not return.
HandshakeReturn ==
  /\ Head(inbox[client]).kind = "cr"
  /\ Continue(proto)
  /\ UNCHANGED <<output, nonceCount, age>>

\* A character that does not end the line.
HandshakeChar ==
  /\ Head(inbox[client]).kind \notin {"cr", "eol"}
  /\ IF LineTooLong
     THEN Reject
     ELSE Continue([proto EXCEPT !.line = @ + 1]) /\ UNCHANGED output
  /\ UNCHANGED <<nonceCount, age>>

\* The line that ends here is the message sent only if the buffer holds its
\* first part and nothing else.
LineRead == IF proto.line = 1 THEN Head(inbox[client]).msg ELSE [type |-> "JUNK"]

\* bad_hello, nonce_required, invalid_nonce
HelloAccepted == LineRead.type = "HELLO" /\ (authKey # NoKey => LineRead.nonce # 0)

HandshakeBadHello == ~HelloAccepted /\ Reject /\ UNCHANGED <<nonceCount, age>>

ReadyState(s) == [s EXCEPT !.ready = TRUE, !.hs = "Ready"]

\* processHandshakeLine without a key: OK auth=none mode=raw.
HandshakeRaw ==
  /\ HelloAccepted /\ authKey = NoKey
  /\ \/ /\ SendControlLine([type |-> "OK", secure |-> FALSE], TRUE)
        /\ Continue(ReadyState(proto))
     \/ UNCHANGED output /\ CloseProtocolClient
  /\ UNCHANGED <<nonceCount, age>>

\* The state after beginAuthChallenge: a new nonce, an empty line, a new timer.
ChallengeState(cn, sn) ==
  [proto EXCEPT !.hs = "WaitingAuth", !.cn = cn, !.sn = sn,
                !.startedAt = millis, !.line = 0]

HandshakeChallenge ==
  /\ HelloAccepted /\ authKey # NoKey
  /\ nonceCount' = nonceCount + 1
  /\ LET cn == LineRead.nonce
         sn == nonceCount + 1
     IN \/ /\ SendControlLine([type |-> "CHALLENGE", nonce |-> sn,
                               proof |-> Proof(authKey, "SERVER", cn, sn)], TRUE)
           /\ Continue(ChallengeState(cn, sn))
           /\ age' = 0
        \/ Reject /\ UNCHANGED age      \* auth_internal, or the line was not sent

\* verifyClientProof
ProofAccepted == /\ LineRead.type = "AUTH"
                 /\ LineRead.proof = Proof(authKey, "CLIENT", proto.cn, proto.sn)

\* bad_auth and auth_failed
HandshakeBadAuth == ~ProofAccepted /\ Reject /\ UNCHANGED <<nonceCount, age>>

DeriveKeysClientNonceOnly(s) ==
  [s EXCEPT !.key = [auth |-> authKey, cn |-> s.cn, sn |-> 0],
            !.txSeq = 0, !.rxSeq = 0, !.rxRecord = <<>>, !.rxTag = <<>>, !.rxPlain = <<>>]

\* deriveSessionKeys: the keys of both directions, and fresh record state.
DeriveSessionKeys(s) ==
  [s EXCEPT !.key = [auth |-> authKey, cn |-> s.cn, sn |-> s.sn],
            !.txSeq = 0, !.rxSeq = 0, !.rxRecord = <<>>, !.rxTag = <<>>, !.rxPlain = <<>>]

HandshakeSecure ==
  /\ ProofAccepted
  /\ \/ /\ SendControlLine([type |-> "OK", secure |-> TRUE], TRUE)
        /\ Continue(ReadyState([DeriveSessionKeys(proto) EXCEPT !.secure = TRUE]))
     \/ Reject      \* secure_internal, or the line was not sent
  /\ UNCHANGED <<nonceCount, age>>

HandshakeExpiredNoWrap == /\ proto.startedAt # 0
                          /\ millis - proto.startedAt >= HandshakeTimeout
\* static_cast<uint32_t>(millis() - _handshakeStartedAt) >= TIMEOUT_MS,
\* with startedAt = 0 standing for "no handshake is being timed".
HandshakeExpired == /\ proto.startedAt # 0
                    /\ (millis - proto.startedAt) % MillisMod >= HandshakeTimeout

\* Nothing left to read: the timeout check at the end of handleHandshake.
HandshakeQuiet ==
  /\ IF HandshakeExpired THEN Reject ELSE UNCHANGED <<slot, output>>
  /\ UNCHANGED <<nonceCount, age>>

\* processHandshakeLine
ProcessHandshakeLine ==
  /\ Head(inbox[client]).kind = "eol"
  /\ \/ proto.hs = "WaitingHello" /\ (HandshakeBadHello \/ HandshakeRaw \/ HandshakeChallenge)
     \/ proto.hs = "WaitingAuth" /\ (HandshakeBadAuth \/ HandshakeSecure)

\* The loop stays at p while there is something to read.
HandleHandshake(p) ==
  /\ pc = p /\ Handshaking
  /\ \/ /\ inbox[client] # <<>> /\ pc' = pc
        /\ HandshakeReturn \/ HandshakeChar \/ ProcessHandshakeLine
     \/ inbox[client] = <<>> /\ pc' = After(p) /\ HandshakeQuiet
  /\ UNCHANGED <<config, dropped, call, backlog, app, millis, used>>

---------------------------------------------------------------------------
(* handleSecureRx, from handle() (p = "secureRx") and from read()            *)
(* (p = "rxAgain")                                                           *)

\* The header is complete and names a record that may come next.
GoodHeader(r) == LET h == r[HeaderSize]
                 IN /\ h.kind = "cell"
                    /\ Len(h.rec.data) \in 1..MaxRecord
                    /\ h.rec.seq = proto.rxSeq

\* Where the ciphertext that a header announces ends.
CipherEnd(r) == HeaderSize + Len(r[HeaderSize].rec.data)
CiphertextComplete == /\ Len(proto.rxRecord) >= HeaderSize
                      /\ Len(proto.rxRecord) = CipherEnd(proto.rxRecord)

DecryptsWithTxKey(r) == /\ r = Seal(proto.key, "d2h", proto.rxSeq, r[HeaderSize].rec.data)
                        /\ proto.rxSeq # SeqMax

\* decryptSecureRecord: one whole record sealed for this direction and
\* session, with the expected sequence number.
Decrypts(r) == /\ r = Seal(proto.key, "h2d", proto.rxSeq, r[HeaderSize].rec.data)
               /\ proto.rxSeq # SeqMax

\* What k bytes for the header and the ciphertext and then t bytes for the tag
\* make of the state, in the order of the code's checks.  The tag is not read
\* after a question for ciphertext that left some of it missing; but when that
\* question, just after the header, finds nothing, the one for the tag may find
\* the ciphertext that has arrived since.
SecureRxRead(k, t) ==
  LET r == proto.rxRecord \o SubSeq(inbox[client], 1, k)
      tag == proto.rxTag \o SubSeq(inbox[client], k + 1, k + t)
      Keep(s) == /\ proto' = s
                 /\ inbox' = [inbox EXCEPT ![client] = DropFirst(@, k + t)]
                 /\ UNCHANGED <<client, link>>
  IN \/ /\ Len(r) < HeaderSize /\ t = 0
        /\ Keep([proto EXCEPT !.rxRecord = r])
     \/ /\ Len(r) = HeaderSize /\ ~GoodHeader(r) /\ t = 0
        /\ CloseProtocolClient
     \/ /\ Len(r) >= HeaderSize /\ GoodHeader(r)
        /\ Len(r) <= CipherEnd(r) /\ Len(tag) <= TagSize
        /\ t > 0 => Len(r) \in {HeaderSize, CipherEnd(r)}
        /\ \/ /\ Len(r) < CipherEnd(r) \/ Len(tag) < TagSize
              /\ Keep([proto EXCEPT !.rxRecord = r, !.rxTag = tag])
           \/ /\ Len(r) = CipherEnd(r) /\ Len(tag) = TagSize
              /\ IF Decrypts(r \o tag)
                 THEN Keep([proto EXCEPT !.rxRecord = <<>>, !.rxTag = <<>>, !.rxSeq = @ + 1,
                                         !.rxPlain = r[HeaderSize].rec.data])
                 ELSE CloseProtocolClient

\* One pass of the loop.  Each part asks available() for itself: inbox holds
\* what has arrived by the last question, and an earlier one may have seen less
\* of it.  The loop has seen a byte: only a complete ciphertext asks for none.
SecureRx(p) ==
  /\ pc = p /\ CanReceive
  /\ pc' = After(p)
  /\ \E k \in 0..Len(inbox[client]), t \in 0..TagSize :
        /\ k + t \in 1..Len(inbox[client])
        /\ k = 0 <=> CiphertextComplete
        /\ SecureRxRead(k, t)
  /\ UNCHANGED <<config, dropped, call, backlog, output, app, clock, crypto>>

---------------------------------------------------------------------------
(* drainTxPending, from handle() (p = "drain") and from write()              *)
(* (p = "writeDrain")                                                        *)

DrainSendForgetsRest(k) == /\ wire' = wire \o SubSeq(proto.txPending, 1, k)
                           /\ proto' = [proto EXCEPT !.txPending = <<>>]
                           /\ UNCHANGED <<client, link, inbox>>

\* send() took k bytes of the pending record.
DrainSend(k) == /\ wire' = wire \o SubSeq(proto.txPending, 1, k)
                /\ proto' = [proto EXCEPT !.txPending = DropFirst(@, k)]
                /\ UNCHANGED <<client, link, inbox>>

\* send() took some of the record; it would have blocked (EAGAIN and the
\* like), so the record stays pending; it returned 0 or failed.
DrainTxPending(p) ==
  /\ pc = p /\ Session /\ proto.txPending # <<>>
  /\ pc' = After(p)
  /\ \/ \E k \in 1..Len(proto.txPending) : DrainSend(k)
     \/ UNCHANGED <<slot, wire>>
     \/ CloseProtocolClient /\ UNCHANGED wire
  /\ UNCHANGED <<config, dropped, call, backlog, staged, app, clock, crypto>>

\* The session ended before write() could send: the record is discarded.
DrainDiscard ==
  /\ pc = "writeDrain" /\ ~Session
  /\ pc' = After("writeDrain")
  /\ proto' = [proto EXCEPT !.txPending = <<>>]
  /\ UNCHANGED <<config, client, link, inbox, dropped, call, backlog, output, app,
                 clock, crypto>>

---------------------------------------------------------------------------
(* The end of handle(): _server.accept()                                     *)

AcceptNone ==
  /\ pc = "accept" /\ backlog = <<>>
  /\ pc' = AfterHandle(call.op)
  /\ UNCHANGED <<config, slot, dropped, call, backlog, output, app, clock, crypto>>

\* The candidate is dead already, or a client is connected: it is dropped.
AcceptReject ==
  /\ pc = "accept" /\ backlog # <<>>
  /\ pc' = AfterHandle(call.op)
  /\ link[Head(backlog)] = "open" => Live
  /\ backlog' = Tail(backlog)
  /\ link' = [link EXCEPT ![Head(backlog)] = "closed"]
  /\ inbox' = [inbox EXCEPT ![Head(backlog)] = <<>>]
  /\ UNCHANGED <<config, client, proto, dropped, call, output, app, clock, crypto>>

SlotFreeAlways == TRUE
SlotFree == ~Live

AcceptedStateKeepsRecords ==
  [proto EXCEPT !.ready = FALSE, !.hs = "WaitingHello", !.line = 0, !.startedAt = millis]
AcceptedState == [ResetProtocolState EXCEPT !.startedAt = millis]

\* _client = candidate; resetProtocolState(); _handshakeStartedAt = millis();
AcceptClient ==
  /\ pc = "accept" /\ backlog # <<>> /\ SlotFree
  /\ pc' = "greet"
  /\ backlog' = Tail(backlog)
  /\ client' = Head(backlog) /\ carrier' = Head(backlog)
  /\ proto' = AcceptedState
  /\ age' = 0
  /\ wire' = <<>> /\ staged' = <<>> /\ accepted' = 0 /\ delivered' = <<>>
  /\ UNCHANGED <<config, dropped, call, link, inbox, millis, crypto>>

---------------------------------------------------------------------------
(* write(), after its handle().  The sketch offers again what was not        *)
(* accepted, so the bytes of a call are the ones after the accepted ones.    *)

Return == pc' = "idle" /\ call' = NoCall

WriteStartOverPending ==
  /\ pc = "write"
  /\ IF Session THEN pc' = "writeLoop" /\ UNCHANGED call ELSE Return
  /\ UNCHANGED <<config, slot, dropped, backlog, output, app, clock, crypto>>

\* Without a session nothing is written; while a record is pending all of
\* this write is dropped.
WriteStart ==
  /\ pc = "write"
  /\ IF Session /\ proto.txPending = <<>>
     THEN pc' = "writeLoop" /\ UNCHANGED call ELSE Return
  /\ IF Session /\ proto.txPending # <<>>
     THEN RecordTxDrop(call.size) ELSE UNCHANGED dropped
  /\ UNCHANGED <<config, slot, backlog, output, app, clock, crypto>>

ChunkUnbounded == [i \in 1..(call.size - call.total) |-> accepted + call.total + i]
ChunkFromStart == [i \in 1..Least(call.size - call.total, MaxRecord) |-> accepted + i]

\* The next bytes of the caller's buffer, at most one record.
Chunk == [i \in 1..Least(call.size - call.total, MaxRecord) |-> accepted + call.total + i]

\* The units of a chunk: a sealed record, or in raw mode the bytes themselves.
Encode(data) ==
  IF proto.secure THEN Seal(proto.key, "d2h", proto.txSeq, data)
  ELSE [i \in 1..Len(data) |-> [kind |-> "raw", byte |-> data[i]]]

NextTxSequenceWraps == IF proto.txSeq + 1 = SeqMax THEN 0 ELSE proto.txSeq + 1
NextTxSequence == proto.txSeq + 1

\* stageSecureRecord, or its inline counterpart in raw mode: the chunk becomes
\* the pending record.
WriteStage ==
  /\ pc = "writeLoop"
  /\ proto.secure => proto.txSeq # SeqMax /\ proto.txPending = <<>>
  /\ pc' = "writeDrain"
  /\ call' = [call EXCEPT !.total = @ + Len(Chunk)]
  /\ proto' = [proto EXCEPT !.txPending = Encode(Chunk),
                            !.txSeq = IF proto.secure THEN NextTxSequence ELSE @]
  /\ staged' = staged \o Encode(Chunk)
  /\ used' = IF proto.secure THEN used \cup {[key |-> proto.key, seq |-> proto.txSeq]}
                             ELSE used
  /\ UNCHANGED <<config, client, link, inbox, dropped, backlog, wire, app, clock,
                 nonceCount>>

\* The sequence numbers are used up, or encryption failed.
WriteFail ==
  /\ pc = "writeLoop" /\ proto.secure
  /\ CloseProtocolClient
  /\ accepted' = accepted + call.total
  /\ Return
  /\ UNCHANGED <<config, dropped, backlog, output, carrier, delivered, clock, crypto>>

\* After the drain: stop without a session, count what is left while the
\* record is pending, otherwise go round.
WriteCheck ==
  /\ pc = "writeCheck"
  /\ IF Session /\ proto.txPending = <<>> /\ call.total < call.size
     THEN pc' = "writeLoop" /\ UNCHANGED <<call, accepted>>
     ELSE Return /\ accepted' = accepted + call.total
  /\ IF Session /\ proto.txPending # <<>> /\ call.total < call.size
     THEN RecordTxDrop(call.size - call.total) ELSE UNCHANGED dropped
  /\ UNCHANGED <<config, slot, backlog, output, carrier, delivered, clock, crypto>>

---------------------------------------------------------------------------
(* read(), available() and peek(), after handle() and handleSecureRx()       *)

ByteOf(u) == IF u.kind = "raw" THEN u.byte ELSE 0

\* The bytes a read may return: the socket's in raw mode, else the last record's.
Readable == IF ~Session THEN <<>>
            ELSE IF proto.secure THEN proto.rxPlain
            ELSE [i \in 1..Len(inbox[client]) |-> ByteOf(inbox[client][i])]

Take ==
  /\ pc = "take"
  /\ LET n == Least(call.size, Len(Readable))
     IN /\ delivered' = delivered \o SubSeq(Readable, 1, n)
        /\ IF Session /\ ~proto.secure
           THEN inbox' = [inbox EXCEPT ![client] = DropFirst(@, n)] /\ UNCHANGED proto
           ELSE proto' = [proto EXCEPT !.rxPlain = DropFirst(@, n)] /\ UNCHANGED inbox
  /\ Return
  /\ UNCHANGED <<config, client, link, dropped, backlog, output, carrier, accepted, clock,
                 crypto>>

---------------------------------------------------------------------------
(* The network, the peers and the clock (external)                           *)

\* A TCP connection reaches the listening server.
Dial(c) ==
  /\ started /\ link[c] = "none"
  /\ \A d \in Conn : d < c => link[d] # "none"
  /\ link' = [link EXCEPT ![c] = "open"]
  /\ backlog' = Append(backlog, c)
  /\ UNCHANGED <<config, client, proto, inbox, dropped, pc, call, output, app, clock, crypto>>

PeerSend(c, units) ==
  /\ link[c] = "open" /\ Len(inbox[c]) + Len(units) <= MaxInbox
  /\ inbox' = [inbox EXCEPT ![c] = @ \o units]
  /\ UNCHANGED <<config, client, proto, link, dropped, pc, call, backlog, output, app,
                 clock, crypto>>

\* The connection ends: the peer closed it, reset it, or the network did.
Lose(c) ==
  /\ link[c] = "open"
  /\ link' = [link EXCEPT ![c] = "lost"]
  /\ inbox' = [inbox EXCEPT ![c] = <<>>]
  /\ UNCHANGED <<config, client, proto, dropped, pc, call, backlog, output, app, clock, crypto>>

\* millis() advances.  The bound: a handshake is looked at before millis()
\* has gone all the way round since it was armed.
Tick ==
  /\ Handshaking => age < MillisMod - 1
  /\ millis' = (millis + 1) % MillisMod
  /\ age' = IF Handshaking THEN age + 1 ELSE 0
  /\ UNCHANGED <<config, slot, dropped, pc, call, backlog, output, app, crypto>>

---------------------------------------------------------------------------

Init ==
  /\ started = FALSE /\ authKey \in AuthKeys \cup {NoKey}
  /\ client = NoConn /\ proto = ResetProtocolState
  /\ dropped = [bytes |-> 0, writes |-> 0]
  /\ millis = 1 /\ age = 0
  /\ pc = "idle" /\ call = NoCall
  /\ link = [c \in Conn |-> "none"] /\ backlog = <<>>
  /\ inbox = [c \in Conn |-> <<>>]
  /\ nonceCount = 0 /\ used = {}
  /\ wire = <<>> /\ staged = <<>> /\ carrier = NoConn /\ accepted = 0 /\ delivered = <<>>

\* Calls the sketch may make when no call is in progress.
AdminCall == \/ Begin \/ End \/ DisconnectClient \/ ClearTxDropCounters
             \/ \E k \in AuthKeys \cup {NoKey} : ChangeAuthKey(k)

CallHandle == StartCall("handle", 0)

DataCall == \/ \E n \in WriteSizes : StartCall("write", n)
            \/ \E n \in ReadSizes : StartCall("read", n)

\* The statements of the call in progress.
Step == \/ StopServer \/ CheckDead
        \/ \E p \in {"handshake", "greet", "secureRx", "rxAgain", "drain"} : SkipStage(p)
        \/ \E p \in {"handshake", "greet"} : HandleHandshake(p)
        \/ \E p \in {"secureRx", "rxAgain"} : SecureRx(p)
        \/ \E p \in {"drain", "writeDrain"} : DrainTxPending(p)
        \/ DrainDiscard \/ AcceptNone \/ AcceptReject \/ AcceptClient
        \/ WriteStart \/ WriteStage \/ WriteFail \/ WriteCheck \/ Take

DeviceNext == AdminCall \/ CallHandle \/ DataCall \/ Step

NetworkNext == Tick \/ \E c \in Conn : Dial(c) \/ Lose(c)

PeerNext == \E c \in Conn, u \in PeerUnits : PeerSend(c, <<u>>)

Next == DeviceNext \/ NetworkNext \/ PeerNext

Spec == Init /\ [][Next]_vars

\* The sketch keeps calling handle() (the examples do so from loop()), a call
\* that has begun runs to its end, and millis() advances.
Fairness == WF_vars(Step) /\ WF_vars(CallHandle) /\ WF_vars(Tick)

FairSpec == Spec /\ Fairness

---------------------------------------------------------------------------
(* Properties *)

PcSet == {"idle", "stop", "dead", "handshake", "greet", "secureRx", "rxAgain",
          "drain", "accept", "write", "writeLoop", "writeDrain", "writeCheck", "take"}

ProtoType ==
  [ready : BOOLEAN, hs : {"WaitingHello", "WaitingAuth", "Ready"},
   startedAt : 0..(MillisMod - 1), line : 0..(LineMax - 1), cn : Nat, sn : Nat,
   secure : BOOLEAN, key : SessionKey \cup {NoSession}, txSeq : 0..SeqMax,
   rxSeq : 0..SeqMax, rxRecord : Seq(Unit), rxTag : Seq(Unit), rxPlain : Seq(Nat),
   txPending : Seq(Unit)]

\* The type invariant of the firmware transport, its network and histories.
TypeOK ==
  /\ started \in BOOLEAN /\ authKey \in AuthKeys \cup {NoKey}
  /\ client \in Conn \cup {NoConn} /\ proto \in ProtoType
  /\ dropped \in [bytes : 0..DropBytesMax, writes : 0..DropWritesMax]
  /\ millis \in 0..(MillisMod - 1) /\ age \in 0..(MillisMod - 1)
  /\ pc \in PcSet
  /\ call \in [op : {"none", "handle", "write", "read"}, size : Nat, total : Nat]
  /\ link \in [Conn -> {"none", "open", "lost", "closed"}]
  /\ backlog \in Seq(Conn) /\ inbox \in [Conn -> Seq(Unit)]
  /\ nonceCount \in Nat /\ used \subseteq [key : SessionKey, seq : Nat]
  /\ wire \in Seq(Unit) /\ staged \in Seq(Unit) /\ carrier \in Conn \cup {NoConn}
  /\ accepted \in Nat /\ delivered \in Seq(Nat)

\* Partial sends never lose, repeat or reorder a byte of a live connection:
\* what TCP has taken, followed by what is still pending, is exactly what was
\* committed (write(), drainTxPending(), sendControlLine()).
StreamIntegrity == Live => wire \o proto.txPending = staged

\* What is pending and the parts of the record being received fit the arrays
\* declared for them, a handshake line and its NUL the line buffer.
BuffersFit ==
  /\ proto.line < LineMax
  /\ Len(proto.txPending) <= HeaderSize + MaxRecord + TagSize
  /\ Len(proto.rxRecord) <= HeaderSize + MaxRecord /\ Len(proto.rxTag) <= TagSize
  /\ Len(proto.rxPlain) <= MaxRecord

\* The next record would be sealed with a (key, nonce) pair no record of any
\* session has used: sequence numbers restart only together with the keys.
NonceFresh ==
  proto.secure => [key |-> proto.key, seq |-> proto.txSeq] \notin used

\* A session in use is secured exactly as the key installed now asks for,
\* also when setAuthKey() or clearAuthKey() ran while a client was connected.
AuthCurrent ==
  Session => /\ proto.secure <=> authKey # NoKey
             /\ proto.secure => proto.key.auth = authKey

\* Nothing of an earlier session is left when a connection starts over.
CleanHandshake ==
  Handshaking => /\ ~proto.secure /\ proto.txPending = <<>>
                 /\ proto.rxPlain = <<>> /\ proto.rxRecord = <<>> /\ proto.rxTag = <<>>
                 /\ proto.txSeq = 0 /\ proto.rxSeq = 0

\* Every connection that is still open is the client or waits in the backlog:
\* replacing or rejecting a client leaks none.
NoConnectionLeak ==
  \A c \in Conn : link[c] = "open" =>
     c = client \/ Waiting(c)

\* The units that carry a byte of the stream, and that byte.
DataUnit(u) == \/ u.kind = "raw"
               \/ u.kind = "cell" /\ u.at \in HeaderSize + 1 .. HeaderSize + Len(u.rec.data)
PlainByte(u) == IF u.kind = "raw" THEN u.byte ELSE u.rec.data[u.at - HeaderSize]

\* The units of s carry the bytes 1, ..., n, in this order and each one once.
CarriesFirst(s, n) ==
  LET D == {i \in 1..Len(s) : DataUnit(s[i])}
  IN /\ {PlainByte(s[i]) : i \in D} = 1..n
     /\ \A i, j \in D : i < j => PlainByte(s[i]) < PlainByte(s[j])

InFlight == IF pc \in {"writeLoop", "writeDrain", "writeCheck"} THEN call.total ELSE 0

\* What write() reports as accepted is exactly what was committed to the
\* session, each byte once and in order, dropped bytes excluded.
AcceptedBytesOnce ==
  Session => CarriesFirst(staged, accepted + InFlight)

\* A write() that returns short while the session goes on has counted exactly
\* the bytes it did not take, and both counters stop at their maximum.
ShortWriteCounted ==
  [][pc' # pc /\ pc \in {"write", "writeCheck"} /\ pc' = "idle" /\ Session
       /\ call.total < call.size
     => dropped' = [bytes |-> Least(DropBytesMax, dropped.bytes + call.size - call.total),
                    writes |-> Least(DropWritesMax, dropped.writes + 1)]]_vars

\* docs/protocol.md: "handshake timeout: 2500 ms": handleHandshake() never leaves
\* a connection in the handshake once its timer has run for the timeout.
DocumentedTimeout ==
  [][pc' # pc /\ pc \in {"handshake", "greet"} /\ Handshaking'
     => age < HandshakeTimeout]_vars

\* A connection cannot hold the only client slot in the handshake for ever, as
\* long as handle() returns: a peer that never stops sending '\r' prevents that.
HandshakeResolves ==
  ([]<>(pc = "idle")) =>
     \A c \in Conn : (Handshaking /\ client = c /\ proto.startedAt # 0)
                        ~> (~(Handshaking /\ client = c) \/ proto.startedAt = 0)

=============================================================================
