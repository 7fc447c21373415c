----------------------------- MODULE MonitorLink -----------------------------
(***************************************************************************)
(* The host monitor's end of one ESPNS connection after another            *)
(* (dialESPNS, negotiateESPNSHandshake and espnsSecureConn), composed with *)
(* the firmware of DeviceTransport over its network.                       *)
(*                                                                         *)
(* The host learns of a dead connection by a failing read or write, the    *)
(* device by connected(); neither learns when the other does, so either    *)
(* may go on with a connection the other has given up.                     *)
(***************************************************************************)
EXTENDS DeviceTransport

CONSTANTS
  HostWriteSizes,   \* sizes of the monitor's Write calls
  HostReadSizes,    \* sizes of the buffers it reads into
  MaxHostSent       \* bound: bytes the host writes in one session

ASSUME HostAssumption ==
  /\ \A n \in HostWriteSizes : n \in Nat \ {0}
  /\ \A n \in HostReadSizes : n \in Nat \ {0}
  /\ MaxHostSent \in Nat

VARIABLES
  auth,   \* authSettings: the key and allowUnauthenticated
  host,   \* the connection being negotiated or used
  sent,   \* history: bytes Write has put into records of this connection
  got     \* history: bytes Read has returned from this connection

hostVars == <<auth, host, sent, got>>
allVars == <<vars, hostVars>>

\* No connection: before the first dial and after every conn.Close().
NoHost == [conn |-> NoConn, state |-> "closed", sn |-> 0, secure |-> FALSE,
           key |-> NoSession, txSeq |-> 0, rxSeq |-> 0, rxPlain |-> <<>>, pos |-> 0]

\* What TCP has brought from the device and the host has not read yet.
Unread == IF carrier = host.conn THEN DropFirst(wire, host.pos) ELSE <<>>

\* net.DialTimeout
HostDial(c) ==
  /\ host.state = "closed"
  /\ Dial(c)
  /\ host' = [NoHost EXCEPT !.conn = c, !.state = "dialled"]
  /\ sent' = 0 /\ got' = <<>>
  /\ UNCHANGED auth

\* negotiateESPNSHandshake: HELLO with a new nonce (the connection's number
\* stands for it).  The line may reach the device in two parts.
HostHello ==
  /\ host.state = "dialled"
  /\ PeerSend(host.conn, <<[kind |-> "char"],
                           [kind |-> "eol", msg |-> [type |-> "HELLO", nonce |-> host.conn]]>>)
  /\ host' = [host EXCEPT !.state = "hello"]
  /\ UNCHANGED <<auth, sent, got>>

ReadsLine(state) == /\ host.state = state
                    /\ Unread # <<>> /\ Head(Unread).kind = "line"
LineText == Head(Unread).msg

\* espnsHMAC, with the key and the nonce of this side; collisions are left out.
EspnsHMAC(role, serverNonce) == Proof(auth.key, role, host.conn, serverNonce)

\* deriveESPNSKeys: another key or another nonce of either side gives other
\* session keys, one for each direction.
DeriveESPNSKeys == [auth |-> auth.key, cn |-> host.conn, sn |-> host.sn]

\* OK without a challenge is accepted only if no key is configured or the
\* configuration allows it.
AcceptsRaw == /\ LineText.type = "OK" /\ ~LineText.secure
              /\ auth.key # NoKey => auth.allow

AcceptsChallengeUnproved == LineText.type = "CHALLENGE" /\ auth.key # NoKey

\* A challenge whose proof shows that the device has the same key.
AcceptsChallenge ==
  /\ LineText.type = "CHALLENGE" /\ auth.key # NoKey
  /\ LineText.proof = EspnsHMAC("SERVER", LineText.nonce)

HostRaw ==
  /\ ReadsLine("hello") /\ AcceptsRaw
  /\ host' = [host EXCEPT !.state = "ready", !.pos = @ + 1]
  /\ UNCHANGED <<vars, auth, sent, got>>

HostAuth ==
  /\ ReadsLine("hello") /\ AcceptsChallenge
  /\ LET proof == EspnsHMAC("CLIENT", LineText.nonce)
     IN PeerSend(host.conn, <<[kind |-> "char"],
                              [kind |-> "eol", msg |-> [type |-> "AUTH", proof |-> proof]]>>)
  /\ host' = [host EXCEPT !.state = "auth", !.sn = LineText.nonce, !.pos = @ + 1]
  /\ UNCHANGED <<auth, sent, got>>

\* The final OK: deriveESPNSKeys and newESPNSSecureConn.
HostSecure ==
  /\ ReadsLine("auth") /\ LineText.type = "OK" /\ LineText.secure
  /\ host' = [host EXCEPT !.state = "ready", !.secure = TRUE, !.pos = @ + 1,
                              !.key = DeriveESPNSKeys]
  /\ UNCHANGED <<vars, auth, sent, got>>

\* A line that ends the negotiation: an error, a refused downgrade, a failed
\* proof.  dialESPNS closes the connection.
HostRefuse ==
  /\ \/ ReadsLine("hello") /\ ~AcceptsRaw /\ ~AcceptsChallenge
     \/ ReadsLine("auth") /\ ~(LineText.type = "OK" /\ LineText.secure)
  /\ host' = NoHost
  /\ UNCHANGED <<vars, auth, sent, got>>

\* A deadline, a failed read or write, or Close by the session: at any time.
HostGivesUp ==
  /\ host.state # "closed"
  /\ host' = NoHost
  /\ UNCHANGED <<vars, auth, sent, got>>

---------------------------------------------------------------------------
(* The data path.  A Write of more than one record is one HostWrite per      *)
(* record.                                                                   *)

HostChunk(n) == [i \in 1..Least(n, MaxRecord) |-> sent + i]

\* The cells of the next record, or the bytes themselves without encryption.
HostEncode(data) ==
  IF host.secure THEN Seal(host.key, "h2d", host.txSeq, data)
  ELSE [i \in 1..Len(data) |-> [kind |-> "raw", byte |-> data[i]]]

\* The connection is usable and its sequence numbers are not used up.
CanWrite(n) == /\ host.state = "ready" /\ sent + n <= MaxHostSent
               /\ host.secure => host.txSeq # SeqMax

\* writeAll, when k of the cells are sent before it ends.
WriteAll(cells, k) == PeerSend(host.conn, SubSeq(cells, 1, k))

\* espnsSecureConn.Write and, without encryption, the connection's own Write.
HostWrite(n) ==
  /\ CanWrite(n)
  /\ LET cells == HostEncode(HostChunk(n)) IN WriteAll(cells, Len(cells))
  /\ sent' = sent + Len(HostChunk(n))
  /\ host' = [host EXCEPT !.txSeq = IF host.secure THEN @ + 1 ELSE @]
  /\ UNCHANGED <<auth, got>>

\* writeAll failed after k bytes; reconnectingTCP closes the connection.
HostWriteFails(n, k) ==
  /\ CanWrite(n) /\ k < Len(HostEncode(HostChunk(n)))
  /\ WriteAll(HostEncode(HostChunk(n)), k)
  /\ sent' = sent + Len(HostChunk(n))
  /\ host' = NoHost
  /\ UNCHANGED <<auth, got>>

\* The record that starts what is unread, if all of it has arrived.
NextRecord == Head(Unread).rec
RecordArrived == /\ Unread # <<>>
                 /\ Len(Unread) >= HeaderSize + Len(NextRecord.data) + TagSize
ArrivedCells == SubSeq(Unread, 1, HeaderSize + Len(NextRecord.data) + TagSize)

HostDecrypts == /\ host.rxSeq # SeqMax
                /\ ArrivedCells = Seal(host.key, "d2h", host.rxSeq, NextRecord.data)

ReadReady == host.state = "ready" /\ host.rxPlain = <<>>

\* espnsSecureConn.Read of the next record into a buffer of n bytes.  A record
\* with another length, sequence number or tag than expected ends the session.
HostRead(n) ==
  /\ ReadReady /\ host.secure /\ RecordArrived
  /\ LET m == Least(n, Len(NextRecord.data))
     IN IF HostDecrypts
        THEN /\ got' = got \o SubSeq(NextRecord.data, 1, m)
             /\ host' = [host EXCEPT !.rxPlain = DropFirst(NextRecord.data, m),
                                     !.rxSeq = @ + 1, !.pos = @ + Len(ArrivedCells)]
        ELSE host' = NoHost /\ UNCHANGED got
  /\ UNCHANGED <<vars, auth, sent>>

\* Read served from the rest of the last record.
HostReadRest(n) ==
  /\ host.state = "ready" /\ host.rxPlain # <<>>
  /\ LET m == Least(n, Len(host.rxPlain))
     IN /\ got' = got \o SubSeq(host.rxPlain, 1, m)
        /\ host' = [host EXCEPT !.rxPlain = DropFirst(@, m)]
  /\ UNCHANGED <<vars, auth, sent>>

\* Read of an unencrypted connection.
HostReadRaw(n) ==
  /\ ReadReady /\ ~host.secure /\ Unread # <<>>
  /\ LET m == Least(n, Len(Unread))
     IN /\ got' = got \o [i \in 1..m |-> ByteOf(Unread[i])]
        /\ host' = [host EXCEPT !.pos = @ + m]
  /\ UNCHANGED <<vars, auth, sent>>

---------------------------------------------------------------------------

HostNext ==
  \/ \E c \in Conn : HostDial(c)
  \/ HostHello \/ HostRaw \/ HostAuth \/ HostSecure \/ HostRefuse \/ HostGivesUp
  \/ \E n \in HostWriteSizes : HostWrite(n)
  \/ \E n \in HostWriteSizes, k \in 0..(HeaderSize + MaxRecord + TagSize) : HostWriteFails(n, k)
  \/ \E n \in HostReadSizes : HostRead(n) \/ HostReadRest(n) \/ HostReadRaw(n)

LinkInit == /\ Init
            /\ auth \in [key : AuthKeys \cup {NoKey}, allow : BOOLEAN]
            /\ host = NoHost /\ sent = 0 /\ got = <<>>

\* The only peer is the monitor; a connection may be lost at any time.
LinkNext == \/ HostNext
            \/ /\ DeviceNext \/ Tick \/ \E c \in Conn : Lose(c)
               /\ UNCHANGED hostVars

LinkSpec == LinkInit /\ [][LinkNext]_allVars

---------------------------------------------------------------------------
(* Properties *)

\* The host's variables have their types.
HostTypeOK ==
  /\ auth \in [key : AuthKeys \cup {NoKey}, allow : BOOLEAN]
  /\ host \in [conn : Conn \cup {NoConn},
               state : {"closed", "dialled", "hello", "auth", "ready"},
               sn : Nat, secure : BOOLEAN, key : SessionKey \cup {NoSession},
               txSeq : 0..SeqMax, rxSeq : 0..SeqMax, rxPlain : Seq(Nat), pos : Nat]
  /\ sent \in Nat /\ got \in Seq(Nat)

\* s is 1, 2, ..., n for some n up to the bound.
FirstBytes(s, bound) == Len(s) <= bound /\ \A i \in 1..Len(s) : s[i] = i

\* What the monitor has read from its connection is a prefix of what the
\* sketch's write() calls accepted on it: nothing lost inside, repeated or
\* out of order, whatever was sent partially, dropped or left pending.
HostReadsPrefix ==
  host.state = "ready" /\ carrier = host.conn
    => FirstBytes(got \o host.rxPlain, accepted + InFlight)

\* What the sketch has read is a prefix of what the monitor wrote to the
\* connection the device holds.
DeviceReadsPrefix ==
  Session /\ client = host.conn => FirstBytes(delivered \o proto.rxPlain, sent)

\* Two ends that both call one connection ready use the same mode and keys.
EndsAgree ==
  host.state = "ready" /\ Session /\ client = host.conn
    => host.secure = proto.secure /\ host.key = proto.key

\* The monitor goes on after the device's answer only with a device that has
\* its key and drew the challenge it answers; in the clear, only with a device
\* without a key, and then only if it has none itself or allows that.
NoDowngrade ==
  host.state \in {"auth", "ready"} /\ Live /\ client = host.conn =>
    IF host.state = "ready" /\ ~host.secure
    THEN authKey = NoKey /\ (auth.key = NoKey \/ auth.allow)
    ELSE authKey = auth.key /\ proto.cn = host.conn /\ proto.sn = host.sn

\* docs/protocol.md: "TCP segmentation is irrelevant: implementations buffer
\* partial ESPNS headers, ciphertext and tags until a complete record is
\* available."  So handleSecureRx() refuses no record of the monitor.
RecordsAccepted ==
  [][pc' # pc /\ pc \in {"secureRx", "rxAgain"} /\ Session => proto'.ready]_allVars

\* handleSecureRx() has put ciphertext into the buffer for the tag.
Spoiled == /\ proto.rxTag # <<>>
           /\ proto.rxTag[1].at # CipherEnd(proto.rxRecord) + 1

\* That is the only way in which the device comes to refuse a record of the
\* monitor: it expects the sequence number and keys the monitor uses.
OnlySpoiledRefused ==
  [][pc' # pc /\ pc \in {"secureRx", "rxAgain"} /\ Session => proto'.ready \/ Spoiled]_allVars

\* Nor does the monitor: whatever was sent in pieces, dropped or cut off by the
\* end of the sequence numbers, a record that has arrived is the one expected.
HostAcceptsRecords ==
  ReadReady /\ host.secure /\ RecordArrived => HostDecrypts

=============================================================================
