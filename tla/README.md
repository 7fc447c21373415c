# ESPNetworkSerial: TLA+ models, model checking and proofs

ESPNetworkSerial carries an Arduino serial monitor over Wi-Fi: a firmware
library gives a sketch a `Stream` over TCP, and a host program (a pluggable
monitor written in Go) bridges it to Arduino IDE. This directory models the
parts of it whose correctness depends on the order of events: the firmware's
transport and stream multiplexer, the protocol between firmware and host, the
host's reconnecting connection, the process Arduino IDE drives, the provisioning
of the shared key, and the stress test.

Line numbers below refer to the repository; `cpp` is
`src/ESPNetworkSerial.cpp`. `PROJECT.json` maps every definition to the lines
it models.

## 1. Inventory

| Component | State | Operations | Modelled in |
|---|---|---|---|
| Firmware TCP transport, `ESPNetworkSerialTCP` (cpp 425-460, 609-1536) | the client slot, handshake state and timer, session keys, sequence numbers, the record being received, the record being sent, drop counters, the installed key | `begin`, `end`, `setAuthKey`, `clearAuthKey`, `disconnectClient`, `handle`, `waitForConnection`, `connected`, `write`, `read`, `available`, `peek`, `flush`, `clearTxDropCounters` | `DeviceTransport` |
| Host protocol, `protocol.go` and `secure_conn.go` | the negotiation, keys, sequence numbers, the plaintext not read yet | `dialESPNS`, `negotiateESPNSHandshake`, `Read`, `Write`, `Close` | `MonitorLink` (with `DeviceTransport`) |
| Reconnecting connection, `reconnectingTCP` (main.go 69-261) | current connection, closed flag, two mutexes | `Read`, `Write`, `Close` and inside them `connection`, `invalidate`, `reconnect` | `ReconnectingTCP` |
| Monitor application (main.go 263-513) and `jsonOutput` (44-67) | initialised flag, active session, one `sync.Once` per session | HELLO, DESCRIBE, CONFIGURE, OPEN, CLOSE, QUIT, end of input, `bridge`, `endSession` | `MonitorApp` |
| Authentication configuration and provisioning, `auth.go` | config file and its temporary file, a firmware header per core, the environment | read, generate, write via a temporary file, rotate, provision headers, start of a monitor | `AuthProvisioning`; the header's string literal in `CString` |
| Stream multiplexer and facade (cpp 76-423) | table of streams, round-robin index, the registered keys | add, remove, clear, read, bulk read, write, `begin`, `end`, key registration | `StreamMux` |
| Stress client, `stress.go`, with the loop of the StressEcho sketch | cycle and attempt, payload and receive buffer, the writer goroutine | connect, write, read the echo, compare, recover | `StressClient` |
| Direct mode and address parsing (main.go 521-574) | none | | not modelled |
| Examples, installers, tools | files | | not modelled |

How they interact. The sketch calls the facade, which calls the multiplexer and
the transport; everything in the firmware runs on one thread, but the TCP stack
runs beside it. The host dials the device (`dialESPNS`), negotiates one of two
modes (raw, or AES-GCM records under keys derived from an HMAC challenge) and
wraps the connection in `reconnectingTCP`, which two goroutines of a session use
at once. The session is ended by the first of: a bridge whose copy ended, CLOSE,
QUIT. Both ends get their key from Setup, which writes the config the monitor
reads at its start and the header the next firmware is compiled with. The stress
test uses the protocol without `reconnectingTCP` and reconnects by itself.

What is hard. A connection may die between any two statements of the firmware,
which asks `connected()` again and again; sends are partial; a record arrives in
pieces; the clock wraps; keys change during a session; either end may believe in
a connection that the other has given up; two goroutines and a closer share one
connection and dial again at the same time; CLOSE races with the bridges; Setup
may fail or be killed between any two file operations; a stream leaves the table
under the index that walks it; the echo of an interrupted attempt may meet the
next one. The list is in `PROJECT.json` under `hazards`, each with the properties aimed at it.

What makes each component correct:

- transport: bytes reach TCP exactly once and in order; what `write` reports is
  what was committed; no nonce is used twice under a key; nothing of one session
  reaches the next; a session matches the installed key; buffers are not
  overrun; no connection is leaked; a client that stays silent or sends half a
  line loses the slot;
- protocol: the ends agree on mode and keys; each end reads a prefix of what the
  other wrote; the monitor goes on only with a device that has its key, unless it
  may do without; it refuses no record of the device, and the device none that it
  has not itself begun to read as the tag;
- reconnecting connection: no socket leaks, closed is for good, a working
  connection is not taken away, nobody waits for ever, the grace period is kept;
- application: each command answered once, each end told once and in order,
  nothing left open, and one board connection at a time but for a dial that
  Close() has overtaken;
- provisioning: success means one key everywhere; no monitor starts without the
  key once there was one; no interrupted Setup spoils the config for the next one;
  the compiler reads back the bytes of the key;
- multiplexer and facade: every stream with input is read; nothing is written to
  a stream twice; the key of the installation is used only when the sketch asks
  for none of its own;
- stress client: one writer at a time, the data is blamed only when a connection
  broke, every transfer ends.

## 2. Modules

**DeviceTransport.** One variable per member group of the class (`proto` is
everything `resetProtocolState()` resets), plus the network (`link`, `backlog`,
`inbox`), the clock and histories. An API call is a sequence of steps named by
`pc`; each step is one stage of `handle()`, `write()` or `read()` with every
call it makes, and connections arrive, deliver and die between them. Calls that
only read (`connected`, the getters) or only run `handle()` (`flush`, a turn of
`waitForConnection`) are `StartCall("handle", 0)`. Where the code asks for
`operator bool` of a dead client, whose value the WiFi library decides, both
answers are possible. Data: a handshake line is a `char` unit followed by an
`eol` unit, so that lines arrive in pieces and overrun the buffer, and a `cr` unit
is a `'\r'`, which `handleHandshake()` skips without storing it: a stream of them
keeps its loop busy (cpp 934-942) and `handle()` does not return. A record is one
cell per byte of header, ciphertext and tag, so that sends and receives are cut
anywhere. `handleSecureRx()` asks `available()` once for the ciphertext (cpp:1203)
and once more for the tag (cpp:1220), and more may arrive in between: a pass of
its loop (`SecureRxRead(k, t)`) takes `k` bytes for header and ciphertext and `t`
for the tag, and when the first question found nothing these `t` may be
ciphertext, which then sits in the tag's buffer (`rxTag`). An HMAC or a key is the
tuple it is computed from; the bytes of the stream are numbered.

**MonitorLink** extends DeviceTransport: its peer is the monitor. The host reads
what the device handed to TCP (`wire`) from its own position; writes go to the
device's `inbox`. Host and device learn of a dead connection independently.

**ReconnectingTCP.** The two bridge goroutines and the closer. A step is one
critical section of `stateMu`, one socket operation or one statement of
`reconnect()`. A socket operation fails because the connection is gone
(`IoFails`), or on one that works because the record layer gives up
(`IoRefused`: a record refused, no sequence number left). Time is counted in retry intervals; a deadline is kept as the
ticks left.

**MonitorApp.** The command loop, and for each session the two bridges and the
body of `endSession` (`once`). The board connection is ReconnectingTCP's seen
from outside, with one piece of its inside: the dial of `reconnect()`
(`ReconnectDials`, `DialEnds`, `GiveUp`), because `Close()` does not stop it. Such
a dial may have connected to the board after the session's end, and its goroutine
closes that connection only when it finds the object closed (main.go 153-159).

**BoardConnection** is the abstract specification between the last two: the
connection is not there yet, up (outages are hidden), unavailable for good, or
closed; its users end only for one of these reasons or because the IDE went, and
all of them end once it is closed. `ReconnectingTCP` implements it under the
mapping `State`, `IdeGone`, `Working` (`ImplementsBoardConnection`, safety and
fairness). `MonitorApp` assumes no more of a connection than that: with `board`,
`ide` and the bridges of a session mapped in the same way, every session behaves
like it (`UsesBoardConnection`, written as initial condition, step and fairness
for all sessions, since TLC takes no quantified specification as a property).

**AuthProvisioning.** A Setup is a sequence of file operations, one step each,
which may fail or be cut off (`Faults`); its process may be killed between any
two, and started again in either mode (provision or rotate). A power loss is not
modelled: auth.go 185-192 renames without `fsync`, so that a torn config could
remain after one. A file is absent, torn, or
whole with a key; a header may also be the user's. The write through a temporary
file is modelled with the fallback for systems whose rename does not replace.
Monitors start at any time from config and environment. The history `keyed` says
that the config has had a usable key and that no rename over it has failed.

**CString.** `quoteCStringBytes` byte by byte, and the part of a compiler that
reads a string literal as an automaton; pure operators, used by
`AuthProvisioning` for what a header holds.

**StreamMux.** The table and its index; a read starts at the index and takes the
first stream that has something. A session can end inside a read, between
`available()` and `read()` of the network stream. A write is what each stream
took of it (`high`) and what was reported (`pos`). `begin()` chooses the key from
those that were set, registered, defaulted or disabled.

**StressClient.** The main goroutine, the writer goroutine and the StressEcho
loop (poll, read into a buffer, write it back). Sessions are seen from outside: a
handshake is its lines, a connection the bytes under way in each direction, and
each end learns of a break in its own time. A byte is its cycle, its index and
the connection it was sent on.

**MCDevice, MCLink, MCReconnect, MCApp, MCAuth, MCMux, MCStress** instantiate
them for TLC.
**DeviceTransportProofs, DeviceSessionProofs, MonitorLinkProofs,
ReconnectingTCPProofs, MonitorAppProofs, AuthProvisioningProofs, StreamMuxProofs,
StressClientProofs** hold the proofs. A wrong variant of a definition, standing before it, documents the slip
that a property detects; no specification uses one.

## 3. Model checking

| Run | What it shows |
|---|---|
| `device_handshake` | The firmware against a peer that sends any handshake line, or `'\r'`, at any time, while the sketch polls and writes, over two connections and a clock that wraps: no leaked connection (`NoConnectionLeak`), and as long as `handle()` returns no handshake that was armed at a nonzero time lasts for ever (`HandshakeResolves`). |
| `link_sessions` | Firmware and monitor negotiate and use two sessions after each other, ended in every way, with two keys that change at any time: `AuthCurrent`, `EndsAgree`, `NoDowngrade` (the monitor answers a challenge, and uses a secure session, only with the device that has its key and drew that challenge; a raw one only with a device without a key, and then if it has none itself or allows that), `NonceFresh`, `CleanHandshake`, `HostAcceptsRecords`. |
| `link_data` | Both directions at once, raw and encrypted, with partial, blocked and failed sends, drops, losses and records in arbitrary pieces, also between two questions for `available()`, up to the last sequence number: `StreamIntegrity`, `AcceptedBytesOnce`, `ShortWriteCounted`, `BuffersFit`, `OnlySpoiledRefused`, and at the ends `HostReadsPrefix` and `DeviceReadsPrefix`. |
| `reconnect` | Both bridges and Close on a connection that breaks twice: `NoSocketLeak`, `ClosedForGood`, `WorkingConnKept`, `FirstOutageGrace` (the first outage of a call has the whole grace period), `ReconnectEnds`, `ImplementsBoardConnection`. |
| `app` | Two sessions, four commands, the board and the IDE failing at any time, dials that `Close()` overtakes: `SessionEvents`, `EveryCommandAnswered`, `OneBoardConnection` (two sessions are connected only while one of them has ended inside such a dial), `ConnectionsOwned`, `SessionEndTold`, `QuitEnds`, `UsesBoardConnection`. |
| `auth` | Setup on any installation with two cores, every file operation failing, Setup killed anywhere and repeated, monitors starting: `SuccessAgrees`, `MonitorKeyed`, `Repeatable` (a config that can be used, or none, stays so at every file operation, also a failed one, and over it Setup fails only by an operation of its own), and `HeaderHoldsKey` over all short keys. |
| `stress` | Two cycles over two connections, with and without recovery and keys, either end breaking at any time: `WriterAlone`, `MismatchExplained`, `TransferEnds`. |
| `mux` | Three streams that come and go, single and bulk reads, partial writes, a session that ends inside a read, and `begin()` in every state of the keys: `TypeOK`, `EveryStreamRead`, `NoStreamRepeats`, `TrustDomain`. |

Four runs are expected to fail; they are disagreements between docs and code:

- `link_segmentation`: docs/protocol.md:120 says that "TCP segmentation is
  irrelevant". When only the header had arrived at the question for the ciphertext
  (cpp:1203) and ciphertext arrives before the one for the tag (cpp 1220-1221), it
  is read into the tag's buffer, and a record that was sent right closes the
  connection (cpp 1242-1243). `RecordsAccepted` states the promise,
  `OnlySpoiledRefused` that the firmware refuses a record in no other case.
- `reconnect_grace`: monitor/README.md:52 promises a grace period of 15 seconds.
  The deadline belongs to one `Read` or `Write` call (main.go:198) and is not
  cleared by a successful reconnect inside the call, so that a second outage in
  the same call is given up early, possibly at once. `FirstOutageGrace` states
  what holds.
- `device_timeout_at_zero`: docs/protocol.md:163 gives the handshake timeout.
  A timer armed in the millisecond in which `millis()` is 0 counts as not armed
  (cpp:965), and that handshake never times out. `HandshakeResolves` states what
  holds otherwise, and the theorem `TimeoutButAtZero` that this is the only
  exception, however often `millis()` wraps.
- `stress_stale_echo`: docs/testing.md:156 treats the bytes of an interrupted
  attempt as uncommitted. `write()` begins with `handle()` (cpp:1357), which may
  close the dead client and bring up the next session in the same call, so that
  bytes the sketch read in the old session are echoed into the new one.

Other deviations met while modelling, which have no run of their own:

- A peer that keeps sending `'\r'` keeps `handleHandshake()` in its loop (cpp
  934-942): the timeout at cpp:965 stands behind the loop and is not reached,
  against docs/protocol.md:163. `HandshakeResolves` is stated for a `handle()`
  that returns.
- A dial of `reconnect()` in flight at `Close()` goes on (main.go 153-159). The
  next OPEN may dial meanwhile, and if the late one was first it holds the
  device's only slot until its goroutine closes it.
- Two Setups at once may both find no config, and the second replaces the key of
  the first after the first reported success (auth.go:219), against
  docs/unix-installer.md:187. There is no lock. `auth` has one Setup at a time, and
  no property of the project says that a key is kept.
- The header is written in place (auth.go:322). A write cut off before the
  marker line leaves a file that every later Setup refuses as the user's
  (auth.go:298), against docs/windows-installer.md:72. The model has this file
  and this refusal, which `Repeatable` counts as a failed operation of the later
  Setup: it promises nothing about such a header.
- A key may hold a NUL byte (auth.go:82; monitor/README.md:38 asks only for a
  length), but the firmware measures a registered key with `strlen` (cpp:632).
  `HeaderHoldsKey` shows that the header itself has all the bytes.
- `begin()` attaches Serial only the first time (cpp:295): after
  `removeStream(Serial)` it is not mirrored again, against
  docs/api-stability.md:28.

Bounds, and why they are enough. Two connections let one replace another in
every state of the first; a third repeats this (`ReconnectingTCP` uses three,
since two breaks need two replacements). Records of one or two bytes, with a
header and a tag of one, are cut at each kind of place: after the header, inside
the data, before the tag. `SeqMax` of 1 or 2 reaches the end of the sequence
numbers. A line buffer of 3 is one that a complete line fits and two pieces too
many do not. A write of three bytes with records of two has a full and a short
chunk, and `MaxAccepted = 5` lets a second write meet a pending record. The drop
counters saturate after one or two drops. `MillisMod` is 3 with a
timeout of 1 in `device_handshake`, where a timer may be armed before the wrap and
expire after it, 4 with 2 in `device_timeout_at_zero`, 2 with 1 elsewhere. In `app` four commands are HELLO, OPEN,
CLOSE, OPEN or any other four. What a peer other than the monitor does to an
established session has no run, since it could fill the histories for ever: that
no buffer is overrun then is the theorem `NoBufferOverrun`, against any peer.
`link_segmentation` needs no more than one record of one byte.
`link_data` starts with monitors that do not allow unauthenticated sessions
(`DataSpec`): the setting decides only between handshakes, which `link_sessions`
covers with both values. In `auth` two cores are a header already written and
one still to write, and three keys let a key be rotated after a rotation was cut
off; keys of three bytes have a byte before and after each escape, from a set
with quote, backslash, line ends, octal digits and others, letters of escapes
and bytes that need an octal escape. In `stress` two bytes are read in one or in
two pieces, two cycles tell a byte of the last cycle from one of this, and two
connections are an attempt and its retry. In `mux` three streams let one be
removed before, at and behind the index.

Deadlock is checked except in `app`, where the process exits.

Fairness. Firmware: the sketch keeps calling `handle()`, as each example does
from `loop()`; a call that began goes on, since nothing in it blocks, and ends
unless the peer never stops sending `'\r'`; `millis()` advances. Reconnecting connection: goroutines are scheduled, time
passes, `io.Copy` reads again; strong fairness for the mutex stands for the
starvation prevention of Go's `sync.Mutex`. A dial ends (it has a timeout), but
nothing says that it succeeds. Application: goroutines are scheduled and a dial
comes back; a bridge is sure to end only when this side has closed both
connections. One whose IDE has gone may be blocked in a `Write` to a board that
reads nothing, which has no deadline (main.go:459), and need not notice:
`SessionEndTold` speaks of bridges whose copy has ended and of a board that was
given up.
Stress client: its two goroutines are scheduled and its deadlines pass; nothing
is assumed of the board or the network. Multiplexer: the sketch keeps reading.

## 4. Proofs

All theorems are for every value of the constants that satisfies the `ASSUME`
of the component: any number of connections, streams, sessions, commands and
cores, any record, buffer and line size, any clock and counter width, any set of
keys. The only facts assumed are there: sizes are positive, the clock's period is
longer than the timeout, no key is the mark for "no key", and peers send units.

**Firmware.** `DeviceTransportProofs` proves `TypeOK` against *any* peer
(`AnyNext`), with `CallShape` (write's loop has bytes left) and `SecureKey` (a
secure session has keys) as the strengthening; without the first a chunk could
be empty.

`DeviceSessionProofs` proves `StreamIntegrity`, `NonceFresh`, `AuthCurrent`,
`CleanHandshake`, `NoConnectionLeak`, `BuffersFit`, `AcceptedBytesOnce` and
`ShortWriteCounted`, against any peer as well. Steps are first sorted by their
effect on the connections (`LinkEffect`) and on the protocol state
(`ProtoEffect`), so that each invariant is shown for seven effects and not for
thirty actions. The inductive invariant `Inv` is

- `LinkInv`: the client and the backlog were dialled; every open connection is
  one of them. From it: a connection becomes live only by being accepted
  (`LiveStable`);
- `SessionInv`: ready flag and handshake state agree; without a session the
  record layer is in its initial state; at the head of write's loop nothing is
  pending. The last one is why a raw chunk, which is copied over the pending
  buffer without a check, overwrites nothing, also when the connection died in
  between;
- `NonceInv`: used keys come from nonces drawn before; the current key was used
  only below the next sequence number; the nonce of a pending challenge belongs
  to no used key. `NonceFresh` is not inductive without the last two;
- `BuffersFit`: every effect that receives leaves no more than a header and
  `MaxRecord` bytes, and no more than a tag in the tag's buffer (`StillFits`),
  because a header that announces more ends the session before its data is read
  and each read is bounded by what its part still misses;
- `SentInv`, the shape of everything committed since the handshake: the
  handshake lines come first, `OK` last; then bytes in order, or the cells of
  whole records in order, the first with sequence number 0, each with the next
  number and the next bytes (`Chained`, with `Follows` for two neighbours); the
  last unit ends at what `write()` reports (`StreamGoesOn`). What TCP took is a
  prefix of it (`WirePrefix`).

`AcceptedBytesOnce` speaks of all units at once, and the chain only of
neighbours. The step between the two would be an induction over the stream;
since the provers cannot instantiate an induction scheme, `ChainCarries` takes
the least position whose count is wrong (`LeastOne`, from the least element of a
set of naturals) and refutes it with `CarriedStep`.

`TimeoutButAtZero` is the safety of the handshake timeout, which
`HandshakeResolves` only has as liveness: a handshake that `handleHandshake()`
leaves open has not run for the timeout, unless its timer was armed while
`millis()` was 0. It needs that the 32-bit difference the code takes is the true
age of the timer, also after a wrap (`TimerTrue`), which an accept and a
challenge establish and each tick keeps (`WrappedDifference`); the bound is that
`millis()` does not go all the way round within one handshake.

**Firmware and monitor.** `MonitorLinkProofs` shows that every step of the link
is a step of the firmware with some peer, so that everything above holds of it
(`FirmwareOnTheLink`, `ShortWritesOnTheLink`), and proves `EndsAgree`,
`NoDowngrade`, `HostAcceptsRecords` and `HostReadsPrefix`. `Both` is the
firmware's `Inv` and `HostInv`, which relates the two ends while a connection
lives:

- the host's place in the stream by its stage (`HostPlace`): which lines it has
  read, where its next record begins, that it took each whole record before;
- what it has learned is what the device said (`OwnProof`, `SameKeys`): a proof
  it holds is that of its own hello, and from `OK` on both have one mode and one
  pair of keys, although the installed key may change at any time;
- records on the way have these keys (`SealedForHost`), and their sequence
  number is the host's, which is why a record cut by a failed send or dropped as
  a whole cannot make the host refuse the next.

`NoDowngrade` says with whom the monitor goes on, and `EndsAgree` only that both
say the same when they are ready. Its invariant (`AnswersInvariant`) is `Both` and
two facts more: the firmware answers one HELLO in a connection, so that the only
challenge in its stream is the one its nonces and its key are of (`OneChallenge`;
a HELLO that comes again would draw other nonces), and a monitor that has gone on
after a challenge has found the proof of its own key in it (`Asked`). The device's
key is still the one it used, because a change of keys closes its connection.

`DeviceReadsPrefix` and `OnlySpoiledRefused` are the other direction. Their
invariant is `Both` and `RxInv`, which looks at what has arrived at the device
and was not read by the sketch:

- `DeviceRx`: in a secure session the part of a record already received, with
  what is unread, is a run of cells with the session's keys, the first with the
  next sequence number and the next bytes (`Incoming`); in a raw session it is
  bytes that go on from `delivered` (`IncomingRaw`). Every use of it takes one
  record, or some bytes, off its front (`RestOfRecords`). What a pass of
  `handleSecureRx()` took for the ciphertext and for the tag is one piece again
  (`PiecesJoin`), unless ciphertext went to the tag's buffer (`Spoiled`). Then
  nothing is claimed of the order: the record stays spoiled until it is refused
  (`SpoiledStays`; a tag follows a whole ciphertext or a bare header, `RxParts`),
  so that none of its bytes reaches the sketch;
- `HostTx`: as long as the monitor keeps the connection the run ends where its
  writing ends, so that the next record it writes extends it. When it has left,
  the run may end anywhere but still starts right, and this is why the prefix
  outlives the monitor's end of the session;
- `LinesOnly`, `FirstLine` and `Answered`: before the session the monitor sends
  one line at a time and waits for the answer, so nothing stands between the
  last line and the first unit of the stream. Without this a session could
  begin with an old line in front of its data.

**Reconnecting connection.** `ReconnectingTCPProofs`: `TypeOK`, `NoSocketLeak`,
`ClosedForGood`, `InstallsIntoEmpty`, `WorkingConnKept`. The inductive invariant
`Inv` adds to them that a goroutine inside `reconnect()` past its recheck holds
`reconnectMu` and finds no current connection, that a fresh connection exists
only there, that a goroutine uses only connections that were dialled, that a
connection reported as dead is dead, and that Close runs once. `NoSocketLeak`
alone is not inductive: a late `invalidate()` would have to know that what it
closes is dead. `GraceOfFirstOutage` needs the deadline of a call tied to the
ticks since its first failure. `ImplementsBoardSafety` is the refinement without
its fairness: the initial states map to those of `BoardConnection`, and every
step of bridges, closer, board and clock to a step or a stutter. Two theorems are the safety behind `ReconnectEnds`: whoever waits for `reconnectMu`
waits for a goroutine inside `reconnect()`, which does not lock it again before
it unlocks (`OneReconnects`); and the deadline of a call is set once and only
comes nearer, whatever happens to the connections (`DeadlineSetOnce`).

**Application.** `MonitorAppProofs`: the types, `ConnectionsOwned`,
`OneBoardConnection` (only the session in use has a board connection; one that
dials and is not in use is closed), `SessionEvents`, `EveryCommandAnswered`, and
the safety part of `UsesBoardConnection` (`BoardUsedSafely`). `ConnectionsOwned` is
inductive with the places a session can be in: the one OPEN works on is reached
by nobody else (`Opening`), one that ends has closed what its place in
`endSession` says (`Ending`), a command closes only the active one (`Closing`).
`SessionEvents` needs that every session whose end can begin was announced
(`Announced`); `EveryCommandAnswered` that an answer is owed exactly while the
command loop works on one, or waits for the end that answers CLOSE (`Answering`).
`EndHasRunner` is the safety behind `QuitEnds` and `SessionEndTold`: while the
body of `endSession` runs exactly one goroutine is inside it, the one whose
event it emits; all others wait in `sync.Once` for this one, and it for nobody.

**Provisioning.** `AuthProvisioningProofs`: `SuccessAgrees`, `Repeatable`,
`MonitorKeyed`, for any number of cores and keys. The theorems on keys say in
their statement that one Setup runs at a time (`OneSetup`), because without it
they are false: two Setups may both find no config (section 3), and write one
temporary file. The type theorem needs no such hypothesis. The invariant says what
the temporary file holds while a new config is written (`NewConfig`), so that each
of the two renames puts a whole config in place; that the fallback,
which removes the config first, is entered only after the history has given up
its claim (`KeyThere`); and which headers agree with the config while they are
written (`Copied`).

`LiteralReadsBack` is about the text of the header, for keys of any bytes and
any length: after the characters of the first *k* bytes the compiler stands
inside the literal, outside every escape, and has emitted these *k* bytes
(`ByteReadsBack` is the step; octal escapes have three digits always, so that
none can take a digit of the key that follows it). This is an induction over
data, and about functions defined by recursion. The library's induction theorems
take an operator and cannot be used; `RangeInduction` takes the *set* of the
numbers for which a statement holds, and follows from the least element of what
is missing in it. `IterationExists` shows with it that a function with the
equations of the definition exists, so that the definition, a `CHOOSE`,
satisfies them (`CompileRuns`, `FlattenRuns`).

**Multiplexer.** `StreamMuxProofs`: `TypeOK`, `NoStreamRepeats`, `TrustDomain`,
for any number of streams. **Stress client.** `StressClientProofs`: the types,
`WriterAlone` and `MismatchExplained`. The second needs the whole way of a byte
as long as nothing broke: what was received, is on the way back, held by the
sketch and on the way to it are parts of the cycle's payload in this order
(`Echo`), perhaps with gaps, since the sketch drops what a short write does not
take; between attempts nothing of the last one is left (`Quiet`).

`TypeOK` of the components but the multiplexer and `InstallsIntoEmpty` are
proved and not listed in a run.

**Model-checked only.** Liveness (`HandshakeResolves`, `ReconnectEnds`,
`SessionEndTold`, `QuitEnds`, `TransferEnds`, `EveryStreamRead`, and the fairness
in `ImplementsBoardConnection` and `UsesBoardConnection`) is out of the prover's
reach, since it rests on `ENABLED`; that nobody waits in a circle and that
deadlines are kept is proved where it is named above. Every safety and action
property of the passing runs is a theorem.

## 5. What is not modelled

Cryptography is symbolic: an HMAC or a record cannot be forged or collide, and
`esp_fill_random` and `crypto/rand` never repeat a nonce. Failures of the
cryptographic libraries are error paths of the actions (`auth_internal`,
`secure_internal`, a failed encryption). Text of messages and events, hex and
JSON coding and the byte-order mark of a config are left out. TCP delivers in
order and without duplicates until it fails. A connection whose peer vanished
without a sign is `open` for the device until it is `lost`; when that happens is
up to the library, and meanwhile new clients are turned away (cpp:1286): the
code sets no keepalive, so that it promises nothing to check. The normalisation
of board addresses is string parsing with unit tests of its own. Direct mode is
two copies over one `BoardConnection` that return with the first to end. Output
of progress and throughput figures of the stress test is left out. Installers
and build scripts copy files and edit `platform.local.txt`.

## 6. Plan

Modelled: every component of the firmware and the monitor that keeps state.
Proved: every safety and action property of the passing runs. What
remains for the proofs is to shorten the longest ones: the record and the raw
case of a step often go the same way and could share their lemmas.
