--------------------------- MODULE AuthProvisioning ---------------------------
(***************************************************************************)
(* The authentication key on the computer: config.json, which the monitor  *)
(* reads when it starts, and one firmware header per ESP32 core, which the *)
(* sketches are built with.  Setup runs the monitor to create or rotate    *)
(* the key (--provision-auth, --regenerate-auth) and then once per core to *)
(* copy it (--write-firmware-config).                                      *)
(*                                                                         *)
(* A step is one file operation.  It may fail, Setup may be killed before  *)
(* or inside it, and monitors start at any time.  A key is a number; its   *)
(* text and how it is quoted for C++ are in module CString.                *)
(***************************************************************************)
EXTENDS FiniteSets, CString

CONSTANTS
  Setups,    \* the Setup scripts that may run at the same time
  Cores,     \* the ESP32 cores they find
  MaxKeys,   \* bound: keys ever generated, the first one included
  Faults     \* what may go wrong: "read", "write", "chmod", "rename",
             \* "remove", "kill"

NoKey == 0         \* authKey is empty: authentication is disabled
Keys == 1..MaxKeys
EnvKey == MaxKeys + 1   \* the key in ESPNS_AUTH_KEY
BadKey == MaxKeys + 2   \* a key shorter or longer than allowed

ASSUME ProvisioningAssumption ==
  /\ MaxKeys \in Nat \ {0}
  /\ Faults \subseteq {"read", "write", "chmod", "rename", "remove", "kill"}

VARIABLES
  config,    \* config.json
  tmp,       \* config.json.tmp
  header,    \* ESPNetworkSerialConfig.h of each core
  setup,     \* each Setup script and the monitor it runs
  keys,      \* how many keys were generated
  monitor,   \* the settings of the monitor that started last
  keyed      \* history: config.json has a usable key, and no rename over it
             \* has failed

files == <<config, tmp, header>>
vars == <<files, setup, keys, monitor, keyed>>

---------------------------------------------------------------------------
(* Files *)

\* "torn" is what does not parse, because a write was cut off or because the
\* user wrote it so.
NoConfig == [is |-> "absent", key |-> NoKey, allow |-> FALSE]
TornConfig == [is |-> "torn", key |-> NoKey, allow |-> FALSE]
ConfigOf(k, a) == [is |-> "json", key |-> k, allow |-> a]

\* A header without the marker is the user's, or torn before the marker was
\* written; a managed one without a key is torn after it.
NoHeader == [is |-> "absent", key |-> NoKey]
UserHeader == [is |-> "user", key |-> NoKey]
TornHeader == [is |-> "torn", key |-> NoKey]
ManagedHeader(k) == [is |-> "managed", key |-> k]
Marked(h) == h.is = "managed"

\* settingsFromConfig: an empty key is fine, any other must have a legal length.
Usable(k) == k # BadKey
HasKey(f) == f.is = "json" /\ f.key \in Keys

Fault(f) == f \in Faults

---------------------------------------------------------------------------
(* One monitor process of a Setup script *)

At(p, l) == setup[p].pc = l
Goto(p, l) == setup' = [setup EXCEPT ![p].pc = l]

\* The monitor exits with status 1 and Setup stops; io says that a file
\* operation failed.
Fail(p, io) == setup' = [setup EXCEPT ![p].pc = "failed", ![p].io = io]

\* Wrong variants of some definitions stand just before the definition they
\* vary; nothing uses them, they document which slip each property detects.

AnyCore == CHOOSE c \in Cores : TRUE

\* install.sh, or rotate-auth.ps1 and register-arduino.ps1
Start(p, mode) ==
  /\ setup[p].pc \in {"idle", "ok", "failed", "refused"}
  /\ setup' = [setup EXCEPT ![p] = [pc |-> "read", mode |-> mode, key |-> NoKey,
                                    core |-> AnyCore, todo |-> Cores, io |-> FALSE]]
  /\ UNCHANGED <<files, keys, monitor, keyed>>

\* --provision-auth reuses an existing config, whether or not it has a key.
KeepsConfig(p) == setup[p].mode = "provision" /\ config.is = "json"

\* provisionAuthConfig: reuse the config, or generate a key.
ReadConfig(p) ==
  /\ At(p, "read")
  /\ \/ config.is = "torn" /\ Fail(p, FALSE) /\ UNCHANGED keys
     \/ Fault("read") /\ Fail(p, TRUE) /\ UNCHANGED keys
     \/ /\ KeepsConfig(p) /\ UNCHANGED keys
        /\ IF Usable(config.key) THEN Goto(p, "cores") ELSE Fail(p, FALSE)
     \/ /\ config.is # "torn" /\ ~KeepsConfig(p) /\ keys < MaxKeys
        /\ keys' = keys + 1
        /\ setup' = [setup EXCEPT ![p].pc = "writeTmp", ![p].key = keys + 1]
  /\ UNCHANGED <<files, monitor, keyed>>

WriteTmpInPlace(p) ==
  /\ At(p, "writeTmp")
  /\ \/ config' = ConfigOf(setup[p].key, FALSE) /\ Goto(p, "cores")
     \/ Fault("write") /\ config' \in {config, TornConfig} /\ Fail(p, TRUE)
  /\ keyed' = TRUE /\ UNCHANGED <<tmp, header, keys, monitor>>

\* writeMonitorConfig: os.WriteFile(tempPath); what a failed one leaves.
WriteTmp(p) ==
  /\ At(p, "writeTmp")
  /\ \/ tmp' = ConfigOf(setup[p].key, FALSE) /\ Goto(p, "chmodTmp")
     \/ Fault("write") /\ tmp' \in {tmp, TornConfig} /\ Fail(p, TRUE)
  /\ UNCHANGED <<config, header, keys, monitor, keyed>>

ChmodTmp(p) ==
  /\ At(p, "chmodTmp")
  /\ \/ Goto(p, "rename") /\ UNCHANGED tmp
     \/ Fault("chmod") /\ tmp' = NoConfig /\ Fail(p, TRUE)
  /\ UNCHANGED <<config, header, keys, monitor, keyed>>

\* os.Rename succeeds: the new file takes the name of the old one in one step.
Replace == /\ tmp.is # "absent"
           /\ config' = tmp /\ tmp' = NoConfig
           /\ keyed' = (keyed \/ HasKey(tmp))

RenameRemovesFirst(p) ==
  /\ At(p, "rename") /\ Goto(p, "remove")
  /\ UNCHANGED <<files, keyed, header, keys, monitor>>

Rename(p) ==
  /\ At(p, "rename")
  /\ \/ Replace /\ Goto(p, "cores")
     \/ /\ Fault("rename") \/ tmp.is = "absent"
        /\ Goto(p, "remove") /\ keyed' = FALSE /\ UNCHANGED <<config, tmp>>
  /\ UNCHANGED <<header, keys, monitor>>

\* The fallback for systems whose rename does not replace: os.Remove(path) ...
RemoveOld(p) ==
  /\ At(p, "remove")
  /\ \/ config' = NoConfig /\ Goto(p, "renameAgain") /\ UNCHANGED tmp
     \/ Fault("remove") /\ tmp' = NoConfig /\ Fail(p, TRUE) /\ UNCHANGED config
  /\ UNCHANGED <<header, keys, monitor, keyed>>

\* ... and the second rename.
RenameAgain(p) ==
  /\ At(p, "renameAgain")
  /\ \/ Replace /\ Goto(p, "cores")
     \/ /\ Fault("rename") \/ tmp.is = "absent"
        /\ tmp' = NoConfig /\ Fail(p, TRUE) /\ UNCHANGED <<config, keyed>>
  /\ UNCHANGED <<header, keys, monitor>>

---------------------------------------------------------------------------
(* The firmware headers: one monitor process per core, which reads the       *)
(* config again.                                                             *)

NextCore(p) ==
  /\ At(p, "cores")
  /\ \/ setup[p].todo = {} /\ Goto(p, "ok")
     \/ \E c \in setup[p].todo :
          setup' = [setup EXCEPT ![p].pc = "load", ![p].core = c, ![p].todo = @ \ {c}]
  /\ UNCHANGED <<files, keys, monitor, keyed>>

\* loadPersistentAuthSettings: no config is no key.
LoadConfig(p) ==
  /\ At(p, "load")
  /\ \/ IF config.is = "torn" \/ ~Usable(config.key)
        THEN Fail(p, FALSE)
        ELSE setup' = [setup EXCEPT ![p].pc = "header", ![p].key = config.key]
     \/ Fault("read") /\ Fail(p, TRUE)
  /\ UNCHANGED <<files, keys, monitor, keyed>>

HeaderOf(p) == header[setup[p].core]
SetHeader(p, h) == header' = [header EXCEPT ![setup[p].core] = h]

\* Without a key: removeManagedFirmwareConfig.
RemoveHeader(p) ==
  /\ At(p, "header") /\ setup[p].key = NoKey
  /\ \/ ~Marked(HeaderOf(p)) /\ Goto(p, "cores") /\ UNCHANGED header
     \/ Marked(HeaderOf(p)) /\ SetHeader(p, NoHeader) /\ Goto(p, "cores")
     \/ Marked(HeaderOf(p)) /\ Fault("remove") /\ Fail(p, TRUE) /\ UNCHANGED header
     \/ HeaderOf(p).is # "absent" /\ Fault("read") /\ Fail(p, TRUE) /\ UNCHANGED header
  /\ UNCHANGED <<config, tmp, keys, monitor, keyed>>

\* A file without the marker is not overwritten.
MayWrite(h) == h.is = "absent" \/ Marked(h)

CheckHeaderOnce(p) ==
  /\ At(p, "header") /\ setup[p].key # NoKey
  /\ Goto(p, IF HeaderOf(p).is = "absent" THEN "writeHeader"
             ELSE IF Marked(HeaderOf(p)) THEN "cores" ELSE "refused")
  /\ UNCHANGED <<files, keys, monitor, keyed>>

CheckHeader(p) ==
  /\ At(p, "header") /\ setup[p].key # NoKey
  /\ \/ Goto(p, IF MayWrite(HeaderOf(p)) THEN "writeHeader" ELSE "refused")
     \/ HeaderOf(p).is # "absent" /\ Fault("read") /\ Fail(p, TRUE)
  /\ UNCHANGED <<files, keys, monitor, keyed>>

\* What a write of the header that was cut off leaves.
CutOff == {TornHeader, ManagedHeader(NoKey)}

\* os.WriteFile(path): in place.
WriteHeader(p) ==
  /\ At(p, "writeHeader")
  /\ \/ SetHeader(p, ManagedHeader(setup[p].key)) /\ Goto(p, "cores")
     \/ /\ Fault("write") /\ Fail(p, TRUE)
        /\ \E h \in CutOff \cup {HeaderOf(p)} : SetHeader(p, h)
  /\ UNCHANGED <<config, tmp, keys, monitor, keyed>>

\* The process of Setup is killed, possibly inside a write.  The files are as
\* the operating system has them: no power loss, after which a rename that was
\* not preceded by fsync may leave a torn config.
Kill(p) ==
  /\ Fault("kill") /\ setup[p].pc \notin {"idle", "ok", "failed", "refused"}
  /\ Goto(p, "idle")
  /\ IF At(p, "writeTmp") THEN tmp' \in {tmp, TornConfig} ELSE UNCHANGED tmp
  /\ IF At(p, "writeHeader")
     THEN \E h \in CutOff \cup {HeaderOf(p)} : SetHeader(p, h)
     ELSE UNCHANGED header
  /\ UNCHANGED <<config, keys, monitor, keyed>>

---------------------------------------------------------------------------
(* A monitor that serves Arduino IDE, a stress test or direct mode *)

NotRunning == [running |-> FALSE, key |-> NoKey, allow |-> FALSE]

\* The config that loadAuthSettings may use.
Readable == config.is # "torn" /\ Usable(config.key)

\* loadAuthSettings: the environment overrides the config, key by key; a bad
\* config ends the monitor even if the environment has a key.
StartMonitor(envKey, envAllow) ==
  /\ LET key == IF envKey = NoKey THEN config.key ELSE envKey
         allow == IF envAllow = "unset" THEN config.allow ELSE envAllow = "true"
     IN monitor' = IF Readable /\ envAllow # "bad" /\ Usable(key)
                   THEN [running |-> TRUE, key |-> key, allow |-> allow]
                   ELSE NotRunning
  /\ UNCHANGED <<files, setup, keys, keyed>>

---------------------------------------------------------------------------

\* Any installation: no config yet, one with or without a key, one the user
\* spoilt; headers of the user's, of an earlier Setup, or none.
Init ==
  /\ config \in {NoConfig, TornConfig} \cup {ConfigOf(k, a) : k \in {NoKey, 1, BadKey}, a \in BOOLEAN}
  /\ tmp = NoConfig
  /\ header \in [Cores -> {NoHeader, UserHeader, ManagedHeader(1)}]
  /\ setup = [p \in Setups |-> [pc |-> "idle", mode |-> "provision", key |-> NoKey,
                                core |-> AnyCore, todo |-> {}, io |-> FALSE]]
  /\ keys = 1 /\ monitor = NotRunning
  /\ keyed = HasKey(config)

SetupStep(p) == \/ ReadConfig(p) \/ WriteTmp(p) \/ ChmodTmp(p)
                \/ Rename(p) \/ RemoveOld(p) \/ RenameAgain(p)
                \/ NextCore(p) \/ LoadConfig(p)
                \/ RemoveHeader(p) \/ CheckHeader(p) \/ WriteHeader(p)

Next == \/ \E p \in Setups : SetupStep(p) \/ Kill(p)
        \/ \E p \in Setups, mode \in {"provision", "regenerate"} : Start(p, mode)
        \/ \E k \in {NoKey, EnvKey, BadKey}, a \in {"unset", "true", "false", "bad"} :
             StartMonitor(k, a)

Spec == Init /\ [][Next]_vars

---------------------------------------------------------------------------
(* Properties *)

Config == [is : {"absent", "torn", "json"}, key : Keys \cup {NoKey, BadKey}, allow : BOOLEAN]
Header == [is : {"absent", "user", "torn", "managed"}, key : Keys \cup {NoKey}]
Label == {"idle", "read", "writeTmp", "chmodTmp", "rename", "remove", "renameAgain", "cores",
          "load", "header", "writeHeader", "ok", "failed", "refused"}
Process == [pc : Label, mode : {"provision", "regenerate"}, key : Keys \cup {NoKey},
            core : Cores \cup {AnyCore}, todo : SUBSET Cores, io : BOOLEAN]

\* The type invariant of the key's files and of the processes that use them.
TypeOK ==
  /\ config \in Config /\ tmp \in Config /\ header \in [Cores -> Header]
  /\ setup \in [Setups -> Process]
  /\ keys \in 1..MaxKeys /\ keyed \in BOOLEAN
  /\ monitor \in [running : BOOLEAN, key : Keys \cup {NoKey, EnvKey}, allow : BOOLEAN]

\* When Setup reports success the config is usable and every header the
\* monitor manages has its key: firmware built now and a monitor started now
\* have the same key, or none of them has one, whatever was interrupted before.
SuccessAgrees ==
  \A p \in Setups : At(p, "ok") =>
    /\ config.is = "json" /\ Usable(config.key)
    /\ \A c \in Cores : IF config.key = NoKey THEN ~Marked(header[c])
                        ELSE header[c] = ManagedHeader(config.key)

\* Once a key was provisioned no monitor starts without one, also while the key
\* is being rotated and after every crash, unless the config had to be removed
\* because the system's rename does not replace files.
MonitorKeyed == [][monitor' # monitor /\ monitor'.running /\ keyed => monitor'.key # NoKey]_vars

\* A config.json that the monitor can use, or none, stays that way at every
\* file operation that succeeds, fails or is cut off, both renames and the window
\* between them included; and while it is so, Setup fails only when one of its
\* own file operations does.  (A header torn by a kill is another matter: every
\* later Setup refuses it, because it has no marker.)
Repeatable ==
  [][Readable => /\ Readable'
                 /\ \A p \in Setups : ~At(p, "failed") /\ At(p, "failed")' => setup'[p].io]_vars

\* Whatever the bytes of the key, a header that was written with one compiles,
\* and to exactly that key (quoteCStringBytes): no escape swallows a digit of
\* the key that follows it, no quote ends it early, no byte breaks the line.
HeaderHoldsKey ==
  \A c \in Cores : Marked(header[c]) /\ header[c].key # NoKey => AllReadBack

=============================================================================
