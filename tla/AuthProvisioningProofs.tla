----------------------- MODULE AuthProvisioningProofs -----------------------
(***************************************************************************)
(* The key on the computer, for any set of cores, any number of key        *)
(* rotations and any set of faults, when Setup scripts do not overlap: the *)
(* properties hold however often Setup fails or is killed and is run again.*)
(* And for keys of any length: the compiler reads the key from the header, *)
(* shown by induction over what the recursive functions of the literal     *)
(* compute (RangeInduction, IterationExists).                              *)
(***************************************************************************)
EXTENDS AuthProvisioning, SequenceTheorems, WellFoundedInduction, TLAPS

\* Setups run one after the other.
OneSetup == \A p, q \in Setups : p = q

---------------------------------------------------------------------------
(* The invariant *)

Writing == {"writeTmp", "chmodTmp", "rename", "remove", "renameAgain"}
Copying == {"cores", "load", "header", "writeHeader", "ok"}

\* While a new config is being written: it has a key, the temporary file has it
\* once it is written, and the old config is replaced only when it holds no
\* configuration or the key is being rotated.
Replacing(p) ==
  /\ setup[p].key \in Keys
  /\ ~At(p, "writeTmp") => tmp = ConfigOf(setup[p].key, FALSE)
  /\ setup[p].mode = "regenerate" \/ config.is # "json"
NewConfig == \A p \in Setups : setup[p].pc \in Writing => Replacing(p)

\* A config that had a key and was not removed by the fallback has one.
KeyThere ==
  /\ keyed => HasKey(config)
  /\ \A p \in Setups : setup[p].pc \in {"remove", "renameAgain"} => ~keyed

\* The header of a core goes with the config.
Agrees(c) == IF config.key = NoKey THEN ~Marked(header[c])
             ELSE header[c] = ManagedHeader(config.key)

\* While headers are written: there is a config, and the cores that are not
\* waiting and not being worked on agree with it.
OnCore(p) == setup[p].pc \in {"load", "header", "writeHeader"}
Distributing(p) ==
  /\ config.is = "json" /\ Usable(config.key)
  /\ At(p, "ok") => setup[p].todo = {}
  /\ setup[p].pc \in {"header", "writeHeader"} => setup[p].key = config.key
  /\ At(p, "writeHeader") => setup[p].key # NoKey
  /\ OnCore(p) => setup[p].core \in Cores
  /\ \A c \in Cores : c \in setup[p].todo \/ Agrees(c) \/ (OnCore(p) /\ c = setup[p].core)
Copied == \A p \in Setups : setup[p].pc \in Copying => Distributing(p)

\* No core is done before there is a config to copy.
AllCores == \A p \in Setups : setup[p].pc \in Writing \cup {"read"} => setup[p].todo = Cores

Rest == AllCores /\ NewConfig /\ KeyThere /\ Copied
Inv == TypeOK /\ Rest

---------------------------------------------------------------------------
(* Types *)

\* What file operations leave is a file of its kind.
LEMMA FilesAreTyped ==
  /\ NoConfig \in Config /\ TornConfig \in Config
  /\ \A k \in Keys \cup {NoKey, BadKey}, a \in BOOLEAN : ConfigOf(k, a) \in Config
  /\ NoHeader \in Header /\ UserHeader \in Header /\ TornHeader \in Header
  /\ \A k \in Keys \cup {NoKey} : ManagedHeader(k) \in Header
  /\ NotRunning \in [running : BOOLEAN, key : Keys \cup {NoKey, EnvKey}, allow : BOOLEAN]
  BY DEF Config, Header, NotRunning, NoConfig, TornConfig, ConfigOf, NoHeader, UserHeader, TornHeader,
         ManagedHeader

\* A process stays one when its fields change.
LEMMA ProcessFields ==
  ASSUME NEW x \in Process, NEW l \in Label
  PROVE  /\ [x EXCEPT !.pc = l] \in Process
         /\ \A b \in BOOLEAN : [x EXCEPT !.pc = l, !.io = b] \in Process
         /\ \A k \in Keys \cup {NoKey} : [x EXCEPT !.pc = l, !.key = k] \in Process
         /\ \A c \in Cores : [x EXCEPT !.pc = l, !.core = c, !.todo = @ \ {c}] \in Process
  BY DEF Process

\* The steps of a process by what they do to it.
LEMMA ProcessSteps ==
  ASSUME setup \in [Setups -> Process], NEW p \in Setups
  PROVE  /\ \A l \in Label : Goto(p, l) => setup' \in [Setups -> Process]
         /\ \A io \in BOOLEAN : Fail(p, io) => setup' \in [Setups -> Process]
         /\ \A l \in Label, k \in Keys \cup {NoKey} :
              setup' = [setup EXCEPT ![p].pc = l, ![p].key = k] => setup' \in [Setups -> Process]
         /\ \A l \in Label, c \in Cores :
              setup' = [setup EXCEPT ![p].pc = l, ![p].core = c, ![p].todo = @ \ {c}]
                => setup' \in [Setups -> Process]
<1> USE DEF Goto, Fail
<1>1. setup[p] \in Process /\ "failed" \in Label
  BY DEF Label
<1>2. ASSUME NEW l \in Label, Goto(p, l) PROVE setup' \in [Setups -> Process]
  BY <1>1, <1>2, ProcessFields
<1>3. ASSUME NEW io \in BOOLEAN, Fail(p, io) PROVE setup' \in [Setups -> Process]
  BY <1>1, <1>3, ProcessFields
<1>4. ASSUME NEW l \in Label, NEW k \in Keys \cup {NoKey},
             setup' = [setup EXCEPT ![p].pc = l, ![p].key = k]
      PROVE setup' \in [Setups -> Process]
  BY <1>1, <1>4, ProcessFields
<1>5. ASSUME NEW l \in Label, NEW c \in Cores,
             setup' = [setup EXCEPT ![p].pc = l, ![p].core = c, ![p].todo = @ \ {c}]
      PROVE setup' \in [Setups -> Process]
  BY <1>1, <1>5, ProcessFields
<1>6. QED
  BY <1>2, <1>3, <1>4, <1>5

\* A key that is too short or too long, or no key, is not a key.
LEMMA OtherKeys == BadKey \notin Keys /\ NoKey \notin Keys /\ NoKey # BadKey
  BY ProvisioningAssumption DEF BadKey, Keys, NoKey

\* A key that is generated within the bound is a key.
LEMMA NewKey == keys \in 1..MaxKeys /\ keys < MaxKeys => keys + 1 \in 1..MaxKeys
  BY ProvisioningAssumption

\* The type invariant is kept by every step, however many Setups run.
LEMMA NextType == TypeOK /\ [Next]_vars => TypeOK'
<1> SUFFICES ASSUME TypeOK, [Next]_vars PROVE TypeOK'
  OBVIOUS
<1> USE ProvisioningAssumption, FilesAreTyped, ProcessSteps DEF TypeOK, files
<1>0. Label = {"idle", "read", "writeTmp", "chmodTmp", "rename", "remove", "renameAgain", "cores",
               "load", "header", "writeHeader", "ok", "failed", "refused"}
  BY DEF Label
<1>1. ASSUME NEW p \in Setups, NEW mode \in {"provision", "regenerate"}, Start(p, mode) PROVE TypeOK'
  BY <1>1, <1>0 DEF Start, Process
<1>2. ASSUME NEW p \in Setups, ReadConfig(p) PROVE TypeOK'
  <2>1. CASE \E io \in BOOLEAN : Fail(p, io) /\ UNCHANGED keys
    BY <2>1, <1>2 DEF ReadConfig
  <2>2. CASE Goto(p, "cores") /\ UNCHANGED keys
    BY <2>2, <1>2, <1>0 DEF ReadConfig
  <2>3. CASE /\ keys < MaxKeys /\ keys' = keys + 1
             /\ setup' = [setup EXCEPT ![p].pc = "writeTmp", ![p].key = keys + 1]
    <3>1. keys' \in 1..MaxKeys /\ keys + 1 \in Keys \cup {NoKey}
      BY <2>3, NewKey DEF Keys
    <3>2. setup' \in [Setups -> Process]
      BY <2>3, <3>1, <1>0
    <3>3. QED
      BY <3>1, <3>2, <1>2 DEF ReadConfig
  <2>4. QED
    BY <2>1, <2>2, <2>3, <1>2 DEF ReadConfig
<1>3. ASSUME NEW p \in Setups, WriteTmp(p) PROVE TypeOK'
  <2>1. setup[p].key \in Keys \cup {NoKey}
    BY DEF Process
  <2>2. tmp' \in Config
    BY <1>3, <2>1 DEF WriteTmp
  <2>3. setup' \in [Setups -> Process]
    BY <1>3, <1>0 DEF WriteTmp
  <2>4. QED
    BY <1>3, <2>2, <2>3 DEF WriteTmp
<1>4. ASSUME NEW p \in Setups, ChmodTmp(p) PROVE TypeOK'
  BY <1>4, <1>0 DEF ChmodTmp
<1>5. ASSUME NEW p \in Setups, Rename(p) PROVE TypeOK'
  BY <1>5, <1>0 DEF Rename, Replace, HasKey
<1>6. ASSUME NEW p \in Setups, RemoveOld(p) PROVE TypeOK'
  BY <1>6, <1>0 DEF RemoveOld
<1>7. ASSUME NEW p \in Setups, RenameAgain(p) PROVE TypeOK'
  BY <1>7, <1>0 DEF RenameAgain, Replace, HasKey
<1>8. ASSUME NEW p \in Setups, NextCore(p) PROVE TypeOK'
  <2>1. setup[p].todo \subseteq Cores
    BY DEF Process
  <2>2. QED
    BY <1>8, <1>0, <2>1 DEF NextCore
<1>9. ASSUME NEW p \in Setups, LoadConfig(p) PROVE TypeOK'
  <2>1. Usable(config.key) => config.key \in Keys \cup {NoKey}
    BY DEF Config, Usable
  <2>2. QED
    BY <1>9, <1>0, <2>1 DEF LoadConfig
<1>10. ASSUME NEW p \in Setups, NEW h \in Header, SetHeader(p, h) PROVE header' \in [Cores -> Header]
  BY <1>10 DEF SetHeader
<1>11. ASSUME NEW p \in Setups, RemoveHeader(p) PROVE TypeOK'
  BY <1>11, <1>0, <1>10 DEF RemoveHeader
<1>12. ASSUME NEW p \in Setups, CheckHeader(p) PROVE TypeOK'
  BY <1>12, <1>0 DEF CheckHeader
<1>13. ASSUME NEW p \in Setups, NEW h \in CutOff \cup {HeaderOf(p)}, SetHeader(p, h)
       PROVE header' \in [Cores -> Header]
  <2>1. CASE h \in CutOff
    <3>1. h \in Header
      BY <2>1 DEF CutOff
    <3>2. QED
      BY <3>1, <1>10, <1>13
  <2>2. CASE h = HeaderOf(p)
    BY <2>2, <1>13 DEF SetHeader, HeaderOf
  <2>3. QED
    BY <2>1, <2>2
<1>14. ASSUME NEW p \in Setups, WriteHeader(p) PROVE TypeOK'
  <2>1. setup[p].key \in Keys \cup {NoKey}
    BY DEF Process
  <2>2. QED
    BY <1>14, <1>0, <1>10, <1>13, <2>1 DEF WriteHeader
<1>15. ASSUME NEW p \in Setups, Kill(p) PROVE TypeOK'
  BY <1>15, <1>0, <1>13 DEF Kill
<1>16. ASSUME NEW k \in {NoKey, EnvKey, BadKey}, NEW a \in {"unset", "true", "false", "bad"},
              StartMonitor(k, a)
       PROVE TypeOK'
  <2>1. config.key \in Keys \cup {NoKey, BadKey} /\ config.allow \in BOOLEAN
    BY DEF Config
  <2>2. QED
    BY <1>16, <2>1 DEF StartMonitor, Usable
<1>17. CASE UNCHANGED vars
  BY <1>17 DEF vars
<1>18. QED
  BY <1>1, <1>2, <1>3, <1>4, <1>5, <1>6, <1>7, <1>8, <1>9, <1>11, <1>12, <1>14, <1>15, <1>16,
     <1>17 DEF Next, SetupStep

---------------------------------------------------------------------------
(* Preservation *)

\* What the steps of a process change of it, and what they leave.
LEMMA Moves ==
  ASSUME setup \in [Setups -> Process], NEW p \in Setups
  PROVE  /\ \A l \in Label : Goto(p, l) =>
              /\ setup'[p].pc = l /\ setup'[p].mode = setup[p].mode
              /\ setup'[p].key = setup[p].key /\ setup'[p].core = setup[p].core
              /\ setup'[p].todo = setup[p].todo /\ setup'[p].io = setup[p].io
         /\ \A io \in BOOLEAN : Fail(p, io) => setup'[p].pc = "failed" /\ setup'[p].io = io
         /\ \A l \in Label, k \in Keys \cup {NoKey} :
              setup' = [setup EXCEPT ![p].pc = l, ![p].key = k] =>
                /\ setup'[p].pc = l /\ setup'[p].mode = setup[p].mode /\ setup'[p].key = k
                /\ setup'[p].core = setup[p].core /\ setup'[p].todo = setup[p].todo
                /\ setup'[p].io = setup[p].io
         /\ \A l \in Label, c \in Cores :
              setup' = [setup EXCEPT ![p].pc = l, ![p].core = c, ![p].todo = @ \ {c}] =>
                /\ setup'[p].pc = l /\ setup'[p].mode = setup[p].mode
                /\ setup'[p].key = setup[p].key /\ setup'[p].core = c
                /\ setup'[p].todo = setup[p].todo \ {c} /\ setup'[p].io = setup[p].io
<1> USE DEF Process, Goto, Fail
<1>1. ASSUME NEW l \in Label, Goto(p, l)
      PROVE  /\ setup'[p].pc = l /\ setup'[p].mode = setup[p].mode
             /\ setup'[p].key = setup[p].key /\ setup'[p].core = setup[p].core
             /\ setup'[p].todo = setup[p].todo /\ setup'[p].io = setup[p].io
  BY <1>1
<1>2. ASSUME NEW io \in BOOLEAN, Fail(p, io) PROVE setup'[p].pc = "failed" /\ setup'[p].io = io
  BY <1>2
<1>3. ASSUME NEW l \in Label, NEW k \in Keys \cup {NoKey},
             setup' = [setup EXCEPT ![p].pc = l, ![p].key = k]
      PROVE  /\ setup'[p].pc = l /\ setup'[p].mode = setup[p].mode /\ setup'[p].key = k
             /\ setup'[p].core = setup[p].core /\ setup'[p].todo = setup[p].todo
             /\ setup'[p].io = setup[p].io
  BY <1>3
<1>4. ASSUME NEW l \in Label, NEW c \in Cores,
             setup' = [setup EXCEPT ![p].pc = l, ![p].core = c, ![p].todo = @ \ {c}]
      PROVE  /\ setup'[p].pc = l /\ setup'[p].mode = setup[p].mode
             /\ setup'[p].key = setup[p].key /\ setup'[p].core = c
             /\ setup'[p].todo = setup[p].todo \ {c} /\ setup'[p].io = setup[p].io
  BY <1>4
<1>5. QED
  BY <1>1, <1>2, <1>3, <1>4

\* Any installation satisfies the invariant.
LEMMA InitInv == Init => Inv
<1> SUFFICES ASSUME Init PROVE Inv
  OBVIOUS
<1> USE ProvisioningAssumption DEF Init
<1>1. 1 \in Keys \cup {NoKey} /\ {NoKey, 1, BadKey} \subseteq Keys \cup {NoKey, BadKey}
  BY DEF Keys
<1>2. config \in Config /\ tmp \in Config /\ header \in [Cores -> Header]
  BY <1>1, FilesAreTyped
<1>3. setup \in [Setups -> Process]
  BY DEF Process, Label
<1>4. keys \in 1..MaxKeys /\ keyed \in BOOLEAN
  BY DEF HasKey
<1>5. TypeOK
  BY <1>2, <1>3, <1>4, FilesAreTyped DEF TypeOK
<1>6. \A p \in Setups : setup[p].pc = "idle"
  OBVIOUS
<1>7. AllCores /\ NewConfig /\ KeyThere /\ Copied
  BY <1>6 DEF AllCores, NewConfig, KeyThere, Copied, Writing, Copying, At
<1>8. QED
  BY <1>5, <1>7 DEF Inv, Rest

\* With one Setup, what has to be shown of a step by where it leads: Setup
\* stops, ...
LEMMA Stops ==
  ASSUME OneSetup, NEW p \in Setups, keyed' => HasKey(config)',
         setup'[p].pc \in {"idle", "read", "failed", "refused"},
         setup'[p].pc = "read" => setup'[p].todo = Cores
  PROVE  Rest'
<1>1. \A q \in Setups : q = p
  BY DEF OneSetup
<1>2. QED
  BY <1>1 DEF Rest, AllCores, NewConfig, KeyThere, Copied, Writing, Copying, At

\* ... goes on writing a config, ...
LEMMA Writes ==
  ASSUME OneSetup, NEW p \in Setups, keyed' => HasKey(config)',
         setup'[p].pc \in Writing, Replacing(p)', setup'[p].todo = Cores,
         setup'[p].pc \in {"remove", "renameAgain"} => ~keyed'
  PROVE  Rest'
<1>1. \A q \in Setups : q = p
  BY DEF OneSetup
<1>2. QED
  BY <1>1 DEF Rest, AllCores, NewConfig, KeyThere, Copied, Writing, Copying, At

\* ... or goes on copying the key to the cores.
LEMMA Copies ==
  ASSUME OneSetup, NEW p \in Setups, keyed' => HasKey(config)',
         setup'[p].pc \in Copying, Distributing(p)'
  PROVE  Rest'
<1>1. \A q \in Setups : q = p
  BY DEF OneSetup
<1>2. QED
  BY <1>1 DEF Rest, AllCores, NewConfig, KeyThere, Copied, Writing, Copying, At

\* Every file operation, failed or not, and every start of a monitor keeps it.
LEMMA NextRest == OneSetup /\ Inv /\ [Next]_vars => Rest'
<1> SUFFICES ASSUME OneSetup, Inv, [Next]_vars PROVE Rest'
  OBVIOUS
<1>t. /\ TypeOK /\ setup \in [Setups -> Process] /\ config \in Config /\ header \in [Cores -> Header]
      /\ keyed => HasKey(config)
  BY DEF Inv, Rest, TypeOK, KeyThere
<1>l. Label = {"idle", "read", "writeTmp", "chmodTmp", "rename", "remove", "renameAgain", "cores",
               "load", "header", "writeHeader", "ok", "failed", "refused"}
  BY DEF Label
<1>r. ASSUME NEW p \in Setups, setup[p].pc \in Writing \cup {"read"} PROVE setup[p].todo = Cores
  BY <1>r DEF Inv, Rest, AllCores
<1>w. ASSUME NEW p \in Setups, setup[p].pc \in Writing
      PROVE  Replacing(p) /\ (setup[p].pc \in {"remove", "renameAgain"} => ~keyed)
  BY <1>w DEF Inv, Rest, NewConfig, KeyThere
<1>c. ASSUME NEW p \in Setups, setup[p].pc \in Copying PROVE Distributing(p)
  BY <1>c DEF Inv, Rest, Copied
<1>s. ASSUME NEW p \in Setups, NEW mode \in {"provision", "regenerate"}, Start(p, mode) PROVE Rest'
  <2>1. setup'[p].pc = "read" /\ setup'[p].todo = Cores
    BY <1>t, <1>s DEF Start
  <2>2. QED
    BY <2>1, <1>s, <1>t, Stops DEF Start, files
<1>f. ASSUME NEW p \in Setups, Fail(p, TRUE), UNCHANGED <<config, keyed>> PROVE Rest'
  <2>1. setup'[p].pc = "failed" /\ setup'[p].io = TRUE
    BY <1>f, <1>t, Moves
  <2>2. QED
    BY <2>1, <1>f, <1>t, Stops
<1>u. ASSUME NEW p \in Setups, Fail(p, FALSE), config.is = "torn" \/ ~Usable(config.key),
             UNCHANGED <<config, keyed>>
      PROVE Rest'
  <2>1. setup'[p].pc = "failed"
    BY <1>u, <1>t, Moves
  <2>2. ~HasKey(config)
    BY <1>u, OtherKeys DEF HasKey, Usable
  <2>3. QED
    BY <2>1, <2>2, <1>u, <1>t, Stops
<1>1. ASSUME NEW p \in Setups, ReadConfig(p) PROVE Rest'
  <2>0. At(p, "read") /\ setup[p].todo = Cores /\ UNCHANGED <<config, keyed>>
    BY <1>1, <1>r DEF ReadConfig, files, At
  <2>1. CASE Fail(p, TRUE)
    BY <2>0, <2>1, <1>f
  <2>2. CASE Fail(p, FALSE) /\ (config.is = "torn" \/ ~Usable(config.key))
    BY <2>0, <2>2, <1>u
  <2>3. CASE Goto(p, "cores") /\ KeepsConfig(p) /\ Usable(config.key)
    <3>1. setup'[p].pc = "cores" /\ setup'[p].todo = Cores
      BY <2>0, <2>3, <1>t, <1>l, Moves
    <3>2. Distributing(p)'
      BY <3>1, <2>0, <2>3 DEF Distributing, KeepsConfig, At, OnCore, Usable
    <3>3. QED
      BY <3>1, <3>2, <2>0, <1>t, Copies DEF Copying, HasKey
  <2>4. CASE /\ config.is # "torn" /\ ~KeepsConfig(p) /\ keys < MaxKeys
             /\ setup' = [setup EXCEPT ![p].pc = "writeTmp", ![p].key = keys + 1]
    <3>1. keys + 1 \in Keys /\ setup[p].mode \in {"provision", "regenerate"}
      BY <2>4, <1>t, NewKey DEF TypeOK, Keys, Process
    <3>2. /\ setup'[p].pc = "writeTmp" /\ setup'[p].todo = Cores /\ setup'[p].key \in Keys
          /\ setup'[p].mode = setup[p].mode
      BY <2>0, <2>4, <3>1, <1>t DEF Process
    <3>3. Replacing(p)'
      BY <3>1, <3>2, <2>0, <2>4 DEF Replacing, KeepsConfig, At
    <3>4. QED
      BY <3>2, <3>3, <2>0, <1>t, Writes DEF Writing, HasKey
  <2>5. QED
    BY <2>1, <2>2, <2>3, <2>4, <1>1 DEF ReadConfig
<1>2. ASSUME NEW p \in Setups, WriteTmp(p) PROVE Rest'
  <2>0. /\ At(p, "writeTmp") /\ setup[p].todo = Cores /\ Replacing(p) /\ UNCHANGED <<config, keyed>>
    BY <1>2, <1>r, <1>w DEF WriteTmp, At, Writing
  <2>1. CASE tmp' = ConfigOf(setup[p].key, FALSE) /\ Goto(p, "chmodTmp")
    <3>1. /\ setup'[p].pc = "chmodTmp" /\ setup'[p].todo = Cores /\ setup'[p].key = setup[p].key
          /\ setup'[p].mode = setup[p].mode
      BY <2>0, <2>1, <1>t, <1>l, Moves
    <3>2. Replacing(p)'
      BY <3>1, <2>0, <2>1 DEF Replacing, ConfigOf
    <3>3. QED
      BY <3>1, <3>2, <2>0, <1>t, Writes DEF Writing, HasKey
  <2>2. QED
    BY <2>0, <2>1, <1>2, <1>f DEF WriteTmp
<1>3. ASSUME NEW p \in Setups, ChmodTmp(p) PROVE Rest'
  <2>0. /\ At(p, "chmodTmp") /\ setup[p].todo = Cores /\ Replacing(p) /\ UNCHANGED <<config, keyed>>
    BY <1>3, <1>r, <1>w DEF ChmodTmp, At, Writing
  <2>1. CASE Goto(p, "rename") /\ UNCHANGED tmp
    <3>1. /\ setup'[p].pc = "rename" /\ setup'[p].todo = Cores /\ setup'[p].key = setup[p].key
          /\ setup'[p].mode = setup[p].mode
      BY <2>0, <2>1, <1>t, <1>l, Moves
    <3>2. Replacing(p)'
      BY <3>1, <2>0, <2>1 DEF Replacing, At, ConfigOf
    <3>3. QED
      BY <3>1, <3>2, <2>0, <1>t, Writes DEF Writing, HasKey
  <2>2. QED
    BY <2>0, <2>1, <1>3, <1>f DEF ChmodTmp
<1>p. ASSUME NEW p \in Setups, setup[p].pc \in Writing \ {"writeTmp"}, Replace, Goto(p, "cores")
      PROVE Rest'
  <2>1. /\ setup[p].key \in Keys /\ tmp = ConfigOf(setup[p].key, FALSE) /\ setup[p].todo = Cores
        /\ config' = tmp
    BY <1>p, <1>w, <1>r DEF Replacing, At, Replace
  <2>2. setup'[p].pc = "cores" /\ setup'[p].todo = Cores
    BY <2>1, <1>p, <1>t, <1>l, Moves
  <2>3. config'.is = "json" /\ config'.key \in Keys /\ config'.key # BadKey
    BY <2>1, ProvisioningAssumption DEF ConfigOf, Keys, BadKey
  <2>4. Distributing(p)'
    BY <2>2, <2>3 DEF Distributing, At, OnCore, Usable
  <2>5. QED
    BY <2>2, <2>3, <2>4, Copies DEF Copying, HasKey
<1>4. ASSUME NEW p \in Setups, Rename(p) PROVE Rest'
  <2>0. At(p, "rename") /\ setup[p].todo = Cores /\ Replacing(p)
    BY <1>4, <1>r, <1>w DEF Rename, At, Writing
  <2>1. CASE Replace /\ Goto(p, "cores")
    BY <2>0, <2>1, <1>p DEF At, Writing
  <2>2. CASE Goto(p, "remove") /\ keyed' = FALSE /\ UNCHANGED <<config, tmp>>
    <3>1. /\ setup'[p].pc = "remove" /\ setup'[p].todo = Cores /\ setup'[p].key = setup[p].key
          /\ setup'[p].mode = setup[p].mode
      BY <2>0, <2>2, <1>t, <1>l, Moves
    <3>2. Replacing(p)'
      BY <3>1, <2>0, <2>2 DEF Replacing, At, ConfigOf
    <3>3. QED
      BY <3>1, <3>2, <2>2, Writes DEF Writing
  <2>3. QED
    BY <2>1, <2>2, <1>4 DEF Rename
<1>5. ASSUME NEW p \in Setups, RemoveOld(p) PROVE Rest'
  <2>0. /\ At(p, "remove") /\ setup[p].todo = Cores /\ Replacing(p) /\ ~keyed /\ UNCHANGED keyed
    BY <1>5, <1>r, <1>w DEF RemoveOld, At, Writing
  <2>1. CASE config' = NoConfig /\ Goto(p, "renameAgain") /\ UNCHANGED tmp
    <3>1. /\ setup'[p].pc = "renameAgain" /\ setup'[p].todo = Cores /\ setup'[p].key = setup[p].key
      BY <2>0, <2>1, <1>t, <1>l, Moves
    <3>2. Replacing(p)'
      BY <3>1, <2>0, <2>1 DEF Replacing, At, ConfigOf, NoConfig
    <3>3. QED
      BY <3>1, <3>2, <2>0, Writes DEF Writing
  <2>2. QED
    BY <2>0, <2>1, <1>5, <1>f DEF RemoveOld
<1>6. ASSUME NEW p \in Setups, RenameAgain(p) PROVE Rest'
  BY <1>6, <1>p, <1>f DEF RenameAgain, At, Writing
<1>7. ASSUME NEW p \in Setups, NextCore(p) PROVE Rest'
  <2>0. At(p, "cores") /\ Distributing(p) /\ UNCHANGED <<config, header, keyed>>
    BY <1>7, <1>c DEF NextCore, At, Copying, files
  <2>1. CASE setup[p].todo = {} /\ Goto(p, "ok")
    <3>1. setup'[p].pc = "ok" /\ setup'[p].todo = {}
      BY <2>0, <2>1, <1>t, <1>l, Moves
    <3>2. Distributing(p)'
      BY <3>1, <2>0, <2>1 DEF Distributing, At, OnCore, Agrees, Usable, Marked
    <3>3. QED
      BY <3>1, <3>2, <2>0, <1>t, Copies DEF Copying, HasKey
  <2>2. ASSUME NEW c \in setup[p].todo,
               setup' = [setup EXCEPT ![p].pc = "load", ![p].core = c, ![p].todo = @ \ {c}]
        PROVE Rest'
    <3>0. c \in Cores
      BY <1>t DEF Process
    <3>1. setup'[p].pc = "load" /\ setup'[p].core = c /\ setup'[p].todo = setup[p].todo \ {c}
      BY <3>0, <2>2, <1>t DEF Process
    <3>2. Distributing(p)'
      BY <3>0, <3>1, <2>0, <2>2 DEF Distributing, At, OnCore, Agrees, Usable, Marked
    <3>3. QED
      BY <3>1, <3>2, <2>0, <1>t, Copies DEF Copying, HasKey
  <2>3. QED
    BY <2>1, <2>2, <1>7 DEF NextCore
<1>8. ASSUME NEW p \in Setups, LoadConfig(p) PROVE Rest'
  <2>0. At(p, "load") /\ Distributing(p) /\ UNCHANGED <<config, header, keyed>>
    BY <1>8, <1>c DEF LoadConfig, At, Copying, files
  <2>1. CASE setup' = [setup EXCEPT ![p].pc = "header", ![p].key = config.key]
    <3>0. config.key \in Keys \cup {NoKey}
      BY <2>0, <1>t DEF Distributing, Config, Usable
    <3>1. /\ setup'[p].pc = "header" /\ setup'[p].core = setup[p].core
          /\ setup'[p].todo = setup[p].todo /\ setup'[p].key = config.key
      BY <3>0, <2>1, <1>t DEF Process
    <3>2. Distributing(p)'
      BY <3>1, <2>0 DEF Distributing, At, OnCore, Agrees, Usable, Marked
    <3>3. QED
      BY <3>1, <3>2, <2>0, <1>t, Copies DEF Copying, HasKey
  <2>2. QED
    BY <2>0, <2>1, <1>8, <1>f, <1>u DEF LoadConfig
<1>9. ASSUME NEW p \in Setups, RemoveHeader(p) PROVE Rest'
  <2>0. At(p, "header") /\ setup[p].key = NoKey /\ Distributing(p) /\ UNCHANGED <<config, keyed>>
    BY <1>9, <1>c DEF RemoveHeader, At, Copying
  <2>1. CASE Goto(p, "cores") /\ ((UNCHANGED header /\ ~Marked(HeaderOf(p))) \/ SetHeader(p, NoHeader))
    <3>1. setup'[p].pc = "cores" /\ setup'[p].todo = setup[p].todo
      BY <2>1, <1>t, <1>l, Moves
    <3>2. \A c \in Cores : /\ c # setup[p].core => header'[c] = header[c]
                           /\ c = setup[p].core => ~Marked(header'[c])
      BY <2>1, <1>t DEF SetHeader, HeaderOf, NoHeader, Marked
    <3>3. config.key = NoKey
      BY <2>0 DEF Distributing, At
    <3>4. Distributing(p)'
      BY <3>1, <3>2, <3>3, <2>0 DEF Distributing, At, OnCore, Agrees, Usable, Marked
    <3>5. QED
      BY <3>1, <3>4, <2>0, <1>t, Copies DEF Copying, HasKey
  <2>2. QED
    BY <2>0, <2>1, <1>9, <1>f DEF RemoveHeader
<1>10. ASSUME NEW p \in Setups, CheckHeader(p) PROVE Rest'
  <2>0. /\ At(p, "header") /\ setup[p].key # NoKey /\ Distributing(p)
        /\ UNCHANGED <<config, header, keyed>>
    BY <1>10, <1>c DEF CheckHeader, At, Copying, files
  <2>1. CASE Goto(p, "writeHeader")
    <3>1. /\ setup'[p].pc = "writeHeader" /\ setup'[p].todo = setup[p].todo
          /\ setup'[p].core = setup[p].core /\ setup'[p].key = setup[p].key
      BY <2>1, <1>t, <1>l, Moves
    <3>2. Distributing(p)'
      BY <3>1, <2>0 DEF Distributing, At, OnCore, Agrees, Usable, Marked
    <3>3. QED
      BY <3>1, <3>2, <2>0, <1>t, Copies DEF Copying, HasKey
  <2>2. CASE Goto(p, "refused")
    <3>1. setup'[p].pc = "refused"
      BY <2>2, <1>t, <1>l, Moves
    <3>2. QED
      BY <3>1, <2>0, <1>t, Stops DEF HasKey
  <2>3. QED
    BY <2>0, <2>1, <2>2, <1>10, <1>f DEF CheckHeader
<1>11. ASSUME NEW p \in Setups, WriteHeader(p) PROVE Rest'
  <2>0. At(p, "writeHeader") /\ Distributing(p) /\ UNCHANGED <<config, keyed>>
    BY <1>11, <1>c DEF WriteHeader, At, Copying
  <2>1. CASE SetHeader(p, ManagedHeader(setup[p].key)) /\ Goto(p, "cores")
    <3>1. setup'[p].pc = "cores" /\ setup'[p].todo = setup[p].todo
      BY <2>1, <1>t, <1>l, Moves
    <3>2. \A c \in Cores : header'[c] = IF c = setup[p].core THEN ManagedHeader(setup[p].key)
                                                             ELSE header[c]
      BY <2>1, <1>t DEF SetHeader
    <3>3. config.key # NoKey /\ setup[p].key = config.key
      BY <2>0 DEF Distributing, At
    <3>4. Distributing(p)'
      BY <3>1, <3>2, <3>3, <2>0 DEF Distributing, At, OnCore, Agrees, Usable, Marked
    <3>5. QED
      BY <3>1, <3>4, <2>0, <1>t, Copies DEF Copying, HasKey
  <2>2. QED
    BY <2>0, <2>1, <1>11, <1>f DEF WriteHeader
<1>12. ASSUME NEW p \in Setups, Kill(p) PROVE Rest'
  <2>1. setup'[p].pc = "idle"
    BY <1>12, <1>t, <1>l, Moves DEF Kill
  <2>2. QED
    BY <2>1, <1>12, <1>t, Stops DEF Kill, HasKey
<1>13. CASE UNCHANGED <<config, tmp, header, setup, keyed>>
  BY <1>13 DEF Inv, Rest, AllCores, NewConfig, Replacing, KeyThere, HasKey, Copied, Distributing, OnCore,
               Agrees, Marked, Usable, At
<1>14. ASSUME NEW k \in {NoKey, EnvKey, BadKey}, NEW a \in {"unset", "true", "false", "bad"},
              StartMonitor(k, a)
       PROVE Rest'
  BY <1>13, <1>14 DEF StartMonitor, files
<1>15. CASE UNCHANGED vars
  BY <1>13, <1>15 DEF vars, files
<1>16. QED
  BY <1>s, <1>1, <1>2, <1>3, <1>4, <1>5, <1>6, <1>7, <1>8, <1>9, <1>10, <1>11, <1>12, <1>14, <1>15
     DEF Next, SetupStep

---------------------------------------------------------------------------
(* Theorems *)

\* The type invariant, however many Setups run at the same time.
THEOREM TypeCorrect == Spec => []TypeOK
<1>1. Init => TypeOK
  BY InitInv DEF Inv
<1>2. TypeOK /\ [Next]_vars => TypeOK'
  BY NextType
<1>3. QED
  BY <1>1, <1>2, PTL DEF Spec

\* The invariant holds at every point of a sequence of Setups.
LEMMA AlwaysInv == ASSUME OneSetup PROVE Spec => []Inv
<1>1. Init => Inv
  BY InitInv
<1>2. Inv /\ [Next]_vars => Inv'
  BY NextType, NextRest DEF Inv
<1>3. QED
  BY <1>1, <1>2, PTL DEF Spec

\* Whatever failed or was killed before, when Setup reports success the config
\* is usable and the headers of all cores agree with it.
THEOREM SuccessMeansAgreement == ASSUME OneSetup PROVE Spec => []SuccessAgrees
<1>1. Inv => SuccessAgrees
  BY DEF Inv, Rest, Copied, Copying, Distributing, OnCore, Agrees, SuccessAgrees, At
<1>2. QED
  BY <1>1, AlwaysInv, PTL

\* No file operation of a Setup, whether it succeeds, fails or is cut off, makes
\* a config that can be used, or no config, into one that cannot; and none but a
\* failure of its own operations makes Setup fail meanwhile.
THEOREM SetupIsRepeatable == ASSUME OneSetup PROVE Spec => Repeatable
<1>1. ASSUME Inv, [Next]_vars, Readable PROVE Readable'
  <2>1. CASE config' = config
    BY <1>1, <2>1 DEF Readable
  <2>2. CASE config' # config
    <3>1. PICK p \in Setups : Rename(p) \/ RemoveOld(p) \/ RenameAgain(p)
      BY <1>1, <2>2 DEF Next, SetupStep, ReadConfig, WriteTmp, ChmodTmp, NextCore, LoadConfig, RemoveHeader,
                  CheckHeader, WriteHeader, Kill, Start, StartMonitor, vars, files
    <3>2. config' = tmp \/ config' = NoConfig
      BY <2>2, <3>1 DEF Rename, RemoveOld, RenameAgain, Replace
    <3>3. tmp = ConfigOf(setup[p].key, FALSE) /\ setup[p].key \in Keys
      BY <1>1, <3>1 DEF Rename, RemoveOld, RenameAgain, At, Inv, Rest, NewConfig, Replacing, Writing
    <3>4. QED
      BY <3>2, <3>3, OtherKeys, ProvisioningAssumption DEF Readable, ConfigOf, NoConfig, Usable, BadKey, NoKey
  <2>3. QED
    BY <2>1, <2>2
<1>2. ASSUME Inv, [Next]_vars, Readable, NEW p \in Setups, ~At(p, "failed"), At(p, "failed")'
      PROVE  setup'[p].io
  <2>1. setup \in [Setups -> Process]
    BY <1>2 DEF Inv, TypeOK
  <2>2. setup'[p].pc = "failed" /\ setup[p].pc # "failed"
    BY <1>2 DEF At
  <2>3. setup' # setup
    BY <2>2
  <2>4. PICK q \in Setups : SetupStep(q) \/ Kill(q) \/ \E mode \in {"provision", "regenerate"} : Start(q, mode)
    BY <1>2, <2>3 DEF Next, StartMonitor, vars
  <2>s. q = p
    BY DEF OneSetup
  <2>5. ASSUME NEW mode \in {"provision", "regenerate"}, Start(q, mode) PROVE FALSE
    BY <2>1, <2>2, <2>5 DEF Start
  <2>6. ASSUME NEW l \in Label, l # "failed", Goto(q, l) PROVE FALSE
    BY <2>1, <2>2, <2>6, <2>s, Moves
  <2>7. ASSUME Fail(q, TRUE) PROVE setup'[p].io
    BY <2>1, <2>2, <2>7, <2>s, Moves
  <2>8. CASE Kill(q)
    BY <2>6, <2>8 DEF Kill, Label
  <2>9. CASE SetupStep(q)
    <3>1. CASE ReadConfig(q)
      <4>1. CASE setup' = [setup EXCEPT ![q].pc = "writeTmp", ![q].key = keys + 1]
        BY <2>1, <2>2, <2>s, <4>1 DEF Process
      <4>2. CASE Goto(q, "cores") \/ Fail(q, TRUE)
        BY <2>6, <2>7, <4>2 DEF Label
      <4>3. QED
        BY <1>2, <3>1, <4>1, <4>2 DEF ReadConfig, Readable
    <3>2. CASE WriteTmp(q) \/ ChmodTmp(q)
      BY <2>6, <2>7, <3>2 DEF WriteTmp, ChmodTmp, Label
    <3>3. CASE Rename(q) \/ RemoveOld(q) \/ RenameAgain(q)
      BY <2>6, <2>7, <3>3 DEF Rename, RemoveOld, RenameAgain, Label
    <3>4. CASE NextCore(q) \/ LoadConfig(q)
      <4>1. ASSUME NEW l \in Label, l # "failed", setup'[q].pc = l PROVE FALSE
        BY <2>2, <2>s, <4>1
      <4>2. CASE NextCore(q)
        <5>1. CASE Goto(q, "ok")
          BY <2>6, <5>1 DEF Label
        <5>2. ASSUME NEW c, setup' = [setup EXCEPT ![q].pc = "load", ![q].core = c, ![q].todo = @ \ {c}]
              PROVE  FALSE
          BY <2>1, <2>2, <2>s, <5>2 DEF Process
        <5>3. QED
          BY <4>2, <5>1, <5>2 DEF NextCore
      <4>3. CASE LoadConfig(q)
        <5>1. Fail(q, TRUE) \/ setup' = [setup EXCEPT ![q].pc = "header", ![q].key = config.key]
          BY <1>2, <4>3 DEF LoadConfig, Readable
        <5>2. QED
          BY <2>1, <2>7, <4>1, <5>1 DEF Label, Process
      <4>4. QED
        BY <3>4, <4>2, <4>3
    <3>5. CASE RemoveHeader(q) \/ CheckHeader(q) \/ WriteHeader(q)
      BY <2>6, <2>7, <3>5 DEF RemoveHeader, CheckHeader, WriteHeader, Label
    <3>6. QED
      BY <2>9, <3>1, <3>2, <3>3, <3>4, <3>5 DEF SetupStep
  <2>10. QED
    BY <2>4, <2>5, <2>8, <2>9
<1>3. Inv /\ [Next]_vars =>
        [Readable => /\ Readable'
                     /\ \A p \in Setups : ~At(p, "failed") /\ At(p, "failed")' => setup'[p].io]_vars
  BY <1>1, <1>2
<1>4. QED
  BY <1>3, AlwaysInv, PTL DEF Spec, Repeatable

\* Once there is a key no monitor starts without one, also while it is rotated.
THEOREM MonitorHasKey == ASSUME OneSetup PROVE Spec => MonitorKeyed
<1>1. ASSUME Inv, [Next]_vars, monitor' # monitor, monitor'.running, keyed
      PROVE  monitor'.key # NoKey
  <2>1. PICK k \in {NoKey, EnvKey, BadKey}, a \in {"unset", "true", "false", "bad"} : StartMonitor(k, a)
    BY <1>1 DEF Next, SetupStep, ReadConfig, WriteTmp, ChmodTmp, Rename, RemoveOld, RenameAgain, Replace,
                NextCore, LoadConfig, RemoveHeader, CheckHeader, WriteHeader, Kill, Start, vars
  <2>2. config.key \in Keys
    BY <1>1 DEF Inv, Rest, KeyThere, HasKey
  <2>3. EnvKey # NoKey /\ BadKey # NoKey /\ NoKey \notin Keys
    BY ProvisioningAssumption DEF EnvKey, BadKey, NoKey, Keys
  <2>4. monitor'.key = IF k = NoKey THEN config.key ELSE k
    BY <1>1, <2>1 DEF StartMonitor, NotRunning
  <2>5. QED
    BY <2>2, <2>3, <2>4
<1>2. Inv /\ [Next]_vars => [monitor' # monitor /\ monitor'.running /\ keyed => monitor'.key # NoKey]_vars
  BY <1>1
<1>3. QED
  BY <1>2, AlwaysInv, PTL DEF Spec, MonitorKeyed

---------------------------------------------------------------------------
(* The key in the header *)

\* A set of naturals has a least element.
LEMMA LeastOne ==
  ASSUME NEW T, T \subseteq Nat, T # {}
  PROVE  \E x \in T : \A y \in T : x <= y
<1>1. PICK x \in T : \A y \in T : ~ (<<y, x>> \in OpToRel(<, Nat))
  BY WFMin, NatLessThanWellFounded
<1>2. \A y \in T : ~(y < x)
  BY <1>1 DEF OpToRel
<1>3. QED
  BY <1>2

\* Induction over a range, with the set of the numbers for which it holds.
LEMMA RangeInduction ==
  ASSUME NEW a \in Nat, NEW n \in Nat, NEW G, a \in G,
         \A m \in a..n : m \in G /\ m + 1 <= n => m + 1 \in G
  PROVE  a..n \subseteq G
<1>1. SUFFICES ASSUME (a..n) \ G # {} PROVE FALSE
  OBVIOUS
<1>0. (a..n) \ G \subseteq Nat
  OBVIOUS
<1>2. PICK x \in (a..n) \ G : \A y \in (a..n) \ G : x <= y
  <2>1. PICK T : T = (a..n) \ G
    OBVIOUS
  <2>2. \E x \in T : \A y \in T : x <= y
    BY <1>0, <1>1, <2>1, LeastOne
  <2>3. QED
    BY <2>1, <2>2
<1>3. x # a /\ x \in Nat /\ x - 1 \in a..n /\ x = (x - 1) + 1
  BY <1>2
<1>4. x - 1 \in G
  BY <1>2, <1>3
<1>5. QED
  BY <1>2, <1>3, <1>4

\* What a recursive function over a..n computes: step[i] takes its value at
\* i - 1 to the one at i.
Iterates(f, a, n, s, step) == f[a] = s /\ \A i \in (a + 1)..n : f[i] = step[i][f[i - 1]]

\* There is a function that computes it, so that a recursive definition over a
\* range, which TLA+ defines by CHOOSE, has the value its equation says.
LEMMA IterationExists ==
  ASSUME NEW S, NEW a \in Nat, NEW n \in Nat, NEW s \in S, NEW step \in [(a + 1)..n -> [S -> S]], a <= n
  PROVE  \E f \in [a..n -> S] : Iterates(f, a, n, s, step)
<1> DEFINE G == {m \in a..n : \E f \in [a..m -> S] : Iterates(f, a, m, s, step)}
<1>1. a \in G
  <2>1. [i \in a..a |-> s] \in [a..a -> S] /\ Iterates([i \in a..a |-> s], a, a, s, step)
    BY DEF Iterates
  <2>2. QED
    BY <2>1, a \in a..n
<1>2. ASSUME NEW m \in a..n, m \in G, m + 1 <= n PROVE m + 1 \in G
  <2>1. PICK f \in [a..m -> S] : Iterates(f, a, m, s, step)
    BY <1>2
  <2>2. PICK x : x = step[m + 1][f[m]]
    OBVIOUS
  <2>3. m + 1 \in (a + 1)..n /\ m \in a..m
    BY <1>2
  <2>4. x \in S
    BY <2>2, <2>3
  <2> DEFINE g == [i \in a..(m + 1) |-> IF i = m + 1 THEN x ELSE f[i]]
  <2>5. g \in [a..(m + 1) -> S]
    BY <2>4
  <2>6. g[a] = s
    BY <2>1 DEF Iterates
  <2>7. ASSUME NEW i \in (a + 1)..(m + 1) PROVE g[i] = step[i][g[i - 1]]
    <3>1. CASE i = m + 1
      <4>1. g[i] = x /\ g[i - 1] = f[m] /\ i - 1 = m
        BY <2>3, <3>1
      <4>2. QED
        BY <2>2, <3>1, <4>1
    <3>2. CASE i # m + 1
      <4>1. i \in (a + 1)..m /\ g[i] = f[i] /\ g[i - 1] = f[i - 1]
        BY <3>2
      <4>2. QED
        BY <2>1, <4>1 DEF Iterates
    <3>3. QED
      BY <3>1, <3>2
  <2>8. Iterates(g, a, m + 1, s, step)
    BY <2>6, <2>7 DEF Iterates
  <2>9. QED
    BY <1>2, <2>5, <2>8
<1>3. a..n \subseteq G
  <2> HIDE DEF G
  <2>1. QED
    BY <1>1, <1>2, RangeInduction
<1>4. QED
  BY <1>3

\* The states of the compiler inside a literal, and the one before the first quote.
CompilerState ==
  [at : {"open", "plain", "escape", "octal1", "octal2", "closed", "bad"}, val : Nat, out : Seq(Nat)]
AtStart == [at |-> "open", val |-> 0, out |-> <<>>]

\* A character takes the compiler from a state to a state.
LEMMA CharType ==
  ASSUME NEW s \in CompilerState, NEW c \in Nat
  PROVE  Char(s, c) \in CompilerState
<1>1. \A t \in CompilerState, b \in Nat : Emit(t, b) \in CompilerState
  <2>1. SUFFICES ASSUME NEW t \in CompilerState, NEW b \in Nat PROVE Emit(t, b) \in CompilerState
    OBVIOUS
  <2>0. t.out \in Seq(Nat)
    BY DEF CompilerState
  <2>1a. Append(t.out, b) \in Seq(Nat)
    BY <2>0
  <2>2. PICK o \in Seq(Nat) : o = Append(t.out, b)
    BY <2>1a, Zenon
  <2>3. Emit(t, b) = [t EXCEPT !.at = "plain", !.out = o]
    BY <2>2 DEF Emit, CompilerState
  <2>4. QED
    BY <2>3 DEF CompilerState
<1>2. \A t \in CompilerState : Go(t, "plain") \in CompilerState /\ Go(t, "closed") \in CompilerState
        /\ Go(t, "escape") \in CompilerState /\ Go(t, "bad") \in CompilerState
  BY DEF Go, CompilerState
<1>3. \A t \in CompilerState : Plain(t, c) \in CompilerState
  BY <1>1, <1>2 DEF Plain
<1>4. Escape(s, c) \in CompilerState
  <2>1. CASE IsOctal(c)
    <3>1. c - Digit(0) \in Nat
      BY <2>1 DEF IsOctal, Digit
    <3>2. [s EXCEPT !.at = "octal1", !.val = c - Digit(0)] \in CompilerState
      BY <3>1 DEF CompilerState
    <3>3. QED
      BY <1>1, <1>2, <3>2 DEF Escape, Backslash, Mark, LF, CR, Tab
  <2>2. CASE ~IsOctal(c)
    BY <1>1, <1>2, <2>2 DEF Escape, Backslash, Mark, LF, CR, Tab
  <2>3. QED
    BY <2>1, <2>2
<1>5. ASSUME s.at \in {"octal1", "octal2"} PROVE OctalDigit(s, c) \in CompilerState
  <2>1. s.val \in Nat
    BY DEF CompilerState
  <2>2. CASE ~IsOctal(c)
    <3>1. Plain(Emit(s, s.val), c) \in CompilerState
      BY <1>1, <1>3, <2>1
    <3>2. QED
      BY <2>2, <3>1 DEF OctalDigit
  <2>3. CASE IsOctal(c)
    <3>1. PICK v : v = 8 * s.val + (c - Digit(0))
      OBVIOUS
    <3>2. v \in Nat /\ v % 256 \in Nat
      BY <2>1, <2>3, <3>1 DEF IsOctal, Digit
    <3>3. [s EXCEPT !.at = "octal2", !.val = v] \in CompilerState /\ Emit(s, v % 256) \in CompilerState
      BY <1>1, <3>2 DEF CompilerState
    <3>4. QED
      BY <1>5, <2>3, <3>1, <3>3 DEF OctalDigit
  <2>4. QED
    BY <2>2, <2>3
<1>6. QED
  <2>1. s.at \in {"open", "plain", "escape", "octal1", "octal2", "closed", "bad"}
    BY DEF CompilerState
  <2>2. QED
    BY <1>2, <1>3, <1>4, <1>5, <2>1 DEF Char

\* Compile goes through the literal from its start.
LEMMA CompileRuns ==
  ASSUME NEW lit \in Seq(Nat)
  PROVE  \E f \in [0..Len(lit) -> CompilerState] :
           /\ f[0] = AtStart /\ \A i \in 1..Len(lit) : f[i] = Char(f[i - 1], lit[i])
           /\ Compile(lit) = f[Len(lit)]
<1>0. PICK n \in Nat : n = Len(lit)
  OBVIOUS
<1>s. AtStart \in CompilerState
  BY DEF AtStart, CompilerState
<1> DEFINE Body(f) == [i \in 0..n |-> IF i = 0 THEN AtStart ELSE Char(f[i - 1], lit[i])]
           step == [i \in 1..n |-> [s \in CompilerState |-> Char(s, lit[i])]]
<1>1. \E h : h = Body(h)
  <2>1. step \in [1..n -> [CompilerState -> CompilerState]]
    BY <1>0, CharType
  <2>2. PICK h \in [0..n -> CompilerState] : Iterates(h, 0, n, AtStart, step)
    <3> HIDE DEF step
    <3>1. step \in [(0 + 1)..n -> [CompilerState -> CompilerState]] /\ 0 <= n /\ 0 \in Nat
      BY <2>1
    <3>2. QED
      BY <1>s, <3>1, IterationExists
  <2>3. ASSUME NEW i \in 0..n PROVE h[i] = IF i = 0 THEN AtStart ELSE Char(h[i - 1], lit[i])
    <3>1. CASE i = 0
      BY <2>2, <3>1 DEF Iterates
    <3>2. CASE i # 0
      <4>1. i \in 1..n /\ i \in (0 + 1)..n /\ i - 1 \in 0..n
        BY <3>2
      <4>2. h[i] = step[i][h[i - 1]] /\ h[i - 1] \in CompilerState
        BY <2>2, <4>1 DEF Iterates
      <4>3. QED
        BY <3>2, <4>1, <4>2
    <3>3. QED
      BY <3>1, <3>2
  <2>4. h = Body(h)
    BY <2>3
  <2>5. QED
    BY <2>4
<1>2. PICK f : f = CHOOSE h : h = Body(h)
  OBVIOUS
<1>3. f = Body(f)
  <2> HIDE DEF Body
  <2>1. QED
    BY <1>1, <1>2
<1>4. Compile(lit) = f[n]
  BY <1>0, <1>2 DEF Compile, AtStart
<1>5. f[0] = AtStart
  BY <1>3
<1>6. ASSUME NEW i \in 1..n PROVE f[i] = Char(f[i - 1], lit[i])
  BY <1>3
<1> HIDE DEF Body
<1>7. f \in [0..n -> CompilerState]
  <2> DEFINE G == {i \in 0..n : f[i] \in CompilerState}
  <2>1. 0 \in G
    BY <1>s, <1>5
  <2>2. ASSUME NEW m \in 0..n, m \in G, m + 1 <= n PROVE m + 1 \in G
    <3>1. m + 1 \in 1..n /\ (m + 1) - 1 = m /\ m + 1 \in 1..Len(lit)
      BY <1>0, <2>2
    <3>2. f[m + 1] = Char(f[m], lit[m + 1]) /\ lit[m + 1] \in Nat
      BY <1>6, <3>1
    <3>3. QED
      BY <2>2, <3>1, <3>2, CharType
  <2>3. 0..n \subseteq G
    <3> HIDE DEF G
    <3>1. QED
      BY <2>1, <2>2, RangeInduction
  <2>4. f = [i \in 0..n |-> f[i]]
    BY <1>3 DEF Body
  <2>5. QED
    BY <2>3, <2>4
<1>8. QED
  BY <1>0, <1>4, <1>5, <1>6, <1>7

\* FlattenSeq appends one part after the other.
LEMMA FlattenRuns ==
  ASSUME NEW parts \in Seq(Seq(Nat))
  PROVE  \E f \in [0..Len(parts) -> Seq(Nat)] :
           /\ f[0] = <<>> /\ \A i \in 1..Len(parts) : f[i] = f[i - 1] \o parts[i]
           /\ FlattenSeq(parts) = f[Len(parts)]
<1>0. PICK n \in Nat : n = Len(parts)
  OBVIOUS
<1>z. CASE n = 0
  <2>0. Len(parts) = 0 /\ parts = <<>>
    BY <1>0, <1>z, EmptySeq
  <2>1. FlattenSeq(parts) = <<>>
    BY <2>0 DEF FlattenSeq
  <2>2. <<>> \in Seq(Nat) /\ [i \in 0..0 |-> <<>>] \in [0..0 -> Seq(Nat)]
    OBVIOUS
  <2>3. PICK f \in [0..0 -> Seq(Nat)] : f[0] = <<>>
    <3>1. [i \in 0..0 |-> <<>>][0] = <<>>
      OBVIOUS
    <3>2. QED
      BY <2>2, <3>1
  <2>4. \A i \in 1..0 : f[i] = f[i - 1] \o parts[i]
    OBVIOUS
  <2>5. QED
    BY <1>0, <1>z, <2>1, <2>3, <2>4
<1>p. CASE n # 0
  <2> DEFINE Body(f) == [i \in 1..n |-> IF i = 1 THEN parts[i] ELSE f[i - 1] \o parts[i]]
             step == [i \in 2..n |-> [s \in Seq(Nat) |-> s \o parts[i]]]
  <2>0. n >= 1 /\ \A i \in 1..n : parts[i] \in Seq(Nat)
    BY <1>0, <1>p
  <2>1. \E h : h = Body(h)
    <3>1. step \in [2..n -> [Seq(Nat) -> Seq(Nat)]]
      <4>1. ASSUME NEW i \in 2..n, NEW s \in Seq(Nat) PROVE s \o parts[i] \in Seq(Nat)
        BY <2>0, ConcatProperties
      <4>2. QED
        BY <4>1
    <3>2. PICK h \in [1..n -> Seq(Nat)] : Iterates(h, 1, n, parts[1], step)
      <4> HIDE DEF step
      <4>1. step \in [(1 + 1)..n -> [Seq(Nat) -> Seq(Nat)]] /\ 1 <= n /\ 1 \in Nat /\ parts[1] \in Seq(Nat)
        BY <2>0, <3>1
      <4>2. QED
        BY <4>1, IterationExists
    <3>3. ASSUME NEW i \in 1..n PROVE h[i] = IF i = 1 THEN parts[i] ELSE h[i - 1] \o parts[i]
      <4>1. CASE i = 1
        BY <3>2, <4>1 DEF Iterates
      <4>2. CASE i # 1
        <5>1. i \in 2..n /\ i \in (1 + 1)..n /\ i - 1 \in 1..n
          BY <4>2
        <5>2. h[i] = step[i][h[i - 1]] /\ h[i - 1] \in Seq(Nat)
          BY <3>2, <5>1 DEF Iterates
        <5>3. QED
          BY <4>2, <5>1, <5>2
      <4>3. QED
        BY <4>1, <4>2
    <3>4. h = Body(h)
      BY <3>3
    <3>5. QED
      BY <3>4
  <2>2. PICK f : f = CHOOSE h : h = Body(h)
    OBVIOUS
  <2>3. f = Body(f)
    <3> HIDE DEF Body
    <3>1. QED
      BY <2>1, <2>2
  <2>4. FlattenSeq(parts) = f[n]
    BY <1>0, <1>p, <2>2 DEF FlattenSeq
  <2>5. f[1] = parts[1]
    BY <2>0, <2>3
  <2>6. ASSUME NEW i \in 2..n PROVE f[i] = f[i - 1] \o parts[i]
    <3>1. i \in 1..n /\ i # 1
      OBVIOUS
    <3>2. QED
      BY <2>3, <3>1
  <2> HIDE DEF Body
  <2>7. \A i \in 1..n : f[i] \in Seq(Nat)
    <3> DEFINE G == {i \in 1..n : f[i] \in Seq(Nat)}
    <3>1. 1 \in G
      BY <2>0, <2>5
    <3>2. ASSUME NEW m \in 1..n, m \in G, m + 1 <= n PROVE m + 1 \in G
      <4>1. m + 1 \in 2..n /\ (m + 1) - 1 = m /\ m + 1 \in 1..n
        BY <3>2
      <4>2. f[m + 1] = f[m] \o parts[m + 1] /\ parts[m + 1] \in Seq(Nat)
        BY <2>0, <2>6, <4>1
      <4>3. QED
        BY <3>2, <4>1, <4>2, ConcatProperties
    <3>3. 1..n \subseteq G
      <4> HIDE DEF G
      <4>1. QED
        BY <3>1, <3>2, RangeInduction
    <3>4. QED
      BY <3>3
  <2> DEFINE g == [i \in 0..n |-> IF i = 0 THEN <<>> ELSE f[i]]
  <2>8. g \in [0..n -> Seq(Nat)] /\ g[0] = <<>> /\ g[n] = f[n]
    <3>1. <<>> \in Seq(Nat) /\ \A i \in 0..n : i # 0 => f[i] \in Seq(Nat)
      BY <2>7
    <3>2. QED
      BY <2>0, <3>1
  <2>9. ASSUME NEW i \in 1..n PROVE g[i] = g[i - 1] \o parts[i]
    <3>1. CASE i = 1
      <4>1. g[i] = parts[1] /\ g[i - 1] = <<>>
        BY <2>0, <2>5, <3>1
      <4>2. <<>> \o parts[1] = parts[1]
        BY <2>0, ConcatEmptySeq
      <4>3. QED
        BY <3>1, <4>1, <4>2
    <3>2. CASE i # 1
      <4>1. i \in 2..n /\ g[i] = f[i] /\ g[i - 1] = f[i - 1]
        BY <3>2
      <4>2. QED
        BY <2>6, <4>1
    <3>3. QED
      BY <3>1, <3>2
  <2>10. QED
    <3> HIDE DEF g
    <3>1. QED
      BY <1>0, <2>4, <2>8, <2>9
<1>q. QED
  BY <1>z, <1>p

\* A part of a flattened sequence stands where the parts before it end.
LEMMA PartStands ==
  ASSUME NEW n \in Nat, NEW parts \in Seq(Seq(Nat)), n = Len(parts), NEW f \in [0..n -> Seq(Nat)],
         \A i \in 1..n : f[i] = f[i - 1] \o parts[i],
         NEW k \in 1..n
  PROVE  /\ Len(f[k]) = Len(f[k - 1]) + Len(parts[k]) /\ Len(f[k]) <= Len(f[n])
         /\ \A i \in 1..Len(parts[k]) : f[n][Len(f[k - 1]) + i] = parts[k][i]
<1> DEFINE G == {m \in k..n : Len(f[k]) <= Len(f[m]) /\ \A i \in 1..Len(f[k]) : f[m][i] = f[k][i]}
<1>1. k \in G
  OBVIOUS
<1>0. ASSUME NEW i \in 1..n
      PROVE  /\ i - 1 \in 0..n /\ i \in 0..n /\ parts[i] \in Seq(Nat) /\ f[i - 1] \in Seq(Nat)
             /\ Len(f[i]) = Len(f[i - 1]) + Len(parts[i])
             /\ \A j \in 1..Len(f[i]) : f[i][j] = IF j <= Len(f[i - 1]) THEN f[i - 1][j] ELSE parts[i][j - Len(f[i - 1])]
  <2>1. i - 1 \in 0..n /\ i \in 0..n /\ parts[i] \in Seq(Nat)
    OBVIOUS
  <2>2. f[i - 1] \in Seq(Nat) /\ f[i] = f[i - 1] \o parts[i]
    BY <2>1
  <2>3. PICK a \in Seq(Nat) : a = f[i - 1]
    BY <2>2
  <2>4. PICK b \in Seq(Nat) : b = parts[i]
    BY <2>1
  <2>5. PICK c : c = f[i]
    OBVIOUS
  <2>6. c = a \o b
    BY <2>2, <2>3, <2>4, <2>5
  <2>7. Len(c) = Len(a) + Len(b) /\ \A j \in 1..Len(c) : c[j] = IF j <= Len(a) THEN a[j] ELSE b[j - Len(a)]
    BY <2>6, ConcatProperties
  <2>8. QED
    BY <2>1, <2>3, <2>4, <2>5, <2>7
<1>2. ASSUME NEW m \in k..n, m \in G, m + 1 <= n PROVE m + 1 \in G
  <2>1. m + 1 \in 1..n /\ (m + 1) - 1 = m /\ m + 1 \in k..n
    BY <1>2
  <2>2. /\ parts[m + 1] \in Seq(Nat) /\ f[m] \in Seq(Nat) /\ Len(f[m + 1]) = Len(f[m]) + Len(parts[m + 1])
        /\ \A j \in 1..Len(f[m + 1]) : j <= Len(f[m]) => f[m + 1][j] = f[m][j]
    BY <1>0, <2>1
  <2>3. Len(f[k]) \in Nat /\ Len(f[m]) \in Nat /\ Len(parts[m + 1]) \in Nat
    <3>1. f[k] \in Seq(Nat)
      BY k \in 0..n
    <3>2. QED
      BY <2>2, <3>1
  <2>4. Len(f[k]) <= Len(f[m]) /\ \A i \in 1..Len(f[k]) : f[m][i] = f[k][i]
    BY <1>2
  <2>5. Len(f[k]) <= Len(f[m + 1])
    <3>1. \A a, b, c \in Nat : a <= b => a <= b + c
      OBVIOUS
    <3>2. QED
      BY <2>2, <2>3, <2>4, <3>1
  <2>6. ASSUME NEW i \in 1..Len(f[k]) PROVE f[m + 1][i] = f[k][i]
    <3>1. i \in 1..Len(f[m + 1]) /\ i <= Len(f[m])
      <4>1. PICK a \in Nat : a = Len(f[k])
        BY <2>3
      <4>2. PICK b \in Nat : b = Len(f[m])
        BY <2>3
      <4>3. PICK c \in Nat : c = Len(parts[m + 1])
        BY <2>3
      <4>4. i \in 1..a /\ a <= b /\ Len(f[m + 1]) = b + c
        BY <2>2, <2>4, <4>1, <4>2, <4>3
      <4>5. i \in 1..(b + c) /\ i <= b
        BY <4>4
      <4>6. QED
        BY <4>2, <4>4, <4>5
    <3>2. QED
      BY <2>2, <2>4, <3>1
  <2>7. QED
    BY <2>1, <2>5, <2>6
<1>3. n \in G
  <2> HIDE DEF G
  <2>0. k \in Nat /\ n \in k..n
    OBVIOUS
  <2>1. k..n \subseteq G
    BY <1>1, <1>2, <2>0, RangeInduction
  <2>2. QED
    BY <2>0, <2>1
<1>4. Len(f[k]) <= Len(f[n]) /\ \A i \in 1..Len(f[k]) : f[n][i] = f[k][i]
  BY <1>3
<1>5. ASSUME NEW i \in 1..Len(parts[k]) PROVE f[n][Len(f[k - 1]) + i] = parts[k][i]
  <2>0. f[k - 1] \in Seq(Nat) /\ parts[k] \in Seq(Nat) /\ Len(f[k]) = Len(f[k - 1]) + Len(parts[k])
    BY <1>0
  <2>1. PICK a \in Nat : a = Len(f[k - 1])
    BY <2>0
  <2>2. PICK b \in Nat : b = Len(parts[k])
    BY <2>0
  <2>3. a + i \in 1..Len(f[k]) /\ ~(a + i <= a) /\ (a + i) - a = i
    <3>1. \A x, y \in Nat : \A j \in 1..y : x + j \in 1..(x + y) /\ ~(x + j <= x) /\ (x + j) - x = j
      OBVIOUS
    <3>2. Len(f[k]) = a + b /\ i \in 1..b
      BY <2>0, <2>1, <2>2
    <3>3. QED
      BY <3>1, <3>2
  <2>4. f[k][a + i] = parts[k][i]
    BY <1>0, <2>1, <2>3
  <2>5. QED
    BY <1>4, <2>1, <2>3, <2>4
<1>6. QED
  BY <1>0, <1>4, <1>5

\* Three octal digits of a byte give it back.
LEMMA OctalValue ==
  ASSUME NEW b \in 0..255
  PROVE  /\ b \div 64 \in 0..3 /\ (b \div 8) % 8 \in 0..7 /\ b % 8 \in 0..7
         /\ 8 * (8 * (b \div 64) + ((b \div 8) % 8)) + (b % 8) = b /\ b % 256 = b
<1>1. b = 8 * (b \div 8) + (b % 8) /\ b % 8 \in 0..7 /\ b % 256 = b /\ b \div 8 \in 0..31
  OBVIOUS
<1>2. b = 64 * (b \div 64) + (b % 64) /\ b % 64 \in 0..63 /\ b \div 64 \in 0..3
  OBVIOUS
<1>3. PICK u \in 0..31 : u = b \div 8
  BY <1>1
<1>4. u = 8 * (u \div 8) + (u % 8) /\ u % 8 \in 0..7 /\ u \div 8 \in 0..3
  OBVIOUS
<1>5. u \div 8 = b \div 64
  <2>1. PICK x \in 0..3, z \in 0..7 : x = u \div 8 /\ u = 8 * x + z
    BY <1>4
  <2>2. PICK y \in 0..3, w \in 0..63 : y = b \div 64 /\ b = 64 * y + w
    BY <1>2
  <2>3. PICK v \in 0..7 : b = 8 * u + v
    BY <1>1, <1>3
  <2>4. x = y
    BY <2>1, <2>2, <2>3
  <2>5. QED
    BY <2>1, <2>2, <2>4
<1>6. QED
  BY <1>1, <1>2, <1>3, <1>4, <1>5

\* The compiler reads a byte's characters as this byte and is ready for the next.
LEMMA ByteReadsBack ==
  ASSUME NEW b \in 0..255, NEW q, q = QuoteByte(b), NEW f, NEW p \in Nat,
         \A i \in 0..Len(q) : f[p + i] \in CompilerState,
         f[p].at = "plain", \A i \in 1..Len(q) : f[p + i] = Char(f[(p + i) - 1], q[i])
  PROVE  f[p + Len(q)].at = "plain" /\ f[p + Len(q)].out = Append(f[p].out, b)
<1> DEFINE Reads(t, s, c) == t.at = "plain" /\ t.out = Append(s.out, c)
<1>1. \A s \in CompilerState : \A c : Reads(Emit(s, c), s, c)
  BY DEF Emit, CompilerState
<1>2. PICK s \in CompilerState : s = f[p] /\ s.at = "plain"
  <2>1. f[p + 0] \in CompilerState /\ p + 0 = p
    <3>1. 0 \in 0..Len(q)
      BY DEF QuoteByte, Octal, Escaped
    <3>2. QED
      BY <3>1
  <2>2. QED
    BY <2>1
<1>c. \A c : Char(s, c) = Plain(s, c)
  BY <1>2 DEF Char
<1>e. Char(s, Backslash) = Go(s, "escape")
  BY <1>c DEF Plain, Backslash, Mark, LF, CR
<1>3. CASE b \in {Backslash, Mark, LF, CR, Tab}
  <2>1. PICK c : /\ q = <<Backslash, c>>
                 /\ \A t : Escape(t, c) = Emit(t, b)
    <3> USE DEF Escaped, Backslash, Mark, LF, CR, Tab
    <3>1. CASE b \in {Backslash, Mark}
      <4>1. q = <<Backslash, b>>
        BY <3>1 DEF QuoteByte
      <4>2. \A t : Escape(t, b) = Emit(t, b)
        BY <3>1 DEF Escape, IsOctal, Digit
      <4>3. QED
        BY <4>1, <4>2
    <3>2. CASE b = LF
      <4>1. q = <<Backslash, 110>>
        BY <3>2 DEF QuoteByte
      <4>2. \A t : Escape(t, 110) = Emit(t, b)
        BY <3>2 DEF Escape, IsOctal, Digit
      <4>3. QED
        BY <4>1, <4>2
    <3>3. CASE b = CR
      <4>1. q = <<Backslash, 114>>
        BY <3>3 DEF QuoteByte
      <4>2. \A t : Escape(t, 114) = Emit(t, b)
        BY <3>3 DEF Escape, IsOctal, Digit
      <4>3. QED
        BY <4>1, <4>2
    <3>4. CASE b = Tab
      <4>1. q = <<Backslash, 116>>
        BY <3>4 DEF QuoteByte
      <4>2. \A t : Escape(t, 116) = Emit(t, b)
        BY <3>4 DEF Escape, IsOctal, Digit
      <4>3. QED
        BY <4>1, <4>2
    <3>5. QED
      BY <1>3, <3>1, <3>2, <3>3, <3>4
  <2>2. f[p + 1] = Char(f[(p + 1) - 1], Backslash) /\ f[p + 2] = Char(f[(p + 2) - 1], c) /\ Len(q) = 2
    BY <2>1
  <2>3. f[p + 1] = Go(s, "escape") /\ f[p + 2] = Char(f[p + 1], c)
    BY <1>2, <1>e, <2>2
  <2>4. Go(s, "escape").at = "escape" /\ Go(s, "escape").out = s.out /\ Go(s, "escape") \in CompilerState
    BY DEF Go, CompilerState
  <2>5. f[p + 2] = Emit(Go(s, "escape"), b)
    BY <2>1, <2>3, <2>4 DEF Char
  <2>6. f[p + 2].at = "plain" /\ f[p + 2].out = Append(s.out, b)
    BY <1>1, <2>4, <2>5
  <2>7. QED
    BY <1>2, <2>2, <2>6
<1>4. CASE b \in (32..126) \ {Backslash, Mark}
  <2>a. b \in 32..126
    BY <1>4
  <2>b. b # Backslash /\ b # Mark
    BY <1>4
  <2>c. b # LF /\ b # CR /\ b # Tab
    BY <2>a DEF LF, CR, Tab
  <2>0. b \notin {Backslash, Mark, LF, CR, Tab} /\ b \in 32..126
    BY <2>a, <2>b, <2>c
  <2>1. q = <<b>> /\ b \notin {Backslash, Mark, LF, CR, Tab}
    BY <2>0, <1>4 DEF QuoteByte
  <2>2. f[p + 1] = Char(f[(p + 1) - 1], b) /\ Len(q) = 1
    BY <2>1
  <2>3. Char(s, b) = Emit(s, b)
    BY <1>c, <2>1 DEF Plain
  <2>4. QED
    BY <1>1, <1>2, <2>2, <2>3
<1>5. CASE b \notin {Backslash, Mark, LF, CR, Tab} \cup (32..126)
  <2> DEFINE x == b \div 64
             y == (b \div 8) % 8
             z == b % 8
  <2>1. q = <<Backslash, Digit(x), Digit(y), Digit(z)>> /\ Len(q) = 4
    BY <1>5 DEF QuoteByte, Octal
  <2>2. x \in 0..3 /\ y \in 0..7 /\ z \in 0..7 /\ 8 * (8 * x + y) + z = b /\ b % 256 = b
    BY OctalValue
  <2> HIDE DEF x, y, z
  <2>3. /\ f[p + 1] = Char(s, Backslash) /\ f[p + 2] = Char(f[p + 1], Digit(x))
        /\ f[p + 3] = Char(f[p + 2], Digit(y)) /\ f[p + 4] = Char(f[p + 3], Digit(z))
    <3>1. 1 \in 1..Len(q) /\ 2 \in 1..Len(q) /\ 3 \in 1..Len(q) /\ 4 \in 1..Len(q)
      BY <2>1
    <3>2. (p + 1) - 1 = p /\ (p + 2) - 1 = p + 1 /\ (p + 3) - 1 = p + 2 /\ (p + 4) - 1 = p + 3
      OBVIOUS
    <3>3. /\ f[p + 1] = Char(f[p], q[1]) /\ f[p + 2] = Char(f[p + 1], q[2])
          /\ f[p + 3] = Char(f[p + 2], q[3]) /\ f[p + 4] = Char(f[p + 3], q[4])
      BY <3>1, <3>2
    <3>4. q[1] = Backslash /\ q[2] = Digit(x) /\ q[3] = Digit(y) /\ q[4] = Digit(z)
      BY <2>1
    <3>5. QED
      BY <1>2, <3>3, <3>4
  <2>4. \A d \in 0..7 : IsOctal(Digit(d)) /\ Digit(d) - Digit(0) = d /\ Digit(d) \notin {Backslash, Mark, 110, 114, 116}
    BY DEF IsOctal, Digit, Backslash, Mark
  <2>5. f[p + 1] = Go(s, "escape")
    BY <1>e, <2>3
  <2>6. f[p + 2] = [Go(s, "escape") EXCEPT !.at = "octal1", !.val = x]
    <3>1. Go(s, "escape").at = "escape"
      BY DEF Go, CompilerState
    <3>2. Char(f[p + 1], Digit(x)) = Escape(f[p + 1], Digit(x))
      BY <2>5, <3>1 DEF Char
    <3>3. x \in 0..7
      BY <2>2
    <3>4. Escape(f[p + 1], Digit(x)) = [f[p + 1] EXCEPT !.at = "octal1", !.val = Digit(x) - Digit(0)]
      BY <2>4, <3>3 DEF Escape
    <3>5. QED
      BY <2>3, <2>4, <2>5, <3>2, <3>3, <3>4
  <2>7. f[p + 2].at = "octal1" /\ f[p + 2].val = x /\ f[p + 2].out = s.out /\ f[p + 2] \in CompilerState
    <3>1. x \in Nat
      BY <2>2
    <3>2. QED
      BY <2>6, <3>1 DEF Go, CompilerState
  <2>8. f[p + 3] = [f[p + 2] EXCEPT !.at = "octal2", !.val = 8 * x + y]
    BY <2>2, <2>3, <2>4, <2>7 DEF Char, OctalDigit
  <2>9. f[p + 3].at = "octal2" /\ f[p + 3].val = 8 * x + y /\ f[p + 3].out = s.out /\ f[p + 3] \in CompilerState
    <3>1. 8 * x + y \in Nat
      BY <2>2
    <3>2. QED
      BY <2>7, <2>8, <3>1 DEF CompilerState
  <2>10. f[p + 4] = Emit(f[p + 3], b)
    <3>1. Char(f[p + 3], Digit(z)) = OctalDigit(f[p + 3], Digit(z))
      BY <2>9 DEF Char
    <3>2. OctalDigit(f[p + 3], Digit(z)) = Emit(f[p + 3], (8 * (8 * x + y) + z) % 256)
      BY <2>2, <2>4, <2>9 DEF OctalDigit
    <3>3. QED
      BY <2>2, <2>3, <3>1, <3>2
  <2>11. QED
    BY <1>1, <1>2, <2>1, <2>9, <2>10
<1>6. QED
  BY <1>3, <1>4, <1>5

\* A byte is written as a sequence of characters.
LEMMA QuoteType ==
  ASSUME NEW b \in 0..255
  PROVE  QuoteByte(b) \in Seq(Nat)
<1>1. b \div 64 \in 0..3 /\ (b \div 8) % 8 \in 0..7 /\ b % 8 \in 0..7
  BY OctalValue
<1>2. Octal(b) \in Seq(Nat)
  BY <1>1 DEF Octal, Digit, Backslash
<1>3. \A c \in Nat : <<c>> \in Seq(Nat) /\ Escaped(c) \in Seq(Nat)
  BY DEF Escaped, Backslash
<1>4. QuoteByte(b) \in {Escaped(b), Escaped(110), Escaped(114), Escaped(116), <<b>>, Octal(b)}
  BY DEF QuoteByte
<1>5. b \in Nat /\ 110 \in Nat /\ 114 \in Nat /\ 116 \in Nat
  OBVIOUS
<1>6. /\ Escaped(b) \in Seq(Nat) /\ Escaped(110) \in Seq(Nat) /\ Escaped(114) \in Seq(Nat)
      /\ Escaped(116) \in Seq(Nat) /\ <<b>> \in Seq(Nat)
  BY <1>3, <1>5, Zenon
<1>7. \A t : t \in {Escaped(b), Escaped(110), Escaped(114), Escaped(116), <<b>>, Octal(b)}
         => t = Escaped(b) \/ t = Escaped(110) \/ t = Escaped(114) \/ t = Escaped(116)
              \/ t = <<b>> \/ t = Octal(b)
  BY Zenon
<1>8. PICK t : t = QuoteByte(b)
  BY Zenon
<1>9. t = Escaped(b) \/ t = Escaped(110) \/ t = Escaped(114) \/ t = Escaped(116) \/ t = <<b>> \/ t = Octal(b)
  BY <1>4, <1>7, <1>8, Zenon
<1>10. t \in Seq(Nat)
  <2>1. CASE t = Escaped(b)
    BY <1>6, <2>1, Zenon
  <2>2. CASE t = Escaped(110) \/ t = Escaped(114)
    BY <1>6, <2>2, Zenon
  <2>3. CASE t = Escaped(116)
    BY <1>6, <2>3, Zenon
  <2>4. CASE t = <<b>> \/ t = Octal(b)
    BY <1>2, <1>6, <2>4, Zenon
  <2>5. QED
    BY <1>9, <2>1, <2>2, <2>3, <2>4, Zenon
<1>11. QED
  BY <1>8, <1>10, Zenon

\* The literal that quoteCStringBytes() writes for a key of any length is well
\* formed, and the compiler reads exactly the key from it.
THEOREM LiteralReadsBack ==
  ASSUME NEW data \in Seq(0..255)
  PROVE  ReadsBack(data)
<1>1. PICK n \in Nat : n = Len(data)
  OBVIOUS
<1> DEFINE parts == [i \in 1..Len(data) |-> QuoteByte(data[i])]
<1>2. /\ parts \in Seq(Seq(Nat)) /\ Len(parts) = n /\ \A i \in 1..n : data[i] \in 0..255
      /\ \A i \in 1..n : parts[i] = QuoteByte(data[i])
  <2>1. \A i \in 1..n : data[i] \in 0..255 /\ QuoteByte(data[i]) \in Seq(Nat)
    <3>1. \A i \in 1..n : data[i] \in 0..255
      BY <1>1
    <3>2. QED
      BY <3>1, QuoteType
  <2>2. parts = [i \in 1..n |-> QuoteByte(data[i])]
    BY <1>1
  <2> HIDE DEF parts
  <2>3. parts \in [1..n -> Seq(Nat)] /\ \A i \in 1..n : parts[i] = QuoteByte(data[i])
    BY <2>1, <2>2
  <2>4. parts \in Seq(Seq(Nat)) /\ Len(parts) = n
    BY <2>3
  <2>5. QED
    BY <2>1, <2>3, <2>4
<1>d. QuoteCStringBytes(data) = <<Mark>> \o FlattenSeq(parts) \o <<Mark>>
  BY DEF QuoteCStringBytes
<1> HIDE DEF parts
<1>3. PICK f \in [0..n -> Seq(Nat)] :
        /\ f[0] = <<>> /\ \A i \in 1..n : f[i] = f[i - 1] \o parts[i]
        /\ FlattenSeq(parts) = f[n]
  BY <1>2, FlattenRuns
<1>4. PICK body \in Seq(Nat) : body = f[n]
  BY n \in 0..n
<1>5. PICK lit : lit = QuoteCStringBytes(data)
  OBVIOUS
<1>6. /\ lit \in Seq(Nat) /\ Len(lit) = Len(body) + 2 /\ lit[1] = Mark /\ lit[Len(body) + 2] = Mark
      /\ \A i \in 1..Len(body) : lit[i + 1] = body[i]
  <2>1. PICK m \in Seq(Nat) : m = <<Mark>> /\ Len(m) = 1 /\ m[1] = Mark
    <3>1. <<Mark>> \in Seq(Nat) /\ Len(<<Mark>>) = 1 /\ <<Mark>>[1] = Mark
      BY DEF Mark
    <3>2. QED
      BY <3>1
  <2>2. lit = (m \o body) \o m
    BY <1>d, <1>3, <1>4, <1>5, <2>1
  <2>3. PICK h \in Seq(Nat) : /\ h = m \o body /\ Len(h) = Len(body) + 1 /\ h[1] = Mark
                              /\ \A i \in 1..Len(body) : h[i + 1] = body[i]
    <3>1. /\ m \o body \in Seq(Nat) /\ Len(m \o body) = Len(m) + Len(body)
          /\ \A i \in 1..(Len(m) + Len(body)) : (m \o body)[i] = IF i <= Len(m) THEN m[i] ELSE body[i - Len(m)]
      BY ConcatProperties
    <3>2. PICK h \in Seq(Nat) : h = m \o body
      BY <3>1, Zenon
    <3>3. PICK b \in Nat : b = Len(body)
      OBVIOUS
    <3>4. Len(h) = 1 + b /\ \A i \in 1..(1 + b) : h[i] = IF i <= 1 THEN m[i] ELSE body[i - 1]
      BY <2>1, <3>1, <3>2, <3>3
    <3>5. h[1] = Mark
      <4>1. 1 \in 1..(1 + b) /\ 1 <= 1
        OBVIOUS
      <4>2. h[1] = m[1]
        BY <3>4, <4>1
      <4>3. QED
        BY <2>1, <4>2
    <3>6. ASSUME NEW i \in 1..b PROVE h[i + 1] = body[i]
      <4>1. i + 1 \in 1..(1 + b) /\ ~(i + 1 <= 1) /\ (i + 1) - 1 = i
        BY i \in Nat
      <4>2. QED
        BY <3>4, <4>1
    <3>7. Len(h) = Len(body) + 1
      BY <3>3, <3>4
    <3>8. QED
      BY <3>2, <3>3, <3>5, <3>6, <3>7
  <2>4. lit = h \o m
    BY <2>2, <2>3
  <2>5. QED
    BY <2>1, <2>3, <2>4, ConcatProperties
<1>7. PICK c \in [0..Len(lit) -> CompilerState] :
        /\ c[0] = AtStart /\ \A i \in 1..Len(lit) : c[i] = Char(c[i - 1], lit[i])
        /\ Compile(lit) = c[Len(lit)]
  BY <1>6, CompileRuns
<1> DEFINE Through(k) == c[Len(f[k]) + 1].at = "plain" /\ c[Len(f[k]) + 1].out = SubSeq(data, 1, k)
           G == {k \in 0..n : Through(k)}
<1>8. 0 \in G
  <2>1. Len(f[0]) = 0 /\ SubSeq(data, 1, 0) = <<>>
    BY <1>3
  <2>2. c[1] = Char(AtStart, Mark)
    BY <1>6, <1>7
  <2>3. Char(AtStart, Mark) = Go(AtStart, "plain")
    BY DEF Char, AtStart
  <2>4. Go(AtStart, "plain").at = "plain" /\ Go(AtStart, "plain").out = <<>>
    BY DEF Go, AtStart
  <2>5. QED
    BY <2>1, <2>2, <2>3, <2>4
<1>9. ASSUME NEW j \in 0..n, j \in G, j + 1 <= n PROVE j + 1 \in G
  <2>1. PICK k \in 1..n : k = j + 1 /\ k - 1 = j
    BY <1>9
  <2>2. PICK q \in Seq(Nat) : q = parts[k] /\ q = QuoteByte(data[k]) /\ data[k] \in 0..255
    BY <1>2
  <2>3. PICK p \in Nat : p = Len(f[j]) + 1 /\ p >= 1
    <3>1. f[j] \in Seq(Nat)
      BY <1>3
    <3>2. QED
      BY <3>1
  <2>4. Len(f[k]) + 1 = p + Len(q) /\ p + Len(q) <= Len(body) + 1 /\ \A i \in 1..Len(q) : body[(p - 1) + i] = q[i]
    <3>1. n = Len(parts) /\ \A i \in 1..n : f[i] = f[i - 1] \o parts[i]
      BY <1>2, <1>3
    <3>2. /\ Len(f[k]) = Len(f[k - 1]) + Len(parts[k]) /\ Len(f[k]) <= Len(f[n])
          /\ \A i \in 1..Len(parts[k]) : f[n][Len(f[k - 1]) + i] = parts[k][i]
      BY <1>2, <3>1, PartStands
    <3>3. /\ Len(f[k]) = Len(f[j]) + Len(q) /\ Len(f[k]) <= Len(body)
          /\ \A i \in 1..Len(q) : body[Len(f[j]) + i] = q[i]
      BY <1>4, <2>1, <2>2, <3>2
    <3>4. Len(f[j]) \in Nat /\ Len(f[j]) = p - 1 /\ Len(q) \in Nat /\ Len(body) \in Nat
      BY <1>3, <2>3
    <3>5. QED
      BY <3>3, <3>4
  <2>5. \A i \in 1..Len(q) : p + i \in 1..Len(lit) /\ lit[p + i] = q[i]
    <3>1. SUFFICES ASSUME NEW i \in 1..Len(q) PROVE p + i \in 1..Len(lit) /\ lit[p + i] = q[i]
      OBVIOUS
    <3>2. (p - 1) + i \in 1..Len(body) /\ ((p - 1) + i) + 1 = p + i /\ p + i \in 1..(Len(body) + 2)
      <4>1. PICK a \in Nat : a = Len(q)
        OBVIOUS
      <4>2. PICK b \in Nat : b = Len(body)
        OBVIOUS
      <4>3. i \in 1..a /\ p + a <= b + 1
        BY <2>4, <4>1, <4>2
      <4>4. (p - 1) + i \in 1..b /\ ((p - 1) + i) + 1 = p + i /\ p + i \in 1..(b + 2)
        <5>1. p \in Nat /\ p >= 1 /\ a \in Nat /\ b \in Nat
          BY <2>3, <4>1, <4>2
        <5>2. i \in Nat /\ 1 <= i /\ i <= a
          BY <4>3, <5>1
        <5>3. p + i <= b + 1
          BY <4>3, <5>1, <5>2
        <5>4. QED
          BY <5>1, <5>2, <5>3
      <4>5. QED
        BY <4>2, <4>4
    <3>3. lit[p + i] = body[(p - 1) + i]
      BY <1>6, <3>2
    <3>4. QED
      BY <1>6, <2>4, <3>2, <3>3
  <2>6. \A i \in 1..Len(q) : c[p + i] = Char(c[(p + i) - 1], q[i])
    BY <1>7, <2>5
  <2>7. \A i \in 0..Len(q) : c[p + i] \in CompilerState
    <3>1. SUFFICES ASSUME NEW i \in 0..Len(q) PROVE c[p + i] \in CompilerState
      OBVIOUS
    <3>2. Len(q) \in Nat /\ Len(body) \in Nat
      OBVIOUS
    <3>3. p + i \in 0..Len(lit)
      BY <1>6, <2>4, <3>2
    <3>4. QED
      BY <1>7, <3>3
  <2>8. c[p].at = "plain" /\ c[p].out = SubSeq(data, 1, j)
    BY <1>9, <2>3
  <2>9. c[p + Len(q)].at = "plain" /\ c[p + Len(q)].out = Append(c[p].out, data[k])
    <3>1. PICK b \in 0..255 : b = data[k]
      BY <2>2
    <3>2. q = QuoteByte(b)
      BY <2>2, <3>1
    <3>3. c[p + Len(q)].at = "plain" /\ c[p + Len(q)].out = Append(c[p].out, b)
      BY <2>6, <2>7, <2>8, <3>2, ByteReadsBack
    <3>4. QED
      BY <3>1, <3>3
  <2>10. Append(SubSeq(data, 1, j), data[k]) = SubSeq(data, 1, k)
    BY <1>1, <2>1
  <2>11. Through(k)
    BY <2>4, <2>8, <2>9, <2>10
  <2>12. QED
    BY <2>1, <2>11
<1>10. Through(n)
  <2> HIDE DEF Through
  <2>1. n \in 0..n /\ 0 \in Nat
    OBVIOUS
  <2>2. QED
    <3> HIDE DEF G
    <3>1. 0..n \subseteq G
      BY <1>8, <1>9, <2>1, RangeInduction
    <3>2. n \in G
      BY <2>1, <3>1
    <3>3. QED
      BY <3>2 DEF G
<1>11. PICK s \in CompilerState : s = c[Len(body) + 1] /\ s.at = "plain" /\ s.out = data
  <2>1. SubSeq(data, 1, n) = data
    BY <1>1
  <2>2. Len(body) + 1 \in 0..Len(lit)
    BY <1>6
  <2>3. QED
    BY <1>4, <1>7, <1>10, <2>1, <2>2
<1>12. Compile(lit) = Char(s, Mark)
  <2>1. Len(lit) \in 1..Len(lit) /\ Len(lit) - 1 = Len(body) + 1
    BY <1>6
  <2>2. QED
    BY <1>6, <1>7, <1>11, <2>1
<1>13. Char(s, Mark) = Go(s, "closed")
  BY <1>11 DEF Char, Plain, Mark, Backslash, LF, CR
<1>14. Go(s, "closed").at = "closed" /\ Go(s, "closed").out = data
  BY <1>11 DEF Go, CompilerState
<1>15. QED
  BY <1>5, <1>12, <1>13, <1>14 DEF ReadsBack

\* Whatever the bytes of the key, the firmware built with the header has it.
THEOREM HeadersReadBack == Spec => []HeaderHoldsKey
<1>1. ASSUME NEW data \in BoundedSeq(Bytes, MaxKey) PROVE ReadsBack(data)
  <2>1. PICK m \in 0..MaxKey : data \in [1..m -> Bytes]
    BY DEF BoundedSeq, SeqOf
  <2>2. data \in [1..m -> 0..255] /\ m \in Nat
    <3>1. Bytes \subseteq 0..255 /\ MaxKey \in Nat
      BY CStringAssumption
    <3>2. \A i \in 1..m : data[i] \in 0..255
      BY <2>1, <3>1
    <3>3. data = [i \in 1..m |-> data[i]] /\ m \in Nat
      BY <2>1, <3>1
    <3>4. QED
      BY <3>2, <3>3
  <2>3. data \in Seq(0..255)
    BY <2>2
  <2>4. QED
    BY <2>3, LiteralReadsBack
<1>2. HeaderHoldsKey
  BY <1>1 DEF HeaderHoldsKey, AllReadBack
<1>3. QED
  BY <1>2, PTL

=============================================================================
