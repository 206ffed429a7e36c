---------------------------- MODULE DeployProofs ----------------------------
(* What provisioning leaves on a machine and what an update does to it, for   *)
(* any number of processes, releases, sizes and requests.                     *)
EXTENDS Deploy, FiniteSets, FiniteSetTheorems, TLAPS

----------------------------------------------------------------------------
(* The machine. *)

Releases == Versions \cup {NoVersion}

(* The steps of a script once it has a token, and those that end a run.       *)
PastToken == {"migrate", "copy", "move", "default", "write", "mode", "unit", "dropin", "start"}
Ends      == {"none", "done", "failed"}

Hosts == [there : BOOLEAN, systemd : BOOLEAN, token : Nat, minted : Nat, conf : Configs,
          legacy : {"none", "home", "migrated"}, unit : Releases, dropin : Releases,
          gateway : [ver : Releases, token : Nat, by : Scripts \cup {Nobody}]]

Pcs == {"prepare", "token", "mint"} \cup PastToken \cup Ends
Runs == [pc : Pcs, ver : Releases, migrated : BOOLEAN]

MachineType ==
  /\ host \in Hosts
  /\ script \in [Scripts -> Runs]

(* A script that runs by itself, so that what it read still holds.            *)
OneRun == ~overlap => \A s, t \in Scripts : ~AtRest(s) /\ ~AtRest(t) => s = t

(* A token comes before everything that needs one, overlapping runs or not.   *)
MintedFirst ==
  /\ host.token <= host.minted
  /\ \A s \in Scripts : script[s].pc \in PastToken => host.minted >= 1
  /\ host.gateway.ver # NoVersion => host.minted >= 1
  /\ host.conf.body # "none" => host.minted >= 1
  /\ host.conf.edited => host.conf.body \notin {"none", "partial"}

(* What a step of a script knows of the machine from the steps before it.     *)
Knows(s) ==
  /\ script[s].pc = "mint" => host.token = 0
  /\ script[s].pc \in PastToken => host.token # 0
  /\ script[s].pc \in {"copy", "write"} => host.conf.body = "none"
  /\ script[s].pc = "dropin" => host.unit = script[s].ver
  /\ script[s].pc = "start" /\ host.systemd => host.unit = script[s].ver /\ host.dropin = NoVersion
  /\ script[s].pc = "done" /\ host.gateway.by = s => host.gateway.ver = script[s].ver

StepsKnow == ~overlap => \A s \in Scripts : Knows(s)

GatewayHasToken ==
  host.there /\ host.gateway.ver # NoVersion /\ ~overlap =>
    host.token # 0 /\ host.gateway.token = host.token

MachineInv == MachineType /\ OneRun /\ MintedFirst /\ StepsKnow /\ GatewayHasToken

(* What EditsSurvive asks of a step.                                          *)
EditStays ==
  host.there /\ host.conf.edited /\ ~overlap =>
    host'.conf.edited \/ ~host'.there \/ host'.minted < host.minted \/ overlap'

USE ProvisionAssumption

(* A machine one of whose parts is written is a machine.                      *)
LEMMA HostWrites ==
  ASSUME NEW h \in Hosts
  PROVE  /\ \A c \in Configs : [h EXCEPT !.conf = c] \in Hosts
         /\ \A t, m \in Nat : [h EXCEPT !.token = t, !.minted = m] \in Hosts
         /\ [h EXCEPT !.token = 0] \in Hosts
         /\ [h EXCEPT !.conf.mode = TRUE] \in Hosts
         /\ [h EXCEPT !.legacy = "migrated"] \in Hosts
         /\ \A v \in Releases : [h EXCEPT !.unit = v] \in Hosts /\ [h EXCEPT !.dropin = v] \in Hosts
  BY DEF Hosts, Configs

(* A host with another gateway is one.                                       *)
LEMMA GatewayWrites ==
  ASSUME NEW h \in Hosts, NEW v \in Releases, NEW t \in Nat, NEW by \in Scripts \cup {Nobody}
  PROVE  [h EXCEPT !.gateway = [ver |-> v, token |-> t, by |-> by]] \in Hosts
  BY DEF Hosts

(* What the script writes are configurations.                                *)
LEMMA ConfigTypes ==
  /\ Partial \in Configs /\ Written("legacy", FALSE) \in Configs /\ Written("default", TRUE) \in Configs
  /\ NoConf \in Configs
  BY DEF Partial, Written, Configs, NoConf

(* A script that moves on is a run.                                          *)
LEMMA RunTypes ==
  ASSUME NEW r \in [Scripts -> Runs], NEW s \in Scripts
  PROVE  /\ \A p \in Pcs : [r EXCEPT ![s].pc = p] \in [Scripts -> Runs]
         /\ [r EXCEPT ![s].pc = "default", ![s].migrated = TRUE] \in [Scripts -> Runs]
<1>1. \A p \in Pcs : [r EXCEPT ![s].pc = p] \in [Scripts -> Runs]
  BY DEF Runs
<1>2. "default" \in Pcs
  BY DEF Pcs, PastToken
<1>. QED  BY <1>1, <1>2 DEF Runs

(* Every step of a script keeps the types of the machine.                    *)
LEMMA ScriptTypes ==
  ASSUME MachineType, NEW s \in Scripts, ScriptStep(s)
  PROVE  MachineType'
<1>h. host \in Hosts /\ script \in [Scripts -> Runs]
  BY DEF MachineType
<1>1. host' \in Hosts
  <2>1. CASE MintToken(s)
    <3>1. host.minted \in Nat /\ host.minted + 1 \in Nat
      BY <1>h DEF Hosts
    <3>2. \/ host' = [host EXCEPT !.token = host.minted + 1, !.minted = @ + 1]
          \/ host' = [host EXCEPT !.token = 0]
      BY <2>1 DEF MintToken
    <3>3. [host EXCEPT !.token = host.minted + 1, !.minted = @ + 1]
            = [host EXCEPT !.token = host.minted + 1, !.minted = host.minted + 1]
      BY <1>h DEF Hosts
    <3>4. [host EXCEPT !.token = host.minted + 1, !.minted = host.minted + 1] \in Hosts
      BY <1>h, <3>1, HostWrites
    <3>. QED  BY <1>h, <3>2, <3>3, <3>4, HostWrites
  <2>2. CASE CopyLegacy(s)
    <3>1. \/ host' = host
          \/ host' = [host EXCEPT !.conf = Written("legacy", FALSE)]
          \/ host' = [host EXCEPT !.conf = Partial]
      BY <2>2 DEF CopyLegacy, Fail
    <3>. QED  BY <1>h, <3>1, HostWrites, ConfigTypes
  <2>3. CASE WriteDefault(s)
    <3>1. \/ host' = [host EXCEPT !.conf = Written("default", TRUE)]
          \/ host' = [host EXCEPT !.conf = Partial]
      BY <2>3 DEF WriteDefault
    <3>. QED  BY <1>h, <3>1, HostWrites, ConfigTypes
  <2>4. CASE SetMode(s)
    BY <1>h, <2>4, HostWrites DEF SetMode
  <2>5. CASE Prepare(s) \/ TokenFile(s) \/ NeedsMigration(s) \/ NeedsDefault(s) \/ Cut(s)
    BY <1>h, <2>5 DEF Prepare, TokenFile, NeedsMigration, NeedsDefault, Cut, Fail
  <2>6. CASE MoveLegacy(s)
    BY <1>h, <2>6, HostWrites DEF MoveLegacy
  <2>7. CASE WriteUnit(s)
    <3>1. script[s].ver \in Releases /\ host' = [host EXCEPT !.unit = script[s].ver]
      BY <1>h, <2>7 DEF WriteUnit, Runs
    <3>. QED  BY <1>h, <3>1, HostWrites
  <2>8. CASE RemoveDropin(s)
    <3>1. NoVersion \in Releases /\ host' = [host EXCEPT !.dropin = NoVersion]
      BY <2>8 DEF RemoveDropin, Releases
    <3>. QED  BY <1>h, <3>1, HostWrites
  <2>9. CASE StartGateway(s)
    <3>1. script[s].ver \in Releases /\ UnitVersion \in Releases /\ NoVersion \in Releases /\ host.token \in Nat
      BY <1>h DEF UnitVersion, Releases, Hosts, Runs
    <3>2. \/ host' = [host EXCEPT !.gateway = [ver |-> UnitVersion, token |-> host.token, by |-> s]]
          \/ host' = [host EXCEPT !.gateway = [ver |-> script[s].ver, token |-> host.token, by |-> s]]
          \/ host' = [host EXCEPT !.gateway = [ver |-> NoVersion, token |-> 0, by |-> Nobody]]
      BY <2>9 DEF StartGateway, Started, NoGateway
    <3>. QED  BY <1>h, <3>1, <3>2, GatewayWrites
  <2>. QED  BY <2>1, <2>2, <2>3, <2>4, <2>5, <2>6, <2>7, <2>8, <2>9 DEF ScriptStep
<1>2. script' \in [Scripts -> Runs]
  <2>1. CASE MoveLegacy(s)
    <3>1. "failed" \in Pcs
      BY DEF Pcs, Ends
    <3>2. /\ [script EXCEPT ![s].pc = "failed"] \in [Scripts -> Runs]
          /\ [script EXCEPT ![s].pc = "default", ![s].migrated = TRUE] \in [Scripts -> Runs]
      BY <1>h, <3>1, RunTypes
    <3>. QED  BY <2>1, <3>2 DEF MoveLegacy
  <2>2. CASE ~MoveLegacy(s)
    <3>1. \E p \in Pcs : Go(s, p)
      BY <2>2 DEF ScriptStep, Prepare, TokenFile, MintToken, NeedsMigration, CopyLegacy, NeedsDefault,
         WriteDefault, SetMode, WriteUnit, RemoveDropin, StartGateway, Cut, Fail, Pcs, PastToken, Ends
    <3>2. PICK p \in Pcs : script' = [script EXCEPT ![s].pc = p]
      BY <3>1 DEF Go
    <3>3. [script EXCEPT ![s].pc = p] \in [Scripts -> Runs]
      BY <1>h, RunTypes
    <3>. QED  BY <3>2, <3>3
  <2>. QED  BY <2>1, <2>2
<1>. QED  BY <1>1, <1>2 DEF MachineType

(* Going on to the next step moves no other script.                          *)
LEMMA GoFacts ==
  ASSUME MachineType, NEW s \in Scripts, NEW p \in Pcs, Go(s, p)
  PROVE  /\ overlap' = overlap /\ script'[s].pc = p /\ script'[s].ver = script[s].ver
         /\ \A t \in Scripts \ {s} : script'[t] = script[t]
  BY DEF MachineType, Runs, Go

(* A step of a script changes the machine as its own run left it.             *)
LEMMA ScriptStepKeeps ==
  ASSUME MachineInv, NEW s \in Scripts, ScriptStep(s)
  PROVE  MachineInv' /\ EditStays
<1>0. USE DEF MachineInv, MachineType, Hosts, Runs, OneRun, MintedFirst, StepsKnow, Knows, GatewayHasToken, EditStays,
      In, Go, Fail, AtRest, Pcs, PastToken, Ends
<1>1. CASE Prepare(s)
  <2>2. OneRun'
    BY <1>1 DEF Prepare
  <2>3. MintedFirst' /\ GatewayHasToken'
    BY <1>1 DEF Prepare
  <2>4. StepsKnow'
    BY <1>1 DEF Prepare
  <2>5. EditStays
    BY <1>1 DEF Prepare
  <2>. QED  BY ScriptTypes, <2>2, <2>3, <2>4, <2>5
<1>2. CASE TokenFile(s)
  BY <1>2 DEF TokenFile
<1>3. CASE MintToken(s)
  <2>1. /\ overlap' = overlap /\ script[s].pc = "mint"
        /\ \A t \in Scripts \ {s} : script'[t] = script[t]
        /\ script'[s].ver = script[s].ver
        /\ host'.gateway = host.gateway /\ host'.conf = host.conf /\ host'.there = host.there
        /\ \/ script'[s].pc = "migrate" /\ host'.token = host.minted + 1 /\ host'.minted = host.minted + 1
           \/ script'[s].pc = "failed" /\ host'.token = 0 /\ host'.minted = host.minted
    <3>1. /\ script[s].pc = "mint"
          /\ \/ Go(s, "migrate") /\ host' = [host EXCEPT !.token = host.minted + 1, !.minted = @ + 1]
             \/ Go(s, "failed") /\ host' = [host EXCEPT !.token = 0]
      BY <1>3 DEF MintToken
    <3>2. host \in Hosts
      OBVIOUS
    <3>3. /\ host'.gateway = host.gateway /\ host'.conf = host.conf /\ host'.there = host.there
          /\ \/ Go(s, "migrate") /\ host'.token = host.minted + 1 /\ host'.minted = host.minted + 1
             \/ Go(s, "failed") /\ host'.token = 0 /\ host'.minted = host.minted
      BY <3>1, <3>2
    <3>. QED  BY <3>1, <3>3, GoFacts
  <2>2. OneRun'
    BY <1>3 DEF MintToken
  <2>3. MintedFirst'
    BY <2>1
  <2>4. GatewayHasToken'
    BY <2>1
  <2>5. StepsKnow'
    <3>1. SUFFICES ASSUME ~overlap, NEW t \in Scripts PROVE Knows(t)'
      BY <2>1
    <3>2. CASE t = s
      BY <2>1, <3>2
    <3>3. CASE t # s
      <4>1. script[t].pc \in Ends /\ Knows(t)
        BY <2>1, <3>1, <3>3
      <4>. QED  BY <2>1, <3>3, <4>1
    <3>. QED  BY <3>2, <3>3
  <2>6. EditStays
    BY <1>3 DEF MintToken
  <2>. QED  BY ScriptTypes, <2>2, <2>3, <2>4, <2>5, <2>6
<1>4. CASE NeedsMigration(s)
  BY <1>4 DEF NeedsMigration
<1>5. CASE CopyLegacy(s)
  <2>2. OneRun'
    BY <1>5 DEF CopyLegacy, Written, Partial, Configs
  <2>3. MintedFirst' /\ GatewayHasToken'
    BY <1>5 DEF CopyLegacy, Written, Partial, Configs
  <2>4. StepsKnow'
    BY <1>5 DEF CopyLegacy, Written, Partial, Configs
  <2>5. EditStays
    BY <1>5 DEF CopyLegacy, Written, Partial, Configs
  <2>. QED  BY ScriptTypes, <2>2, <2>3, <2>4, <2>5
<1>6. CASE MoveLegacy(s)
  BY <1>6 DEF MoveLegacy
<1>7. CASE NeedsDefault(s)
  BY <1>7 DEF NeedsDefault
<1>8. CASE WriteDefault(s)
  <2>2. OneRun'
    BY <1>8 DEF WriteDefault, Written, Partial, Configs
  <2>1. /\ overlap' = overlap /\ script[s].pc = "write"
        /\ \A t \in Scripts \ {s} : script'[t] = script[t]
        /\ script'[s].pc \in {"mode", "failed"}
        /\ host'.gateway = host.gateway /\ host'.token = host.token /\ host'.minted = host.minted
        /\ host'.there = host.there /\ ~host'.conf.edited
    <3>1. /\ script[s].pc = "write" /\ (Go(s, "mode") \/ Go(s, "failed"))
          /\ \E c \in Configs : host' = [host EXCEPT !.conf = c] /\ ~c.edited
      BY <1>8, ConfigTypes DEF WriteDefault, Written, Partial
    <3>2. /\ host'.gateway = host.gateway /\ host'.token = host.token /\ host'.minted = host.minted
          /\ host'.there = host.there /\ ~host'.conf.edited
      BY <3>1
    <3>. QED  BY <3>1, <3>2, GoFacts
  <2>3. MintedFirst' /\ GatewayHasToken'
    BY <2>1
  <2>4. StepsKnow'
    BY <1>8 DEF WriteDefault, Written, Partial, Configs
  <2>5. EditStays
    BY <1>8 DEF WriteDefault, Written, Partial, Configs
  <2>. QED  BY ScriptTypes, <2>2, <2>3, <2>4, <2>5
<1>9. CASE SetMode(s)
  <2>2. OneRun'
    BY <1>9 DEF SetMode, Configs
  <2>3. MintedFirst' /\ GatewayHasToken'
    BY <1>9 DEF SetMode, Configs
  <2>4. StepsKnow'
    BY <1>9 DEF SetMode, Configs
  <2>5. EditStays
    BY <1>9 DEF SetMode, Configs
  <2>. QED  BY ScriptTypes, <2>2, <2>3, <2>4, <2>5
<1>10. CASE WriteUnit(s)
  BY <1>10 DEF WriteUnit
<1>11. CASE RemoveDropin(s)
  BY <1>11 DEF RemoveDropin, Releases
<1>12. CASE StartGateway(s)
  BY <1>12 DEF StartGateway, Started, UnitVersion, NoGateway, Releases
<1>13. CASE Cut(s)
  BY <1>13 DEF Cut
<1>. QED
  BY <1>1, <1>2, <1>3, <1>4, <1>5, <1>6, <1>7, <1>8, <1>9, <1>10, <1>11, <1>12, <1>13 DEF ScriptStep

(* Nothing happens to the machine.                                            *)
LEMMA SameMachine ==
  ASSUME MachineInv, UNCHANGED machine
  PROVE  MachineInv' /\ EditStays
<1>0. USE DEF machine, MachineInv
<1>1. MachineType' /\ OneRun' /\ EditStays
  BY DEF MachineType, OneRun, EditStays, AtRest
<1>2. MintedFirst' /\ GatewayHasToken'
  BY DEF MintedFirst, GatewayHasToken
<1>3. StepsKnow'
  BY DEF StepsKnow, Knows
<1>. QED  BY <1>1, <1>2, <1>3

(* A run that starts knows nothing yet, and whoever it meets is an overlap.   *)
LEMMA LaunchKeeps ==
  ASSUME MachineInv, NEW s \in Scripts, NEW v \in Releases, Launch(s, v), UNCHANGED host
  PROVE  MachineInv' /\ EditStays
<1>0. USE DEF MachineInv
<1>1. /\ script' \in [Scripts -> Runs] /\ script'[s].pc = "prepare"
      /\ \A t \in Scripts \ {s} : script'[t] = script[t]
  BY DEF MachineType, Launch, Launched, Runs, Pcs
<1>2. ~overlap' => ~overlap /\ \A t \in Scripts \ {s} : AtRest(t)
  BY DEF Launch
<1>3. MachineType'
  BY <1>1 DEF MachineType
<1>4. OneRun'
  BY <1>1, <1>2 DEF OneRun, AtRest
<1>5. MintedFirst' /\ GatewayHasToken' /\ EditStays
  BY <1>1, <1>2 DEF MintedFirst, GatewayHasToken, PastToken, EditStays
<1>6. StepsKnow'
  BY <1>1, <1>2 DEF StepsKnow, Knows, PastToken
<1>. QED  BY <1>3, <1>4, <1>5, <1>6

(* A machine that was just made has no token and no gateway.                 *)
LEMMA BlankFacts ==
  /\ Blank(FALSE, "none") \in Hosts /\ Blank(FALSE, "none").token = 0 /\ Blank(FALSE, "none").minted = 0
  /\ Blank(FALSE, "none").gateway = NoGateway /\ Blank(FALSE, "none").conf = NoConf
  BY DEF Blank, NoConf, NoGateway, Hosts, Configs, Releases

(* A new machine has nobody on it but its first boot.                         *)
LEMMA NewMachineKeeps ==
  ASSUME MachineInv, NEW v \in Releases, \A s \in Scripts \ {Boot} : script[s].pc = "none",
         host' \in Hosts, host'.token = 0, host'.minted = 0, host'.gateway = NoGateway, host'.conf = NoConf,
         overlap' = FALSE, script' = Launched(script, Boot, v)
  PROVE  MachineInv' /\ EditStays
<1>0. USE DEF MachineInv
<1>1. /\ script' \in [Scripts -> Runs] /\ script'[Boot].pc = "prepare"
      /\ \A t \in Scripts \ {Boot} : script'[t].pc = "none"
  BY DEF MachineType, Launched, Runs, Pcs
<1>2. host'.gateway.ver = NoVersion /\ host'.gateway.by = Nobody
  BY DEF NoGateway
<1>3. MachineType'
  BY <1>1 DEF MachineType
<1>4. OneRun'
  BY <1>1 DEF OneRun, AtRest
<1>5. MintedFirst'
  <2>1. \A s \in Scripts : script'[s].pc \notin PastToken
    BY <1>1 DEF PastToken
  <2>. QED  BY <1>2, <2>1 DEF MintedFirst, NoConf
<1>6. GatewayHasToken'
  BY <1>2 DEF GatewayHasToken
<1>7. StepsKnow'
  BY <1>1, <1>2 DEF StepsKnow, Knows, PastToken
<1>8. EditStays
  BY DEF EditStays, MintedFirst, MachineType, Hosts
<1>. QED  BY <1>3, <1>4, <1>5, <1>6, <1>7, <1>8

(* A machine that is gone has no script.                                      *)
LEMMA NoMachineKeeps ==
  ASSUME MachineInv, host' = [host EXCEPT !.there = FALSE], overlap' = FALSE,
         script' = [s \in Scripts |-> NotRun]
  PROVE  MachineInv' /\ EditStays
<1>0. USE DEF MachineInv
<1>1. /\ script' \in [Scripts -> Runs] /\ \A t \in Scripts : script'[t].pc = "none"
  BY DEF NotRun, Runs, Pcs, Ends, Releases
<1>2. /\ host' \in Hosts /\ host'.token = host.token /\ host'.minted = host.minted
      /\ host'.gateway = host.gateway /\ host'.conf = host.conf /\ ~host'.there
  BY DEF MachineType, Hosts
<1>3. MachineType'
  BY <1>1, <1>2 DEF MachineType
<1>4. OneRun'
  BY <1>1 DEF OneRun, AtRest
<1>5. MintedFirst' /\ GatewayHasToken' /\ EditStays
  BY <1>1, <1>2 DEF MintedFirst, GatewayHasToken, PastToken, EditStays
<1>6. StepsKnow'
  BY <1>1, <1>2 DEF StepsKnow, Knows, PastToken
<1>. QED  BY <1>3, <1>4, <1>5, <1>6

(* A restart cuts every run, and starts the gateway again with the token.     *)
LEMMA RebootKeeps ==
  ASSUME MachineInv, NEW again \in SUBSET Releases, Reboot(again)
  PROVE  MachineInv' /\ EditStays
<1>0. USE DEF MachineInv
<1>0a. host \in Hosts /\ script \in [Scripts -> Runs]
  BY DEF MachineType
<1> DEFINE stopped == [s \in Scripts |-> IF AtRest(s) THEN script[s] ELSE [script[s] EXCEPT !.pc = "failed"]]
<1>1. \A s \in Scripts : stopped[s] \in Runs /\ stopped[s].pc \in Ends
                         /\ (stopped[s].pc = "done" => stopped[s] = script[s])
  <2>1. SUFFICES ASSUME NEW s \in Scripts
                 PROVE  stopped[s] \in Runs /\ stopped[s].pc \in Ends
                         /\ (stopped[s].pc = "done" => stopped[s] = script[s])
    OBVIOUS
  <2>2. CASE AtRest(s)
    BY <1>0a, <2>2 DEF AtRest, Ends
  <2>3. CASE ~AtRest(s)
    <3>1. stopped[s] = [script[s] EXCEPT !.pc = "failed"] /\ script[s] \in Runs
      BY <1>0a, <2>3
    <3>. QED  BY <3>1 DEF Runs, Pcs, Ends
  <2>. QED  BY <2>2, <2>3
<1>2. /\ script' \in [Scripts -> Runs]
      /\ \A s \in Scripts \ {Boot} : script'[s] = stopped[s]
      /\ script'[Boot] = stopped[Boot] \/ script'[Boot].pc = "prepare"
  <2>1. stopped \in [Scripts -> Runs]
    BY <1>1
  <2>2. CASE again = {}
    BY <2>1, <2>2 DEF Reboot
  <2>3. CASE again # {}
    <3>1. (CHOOSE v \in again : TRUE) \in Releases
      BY <2>3
    <3>2. script' = [stopped EXCEPT ![Boot] = [pc |-> "prepare", ver |-> CHOOSE v \in again : TRUE, migrated |-> FALSE]]
      BY <2>3 DEF Reboot, Launched
    <3>. HIDE DEF stopped
    <3>. QED  BY <2>1, <3>1, <3>2 DEF Runs, Pcs
  <2>. QED  BY <2>2, <2>3
<1>3. /\ host' \in Hosts /\ host'.token = host.token /\ host'.minted = host.minted /\ host'.conf = host.conf
      /\ host'.there = host.there
      /\ \/ host'.gateway = host.gateway
         \/ host.gateway.ver # NoVersion /\ host'.gateway.token = host.token /\ host'.gateway.by = Nobody
  <2>1. UnitVersion \in Releases /\ host.token \in Nat /\ Nobody \in Scripts \cup {Nobody}
    BY <1>0a DEF UnitVersion, Hosts
  <2>2. [host EXCEPT !.gateway = [ver |-> UnitVersion, token |-> host.token, by |-> Nobody]] \in Hosts
    BY <1>0a, <2>1, GatewayWrites
  <2>3. \/ host' = host
        \/ /\ host.gateway.ver # NoVersion
           /\ host' = [host EXCEPT !.gateway = [ver |-> UnitVersion, token |-> host.token, by |-> Nobody]]
    BY DEF Reboot, Restarted, Started
  <2>. QED  BY <1>0a, <2>2, <2>3 DEF Hosts
<1>4. overlap' = overlap
  BY DEF Reboot
<1>. HIDE DEF stopped
<1>5. MachineType'
  BY <1>2, <1>3 DEF MachineType
<1>6. OneRun'
  BY <1>1, <1>2 DEF OneRun, AtRest, Ends
<1>7. MintedFirst'
  <2>1. \A s \in Scripts : script'[s].pc \notin PastToken
    BY <1>1, <1>2 DEF Ends, PastToken
  <2>. QED  BY <1>3, <2>1 DEF MintedFirst
<1>8. GatewayHasToken' /\ EditStays
  BY <1>3, <1>4 DEF GatewayHasToken, EditStays
<1>9. StepsKnow'
  <2>1. SUFFICES ASSUME ~overlap, NEW s \in Scripts PROVE Knows(s)'
    BY <1>4 DEF StepsKnow
  <2>2. script'[s].pc \in {"prepare"} \cup Ends /\ (script'[s].pc = "done" => script'[s] = script[s])
    BY <1>1, <1>2
  <2>3. Knows(s)
    BY <2>1 DEF StepsKnow
  <2>. QED  BY <1>3, <2>2, <2>3 DEF Knows, Ends, PastToken
<1>. QED  BY <1>5, <1>6, <1>7, <1>8, <1>9

(* What a day-two command pins has the token of the file, and whoever started *)
(* the gateway keeps it only if the release stays.                            *)
LEMMA PinnedFacts ==
  ASSUME MachineType, NEW v \in Releases
  PROVE  /\ Pinned(v) \in Hosts /\ Pinned(v).token = host.token /\ Pinned(v).minted = host.minted
         /\ Pinned(v).there = host.there /\ Pinned(v).conf = host.conf
         /\ Pinned(v).gateway.ver = v /\ Pinned(v).gateway.token = host.token
         /\ Pinned(v).gateway.by = IF v = host.gateway.ver THEN host.gateway.by ELSE Nobody
<1>1. host \in Hosts
  BY DEF MachineType
<1> DEFINE g == [ver |-> v, token |-> host.token, by |-> IF v = host.gateway.ver THEN host.gateway.by ELSE Nobody]
           d == IF host.systemd THEN v ELSE NoVersion
<1>2. g \in [ver : Releases, token : Nat, by : Scripts \cup {Nobody}] /\ d \in Releases
  BY <1>1 DEF Hosts, Releases
<1>3. Pinned(v) = [host EXCEPT !.gateway = g, !.dropin = d]
  BY <1>1 DEF Pinned, Started, Hosts
<1>4. g.ver = v /\ g.token = host.token /\ g.by = IF v = host.gateway.ver THEN host.gateway.by ELSE Nobody
  OBVIOUS
<1>. HIDE DEF g, d
<1>. QED  BY <1>1, <1>2, <1>3, <1>4 DEF Hosts

(* A command that restarts the gateway, or fails to, keeps what is true of    *)
(* the machine.                                                               *)
LEMMA RestartKeeps ==
  ASSUME MachineInv, host' \in Hosts,
         host'.token = host.token, host'.minted = host.minted, host'.there = host.there,
         host.conf.body # "none" \/ host.gateway.ver # NoVersion,
         host'.conf = host.conf \/ (host'.conf.edited /\ host'.conf.body \notin {"none", "partial"}),
         \/ host'.gateway = NoGateway
         \/ host'.gateway = host.gateway
         \/ /\ host.gateway.ver # NoVersion /\ host'.gateway.token = host.token
            /\ host'.gateway.by = IF host'.gateway.ver = host.gateway.ver THEN host.gateway.by ELSE Nobody,
         overlap' = (overlap \/ Busy), script' = script
  PROVE  MachineInv' /\ EditStays
<1>0. USE DEF MachineInv
<1>1. ~overlap' => ~overlap /\ \A s \in Scripts : AtRest(s)
  BY DEF Busy
<1>2. MachineType'
  BY DEF MachineType
<1>3. OneRun'
  BY <1>1 DEF OneRun, AtRest
<1>4. MintedFirst'
  BY DEF MintedFirst, NoGateway
<1>5. GatewayHasToken' /\ EditStays
  BY <1>1 DEF GatewayHasToken, EditStays, NoGateway
<1>6. StepsKnow'
  <2>1. SUFFICES ASSUME ~overlap', NEW s \in Scripts PROVE Knows(s)'
    BY DEF StepsKnow
  <2>2. Knows(s) /\ script[s].pc \in {"none", "done", "failed"}
    BY <1>1, <2>1 DEF StepsKnow, AtRest
  <2>3. host'.gateway.by = s => host'.gateway.ver = host.gateway.ver /\ host.gateway.by = s
    BY DEF NoGateway
  <2>. QED  BY <2>2, <2>3 DEF Knows, PastToken
<1>. QED  BY <1>2, <1>3, <1>4, <1>5, <1>6

(* An update of the gateway replaces the release and neither the token nor   *)
(* the config.                                                               *)
LEMMA GatewayUpdateKeeps ==
  ASSUME MachineInv, NEW v \in Versions, GatewayUpdate(v)
  PROVE  MachineInv' /\ EditStays
<1>1. v \in Releases /\ MachineType
  BY DEF Releases, MachineInv
<1>2. host' = Pinned(v) /\ host.gateway.ver # NoVersion /\ overlap' = (overlap \/ Busy) /\ script' = script
  BY DEF GatewayUpdate
<1>3. /\ host' \in Hosts /\ host'.token = host.token /\ host'.minted = host.minted /\ host'.there = host.there
      /\ host'.conf = host.conf /\ host'.gateway.ver = v /\ host'.gateway.token = host.token
      /\ host'.gateway.by = IF v = host.gateway.ver THEN host.gateway.by ELSE Nobody
  BY <1>1, <1>2, PinnedFacts
<1>4. host'.conf = host.conf \/ (host'.conf.edited /\ host'.conf.body \notin {"none", "partial"})
  BY <1>3
<1>. QED  BY <1>2, <1>3, <1>4, RestartKeeps

(* An edit of the config by the operator, whatever becomes of the restart.    *)
LEMMA EditKeeps ==
  ASSUME MachineInv, Edit
  PROVE  MachineInv' /\ EditStays
<1>1. MachineType
  BY DEF MachineInv
<1>2. host.conf.body \notin {"none", "partial"} /\ overlap' = (overlap \/ Busy) /\ script' = script
  BY DEF Edit
<1> DEFINE p == Pinned(host.gateway.ver)
<1>3. PICK h \in AfterRestart : host' = [h EXCEPT !.conf.edited = TRUE]
  BY DEF Edit
<1>4. /\ h \in Hosts /\ h.token = host.token /\ h.minted = host.minted
      /\ h.there = host.there /\ h.conf = host.conf
      /\ \/ h.gateway = NoGateway
         \/ h.gateway = host.gateway
         \/ /\ host.gateway.ver # NoVersion /\ h.gateway.token = host.token
            /\ h.gateway.ver = host.gateway.ver /\ h.gateway.by = host.gateway.by
  <2>1. host \in Hosts /\ host.gateway.ver \in Releases
    BY <1>1 DEF MachineType, Hosts
  <2>2. CASE h = host
    BY <2>1, <2>2
  <2>3. ASSUME h # host PROVE host.gateway.ver # NoVersion /\ h \in {p, [p EXCEPT !.gateway = NoGateway]}
    BY <1>3, <2>3 DEF AfterRestart
  <2>4. /\ p \in Hosts /\ p.token = host.token /\ p.minted = host.minted
        /\ p.there = host.there /\ p.conf = host.conf
        /\ p.gateway.ver = host.gateway.ver /\ p.gateway.token = host.token
        /\ p.gateway.by = host.gateway.by
    BY <1>1, <2>1, PinnedFacts
  <2>. HIDE DEF p
  <2>5. CASE h = p
    BY <2>2, <2>3, <2>4, <2>5
  <2>6. CASE h = [p EXCEPT !.gateway = NoGateway]
    <3>1. NoGateway \in [ver : Releases, token : Nat, by : Scripts \cup {Nobody}]
      BY DEF NoGateway, Releases
    <3>. QED  BY <2>4, <2>6, <3>1 DEF Hosts
  <2>. QED  BY <2>2, <2>3, <2>5, <2>6
<1>5. /\ host' \in Hosts /\ host'.token = h.token /\ host'.minted = h.minted /\ host'.there = h.there
      /\ host'.gateway = h.gateway /\ host'.conf.edited /\ host'.conf.body = h.conf.body
  BY <1>3, <1>4 DEF Hosts, Configs
<1>. HIDE DEF p
<1>. QED  BY <1>2, <1>4, <1>5, RestartKeeps

(* The stack, the plans and the processes. *)

USE DeployAssumption

Intended == [size : Sizes \cup {Unset}, version : Releases, ssh : BOOLEAN, gateway : BOOLEAN,
             publish : {"loopback", "all"}]
PlanFiles == [intent : Intended, version : Nat, diff : Diffs \cup {"none"}, looked : Places \cup {Unset},
              beside : BOOLEAN]

(* Where a process may be; before it has updated, and by which provider.      *)
BeforeUpdate == {"guard", "preview", "info", "validate", "check", "drift", "ask", "up"}
OnCloud == BeforeUpdate \cup {"ssh"}
OnHost  == {"session", "script"}
Processes == [pc : OnCloud \cup OnHost \cup {"idle", "gateway", "overlay"},
              cmd : {"none", "plan", "up", "wizard", "apply", "local", "wait"}, plan : PlanFiles,
              asks : BOOLEAN, wait : BOOLEAN, pinned : Places \cup {Unset}, warned : BOOLEAN]

Deployed == [size : Sizes \cup {Unset}, version : Releases, ssh : BOOLEAN, gateway : BOOLEAN,
             place : Places \cup {Unset}]
Stacks == [version : Nat, live : Deployed]

DeployType ==
  /\ provider \in Providers /\ ambient \in Places
  /\ stack \in Stacks
  /\ plans \in SUBSET PlanFiles
  /\ proc \in [Procs -> Processes]
  /\ commands \in 0..MaxCommands /\ events \in 0..MaxEvents /\ commands + events <= MaxTotal

(* A host of the owner's has no stack; a machine of the cloud runs no script  *)
(* but its own.                                                               *)
Apart ==
  /\ provider = "local" =>
       stack = NoStack /\ plans = {} /\ \A q \in Procs : proc[q].pc \notin OnCloud
  /\ provider # "local" =>
       /\ \A s \in Scripts \ {Boot} : script[s].pc = "none"
       /\ \A q \in Procs : proc[q].pc \notin OnHost

(* What a request comes to where a lookup returns `place`.                    *)
Reviewed(i, place) ==
  [size |-> i.size, version |-> i.version, place |-> place, ssh |-> i.ssh,
   gateway |-> i.publish = "all" /\ i.gateway]

(* What a provider says such a change is.                                     *)
Happens(at, live, new) ==
  IF at = "gcp" THEN gcpInstance(live, new)
  ELSE IF at = "azure" THEN azureMachine(live, new) ELSE awsInstance(live, new)

(* A plan made of the stack as it is, at its version, says what would happen. *)
PlanFits(at, st, p) ==
  /\ p.version <= st.version
  /\ \/ p.diff = "none" \/ p.version = 0 \/ p.beside \/ p.version # st.version
     \/ p.diff = Happens(at, st.live, Reviewed(p.intent, p.looked))

(* So it does while its version is being asked for; and where an update is    *)
(* about to run, that version was looked at.                                  *)
ProcessFits(at, st, r) ==
  /\ PlanFits(at, st, r.plan)
  /\ r.pc \in {"guard", "preview", "info"} => r.plan.version = 0
  /\ r.pc = "info" =>
       r.plan.beside \/ r.plan.diff = Happens(at, st.live, Reviewed(r.plan.intent, r.plan.looked))
  /\ r.pc \in {"ask", "up"} =>
       r.warned \/ r.plan.beside \/ r.plan.version = 0 \/ r.plan.version = st.version

ReviewInv ==
  /\ \A p \in plans : PlanFits(provider, stack, p)
  /\ \A q \in Procs : ProcessFits(provider, stack, proc[q])

(* Each command, and each event, is an update at most.                        *)
Updaters == {q \in Procs : proc[q].pc \in BeforeUpdate}
VersionsCounted ==
  /\ IsFiniteSet(Updaters)
  /\ stack.version + Cardinality(Updaters) <= 1 + commands + events

DeployInv == MachineInv /\ DeployType /\ Apart /\ ReviewInv /\ VersionsCounted

(* What the records of a command are made of.                                 *)
LEMMA RequestTypes ==
  ASSUME NEW i \in Requests
  PROVE  i \in Intended /\ Asked(i) \in PlanFiles
<1>1. i \in Intents
  OBVIOUS
<1>2. i \in Intended
  BY <1>1 DEF Intents, Intended, Releases
<1>3. NoPlan \in PlanFiles
  BY DEF NoPlan, NoIntent, PlanFiles, Intended, Releases
<1>. QED  BY <1>2, <1>3 DEF Asked, PlanFiles

(* A command at rest, and one that waits for its host.                       *)
LEMMA ProcessTypes ==
  /\ Idle \in Processes
  /\ Waiting("ssh") \in Processes /\ Waiting("gateway") \in Processes /\ Waiting("overlay") \in Processes
<1>1. NoPlan \in PlanFiles
  BY DEF NoPlan, NoIntent, PlanFiles, Intended, Releases
<1>2. Idle \in Processes
  BY <1>1 DEF Idle, Processes
<1>. QED  BY <1>2 DEF Waiting, Processes, OnCloud

(* What a program asks for is a deployment.                                  *)
LEMMA ProgramTypes ==
  ASSUME NEW i \in Intended, NEW place \in Places \cup {Unset}
  PROVE  Reviewed(i, place) \in Deployed
  BY DEF Reviewed, Intended, Deployed

(* What a preview can say.                                                   *)
LEMMA DiffTypes ==
  ASSUME NEW live, NEW new
  PROVE  diff(live, new) \in Diffs
<1>1. \A stops \in BOOLEAN : Changed(live, new, stops) \in Diffs
  BY DEF Changed, Diffs
<1>. QED  BY <1>1 DEF diff, gcpInstance, awsInstance, azureMachine

(* The same config makes the same resources, wherever the place is from.      *)
LEMMA ProgramIs ==
  ASSUME NEW i, ambient \in Places
  PROVE  program(writeStackConfig(i)) = Reviewed(i, ambient)
  BY DEF program, gcpProgram, azureProgram, awsProgram, Resources, writeStackConfig, resolveIngressCidrs,
     resolveGatewayIngressCidrs, Reviewed

(* A command asks for the deployment of its plan.                            *)
LEMMA WantedIs ==
  ASSUME NEW q \in Procs, DeployType
  PROVE  \E place \in Places \cup {Unset} : Wanted(q) = Reviewed(proc[q].plan.intent, place)
<1> DEFINE i == proc[q].plan.intent
           cfg == [writeStackConfig(i) EXCEPT !.project = proc[q].pinned]
<1>1. /\ cfg.instanceType = i.size /\ cfg.openclawVersion = i.version /\ cfg.publishGateway = i.publish
      /\ cfg.sshCidrs = i.ssh /\ cfg.gatewayCidrs = i.gateway /\ cfg.project \in Places \cup {Unset}
  BY DEF writeStackConfig, DeployType, Processes
<1>2. ambient \in Places /\ Wanted(q) = program(cfg)
  BY DEF DeployType, Wanted
<1>. HIDE DEF cfg
<1>. QED
  BY <1>1, <1>2 DEF program, gcpProgram, azureProgram, awsProgram, Resources, resolveIngressCidrs,
     resolveGatewayIngressCidrs, Reviewed

(* A command that moves on is one.                                           *)
LEMMA ProcessWrites ==
  ASSUME NEW r \in [Procs -> Processes], NEW q \in Procs
  PROVE  /\ \A p \in Processes : [r EXCEPT ![q] = p] \in [Procs -> Processes]
         /\ \A pc \in OnCloud \cup OnHost \cup {"idle", "gateway", "overlay"} :
              [r EXCEPT ![q].pc = pc] \in [Procs -> Processes]
  BY DEF Processes

(* When a stack has changed, each command is still one.                      *)
LEMMA LandedTypes ==
  ASSUME proc \in [Procs -> Processes], NEW q \in Procs, NEW p \in Processes
  PROVE  Landed \in [Procs -> Processes] /\ [Landed EXCEPT ![q] = p] \in [Procs -> Processes]
<1>1. \A r \in Procs : [proc[r] EXCEPT !.plan.beside = TRUE] \in Processes
  <2>1. \A x \in PlanFiles : [x EXCEPT !.beside = TRUE] \in PlanFiles
    BY DEF PlanFiles
  <2>2. \A p1 \in Processes, x \in PlanFiles : [p1 EXCEPT !.plan = x] \in Processes /\ p1.plan \in PlanFiles
    BY DEF Processes
  <2>3. \A r \in Procs : [proc[r] EXCEPT !.plan.beside = TRUE]
                          = [proc[r] EXCEPT !.plan = [proc[r].plan EXCEPT !.beside = TRUE]]
    BY DEF Processes
  <2>4. SUFFICES ASSUME NEW r \in Procs PROVE [proc[r] EXCEPT !.plan.beside = TRUE] \in Processes
    OBVIOUS
  <2>5. proc[r] \in Processes
    OBVIOUS
  <2>6. [proc[r].plan EXCEPT !.beside = TRUE] \in PlanFiles
    <3>1. proc[r].plan \in PlanFiles
      BY <2>5 DEF Processes
    <3>. QED  BY <2>1, <3>1
  <2>. QED  BY <2>2, <2>3, <2>5, <2>6
<1>. QED  BY <1>1 DEF Landed

(* The process a command starts in: it has a plan file, or one just asked for. *)
Starts == {p \in Processes :
             /\ p.pc \in {"guard", "check", "session"}
             /\ p.pc = "session" => provider = "local"
             /\ \/ p.plan.version = 0 /\ p.plan.diff = "none" /\ (p.pc # "session" => provider # "local")
                \/ p.plan \in plans /\ p.pc = "check"}

(* Where the commands start.                                                 *)
LEMMA StartTypes ==
  ASSUME NEW x \in PlanFiles, NEW w \in BOOLEAN
  PROVE  /\ [Idle EXCEPT !.pc = "guard", !.cmd = "plan", !.plan = x] \in Processes
         /\ [Idle EXCEPT !.pc = "guard", !.cmd = "up", !.plan = x, !.wait = w] \in Processes
         /\ [Idle EXCEPT !.pc = "check", !.cmd = "wizard", !.plan = x, !.wait = TRUE] \in Processes
         /\ [Idle EXCEPT !.pc = "check", !.cmd = "apply", !.plan = x, !.asks = w, !.wait = TRUE] \in Processes
         /\ [Idle EXCEPT !.pc = "session", !.cmd = "local", !.wait = w, !.plan = x] \in Processes
<1>1. ASSUME NEW p \in Processes
      PROVE  /\ [p EXCEPT !.pc = "guard", !.cmd = "plan", !.plan = x] \in Processes
             /\ [p EXCEPT !.pc = "guard", !.cmd = "up", !.plan = x, !.wait = w] \in Processes
             /\ [p EXCEPT !.pc = "check", !.cmd = "wizard", !.plan = x, !.wait = TRUE] \in Processes
             /\ [p EXCEPT !.pc = "check", !.cmd = "apply", !.plan = x, !.asks = w, !.wait = TRUE] \in Processes
             /\ [p EXCEPT !.pc = "session", !.cmd = "local", !.wait = w, !.plan = x] \in Processes
  BY DEF Processes, OnCloud, OnHost, BeforeUpdate
<1>. QED  BY <1>1, ProcessTypes

(* A command line starts a command and does no more.                         *)
LEMMA CommandStarts ==
  ASSUME DeployType, NEW q \in Procs, Command(q)
  PROVE  \E p \in Starts : Start(q, p)
<1>1. ASSUME NEW i \in Requests
      PROVE  Asked(i) \in PlanFiles /\ Asked(i).version = 0 /\ Asked(i).diff = "none"
  BY RequestTypes DEF Asked, NoPlan
<1>2. ASSUME NEW i \in Requests, plan(q, i)
      PROVE  \E p \in Starts : Start(q, p)
  <2> DEFINE p == [Idle EXCEPT !.pc = "guard", !.cmd = "plan", !.plan = Asked(i)]
  <2>1. p \in Processes /\ p.pc = "guard" /\ p.plan = Asked(i) /\ Start(q, p) /\ provider # "local"
    BY <1>1, <1>2, StartTypes DEF plan, Idle
  <2>. QED  BY <1>1, <2>1 DEF Starts
<1>3. ASSUME NEW i \in Requests, NEW wait \in BOOLEAN, up(q, i, wait)
      PROVE  \E p \in Starts : Start(q, p)
  <2> DEFINE p == [Idle EXCEPT !.pc = "guard", !.cmd = "up", !.plan = Asked(i), !.wait = wait]
  <2>1. p \in Processes /\ p.pc = "guard" /\ p.plan = Asked(i) /\ Start(q, p) /\ provider # "local"
    BY <1>1, <1>3, StartTypes DEF up, Idle
  <2>. QED  BY <1>1, <2>1 DEF Starts
<1>4. ASSUME NEW i \in Requests, wizard(q, i)
      PROVE  \E p \in Starts : Start(q, p)
  <2> DEFINE p == [Idle EXCEPT !.pc = "check", !.cmd = "wizard", !.plan = Asked(i), !.wait = TRUE]
  <2>1. p \in Processes /\ p.pc = "check" /\ p.plan = Asked(i) /\ Start(q, p) /\ provider # "local"
    BY <1>1, <1>4, StartTypes DEF wizard, Idle
  <2>. QED  BY <1>1, <2>1 DEF Starts
<1>5. ASSUME NEW i \in Requests, NEW mcp \in BOOLEAN, NEW wait \in BOOLEAN, localUp(q, i, mcp, wait)
      PROVE  \E p \in Starts : Start(q, p)
  <2> DEFINE x == Asked([NoIntent EXCEPT !.version = i.version])
             p == [Idle EXCEPT !.pc = "session", !.cmd = "local", !.wait = wait, !.plan = x]
  <2>1. x \in PlanFiles /\ x.version = 0 /\ x.diff = "none"
    <3>1. [NoIntent EXCEPT !.version = i.version] \in Intended
      BY RequestTypes DEF NoIntent, Intended
    <3>2. NoPlan \in PlanFiles /\ NoPlan.version = 0 /\ NoPlan.diff = "none"
      BY RequestTypes DEF Asked, NoPlan, PlanFiles, NoIntent, Intended, Releases
    <3>. QED  BY <3>1, <3>2 DEF Asked, PlanFiles
  <2>2. Start(q, p) /\ provider = "local"
    BY <1>5 DEF localUp
  <2>. HIDE DEF x
  <2>3. p \in Processes /\ p.pc = "session" /\ p.plan = x
    BY <2>1, StartTypes DEF Idle
  <2>. QED  BY <2>1, <2>2, <2>3 DEF Starts
<1>6. ASSUME NEW x \in plans, NEW asks \in BOOLEAN, apply(q, x, asks)
      PROVE  \E p \in Starts : Start(q, p)
  <2> DEFINE p == [Idle EXCEPT !.pc = "check", !.cmd = "apply", !.plan = x, !.asks = asks, !.wait = TRUE]
  <2>1. x \in PlanFiles
    BY DEF DeployType
  <2>2. p \in Processes /\ p.pc = "check" /\ p.plan = x /\ Start(q, p)
    BY <1>6, <2>1, StartTypes DEF apply, Idle
  <2>. QED  BY <2>2 DEF Starts
<1>. QED  BY <1>2, <1>3, <1>4, <1>5, <1>6 DEF Command, deployApp

(* Starting a command keeps the types.                                       *)
LEMMA StartKeepsTypes ==
  ASSUME DeployType, NEW q \in Procs, Command(q)
  PROVE  DeployType'
<1>1. PICK p \in Starts : Start(q, p)
  BY CommandStarts
<1>2. proc' \in [Procs -> Processes]
  BY <1>1, ProcessWrites DEF Starts, Start, DeployType
<1>3. commands' \in 0..MaxCommands /\ commands' + events' <= MaxTotal
  BY <1>1 DEF Start, DeployType
<1>. QED  BY <1>1, <1>2, <1>3 DEF Start, DeployType

(* Ending a command keeps the types.                                         *)
LEMMA EndTypes ==
  ASSUME DeployType, NEW q \in Procs, End(q)
  PROVE  proc' \in [Procs -> Processes]
  BY ProcessTypes, ProcessWrites DEF DeployType, End

(* Moving a command on keeps the types.                                      *)
LEMMA GotoTypes ==
  ASSUME DeployType, NEW q \in Procs, NEW to \in OnCloud \cup OnHost \cup {"idle", "gateway", "overlay"}, Goto(q, to)
  PROVE  proc' \in [Procs -> Processes]
  BY ProcessWrites DEF DeployType, Goto

(* An update makes a version, of resources that a request asked for.          *)
LEMMA WantedTypes ==
  ASSUME DeployType, NEW q \in Procs
  PROVE  Wanted(q) \in Deployed
<1>1. proc[q].plan.intent \in Intended
  BY DEF DeployType, Processes, PlanFiles
<1>. QED  BY <1>1, WantedIs, ProgramTypes

(* A stack that was updated is one.                                          *)
LEMMA StackTypes ==
  ASSUME DeployType, NEW new \in Deployed
  PROVE  /\ [version |-> stack.version + 1, live |-> new] \in Stacks
         /\ [stack EXCEPT !.version = @ + 1] \in Stacks
  BY DEF DeployType, Stacks

(* What the steps of a command write into its process.                        *)
LEMMA StepWrites ==
  ASSUME NEW p \in Processes
  PROVE  /\ \A d \in Diffs, a \in Places :
              [p EXCEPT !.pc = "info", !.plan.looked = a, !.plan.diff = d] \in Processes
         /\ \A v \in Nat : [p EXCEPT !.pc = "validate", !.plan.version = v] \in Processes
         /\ \A w \in Places \cup {Unset} : [p EXCEPT !.pc = "drift", !.pinned = w] \in Processes
         /\ \A to \in {"ask", "up"} : [p EXCEPT !.pc = to, !.warned = TRUE] \in Processes
<1>1. \A x \in PlanFiles : /\ \A d \in Diffs, a \in Places : [x EXCEPT !.looked = a, !.diff = d] \in PlanFiles
                           /\ \A v \in Nat : [x EXCEPT !.version = v] \in PlanFiles
  BY DEF PlanFiles
<1>2. p.plan \in PlanFiles
  BY DEF Processes
<1>3. \A x \in PlanFiles : /\ [p EXCEPT !.pc = "info", !.plan = x] \in Processes
                           /\ [p EXCEPT !.pc = "validate", !.plan = x] \in Processes
  BY DEF Processes, OnCloud, BeforeUpdate
<1>4. /\ \A d \in Diffs, a \in Places :
            [p EXCEPT !.pc = "info", !.plan.looked = a, !.plan.diff = d]
              = [p EXCEPT !.pc = "info", !.plan = [p.plan EXCEPT !.looked = a, !.diff = d]]
      /\ \A v \in Nat : [p EXCEPT !.pc = "validate", !.plan.version = v]
              = [p EXCEPT !.pc = "validate", !.plan = [p.plan EXCEPT !.version = v]]
  BY DEF Processes
<1>5. /\ \A w \in Places \cup {Unset} : [p EXCEPT !.pc = "drift", !.pinned = w] \in Processes
      /\ \A to \in {"ask", "up"} : [p EXCEPT !.pc = to, !.warned = TRUE] \in Processes
  BY DEF Processes, OnCloud, BeforeUpdate
<1>6. ASSUME NEW d \in Diffs, NEW a \in Places
      PROVE  [p EXCEPT !.pc = "info", !.plan.looked = a, !.plan.diff = d] \in Processes
  <2>1. [p.plan EXCEPT !.looked = a, !.diff = d] \in PlanFiles
    BY <1>1, <1>2
  <2>2. [p EXCEPT !.pc = "info", !.plan = [p.plan EXCEPT !.looked = a, !.diff = d]] \in Processes
    BY <1>3, <2>1
  <2>. QED  BY <1>4, <2>2
<1>7. ASSUME NEW v \in Nat
      PROVE  [p EXCEPT !.pc = "validate", !.plan.version = v] \in Processes
  <2>1. [p.plan EXCEPT !.version = v] \in PlanFiles
    BY <1>1, <1>2
  <2>2. [p EXCEPT !.pc = "validate", !.plan = [p.plan EXCEPT !.version = v]] \in Processes
    BY <1>3, <2>1
  <2>. QED  BY <1>4, <2>2
<1>. QED  BY <1>5, <1>6, <1>7

(* Every step of a command keeps the types.                                  *)
LEMMA StepKeepsTypes ==
  ASSUME DeployType, NEW q \in Procs, Step(q)
  PROVE  DeployType'
<1>0. /\ proc \in [Procs -> Processes] /\ plans \in SUBSET PlanFiles /\ stack \in Stacks
      /\ ambient \in Places
  BY DEF DeployType
<1>1. UNCHANGED <<provider, ambient, commands, events>>
  BY DEF Step, OpenStack, Preview, StackInfo, FinishPlan, ApplyConfig, DriftCheck, confirmDrift, Up, waitForSsh,
     waitForGateway, applyConfigOverlay, Bootstrap, ScriptEnded, Killed, Quiet
<1>2. proc' \in [Procs -> Processes]
  <2>1. CASE OpenStack(q) \/ FinishPlan(q) \/ confirmDrift(q) \/ waitForSsh(q) \/ waitForGateway(q)
             \/ applyConfigOverlay(q) \/ Bootstrap(q) \/ Killed(q)
    <3>1. End(q) \/ \E to \in {"preview", "check", "up", "gateway", "overlay", "script"} : Goto(q, to)
      BY <2>1 DEF OpenStack, FinishPlan, confirmDrift, waitForSsh, waitForGateway, applyConfigOverlay, Bootstrap,
         Killed
    <3>2. {"preview", "check", "up", "gateway", "overlay", "script"}
            \subseteq OnCloud \cup OnHost \cup {"idle", "gateway", "overlay"}
      BY DEF OnCloud, OnHost, BeforeUpdate
    <3>. QED  BY <3>1, <3>2, EndTypes, GotoTypes
  <2>2. CASE Preview(q)
    <3> DEFINE d == diff(stack.live, program(writeStackConfig(proc[q].plan.intent)))
    <3>1. d \in Diffs
      BY DiffTypes
    <3>2. \/ End(q) \/ Goto(q, "validate")
          \/ proc' = [proc EXCEPT ![q].pc = "info", ![q].plan.looked = ambient, ![q].plan.diff = d]
      BY <2>2 DEF Preview
    <3>. HIDE DEF d
    <3>3. [proc EXCEPT ![q].pc = "info", ![q].plan.looked = ambient, ![q].plan.diff = d]
            \in [Procs -> Processes]
      <4>1. [proc EXCEPT ![q].pc = "info", ![q].plan.looked = ambient, ![q].plan.diff = d]
              = [proc EXCEPT ![q] = [proc[q] EXCEPT !.pc = "info", !.plan.looked = ambient, !.plan.diff = d]]
        BY <1>0
      <4>2. [proc[q] EXCEPT !.pc = "info", !.plan.looked = ambient, !.plan.diff = d] \in Processes
        BY <1>0, <3>1, StepWrites
      <4>. QED  BY <1>0, <4>1, <4>2, ProcessWrites
    <3>4. "validate" \in OnCloud
      BY DEF OnCloud, BeforeUpdate
    <3>. QED  BY <3>2, <3>3, <3>4, EndTypes, GotoTypes
  <2>3. CASE StackInfo(q)
    <3>1. stack.version \in Nat
      BY <1>0 DEF Stacks
    <3>2. [proc EXCEPT ![q].pc = "validate", ![q].plan.version = stack.version] \in [Procs -> Processes]
      <4>1. [proc EXCEPT ![q].pc = "validate", ![q].plan.version = stack.version]
              = [proc EXCEPT ![q] = [proc[q] EXCEPT !.pc = "validate", !.plan.version = stack.version]]
        BY <1>0
      <4>. QED  BY <1>0, <3>1, <4>1, StepWrites, ProcessWrites
    <3>3. "validate" \in OnCloud
      BY DEF OnCloud, BeforeUpdate
    <3>. QED  BY <2>3, <3>2, <3>3, GotoTypes DEF StackInfo
  <2>4. CASE ApplyConfig(q)
    <3> DEFINE w == writeStackConfig(proc[q].plan.intent).project
    <3>1. w \in Places \cup {Unset}
      BY <1>0 DEF writeStackConfig
    <3>2. End(q) \/ proc' = [proc EXCEPT ![q].pc = "drift", ![q].pinned = w]
      BY <2>4 DEF ApplyConfig
    <3>. HIDE DEF w
    <3>3. [proc EXCEPT ![q].pc = "drift", ![q].pinned = w] \in [Procs -> Processes]
      <4>1. [proc EXCEPT ![q].pc = "drift", ![q].pinned = w]
              = [proc EXCEPT ![q] = [proc[q] EXCEPT !.pc = "drift", !.pinned = w]]
        BY <1>0
      <4>. QED  BY <1>0, <3>1, <4>1, StepWrites, ProcessWrites
    <3>. QED  BY <3>2, <3>3, EndTypes
  <2>5. CASE DriftCheck(q)
    <3>1. \E to \in {"ask", "up"} :
            End(q) \/ Goto(q, to) \/ proc' = [proc EXCEPT ![q].pc = to, ![q].warned = TRUE]
      BY <2>5 DEF DriftCheck
    <3>2. \A to \in {"ask", "up"} : to \in OnCloud
      BY DEF OnCloud, BeforeUpdate
    <3>3. \A to \in {"ask", "up"} : [proc EXCEPT ![q].pc = to, ![q].warned = TRUE]
                                     = [proc EXCEPT ![q] = [proc[q] EXCEPT !.pc = to, !.warned = TRUE]]
      BY <1>0
    <3>4. \A to \in {"ask", "up"} : [proc EXCEPT ![q].pc = to, ![q].warned = TRUE] \in [Procs -> Processes]
      BY <1>0, <3>3, StepWrites, ProcessWrites
    <3>. QED  BY <3>1, <3>2, <3>4, EndTypes, GotoTypes
  <2>6. CASE Up(q)
    <3>1. \E p \in Processes : proc' = [Landed EXCEPT ![q] = p] \/ End(q)
      BY <2>6, ProcessTypes DEF Up
    <3>. QED  BY <1>0, <3>1, LandedTypes, EndTypes
  <2>7. CASE ScriptEnded(q)
    <3>1. End(q) \/ \E p \in Processes : proc' = [proc EXCEPT ![q] = p]
      BY <2>7, ProcessTypes DEF ScriptEnded
    <3>. QED  BY <1>0, <3>1, ProcessWrites, EndTypes
  <2>. QED  BY <2>1, <2>2, <2>3, <2>4, <2>5, <2>6, <2>7 DEF Step
<1>3. stack' \in Stacks
  <2>1. CASE Up(q)
    BY <1>0, <2>1, WantedTypes, StackTypes DEF Up, Update
  <2>2. CASE ~Up(q)
    BY <1>0, <2>2 DEF Step, OpenStack, Preview, StackInfo, FinishPlan, ApplyConfig, DriftCheck, confirmDrift,
       waitForSsh, waitForGateway, applyConfigOverlay, Bootstrap, ScriptEnded, Killed, Quiet
  <2>. QED  BY <2>1, <2>2
<1>4. plans' \in SUBSET PlanFiles
  <2>1. plans' = plans \/ plans' = plans \cup {proc[q].plan}
    BY DEF Step, OpenStack, Preview, StackInfo, FinishPlan, ApplyConfig, DriftCheck, confirmDrift, Up,
       waitForSsh, waitForGateway, applyConfigOverlay, Bootstrap, ScriptEnded, Killed, Quiet
  <2>2. proc[q].plan \in PlanFiles
    BY <1>0 DEF Processes
  <2>. QED  BY <1>0, <2>1, <2>2
<1>. QED  BY <1>1, <1>2, <1>3, <1>4 DEF DeployType

(* What happens around the commands. *)
Around == Elsewhere \/ UpdatedElsewhere \/ Destroyed \/ OnTheMachine

(* Whatever happens around the commands keeps the types.                     *)
LEMMA AroundKeepsTypes ==
  ASSUME DeployType, Around
  PROVE  DeployType'
<1>1. /\ events' \in 0..MaxEvents /\ commands' = commands /\ commands' + events' <= MaxTotal
      /\ provider' = provider /\ plans' = plans
  BY DEF Around, Elsewhere, UpdatedElsewhere, Destroyed, OnTheMachine, Event, DeployType
<1>2. ambient' \in Places
  BY DEF Around, Elsewhere, UpdatedElsewhere, Destroyed, OnTheMachine, DeployType
<1>3. proc' \in [Procs -> Processes]
  <2>1. proc' = proc \/ proc' = Landed
    BY DEF Around, Elsewhere, UpdatedElsewhere, Destroyed, OnTheMachine
  <2>2. Landed \in [Procs -> Processes]
    <3>1. CASE Procs = {}
      BY <3>1 DEF Landed
    <3>2. CASE Procs # {}
      BY <3>2, ProcessTypes, LandedTypes DEF DeployType
    <3>. QED  BY <3>1, <3>2
  <2>. QED  BY <2>1, <2>2 DEF DeployType
<1>4. stack' \in Stacks
  <2>1. CASE UpdatedElsewhere
    <3>1. PICK i \in Requests : Update(program(writeStackConfig(i)))
      BY <2>1 DEF UpdatedElsewhere
    <3>2. i \in Intended /\ ambient \in Places /\ program(writeStackConfig(i)) = Reviewed(i, ambient)
      BY RequestTypes, ProgramIs DEF DeployType
    <3>3. program(writeStackConfig(i)) \in Deployed
      BY <3>2, ProgramTypes
    <3>. QED  BY <3>1, <3>3, StackTypes DEF Update
  <2>2. CASE Destroyed
    <3>1. NoResources \in Deployed
      BY DEF NoResources, Deployed, Releases
    <3>. QED  BY <2>2, <3>1, StackTypes DEF Destroyed
  <2>3. CASE Elsewhere \/ OnTheMachine
    BY <2>3 DEF Elsewhere, OnTheMachine, DeployType
  <2>. QED  BY <2>1, <2>2, <2>3 DEF Around
<1>. QED  BY <1>1, <1>2, <1>3, <1>4 DEF DeployType

----------------------------------------------------------------------------
(* The machine through every step. *)

(* Whatever an update does to the machine of a cloud stack.                   *)
LEMMA UpdateKeepsMachine ==
  ASSUME MachineInv, Apart, provider # "local", NEW new \in Deployed, Update(new)
  PROVE  MachineInv' /\ EditStays
<1>1. new.version \in Releases /\ Machine(diff(stack.live, new), new.version)
  BY DEF Update, Deployed
<1> DEFINE kind == diff(stack.live, new)
           v == new.version
<1>. HIDE DEF kind, v
<1>2. v \in Releases /\ Machine(kind, v)
  BY <1>1 DEF kind, v
<1>3. CASE kind \in {"create", "replace"}
  <2>1. host' = Blank(FALSE, "none") /\ overlap' = FALSE /\ script' = Launched(script, Boot, v)
    BY <1>2, <1>3 DEF Machine
  <2>2. \A s \in Scripts \ {Boot} : script[s].pc = "none"
    BY DEF Apart
  <2>3. host' \in Hosts /\ host'.token = 0 /\ host'.minted = 0 /\ host'.gateway = NoGateway /\ host'.conf = NoConf
    BY <2>1, BlankFacts
  <2>. QED  BY <1>2, <2>1, <2>2, <2>3, NewMachineKeeps
<1>4. CASE kind = "restart"
  <2>1. Reboot(AtEveryBoot(v))
    BY <1>2, <1>4 DEF Machine
  <2>2. AtEveryBoot(v) \in SUBSET Releases
    BY <1>2 DEF AtEveryBoot
  <2>. QED  BY <2>1, <2>2, RebootKeeps
<1>5. CASE kind \notin {"create", "replace", "restart"}
  <2>1. UNCHANGED machine
    BY <1>2, <1>5 DEF Machine
  <2>. QED  BY <2>1, SameMachine
<1>. QED  BY <1>3, <1>4, <1>5

(* Every step of a command keeps the invariant of the machine, and an edited *)
(* config.                                                                   *)
LEMMA StepKeepsMachine ==
  ASSUME MachineInv, DeployType, Apart, NEW q \in Procs, Step(q)
  PROVE  MachineInv' /\ EditStays
<1>1. CASE Up(q)
  <2>1. provider # "local"
    BY <1>1 DEF Up, At, Apart, OnCloud, BeforeUpdate
  <2>2. UNCHANGED machine \/ Update(Wanted(q))
    BY <1>1 DEF Up
  <2>. QED  BY <2>1, <2>2, WantedTypes, UpdateKeepsMachine, SameMachine
<1>2. CASE applyConfigOverlay(q)
  BY <1>2, EditKeeps, SameMachine DEF applyConfigOverlay
<1>3. CASE Bootstrap(q)
  <2>1. proc[q].plan.intent.version \in Releases /\ q \in Scripts
    BY DEF DeployType, Processes, PlanFiles, Intended
  <2>2. UNCHANGED machine \/ (Launch(q, proc[q].plan.intent.version) /\ UNCHANGED host)
    BY <1>3 DEF Bootstrap, machine
  <2>. QED  BY <2>1, <2>2, LaunchKeeps, SameMachine
<1>4. CASE ~Up(q) /\ ~applyConfigOverlay(q) /\ ~Bootstrap(q)
  <2>1. UNCHANGED machine
    BY <1>4 DEF Step, OpenStack, Preview, StackInfo, FinishPlan, ApplyConfig, DriftCheck, confirmDrift,
       waitForSsh, waitForGateway, ScriptEnded, Killed, Quiet
  <2>. QED  BY <2>1, SameMachine
<1>. QED  BY <1>1, <1>2, <1>3, <1>4

(* So does whatever happens around the commands.                             *)
LEMMA AroundKeepsMachine ==
  ASSUME MachineInv, DeployType, Apart, Around
  PROVE  MachineInv' /\ EditStays
<1>1. CASE Elsewhere
  BY <1>1, SameMachine DEF Elsewhere
<1>2. CASE UpdatedElsewhere
  <2>1. PICK i \in Requests : Update(program(writeStackConfig(i)))
    BY <1>2 DEF UpdatedElsewhere
  <2>2. i \in Intended /\ ambient \in Places /\ program(writeStackConfig(i)) = Reviewed(i, ambient)
    BY RequestTypes, ProgramIs DEF DeployType
  <2>3. program(writeStackConfig(i)) \in Deployed /\ provider # "local"
    BY <1>2, <2>2, ProgramTypes DEF UpdatedElsewhere
  <2>. QED  BY <2>1, <2>3, UpdateKeepsMachine
<1>3. CASE Destroyed
  BY <1>3, NoMachineKeeps DEF Destroyed
<1>4. CASE OnTheMachine
  <2>1. AtEveryBoot(stack.live.version) \in SUBSET Releases
    BY DEF AtEveryBoot, DeployType, Stacks, Deployed
  <2>2. ASSUME NEW v \in Supported, GatewayUpdate(v) PROVE MachineInv' /\ EditStays
    BY <2>2, GatewayUpdateKeeps
  <2>. QED  BY <1>4, <2>1, <2>2, RebootKeeps, EditKeeps DEF OnTheMachine
<1>. QED  BY <1>1, <1>2, <1>3, <1>4 DEF Around

(* On the cloud only the machine itself runs a script, and it is never a      *)
(* process that started one.                                                  *)
LEMMA CloudScripts ==
  ASSUME MachineType, \A s \in Scripts \ {Boot} : script[s].pc = "none",
         \/ script' = script
         \/ \E v : script' = Launched(script, Boot, v)
         \/ script' = [s \in Scripts |-> NotRun]
         \/ \E again : Reboot(again)
         \/ \E s \in Scripts : ScriptStep(s)
  PROVE  \A s \in Scripts \ {Boot} : script'[s].pc = "none"
<1>1. SUFFICES ASSUME NEW t \in Scripts \ {Boot} PROVE script'[t].pc = "none"
  OBVIOUS
<1>2. script[t].pc = "none" /\ AtRest(t) /\ script \in [Scripts -> Runs]
  BY DEF AtRest, MachineType
<1>3. CASE \E v : script' = Launched(script, Boot, v)
  BY <1>2, <1>3 DEF Launched
<1>4. CASE script' = [s \in Scripts |-> NotRun]
  BY <1>4 DEF NotRun
<1>5. ASSUME NEW again, Reboot(again) PROVE script'[t].pc = "none"
  <2> DEFINE stopped == [s \in Scripts |-> IF AtRest(s) THEN script[s] ELSE [script[s] EXCEPT !.pc = "failed"]]
  <2>1. stopped[t] = script[t]
    BY <1>2
  <2>2. script' = stopped \/ \E v : script' = Launched(stopped, Boot, v)
    BY <1>5 DEF Reboot
  <2>3. DOMAIN stopped = Scripts
    OBVIOUS
  <2>. HIDE DEF stopped
  <2>4. script'[t] = stopped[t]
    BY <2>2, <2>3 DEF Launched
  <2>. QED  BY <1>2, <2>1, <2>4
<1>6. ASSUME NEW s \in Scripts, ScriptStep(s) PROVE script'[t].pc = "none"
  <2>1. s # t
    BY <1>2, <1>6 DEF ScriptStep, Prepare, TokenFile, MintToken, NeedsMigration, CopyLegacy, MoveLegacy, NeedsDefault,
       WriteDefault, SetMode, WriteUnit, RemoveDropin, StartGateway, Cut, In, AtRest
  <2>2. (\E to : Go(s, to)) \/ MoveLegacy(s)
    BY <1>6 DEF ScriptStep, Prepare, TokenFile, MintToken, NeedsMigration, CopyLegacy, NeedsDefault,
       WriteDefault, SetMode, WriteUnit, RemoveDropin, StartGateway, Cut, Fail
  <2>3. script'[t] = script[t]
    BY <1>2, <2>1, <2>2 DEF Go, MoveLegacy
  <2>. QED  BY <1>2, <2>3
<1>. QED  BY <1>2, <1>3, <1>4, <1>5, <1>6

----------------------------------------------------------------------------
(* Which processes are where. *)

(* A stack that has changed leaves each command where it was.                *)
LEMMA LandedFacts ==
  ASSUME proc \in [Procs -> Processes]
  PROVE  DOMAIN Landed = Procs /\ \A r \in Procs : Landed[r].pc = proc[r].pc
<1>1. DOMAIN Landed = Procs
  BY DEF Landed
<1>2. ASSUME NEW r \in Procs PROVE Landed[r].pc = proc[r].pc
  <2>1. Landed[r] = proc[r] \/ Landed[r] = [proc[r] EXCEPT !.plan.beside = TRUE]
    BY DEF Landed
  <2>2. proc[r] \in Processes
    OBVIOUS
  <2>. QED  BY <2>1, <2>2 DEF Processes
<1>. QED  BY <1>1, <1>2

(* A command goes through its own states, and leaves those before an update   *)
(* with the update.                                                           *)
LEMMA StepMoves ==
  ASSUME DeployType, NEW q \in Procs, Step(q)
  PROVE  /\ \A r \in Procs \ {q} : proc'[r].pc = proc[r].pc
         /\ proc'[q].pc \in OnCloud => proc[q].pc \in OnCloud
         /\ proc'[q].pc \in OnHost => proc[q].pc \in OnHost
         /\ proc'[q].pc \in BeforeUpdate => proc[q].pc \in BeforeUpdate
         /\ \/ stack' = stack /\ \A r \in Procs \ {q} : proc'[r] = proc[r]
            \/ /\ stack'.version = stack.version + 1 /\ proc[q].pc = "up" /\ proc'[q].pc \notin BeforeUpdate
               /\ proc'[q].plan = NoPlan /\ \A r \in Procs \ {q} : proc'[r] = Landed[r]
<1>0. USE DEF OnCloud, OnHost, BeforeUpdate
<1>t. proc \in [Procs -> Processes]
  BY DEF DeployType
<1>i. Idle.pc = "idle" /\ Idle.plan = NoPlan
  BY DEF Idle
<1>w. ASSUME NEW at
      PROVE  Waiting(at).pc = at /\ Waiting(at).plan = NoPlan
  BY DEF Waiting, Idle
<1>1. CASE Up(q)
  <2>1. proc[q].pc = "up"
    BY <1>1 DEF Up, At
  <2>2. \A r \in Procs : Landed[r].pc = proc[r].pc
    BY <1>t, LandedFacts
  <2>3. CASE End(q) /\ UNCHANGED <<machine, stack>>
    BY <1>t, <1>i, <2>1, <2>3 DEF End
  <2>4. ASSUME NEW mine \in {Idle, Waiting("ssh")}, proc' = [Landed EXCEPT ![q] = mine],
               stack'.version = stack.version + 1
        PROVE  /\ \A r \in Procs \ {q} : proc'[r].pc = proc[r].pc /\ proc'[r] = Landed[r]
               /\ proc'[q].pc \in {"idle", "ssh"} /\ proc'[q].plan = NoPlan
    <3>1. DOMAIN Landed = Procs
      BY <1>t, LandedFacts
    <3>2. mine.pc \in {"idle", "ssh"} /\ mine.plan = NoPlan
      BY <1>i, <1>w
    <3>3. \A r \in Procs : proc'[r] = IF r = q THEN mine ELSE Landed[r]
      BY <2>4, <3>1
    <3>. QED  BY <2>2, <3>2, <3>3
  <2>5. \/ End(q) /\ UNCHANGED <<machine, stack>>
        \/ \E mine \in {Idle, Waiting("ssh")} :
             proc' = [Landed EXCEPT ![q] = mine] /\ stack'.version = stack.version + 1
    BY <1>1 DEF Up, Update, DeployType, Stacks
  <2>. QED  BY <2>1, <2>3, <2>4, <2>5
<1>2. CASE ~Up(q)
  <2>1. stack' = stack
    BY <1>2 DEF Step, OpenStack, Preview, StackInfo, FinishPlan, ApplyConfig, DriftCheck, confirmDrift,
       waitForSsh, waitForGateway, applyConfigOverlay, Bootstrap, ScriptEnded, Killed, Quiet
  <2>2. \A r \in Procs \ {q} : proc'[r] = proc[r]
    <3>1. CASE OpenStack(q)
      BY <1>t, <3>1 DEF OpenStack, Goto, End
    <3>2. CASE Preview(q)
      BY <1>t, <3>2 DEF Preview, Goto, End
    <3>3. CASE StackInfo(q)
      BY <1>t, <3>3 DEF StackInfo, Goto, End
    <3>4. CASE FinishPlan(q)
      BY <1>t, <3>4 DEF FinishPlan, Goto, End
    <3>5. CASE ApplyConfig(q)
      BY <1>t, <3>5 DEF ApplyConfig, Goto, End
    <3>6. CASE DriftCheck(q)
      BY <1>t, <3>6 DEF DriftCheck, Goto, End
    <3>7. CASE confirmDrift(q)
      BY <1>t, <3>7 DEF confirmDrift, Goto, End
    <3>8. CASE waitForSsh(q)
      BY <1>t, <3>8 DEF waitForSsh, Goto, End
    <3>9. CASE waitForGateway(q)
      BY <1>t, <3>9 DEF waitForGateway, Goto, End
    <3>10. CASE applyConfigOverlay(q)
      BY <1>t, <3>10 DEF applyConfigOverlay, Goto, End
    <3>11. CASE Bootstrap(q)
      BY <1>t, <3>11 DEF Bootstrap, Goto, End
    <3>12. CASE ScriptEnded(q)
      BY <1>t, <3>12 DEF ScriptEnded, Goto, End
    <3>13. CASE Killed(q)
      BY <1>t, <3>13 DEF Killed, Goto, End
    <3>. QED  BY <1>2, <3>1, <3>2, <3>3, <3>4, <3>5, <3>6, <3>7, <3>8, <3>9, <3>10, <3>11, <3>12, <3>13 DEF Step
  <2>3. CASE OpenStack(q)
    <3>1. proc[q].pc = "guard" /\ proc'[q].pc \in {"idle", "preview"}
      BY <1>t, <1>i, <2>3 DEF OpenStack, At, Goto, End, Processes
    <3>. QED  BY <2>1, <2>2, <3>1
  <2>4. CASE Preview(q)
    <3>1. proc[q].pc = "preview" /\ proc'[q].pc \in {"idle", "validate", "info"}
      BY <1>t, <1>i, <2>4 DEF Preview, At, Goto, End, Processes
    <3>. QED  BY <2>1, <2>2, <3>1
  <2>5. CASE StackInfo(q)
    <3>1. proc[q].pc = "info" /\ proc'[q].pc \in {"idle", "validate"}
      BY <1>t, <1>i, <2>5 DEF StackInfo, At, Goto, End, Processes
    <3>. QED  BY <2>1, <2>2, <3>1
  <2>6. CASE FinishPlan(q)
    <3>1. proc[q].pc = "validate" /\ proc'[q].pc \in {"idle", "check"}
      BY <1>t, <1>i, <2>6 DEF FinishPlan, At, Goto, End, Processes
    <3>. QED  BY <2>1, <2>2, <3>1
  <2>7. CASE ApplyConfig(q)
    <3>1. proc[q].pc = "check" /\ proc'[q].pc \in {"idle", "drift"}
      BY <1>t, <1>i, <2>7 DEF ApplyConfig, At, Goto, End, Processes
    <3>. QED  BY <2>1, <2>2, <3>1
  <2>8. CASE DriftCheck(q)
    <3>1. proc[q].pc = "drift" /\ proc'[q].pc \in {"idle", "ask", "up"}
      BY <1>t, <1>i, <2>8 DEF DriftCheck, At, Goto, End, Processes
    <3>. QED  BY <2>1, <2>2, <3>1
  <2>9. CASE confirmDrift(q)
    <3>1. proc[q].pc = "ask" /\ proc'[q].pc \in {"idle", "up"}
      BY <1>t, <1>i, <2>9 DEF confirmDrift, At, Goto, End, Processes
    <3>. QED  BY <2>1, <2>2, <3>1
  <2>10. CASE waitForSsh(q)
    <3>1. proc[q].pc = "ssh" /\ proc'[q].pc \in {"idle", "gateway"}
      BY <1>t, <1>i, <2>10 DEF waitForSsh, At, Goto, End, Processes
    <3>. QED  BY <2>1, <2>2, <3>1
  <2>11. CASE waitForGateway(q)
    <3>1. proc[q].pc = "gateway" /\ proc'[q].pc \in {"idle", "overlay"}
      BY <1>t, <1>i, <2>11 DEF waitForGateway, At, Goto, End, Processes
    <3>. QED  BY <2>1, <2>2, <3>1
  <2>12. CASE applyConfigOverlay(q)
    <3>1. proc[q].pc = "overlay" /\ proc'[q].pc \in {"idle"}
      BY <1>t, <1>i, <2>12 DEF applyConfigOverlay, At, Goto, End, Processes
    <3>. QED  BY <2>1, <2>2, <3>1
  <2>13. CASE Bootstrap(q)
    <3>1. proc[q].pc = "session" /\ proc'[q].pc \in {"idle", "script"}
      BY <1>t, <1>i, <2>13 DEF Bootstrap, At, Goto, End, Processes
    <3>. QED  BY <2>1, <2>2, <3>1
  <2>14. CASE ScriptEnded(q)
    <3>1. proc[q].pc = "script" /\ proc'[q].pc \in {"idle", "overlay", "gateway"}
      BY <1>t, <1>i, <1>w, <2>14 DEF ScriptEnded, At, Goto, End, Processes
    <3>. QED  BY <2>1, <2>2, <3>1
  <2>15. CASE Killed(q)
    <3>1. proc'[q].pc \in {"idle"}
      BY <1>t, <1>i, <2>15 DEF Killed, At, Goto, End
    <3>. QED  BY <2>1, <2>2, <3>1
  <2>. QED  BY <1>2, <2>3, <2>4, <2>5, <2>6, <2>7, <2>8, <2>9, <2>10, <2>11, <2>12, <2>13, <2>14, <2>15 DEF Step
<1>. QED  BY <1>1, <1>2

(* A command in the cloud touches no host of the owner's, nor the other way  *)
(* round.                                                                    *)
LEMMA StepKeepsApart ==
  ASSUME MachineInv, DeployType, Apart, NEW q \in Procs, Step(q)
  PROVE  Apart'
<1>1. provider' = provider
  BY DEF Step, OpenStack, Preview, StackInfo, FinishPlan, ApplyConfig, DriftCheck, confirmDrift, Up, waitForSsh,
     waitForGateway, applyConfigOverlay, Bootstrap, ScriptEnded, Killed, Quiet
<1>2. CASE provider = "local"
  <2>1. proc[q].pc \notin OnCloud
    BY <1>2 DEF Apart
  <2>2. UNCHANGED <<stack, plans>>
    BY <2>1 DEF Step, OpenStack, Preview, StackInfo, FinishPlan, ApplyConfig, DriftCheck, confirmDrift, Up,
       waitForSsh, waitForGateway, applyConfigOverlay, Bootstrap, ScriptEnded, Killed, Quiet, At, OnCloud,
       BeforeUpdate
  <2>3. \A r \in Procs : proc'[r].pc \notin OnCloud
    BY <1>2, StepMoves DEF Apart
  <2>. QED  BY <1>1, <1>2, <2>2, <2>3 DEF Apart
<1>3. CASE provider # "local"
  <2>1. proc[q].pc \notin OnHost
    BY <1>3 DEF Apart
  <2>2. \/ script' = script
        \/ \E v : script' = Launched(script, Boot, v)
        \/ \E again : Reboot(again)
    BY <2>1 DEF Step, OpenStack, Preview, StackInfo, FinishPlan, ApplyConfig, DriftCheck, confirmDrift, Up, Update,
       Machine, waitForSsh, waitForGateway, applyConfigOverlay, Edit, Bootstrap, ScriptEnded, Killed, Quiet, At,
       OnHost, machine
  <2>3. \A s \in Scripts \ {Boot} : script'[s].pc = "none"
    BY <1>3, <2>2, CloudScripts DEF Apart, MachineInv
  <2>4. \A r \in Procs : proc'[r].pc \notin OnHost
    BY <1>3, StepMoves DEF Apart
  <2>. QED  BY <1>1, <1>3, <2>3, <2>4 DEF Apart
<1>. QED  BY <1>2, <1>3

(* A command that starts is on one side or on the other.                     *)
LEMMA CommandKeepsApart ==
  ASSUME DeployType, Apart, NEW q \in Procs, Command(q)
  PROVE  Apart'
<1>1. PICK p \in Starts : Start(q, p)
  BY CommandStarts
<1>2. UNCHANGED <<provider, script, stack, plans>>
  BY <1>1 DEF Start, machine
<1>3. \A r \in Procs : proc'[r] = IF r = q THEN p ELSE proc[r]
  BY <1>1 DEF Start, DeployType
<1>4. CASE provider = "local"
  <2>1. p.pc = "session"
    BY <1>1, <1>4 DEF Starts, Apart
  <2>. QED  BY <1>2, <1>3, <1>4, <2>1 DEF Apart, OnCloud, BeforeUpdate
<1>5. CASE provider # "local"
  <2>1. p.pc \in {"guard", "check"}
    BY <1>1, <1>5 DEF Starts
  <2>. QED  BY <1>2, <1>3, <1>5, <2>1 DEF Apart, OnHost
<1>. QED  BY <1>4, <1>5

(* What happens around the commands keeps the two apart.                     *)
LEMMA AroundKeepsApart ==
  ASSUME MachineInv, DeployType, Apart, Around
  PROVE  Apart'
<1>1. \A r \in Procs : proc'[r].pc = proc[r].pc
  <2>1. proc' = proc \/ proc' = Landed
    BY DEF Around, Elsewhere, UpdatedElsewhere, Destroyed, OnTheMachine
  <2>. QED  BY <2>1, LandedFacts DEF DeployType
<1>2. provider' = provider /\ plans' = plans
  BY DEF Around, Elsewhere, UpdatedElsewhere, Destroyed, OnTheMachine, Event
<1>3. provider = "local" => stack' = stack
  BY DEF Around, Elsewhere, UpdatedElsewhere, Destroyed, OnTheMachine, Apart, NoStack
<1>4. \/ script' = script
      \/ \E v : script' = Launched(script, Boot, v)
      \/ script' = [s \in Scripts |-> NotRun]
      \/ \E again : Reboot(again)
  BY DEF Around, Elsewhere, UpdatedElsewhere, Destroyed, OnTheMachine, Update, Machine, GatewayUpdate, Edit,
     machine
<1>5. provider # "local" => \A s \in Scripts \ {Boot} : script'[s].pc = "none"
  BY <1>4, CloudScripts DEF Apart, MachineInv
<1>. QED  BY <1>1, <1>2, <1>3, <1>5 DEF Apart

(* A step of a script changes neither the stack nor a command.               *)
LEMMA ScriptKeepsApart ==
  ASSUME MachineInv, Apart, NEW s \in Scripts, Scripted(s)
  PROVE  Apart'
<1>1. UNCHANGED <<provider, stack, plans, proc>> /\ ScriptStep(s)
  BY DEF Scripted
<1>2. provider # "local" => \A t \in Scripts \ {Boot} : script'[t].pc = "none"
  BY <1>1, CloudScripts DEF Apart, MachineInv
<1>. QED  BY <1>1, <1>2 DEF Apart

----------------------------------------------------------------------------
(* What was reviewed. *)

(* What a preview says is what an update does.                               *)
LEMMA HappensIs ==
  ASSUME NEW live, NEW new
  PROVE  diff(live, new) = Happens(provider, live, new)
  BY DEF diff, Happens

(* Nobody has promised anything yet.                                          *)
LEMMA NothingPromised ==
  ASSUME NEW at, NEW st \in Stacks, NEW r \in Processes, r.plan.version = 0, r.plan.diff = "none",
         r.pc \notin {"info"}
  PROVE  ProcessFits(at, st, r)
<1>1. 0 <= st.version
  BY DEF Stacks
<1>. QED  BY <1>1 DEF ProcessFits, PlanFits

(* An update leaves a plan behind, for it has another version by then.        *)
LEMMA PlanFitsAnUpdate ==
  ASSUME NEW at, NEW st \in Stacks, NEW nst \in Stacks, NEW p \in PlanFiles, PlanFits(at, st, p),
         nst.version = st.version + 1
  PROVE  PlanFits(at, nst, p)
<1>1. p.version \in Nat /\ st.version \in Nat /\ p.version <= st.version
  BY DEF PlanFiles, Stacks, PlanFits
<1>2. p.version # nst.version /\ p.version <= nst.version
  BY <1>1
<1>. QED  BY <1>2 DEF PlanFits

(* A command that holds a plan of an older version still fits when another's *)
(* update has landed.                                                        *)
LEMMA ProcessFitsAnUpdate ==
  ASSUME proc \in [Procs -> Processes], NEW at, NEW st \in Stacks, NEW nst \in Stacks, NEW q \in Procs,
         ProcessFits(at, st, proc[q]), nst.version = st.version + 1
  PROVE  ProcessFits(at, nst, Landed[q])
<1>1. proc[q] \in Processes /\ proc[q].plan \in PlanFiles
  BY DEF Processes
<1>2. PlanFits(at, nst, proc[q].plan)
  BY <1>1, PlanFitsAnUpdate DEF ProcessFits
<1>3. CASE Beside(q)
  <2>1. Landed[q] = [proc[q] EXCEPT !.plan.beside = TRUE]
    BY <1>3 DEF Landed
  <2>2. /\ Landed[q].pc = proc[q].pc /\ Landed[q].plan.version = proc[q].plan.version
        /\ Landed[q].plan.beside = TRUE
    BY <1>1, <2>1 DEF Processes, PlanFiles
  <2>3. PlanFits(at, nst, Landed[q].plan)
    BY <1>2, <2>2 DEF PlanFits
  <2>. QED  BY <2>2, <2>3 DEF ProcessFits
<1>4. CASE ~Beside(q)
  <2>1. Landed[q] = proc[q]
    BY <1>4 DEF Landed
  <2>2. proc[q].pc # "info" /\ (proc[q].pc \in {"ask", "up"} => proc[q].plan.version = 0)
    BY <1>4 DEF Beside, At
  <2>. QED  BY <1>2, <2>1, <2>2 DEF ProcessFits
<1>. QED  BY <1>3, <1>4

(* A command that starts holds the plan of its file.                         *)
LEMMA CommandKeepsReview ==
  ASSUME DeployType, ReviewInv, NEW q \in Procs, Command(q)
  PROVE  ReviewInv'
<1>1. PICK p \in Starts : Start(q, p)
  BY CommandStarts
<1>2. UNCHANGED <<provider, stack, plans>>
  BY <1>1 DEF Start
<1>3. \A r \in Procs : proc'[r] = IF r = q THEN p ELSE proc[r]
  BY <1>1 DEF Start, DeployType
<1>4. ProcessFits(provider, stack, p)
  <2>1. CASE p.plan.version = 0 /\ p.plan.diff = "none"
    BY <2>1, NothingPromised DEF Starts, DeployType
  <2>2. CASE p.plan \in plans /\ p.pc = "check"
    BY <2>2 DEF ReviewInv, ProcessFits
  <2>. QED  BY <2>1, <2>2 DEF Starts
<1>. QED  BY <1>2, <1>3, <1>4 DEF ReviewInv

(* What happens around the commands changes the stack and counts a version.  *)
LEMMA AroundKeepsReview ==
  ASSUME DeployType, ReviewInv, Around
  PROVE  ReviewInv'
<1>1. provider' = provider /\ plans' = plans
  BY DEF Around, Elsewhere, UpdatedElsewhere, Destroyed, OnTheMachine, Event
<1>2. CASE UNCHANGED <<stack, proc>>
  BY <1>1, <1>2 DEF ReviewInv
<1>3. CASE stack'.version = stack.version + 1 /\ proc' = Landed
  <2>1. stack' \in Stacks /\ stack \in Stacks /\ plans \in SUBSET PlanFiles /\ proc \in [Procs -> Processes]
    BY AroundKeepsTypes DEF DeployType
  <2>2. \A p \in plans : PlanFits(provider, stack', p)
    BY <1>3, <2>1, PlanFitsAnUpdate DEF ReviewInv
  <2>3. \A q \in Procs : ProcessFits(provider, stack', proc'[q])
    BY <1>3, <2>1, ProcessFitsAnUpdate DEF ReviewInv
  <2>. QED  BY <1>1, <2>2, <2>3 DEF ReviewInv
<1>. QED
  BY <1>2, <1>3 DEF Around, Elsewhere, UpdatedElsewhere, Destroyed, OnTheMachine, Update

(* Moving a command on leaves its plan and what it was warned of.            *)
LEMMA GotoFacts ==
  ASSUME proc \in [Procs -> Processes], NEW q \in Procs, NEW to, Goto(q, to)
  PROVE  proc'[q].pc = to /\ proc'[q].plan = proc[q].plan /\ proc'[q].warned = proc[q].warned
<1>1. proc[q] \in Processes /\ proc'[q] = [proc[q] EXCEPT !.pc = to]
  BY DEF Goto
<1>. QED  BY <1>1 DEF Processes

(* A step that updates leaves the other plans behind; any other step of a     *)
(* command makes its own plan fit.                                            *)
LEMMA StepKeepsReview ==
  ASSUME DeployType, ReviewInv, NEW q \in Procs, Step(q)
  PROVE  ReviewInv'
<1>0. /\ proc \in [Procs -> Processes] /\ stack \in Stacks /\ plans \in SUBSET PlanFiles /\ stack' \in Stacks
      /\ proc' \in [Procs -> Processes] /\ proc[q] \in Processes /\ proc[q].plan \in PlanFiles
  BY StepKeepsTypes DEF DeployType, Processes
<1>1. provider' = provider
  BY DEF Step, OpenStack, Preview, StackInfo, FinishPlan, ApplyConfig, DriftCheck, confirmDrift, Up, waitForSsh,
     waitForGateway, applyConfigOverlay, Bootstrap, ScriptEnded, Killed, Quiet
<1>2. CASE stack' # stack
  <2>1. /\ stack'.version = stack.version + 1 /\ proc'[q].plan = NoPlan /\ proc'[q].pc \notin BeforeUpdate
        /\ \A r \in Procs \ {q} : proc'[r] = Landed[r]
    BY <1>2, StepMoves
  <2>2. plans' = plans
    BY <1>2 DEF Step, OpenStack, Preview, StackInfo, FinishPlan, ApplyConfig, DriftCheck, confirmDrift, Up,
       waitForSsh, waitForGateway, applyConfigOverlay, Bootstrap, ScriptEnded, Killed, Quiet
  <2>3. \A p \in plans : PlanFits(provider, stack', p)
    BY <1>0, <2>1, PlanFitsAnUpdate DEF ReviewInv
  <2>4. \A r \in Procs \ {q} : ProcessFits(provider, stack', proc'[r])
    BY <1>0, <2>1, ProcessFitsAnUpdate DEF ReviewInv
  <2>5. ProcessFits(provider, stack', proc'[q])
    BY <1>0, <2>1, NothingPromised DEF NoPlan, BeforeUpdate
  <2>. QED  BY <1>1, <2>2, <2>3, <2>4, <2>5 DEF ReviewInv
<1>3. CASE stack' = stack
  <2>1. ProcessFits(provider, stack, proc[q]) /\ PlanFits(provider, stack, proc[q].plan)
    BY DEF ReviewInv, ProcessFits
  <2>2. \A r \in Procs \ {q} : ProcessFits(provider, stack, proc'[r])
    <3>1. stack'.version # stack.version + 1
      BY <1>0, <1>3 DEF Stacks
    <3>. QED  BY <3>1, StepMoves DEF ReviewInv
  <2>3. \A p \in plans' : PlanFits(provider, stack, p)
    <3>1. plans' = plans \/ plans' = plans \cup {proc[q].plan}
      BY DEF Step, OpenStack, Preview, StackInfo, FinishPlan, ApplyConfig, DriftCheck, confirmDrift, Up,
         waitForSsh, waitForGateway, applyConfigOverlay, Bootstrap, ScriptEnded, Killed, Quiet
    <3>. QED  BY <2>1, <3>1 DEF ReviewInv
  <2>4. ASSUME proc'[q].plan = NoPlan, proc'[q].pc # "info" PROVE ProcessFits(provider, stack, proc'[q])
    BY <1>0, <2>4, NothingPromised DEF NoPlan
  <2>e. End(q) => proc'[q].plan = NoPlan /\ proc'[q].pc # "info"
    BY <1>0 DEF End, Idle
  <2>5. ProcessFits(provider, stack, proc'[q])
    <3>1. CASE End(q)
      BY <2>4, <2>e, <3>1
    <3>2. CASE Up(q)
      <4>1. proc'[q].plan = NoPlan /\ proc'[q].pc # "info"
        <5>1. End(q) \/ stack'.version = stack.version + 1
          BY <1>0, <3>2 DEF Up, Update, Stacks
        <5>2. stack'.version # stack.version + 1
          BY <1>0, <1>3 DEF Stacks
        <5>. QED  BY <2>e, <5>1, <5>2
      <4>. QED  BY <2>4, <4>1
    <3>3. CASE ScriptEnded(q) /\ ~End(q)
      <4>1. proc'[q] = Waiting("overlay") \/ proc'[q] = Waiting("gateway")
        BY <1>0, <3>3 DEF ScriptEnded
      <4>. QED  BY <2>4, <4>1 DEF Waiting, Idle
    <3>4. CASE OpenStack(q) /\ ~End(q)
      <4>1. proc[q].pc = "guard" /\ Goto(q, "preview")
        BY <3>4 DEF OpenStack, At
      <4>. QED  BY <1>0, <2>1, <4>1, GotoFacts DEF ProcessFits
    <3>5. ASSUME NEW to \in {"validate", "check", "script", "gateway", "overlay"}, Goto(q, to)
          PROVE  ProcessFits(provider, stack, proc'[q])
      <4>1. proc'[q].pc = to /\ proc'[q].plan = proc[q].plan
        BY <1>0, <3>5, GotoFacts
      <4>. QED  BY <2>1, <4>1 DEF ProcessFits
    <3>6. CASE Preview(q) /\ ~End(q) /\ ~Goto(q, "validate")
      <4> DEFINE d == diff(stack.live, program(writeStackConfig(proc[q].plan.intent)))
      <4>1. d = Happens(provider, stack.live, Reviewed(proc[q].plan.intent, ambient))
        BY ProgramIs, HappensIs DEF DeployType
      <4>2. /\ proc[q].pc = "preview"
            /\ proc' = [proc EXCEPT ![q].pc = "info", ![q].plan.looked = ambient, ![q].plan.diff = d]
        BY <3>6 DEF Preview, At
      <4>. HIDE DEF d
      <4>3. proc'[q] = [proc[q] EXCEPT !.pc = "info", !.plan.looked = ambient, !.plan.diff = d]
        BY <1>0, <4>2
      <4>4. /\ proc'[q].pc = "info" /\ proc'[q].plan.version = proc[q].plan.version
            /\ proc'[q].plan.intent = proc[q].plan.intent
            /\ proc'[q].plan.looked = ambient /\ proc'[q].plan.diff = d
        <5>1. proc'[q] = [proc[q] EXCEPT !.pc = "info", !.plan = [proc[q].plan EXCEPT !.looked = ambient, !.diff = d]]
          BY <1>0, <4>3 DEF Processes
        <5>2. proc'[q].pc = "info" /\ proc'[q].plan = [proc[q].plan EXCEPT !.looked = ambient, !.diff = d]
          BY <1>0, <5>1 DEF Processes
        <5>. QED  BY <1>0, <5>2 DEF PlanFiles
      <4>5. proc'[q].plan.version = 0 /\ 0 <= stack.version
        BY <1>0, <2>1, <4>2, <4>4 DEF ProcessFits, Stacks
      <4>. QED  BY <4>1, <4>4, <4>5 DEF ProcessFits, PlanFits
    <3>7. CASE StackInfo(q) /\ ~Goto(q, "validate")
      <4>1. /\ proc[q].pc = "info"
            /\ proc' = [proc EXCEPT ![q].pc = "validate", ![q].plan.version = stack.version]
        BY <3>7 DEF StackInfo, At
      <4>2. proc'[q] = [proc[q] EXCEPT !.pc = "validate", !.plan.version = stack.version]
        BY <1>0, <4>1
      <4>3. /\ proc'[q].pc = "validate" /\ proc'[q].plan.version = stack.version
            /\ proc'[q].plan.intent = proc[q].plan.intent /\ proc'[q].plan.looked = proc[q].plan.looked
            /\ proc'[q].plan.diff = proc[q].plan.diff /\ proc'[q].plan.beside = proc[q].plan.beside
        BY <1>0, <4>2 DEF Processes, PlanFiles
      <4>4. \/ proc[q].plan.beside
            \/ proc[q].plan.diff = Happens(provider, stack.live, Reviewed(proc[q].plan.intent, proc[q].plan.looked))
        BY <2>1, <4>1 DEF ProcessFits
      <4>5. stack.version <= stack.version
        BY <1>0 DEF Stacks
      <4>. QED  BY <4>3, <4>4, <4>5 DEF ProcessFits, PlanFits
    <3>8. CASE ApplyConfig(q) /\ ~End(q)
      <4>1. proc'[q] = [proc[q] EXCEPT !.pc = "drift",
                                       !.pinned = writeStackConfig(proc[q].plan.intent).project]
        BY <1>0, <3>8 DEF ApplyConfig
      <4>2. proc'[q].pc = "drift" /\ proc'[q].plan = proc[q].plan
        BY <1>0, <4>1 DEF Processes
      <4>. QED  BY <2>1, <4>2 DEF ProcessFits
    <3>9. CASE DriftCheck(q) /\ ~End(q)
      <4>1. CASE Drifted(q)
        <5>1. \E to \in {"ask", "up"} : proc'[q] = [proc[q] EXCEPT !.pc = to, !.warned = TRUE]
          BY <1>0, <3>9, <4>1 DEF DriftCheck
        <5>2. proc'[q].pc \in {"ask", "up"} /\ proc'[q].plan = proc[q].plan /\ proc'[q].warned = TRUE
          BY <1>0, <5>1 DEF Processes
        <5>. QED  BY <2>1, <5>2 DEF ProcessFits
      <4>2. CASE ~Drifted(q)
        <5>1. Goto(q, "up")
          BY <3>9, <4>2 DEF DriftCheck
        <5>2. proc[q].plan.version = 0 \/ proc[q].plan.version = stack.version
          BY <1>0, <2>1, <4>2 DEF Drifted, PlanFits, PlanFiles, Stacks
        <5>. QED  BY <1>0, <2>1, <5>1, <5>2, GotoFacts DEF ProcessFits
      <4>. QED  BY <4>1, <4>2
    <3>10. CASE confirmDrift(q) /\ ~End(q)
      <4>1. proc[q].pc = "ask" /\ Goto(q, "up")
        BY <3>10 DEF confirmDrift, At
      <4>. QED  BY <1>0, <2>1, <4>1, GotoFacts DEF ProcessFits
    <3>11. CASE (FinishPlan(q) \/ waitForSsh(q) \/ waitForGateway(q) \/ Bootstrap(q)) /\ ~End(q)
      <4>1. \E to \in {"validate", "check", "script", "gateway", "overlay"} : Goto(q, to)
        BY <3>11 DEF FinishPlan, waitForSsh, waitForGateway, Bootstrap
      <4>. QED  BY <3>5, <4>1
    <3>. QED
      BY <3>1, <3>2, <3>3, <3>4, <3>5, <3>6, <3>7, <3>8, <3>9, <3>10, <3>11 DEF Step, applyConfigOverlay, Killed
  <2>. QED  BY <1>1, <1>3, <2>2, <2>3, <2>5 DEF ReviewInv
<1>. QED  BY <1>2, <1>3

----------------------------------------------------------------------------
(* How many versions there can be. *)

(* Nobody begins to update but a command that starts.                         *)
LEMMA FewerUpdaters ==
  ASSUME IsFiniteSet(Updaters), Updaters' \subseteq Updaters
  PROVE  /\ IsFiniteSet(Updaters') /\ Cardinality(Updaters') \in Nat /\ Cardinality(Updaters) \in Nat
         /\ Cardinality(Updaters') <= Cardinality(Updaters)
  BY FS_Subset, FS_CardinalityType

(* A command counts at most one version.                                     *)
LEMMA StepKeepsVersions ==
  ASSUME DeployType, VersionsCounted, NEW q \in Procs, Step(q)
  PROVE  VersionsCounted'
<1>1. Updaters' \subseteq Updaters
  BY StepMoves DEF Updaters
<1>2. /\ IsFiniteSet(Updaters) /\ IsFiniteSet(Updaters') /\ Cardinality(Updaters') \in Nat
      /\ Cardinality(Updaters) \in Nat /\ Cardinality(Updaters') <= Cardinality(Updaters)
  BY <1>1, FewerUpdaters DEF VersionsCounted
<1>3. /\ commands' = commands /\ events' = events /\ commands \in Nat /\ events \in Nat
      /\ stack.version \in Nat /\ stack'.version \in Nat
  <2>1. UNCHANGED <<commands, events>>
    BY DEF Step, OpenStack, Preview, StackInfo, FinishPlan, ApplyConfig, DriftCheck, confirmDrift, Up, waitForSsh,
       waitForGateway, applyConfigOverlay, Bootstrap, ScriptEnded, Killed, Quiet
  <2>2. stack \in Stacks /\ stack' \in Stacks /\ commands \in Nat /\ events \in Nat
    BY StepKeepsTypes DEF DeployType
  <2>. QED  BY <2>1, <2>2 DEF Stacks
<1>4. CASE stack' = stack
  BY <1>2, <1>3, <1>4 DEF VersionsCounted
<1>5. CASE stack' # stack
  <2>1. stack'.version = stack.version + 1 /\ q \in Updaters /\ q \notin Updaters'
    BY <1>5, StepMoves DEF Updaters, BeforeUpdate
  <2>2. Updaters' \subseteq Updaters \ {q}
    BY <1>1, <2>1
  <2>3. /\ IsFiniteSet(Updaters \ {q}) /\ Cardinality(Updaters \ {q}) = Cardinality(Updaters) - 1
    BY <1>2, <2>1, FS_RemoveElement
  <2>4. Cardinality(Updaters') <= Cardinality(Updaters) - 1
    BY <2>2, <2>3, FS_Subset
  <2>. QED  BY <1>2, <1>3, <2>1, <2>4 DEF VersionsCounted
<1>. QED  BY <1>4, <1>5

(* A command that starts counts none.                                        *)
LEMMA CommandKeepsVersions ==
  ASSUME DeployType, VersionsCounted, NEW q \in Procs, Command(q)
  PROVE  VersionsCounted'
<1>1. PICK p \in Starts : Start(q, p)
  BY CommandStarts
<1>2. \A r \in Procs : proc'[r] = IF r = q THEN p ELSE proc[r]
  BY <1>1 DEF Start, DeployType
<1>3. q \notin Updaters /\ Updaters' \subseteq Updaters \cup {q}
  BY <1>1, <1>2 DEF Updaters, Start, At, BeforeUpdate
<1>4. /\ IsFiniteSet(Updaters) /\ IsFiniteSet(Updaters \cup {q}) /\ Cardinality(Updaters) \in Nat
      /\ Cardinality(Updaters \cup {q}) = Cardinality(Updaters) + 1
  BY <1>3, FS_AddElement, FS_CardinalityType DEF VersionsCounted
<1>5. /\ IsFiniteSet(Updaters') /\ Cardinality(Updaters') \in Nat
      /\ Cardinality(Updaters') <= Cardinality(Updaters) + 1
  BY <1>3, <1>4, FS_Subset, FS_CardinalityType
<1>6. stack' = stack /\ commands' = commands + 1 /\ events' = events
  BY <1>1 DEF Start
<1>7. stack.version \in Nat /\ commands \in Nat /\ events \in Nat
  BY DEF DeployType, Stacks
<1>. QED  BY <1>4, <1>5, <1>6, <1>7 DEF VersionsCounted

(* What happens around the commands counts its events.                       *)
LEMMA AroundKeepsVersions ==
  ASSUME DeployType, VersionsCounted, Around
  PROVE  VersionsCounted'
<1>1. \A r \in Procs : proc'[r].pc = proc[r].pc
  <2>1. proc' = proc \/ proc' = Landed
    BY DEF Around, Elsewhere, UpdatedElsewhere, Destroyed, OnTheMachine
  <2>2. \A r \in Procs : Landed[r].pc = proc[r].pc
    BY LandedFacts DEF DeployType
  <2>. QED  BY <2>1, <2>2
<1>2. Updaters' = Updaters
  BY <1>1 DEF Updaters
<1>3. /\ commands' = commands /\ events' = events + 1
      /\ stack'.version = stack.version \/ stack'.version = stack.version + 1
  BY DEF Around, Elsewhere, UpdatedElsewhere, Destroyed, OnTheMachine, Event, Update
<1>4. stack.version \in Nat /\ commands \in Nat /\ events \in Nat /\ Cardinality(Updaters) \in Nat
  BY FS_CardinalityType DEF DeployType, Stacks, VersionsCounted
<1>. QED  BY <1>2, <1>3, <1>4 DEF VersionsCounted

----------------------------------------------------------------------------
(* The specification. *)

(* The invariant holds where nothing was deployed.                           *)
LEMMA InitInv ==
  ASSUME Init
  PROVE  DeployInv
<1>1. MachineInv
  <2>1. \A s \in Scripts : script[s] = NotRun /\ script[s].pc = "none"
    BY DEF Init, NotRun
  <2>2. script \in [Scripts -> Runs]
    BY DEF Init, NotRun, Runs, Pcs, Ends, Releases
  <2>3. /\ host \in Hosts
        /\ \/ host.token = 0 /\ host.minted = 0 /\ host.gateway = NoGateway /\ host.conf = NoConf
           \/ /\ host.token = 1 /\ host.minted = 1 /\ ~host.conf.edited
              /\ host.gateway.token = 1
    <3>1. ASSUME NEW systemd \in BOOLEAN, NEW legacy \in {"none", "home"}, host = Blank(systemd, legacy)
          PROVE  /\ host \in Hosts /\ host.token = 0 /\ host.minted = 0 /\ host.gateway = NoGateway
                 /\ host.conf = NoConf
      BY <3>1 DEF Blank, NoConf, NoGateway, Hosts, Configs, Releases
    <3>2. ASSUME host = [Blank(FALSE, "none") EXCEPT !.there = FALSE]
          PROVE  /\ host \in Hosts /\ host.token = 0 /\ host.minted = 0 /\ host.gateway = NoGateway
                 /\ host.conf = NoConf
      BY <3>2, BlankFacts DEF Hosts
    <3>3. ASSUME NEW i \in Requests, host = Made(i.version)
          PROVE  /\ host \in Hosts /\ host.token = 1 /\ host.minted = 1 /\ ~host.conf.edited
                 /\ host.gateway.token = 1
      <4>1. i.version \in Releases
        BY RequestTypes DEF Intended
      <4>. QED  BY <3>3, <4>1 DEF Made, Blank, NoConf, NoGateway, Hosts, Configs, Written, Releases
    <3>4. ASSUME NEW v \in Supported, NEW w \in Supported, host = UpdatedSince(v, w)
          PROVE  /\ host \in Hosts /\ host.token = 1 /\ host.minted = 1 /\ ~host.conf.edited
                 /\ host.gateway.token = 1
      <4>1. v \in Releases /\ w \in Releases
        BY DeployAssumption DEF Releases
      <4>. QED  BY <3>4, <4>1 DEF UpdatedSince, Made, Blank, NoConf, NoGateway, Hosts, Configs, Written, Releases
    <3>. QED  BY <3>1, <3>2, <3>3, <3>4 DEF Init
  <2>4. MachineType
    BY <2>2, <2>3 DEF MachineType
  <2>5. OneRun
    BY <2>1 DEF OneRun, AtRest
  <2>6. MintedFirst
    BY <2>1, <2>3 DEF MintedFirst, PastToken, NoGateway, NoConf
  <2>7. StepsKnow
    BY <2>1 DEF StepsKnow, Knows, PastToken
  <2>8. GatewayHasToken
    BY <2>3 DEF GatewayHasToken, NoGateway
  <2>. QED  BY <2>4, <2>5, <2>6, <2>7, <2>8 DEF MachineInv
<1>2. ambient \in Places /\ provider \in Providers
  BY DEF Init
<1>3. stack \in Stacks /\ stack.version <= 1
  <2>1. NoStack \in Stacks /\ NoStack.version = 0
    BY DEF NoStack, NoResources, Stacks, Deployed, Releases
  <2>2. ASSUME NEW i \in Requests PROVE program(writeStackConfig(i)) \in Deployed
    BY <1>2, RequestTypes, ProgramIs, ProgramTypes
  <2>3. stack = NoStack \/ \E i \in Requests : stack = [version |-> 1, live |-> program(writeStackConfig(i))]
    BY DEF Init
  <2>4. ASSUME NEW live \in Deployed, stack = [version |-> 1, live |-> live]
        PROVE  stack \in Stacks /\ stack.version <= 1
    BY <2>4 DEF Stacks
  <2>5. NoStack.version <= 1
    BY <2>1
  <2>. QED  BY <2>1, <2>2, <2>3, <2>4, <2>5
<1>4. proc \in [Procs -> Processes] /\ \A q \in Procs : proc[q] = Idle
  BY ProcessTypes DEF Init
<1>5. Idle.pc = "idle" /\ Idle.plan.version = 0 /\ Idle.plan.diff = "none"
  BY DEF Idle, NoPlan
<1>6. DeployType
  BY <1>2, <1>3, <1>4 DEF Init, DeployType
<1>7. Apart
  BY <1>4, <1>5 DEF Init, Apart, NotRun, OnCloud, OnHost, BeforeUpdate
<1>8. ReviewInv
  BY <1>3, <1>4, <1>5, NothingPromised DEF Init, ReviewInv
<1>9. VersionsCounted
  <2>1. Updaters = {}
    BY <1>4, <1>5 DEF Updaters, BeforeUpdate
  <2>. QED  BY <1>3, <2>1, FS_EmptySet DEF Init, VersionsCounted, Stacks
<1>. QED  BY <1>1, <1>6, <1>7, <1>8, <1>9 DEF DeployInv

(* Every step keeps the invariant, and an edited config.                     *)
LEMMA NextInv ==
  ASSUME DeployInv, [Next]_vars
  PROVE  DeployInv' /\ [EditStays]_host
<1>0. USE DEF DeployInv
<1>1. ASSUME NEW q \in Procs, Command(q) PROVE DeployInv' /\ EditStays
  <2>1. UNCHANGED machine
    BY <1>1, CommandStarts DEF Start
  <2>. QED
    BY <1>1, <2>1, SameMachine, StartKeepsTypes, CommandKeepsApart, CommandKeepsReview, CommandKeepsVersions
<1>2. ASSUME NEW q \in Procs, Step(q) PROVE DeployInv' /\ EditStays
  BY <1>2, StepKeepsMachine, StepKeepsTypes, StepKeepsApart, StepKeepsReview, StepKeepsVersions
<1>3. ASSUME Around PROVE DeployInv' /\ EditStays
  BY <1>3, AroundKeepsMachine, AroundKeepsTypes, AroundKeepsApart, AroundKeepsReview, AroundKeepsVersions
<1>4. ASSUME NEW s \in Scripts, Scripted(s) PROVE DeployInv' /\ EditStays
  <2>1. UNCHANGED <<provider, ambient, stack, plans, proc, commands, events>> /\ ScriptStep(s)
    BY <1>4 DEF Scripted
  <2>2. DeployType' /\ ReviewInv' /\ VersionsCounted'
    BY <2>1 DEF DeployType, ReviewInv, VersionsCounted, Updaters
  <2>. QED  BY <1>4, <2>1, <2>2, ScriptStepKeeps, ScriptKeepsApart
<1>5. CASE UNCHANGED vars
  <2>1. UNCHANGED <<provider, ambient, stack, plans, proc, commands, events>> /\ UNCHANGED machine
    BY <1>5 DEF vars
  <2>2. DeployType' /\ ReviewInv' /\ VersionsCounted' /\ Apart'
    BY <2>1 DEF DeployType, ReviewInv, VersionsCounted, Updaters, Apart, machine
  <2>. QED  BY <2>1, <2>2, SameMachine
<1>. QED  BY <1>1, <1>2, <1>3, <1>4, <1>5 DEF Next, Around

(* What is true of a machine, of a stack and of the plans made for it, is     *)
(* true in every state.                                                       *)
THEOREM DeployInvariant == Spec => []DeployInv
<1>1. Init => DeployInv
  BY InitInv
<1>2. DeployInv /\ [Next]_vars => DeployInv'
  BY NextInv
<1>. QED  BY <1>1, <1>2, PTL DEF Spec

(* The types, and the bound on versions: each command and each event makes one *)
(* at most, and no plan has a version the stack has not had.                   *)
THEOREM TypesHold == Spec => []TypeOK
<1>1. DeployInv => TypeOK
  <2>1. SUFFICES ASSUME DeployInv PROVE TypeOK
    OBVIOUS
  <2>2. /\ host.conf \in Configs /\ provider \in Providers /\ ambient \in Places
        /\ commands \in 0..MaxCommands /\ events \in 0..MaxEvents
    BY <2>1 DEF DeployInv, MachineInv, MachineType, Hosts, DeployType
  <2>3. stack.version \in 0..MaxTotal + 1
    <3>1. /\ stack.version \in Nat /\ commands \in Nat /\ events \in Nat /\ commands + events <= MaxTotal
          /\ stack.version + Cardinality(Updaters) <= 1 + commands + events /\ Cardinality(Updaters) \in Nat
          /\ MaxTotal \in Nat
      BY <2>1, FS_CardinalityType DEF DeployInv, DeployType, Stacks, VersionsCounted
    <3>. QED  BY <3>1
  <2>4. ASSUME NEW p \in plans \cup {proc[q].plan : q \in Procs}
        PROVE  p.diff \in Diffs \cup {"none"} /\ p.version \in 0..stack.version
    <3>1. p \in PlanFiles /\ p.version <= stack.version
      BY <2>1 DEF DeployInv, DeployType, Processes, ReviewInv, ProcessFits, PlanFits
    <3>2. stack.version \in Nat
      BY <2>1 DEF DeployInv, DeployType, Stacks
    <3>. QED  BY <3>1, <3>2 DEF PlanFiles
  <2>. QED  BY <2>2, <2>3, <2>4 DEF TypeOK
<1>. QED  BY <1>1, DeployInvariant, PTL

(* bootstrap.sh.tmpl: the gateway that runs has the token of the file.        *)
THEOREM TokenIsKeptHolds == Spec => []TokenIsKept
<1>1. DeployInv => TokenIsKept
  BY DEF DeployInv, MachineInv, GatewayHasToken, TokenIsKept
<1>. QED  BY <1>1, DeployInvariant, PTL

(* A bootstrap that finished, with nothing started since, runs the release    *)
(* that was asked of it.                                                      *)
THEOREM DoneRunsHolds == Spec => []DoneRunsWhatWasAsked
<1>1. DeployInv => DoneRunsWhatWasAsked
  <2>1. SUFFICES ASSUME DeployInv, ~overlap, NEW q \in Procs, script[q].pc = "done", host.gateway.by = q
                 PROVE  host.gateway.ver = script[q].ver
    BY DEF DoneRunsWhatWasAsked
  <2>2. Knows(q)
    BY <2>1 DEF DeployInv, MachineInv, StepsKnow
  <2>. QED  BY <2>1, <2>2 DEF Knows
<1>. QED  BY <1>1, DeployInvariant, PTL

(* providers/startup.ts: provisioning again never clobbers a later edit.      *)
THEOREM EditsSurviveHolds == Spec => EditsSurvive
<1>1. DeployInv /\ [Next]_vars => [EditStays]_host
  BY NextInv
<1>. QED  BY <1>1, DeployInvariant, PTL DEF Spec, EditsSurvive, EditStays

(* plan/apply.ts: an update does to the machine what its preview said, unless *)
(* it was warned, has no version, or looks something else up by then.         *)
THEOREM ReviewedIsAppliedHolds == Spec => ReviewedIsApplied
<1> DEFINE AsReviewed ==
      \A q \in Procs : Updating(q) =>
         \/ proc[q].plan.diff = "none" \/ proc[q].plan.version = 0
         \/ proc[q].warned \/ proc[q].plan.beside \/ proc[q].plan.looked # Wanted(q).place
         \/ diff(stack.live, Wanted(q)) = proc[q].plan.diff
<1>1. DeployInv => AsReviewed
  <2>1. SUFFICES ASSUME DeployInv, NEW q \in Procs, proc[q].pc = "up",
                        proc[q].plan.diff # "none", proc[q].plan.version # 0, ~proc[q].warned,
                        ~proc[q].plan.beside, proc[q].plan.looked = Wanted(q).place
                 PROVE  diff(stack.live, Wanted(q)) = proc[q].plan.diff
    BY DEF Updating, At
  <2>2. ProcessFits(provider, stack, proc[q])
    BY <2>1 DEF DeployInv, ReviewInv
  <2>3. proc[q].plan.diff = Happens(provider, stack.live, Reviewed(proc[q].plan.intent, proc[q].plan.looked))
    BY <2>1, <2>2 DEF ProcessFits, PlanFits
  <2>4. PICK place : Wanted(q) = Reviewed(proc[q].plan.intent, place)
    BY <2>1, WantedIs DEF DeployInv
  <2>5. place = proc[q].plan.looked
    BY <2>1, <2>4 DEF Reviewed
  <2>. QED  BY <2>3, <2>4, <2>5, HappensIs
<1>. QED  BY <1>1, DeployInvariant, PTL DEF ReviewedIsApplied
===============================================================================
