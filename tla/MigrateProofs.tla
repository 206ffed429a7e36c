---------------------------- MODULE MigrateProofs ----------------------------
(* What a migration does to the 1.x gateway and its state, for any budgets,   *)
(* any length of the schema migration and any number of runs.                 *)
EXTENDS Migrate, TLAPS

(* The steps between the inspection and the copy, and those after the copy.   *)
Before == {"pull", "backup", "extract"}
After  == {"chown", "stop", "rm", "config", "start", "gate", "startAgain", "gateAgain"}

(* The copy is made from the 1.x container, up when the backup was taken.     *)
CopiesSource ==
  /\ pc \in Before => gw.run = "source"
  /\ pc = "extract" => gw.st # "stopped"
AfterIsWhole == pc \in After => hostState = "whole"
SecondLineIsThere == source.line = 2 => hostState = "whole"

(* A deployment known to run 2.x is never past the inspection.                *)
Known == source.line = 2 /\ source.tag = "release"
KnownStays == Known => pc \in {"inspect", "done"} /\ config = "own" /\ gw.run = "source"

(* What the types of the counters rest on.                                    *)
MigratingTakesTime == db = "migrating" => left > 0
GateHasPolls == pc \in {"gate", "gateAgain"} => Within(polls, answered)

(* A container that exists was created from something.                        *)
Created(g) == g.run = Nothing => g = Absent

Inv ==
  /\ TypeOK /\ Created(gw) /\ SourceServesUntilCopied
  /\ CopiesSource /\ AfterIsWhole /\ SecondLineIsThere /\ KnownStays
  /\ MigratingTakesTime /\ GateHasPolls

USE MigrateAssumption

(* A container is a record of the two fields, whatever it was created from.   *)
LEMMA ContainerType ==
  \A r \in Images : Running(r) \in Containers(Images) /\ Restarting(r) \in Containers(Images)
  BY DEF Containers, Running, Restarting, Statuses

(* A gatewayRunCommand that fails or is cut short leaves the old container,   *)
(* one of the new kind, or none: nothing else is ever on the host.            *)
LEMMA RunLeaves ==
  ASSUME NEW g \in Containers(Images), NEW r \in Images, Created(g),
         NEW x \in RunCutShort(sup, g, r)
  PROVE  x \in Containers(Images) /\ Created(x) /\ x.run \in {g.run, r, Nothing}
  BY DEF Images, Containers, Created, RunCutShort, RunFails, Stopped, Running, Restarting,
     Absent, Statuses

(* Stopping the gateway leaves the container it stopped, or none.             *)
LEMMA StopLeaves ==
  ASSUME NEW g \in Containers(Images), Created(g)
  PROVE  /\ AfterStop(sup, g) \in Containers(Images) /\ Created(AfterStop(sup, g))
         /\ AfterStop(sup, g).run \in {g.run, Nothing}
  BY DEF Containers, Created, AfterStop, Stopped, Absent, Statuses

(* A migration begins with the source serving.                                *)
LEMMA InitInv == Init => Inv
<1>. SUFFICES ASSUME Init PROVE Inv
  OBVIOUS
<1>1. gw \in Containers(Images) /\ gw.run = "source" /\ gw.st = "running"
  BY DEF Init, Containers, Statuses, Images, Running
<1>2. /\ sup \in Supervisors
      /\ source \in [line : {1, 2}, tag : {"release", "moving"}]
      /\ hostState \in {"none", "whole"} /\ config \in {"none", "own"}
      /\ db \in {"v1", "v2"}
      /\ source.line = 2 => config = "own" /\ hostState = "whole"
      /\ archive = "none" /\ takes \in 0..MaxMigration /\ left = 0
      /\ pc = "inspect" /\ polls = 0 /\ answered = 0 /\ outcome = "pending"
      /\ runs = 1 /\ faults = 0 /\ crashes = 0
  BY DEF Init
<1>3. owned \in BOOLEAN /\ aborted \in BOOLEAN
  BY ZenonT(30) DEF Init
<1>4. TypeOK
  BY <1>1, <1>2, <1>3 DEF TypeOK, Steps, Kinds
<1>5. Created(gw)
  BY <1>1 DEF Created
<1>. QED
  BY <1>1, <1>2, <1>4, <1>5 DEF Inv, SourceServesUntilCopied, CopiesSource,
     AfterIsWhole, SecondLineIsThere, KnownStays, Known, MigratingTakesTime,
     GateHasPolls, Before, After

(* Starting 2.x on the state directory moves its database one stage on, and a *)
(* schema migration that is under way has some of its time left.              *)
LEMMA OpensType ==
  ASSUME Inv, Opens \/ UNCHANGED <<db, left>>
  PROVE  /\ db' \in {"v1", "migrating", "pending", "v2", "wrecked"}
         /\ left' \in 0..MaxMigration
         /\ MigratingTakesTime'
<1>1. CASE UNCHANGED <<db, left>>
  BY <1>1 DEF Inv, TypeOK, MigratingTakesTime
<1>2. CASE Opens
  <2>1. CASE ~CanOpen
    BY <1>2, <2>1, <1>1 DEF Opens
  <2>2. CASE CanOpen /\ db = "v1"
    BY <1>2, <2>2 DEF Opens, Inv, TypeOK, MigratingTakesTime
  <2>3. CASE CanOpen /\ db = "migrating"
    BY <1>2, <2>3 DEF Opens, Inv, TypeOK, MigratingTakesTime
  <2>4. CASE CanOpen /\ db = "pending"
    BY <1>2, <2>4 DEF Opens, Inv, TypeOK, MigratingTakesTime
  <2>5. CASE CanOpen /\ db \notin {"v1", "migrating", "pending"}
    BY <1>2, <2>5, <1>1 DEF Opens
  <2>. QED  BY <2>1, <2>2, <2>3, <2>4, <2>5
<1>. QED  BY <1>1, <1>2

(* Up to the copy nothing on the host changes but the archive and the copy,   *)
(* and only a source that is not known to be 2.x goes on.                     *)
LEMMA EarlyInv ==
  ASSUME Inv, InspectSource \/ PullTarget \/ Backup \/ Extract
  PROVE  Inv'
<1>1. /\ UNCHANGED <<env, polls, answered, runs, aborted>>
      /\ config' = config /\ archive' \in {archive, "container"}
  BY DEF InspectSource, PullTarget, Backup, Extract, disk
<1>2. /\ outcome' \in Kinds /\ faults' \in 0..MaxFaults
      /\ pc' \in {"pull", "backup", "extract", "chown", "done"}
  <2>1. CASE InspectSource
    BY <2>1 DEF InspectSource, NoFault, Goto, Return, Inv, TypeOK, Kinds
  <2>2. CASE PullTarget
    BY <2>2 DEF PullTarget, Fault, NoFault, Goto, Return, Inv, TypeOK, Kinds
  <2>3. CASE Backup
    BY <2>3 DEF Backup, Fault, NoFault, Goto, Return, Inv, TypeOK, Kinds
  <2>4. CASE Extract
    BY <2>4 DEF Extract, Fault, NoFault, Goto, Return, Inv, TypeOK, Kinds
  <2>. QED  BY <2>1, <2>2, <2>3, <2>4
<1>3. /\ hostState' \in {hostState, "whole", "partial"}
      /\ hostState' # hostState => pc = "extract"
      /\ pc' = "chown" => hostState' = "whole"
      /\ source.line = 2 => hostState' = hostState
  <2>1. CASE Extract
    BY <2>1 DEF Extract, Copied, Goto, Return, Sent, Inv, TypeOK, SecondLineIsThere
  <2>2. CASE InspectSource \/ PullTarget \/ Backup
    BY <2>2 DEF InspectSource, PullTarget, Backup, disk, Goto, Return
  <2>. QED  BY <2>1, <2>2
<1>4. owned' \in BOOLEAN
  BY ZenonT(30) DEF InspectSource, PullTarget, Backup, Extract, disk, Copied, Inv, TypeOK
<1>5. /\ pc' \in Before \union After => gw.run = "source" /\ ~Known
      /\ pc' = "extract" => gw.st # "stopped"
  <2>1. CASE InspectSource
    <3>1. pc' \in {"pull", "done"}
      BY <2>1 DEF InspectSource, Goto, Return
    <3>2. ASSUME pc' = "pull" PROVE gw.run = "source" /\ ~Known
      <4>1. TRUE \in InspectFinds(sup, gw) /\ ~KnownCurrent
        BY <2>1, <3>2 DEF InspectSource, Goto, Return
      <4>2. gw # Absent
        BY <4>1 DEF InspectFinds
      <4>. QED
        BY <4>1, <4>2 DEF KnownCurrent, Known, Inv, TypeOK, Created, Containers, Images
    <3>. QED  BY <3>1, <3>2 DEF Before, After
  <2>2. CASE PullTarget \/ Backup \/ Extract
    <3>1. pc \in Before /\ ~Known
      BY <2>2 DEF PullTarget, Backup, Extract, Sent, Before, Inv, KnownStays
    <3>2. pc' = "extract" => gw.st = "running"
      BY <2>2 DEF PullTarget, Backup, Extract, Goto, Return
    <3>. QED  BY <3>1, <3>2 DEF Inv, CopiesSource
  <2>. QED  BY <2>1, <2>2
<1>6. TypeOK'
  BY <1>1, <1>2, <1>3, <1>4 DEF env, Inv, TypeOK, Steps
<1>7. Created(gw)' /\ MigratingTakesTime'
  BY <1>1 DEF env, Inv, Created, MigratingTakesTime
<1>8. SourceServesUntilCopied'
  BY <1>1, <1>3 DEF env, Inv, SourceServesUntilCopied, CopiesSource, Before
<1>9. CopiesSource' /\ AfterIsWhole' /\ SecondLineIsThere' /\ GateHasPolls'
  BY <1>1, <1>2, <1>3, <1>5 DEF env, Inv, CopiesSource, AfterIsWhole,
     SecondLineIsThere, GateHasPolls, Before, After
<1>10. KnownStays'
  BY <1>1, <1>2, <1>5 DEF env, Inv, KnownStays, Known, Before, After
<1>. QED  BY <1>6, <1>7, <1>8, <1>9, <1>10 DEF Inv

(* Once the state is whole on the host, nothing that happens to the 1.x       *)
(* container can lose it.                                                     *)
LEMMA AfterStep ==
  ASSUME Inv, pc \in After, pc' \in After \union {"done"},
         hostState' = hostState, source' = source,
         TypeOK', Created(gw)', MigratingTakesTime', GateHasPolls'
  PROVE  Inv'
  BY DEF Inv, SourceServesUntilCopied, CopiesSource, AfterIsWhole, SecondLineIsThere,
     KnownStays, Known, Before, After

(* The steps of which no exit code is looked at.                              *)
LEMMA ReplaceInv ==
  ASSUME Inv, Chown \/ StopSource \/ RemoveSource \/ WriteConfig
  PROVE  Inv'
<1>1. /\ pc \in After /\ pc' \in {"stop", "rm", "config", "start"}
      /\ outcome' = outcome /\ faults' \in 0..MaxFaults
      /\ config' \in {config, "minimal"}
      /\ UNCHANGED <<sup, source, db, left, takes, crashes, hostState, polls, answered,
                     runs, aborted>>
  BY DEF Chown, StopSource, RemoveSource, WriteConfig, Sent, Goto, Fault, NoFault, env,
     After, Inv, TypeOK
<1>2. owned' \in BOOLEAN
  BY ZenonT(30) DEF Chown, StopSource, RemoveSource, WriteConfig, Inv, TypeOK
<1>3. /\ gw' \in Containers(Images) /\ Created(gw)'
      /\ archive' \in {archive, "none"}
  <2>1. gw \in Containers(Images) /\ Created(gw)
    BY DEF Inv, TypeOK
  <2>2. CASE Chown \/ WriteConfig
    BY <2>1, <2>2 DEF Chown, WriteConfig, env, Created
  <2>3. CASE StopSource
    <3>1. /\ AfterStop(sup, gw) \in Containers(Images) /\ Created(AfterStop(sup, gw))
      BY <2>1, StopLeaves
    <3>2. gw' \in {gw, AfterStop(sup, gw)} /\ archive' \in {archive, "none"}
      BY <2>3 DEF StopSource, Replace
    <3>. QED  BY <2>1, <3>1, <3>2 DEF Created
  <2>4. CASE RemoveSource
    <3>1. Absent \in Containers(Images) /\ Created(Absent)
      BY DEF Absent, Containers, Statuses, Created
    <3>2. gw' \in {gw, Absent} /\ archive' \in {archive, "none"}
      BY <2>4 DEF RemoveSource, Replace
    <3>. QED  BY <2>1, <3>1, <3>2 DEF Created
  <2>. QED  BY <2>2, <2>3, <2>4
<1>4. TypeOK'
  BY <1>1, <1>2, <1>3 DEF Inv, TypeOK, Steps
<1>5. MigratingTakesTime' /\ GateHasPolls'
  BY <1>1 DEF Inv, MigratingTakesTime, GateHasPolls
<1>. QED  BY <1>1, <1>3, <1>4, <1>5, AfterStep DEF After

(* The two starts of the 2.x gateway.                                         *)
LEMMA StartInv ==
  ASSUME Inv, StartTarget \/ StartTargetAgain
  PROVE  Inv'
<1>1. /\ pc \in After /\ pc' \in {"gate", "gateAgain", "done"}
      /\ outcome' \in {outcome, "threw"} /\ faults' \in 0..MaxFaults
      /\ polls' = 0 /\ answered' = 0
      /\ UNCHANGED <<sup, source, takes, crashes, hostState, owned, config, runs, aborted>>
  BY DEF StartTarget, StartTargetAgain, Start, Sent, Goto, Return, Fault, NoFault,
     After, Inv, TypeOK
<1>2. \/ RunsTarget
      \/ RunsBadly(RunFails(sup, gw, "target"))
      \/ RunsBadly(RunCutShort(sup, gw, "target"))
  BY DEF StartTarget, StartTargetAgain, Start
<1>3. Opens \/ UNCHANGED <<db, left>>
  BY <1>2 DEF RunsTarget, RunsBadly
<1>4. PICK g \in RunCutShort(sup, gw, "target") : Replace(g)
  BY <1>2 DEF RunsTarget, RunsBadly, RunCutShort
<1>5. g \in Containers(Images) /\ Created(g)
  BY <1>4, RunLeaves DEF Inv, TypeOK, Images
<1>6. /\ gw' \in Containers(Images) /\ Created(gw)'
      /\ archive' \in {archive, "none"}
  BY <1>4, <1>5 DEF Replace, Created
<1>7. TypeOK'
  BY <1>1, <1>3, <1>6, OpensType DEF Inv, TypeOK, Steps, Kinds
<1>8. GateHasPolls'
  BY <1>1 DEF GateHasPolls, Within
<1>. QED  BY <1>1, <1>3, <1>6, <1>7, <1>8, OpensType, AfterStep DEF After

(* A poll of a gate is within both budgets, and counts towards them.          *)
LEMMA GateInv ==
  ASSUME Inv, GateFirst \/ GateAgain
  PROVE  Inv'
<1>1. /\ pc \in {"gate", "gateAgain"} /\ NoFault
      /\ UNCHANGED <<gw, sup, source, takes, crashes, disk, runs, aborted>>
  BY DEF GateFirst, GateAgain, Gate
<1>2. polls < SilentBudget /\ answered < PendingBudget
  BY <1>1 DEF Inv, GateHasPolls, Within
<1>3. /\ polls' \in {polls, polls + 1} /\ answered' \in {answered, answered + 1}
      /\ UNCHANGED <<db, left>> \/ Tick
      /\ \/ pc' = pc /\ outcome' = outcome /\ Within(polls', answered')
         \/ pc' \in {"startAgain", "done"}
            /\ outcome' \in {outcome, "migrated", "notStarted"}
  <2>1. CASE GateFirst
    BY <2>1 DEF GateFirst, Gate, Goto, Return
  <2>2. CASE GateAgain
    BY <2>2 DEF GateAgain, Gate, Goto, Return
  <2>. QED  BY <2>1, <2>2
<1>4. /\ db' \in {"v1", "migrating", "pending", "v2", "wrecked"}
      /\ left' \in 0..MaxMigration /\ MigratingTakesTime'
  BY <1>3 DEF Tick, Inv, TypeOK, MigratingTakesTime
<1>5. polls' \in 0..SilentBudget /\ answered' \in 0..PendingBudget
  BY <1>2, <1>3 DEF Inv, TypeOK
<1>6. TypeOK'
  BY <1>1, <1>3, <1>4, <1>5 DEF disk, NoFault, Inv, TypeOK, Steps, Kinds
<1>7. GateHasPolls' /\ Created(gw)'
  BY <1>1, <1>3 DEF GateHasPolls, Created, Inv
<1>. QED  BY <1>1, <1>3, <1>4, <1>6, <1>7, AfterStep DEF After, disk

(* An exception may leave a copy cut short or a gateway stopped, never both.  *)
LEMMA RejectedInv ==
  ASSUME Inv, Rejected
  PROVE  Inv'
<1>1. /\ pc' = "done" /\ outcome' = "threw" /\ faults' = faults
      /\ UNCHANGED <<sup, source, db, left, takes, crashes, polls, answered, runs, aborted>>
      /\ config' = config /\ pc # "done"
  BY DEF Rejected, Return, NoFault, disk
<1>2. owned' \in BOOLEAN
  BY ZenonT(30) DEF Rejected, disk, Copied, Inv, TypeOK
<1>3. /\ gw' \in Containers(Images) /\ Created(gw)' /\ archive' \in {archive, "none"}
      /\ gw' # gw => pc = "stop"
  <2>1. /\ gw \in Containers(Images) /\ Created(gw)
        /\ AfterStop(sup, gw) \in Containers(Images) /\ Created(AfterStop(sup, gw))
    BY StopLeaves DEF Inv, TypeOK
  <2>2. \/ gw' = gw /\ archive' = archive
        \/ pc = "stop" /\ gw' = AfterStop(sup, gw) /\ archive' \in {archive, "none"}
    BY DEF Rejected, disk, Replace
  <2>. QED  BY <2>1, <2>2 DEF Created
<1>4. /\ hostState' \in {hostState, "partial"}
      /\ hostState' # hostState => pc = "extract" /\ source.line # 2
  BY DEF Rejected, disk, Copied
<1>5. TypeOK'
  BY <1>1, <1>2, <1>3, <1>4 DEF Inv, TypeOK, Steps, Kinds
<1>6. SourceServesUntilCopied'
  BY <1>3, <1>4 DEF Inv, SourceServesUntilCopied, CopiesSource, AfterIsWhole, Before, After
<1>7. KnownStays'
  BY <1>1, <1>3 DEF Inv, KnownStays, Known
<1>. QED
  BY <1>1, <1>3, <1>4, <1>5, <1>6, <1>7 DEF Inv, CopiesSource, AfterIsWhole,
     SecondLineIsThere, MigratingTakesTime, GateHasPolls, Before, After

(* Another run of the command, a crash, a restart and ^C keep what is on disk.*)
LEMMA WorldInv ==
  ASSUME Inv, RunAgain \/ GatewayCrashes \/ SupervisorRestarts \/ OperatorAborts
  PROVE  Inv'
<1>1. CASE RunAgain
  <2>1. /\ pc' = "inspect" /\ outcome' = "pending" /\ aborted' = FALSE
        /\ polls' = 0 /\ answered' = 0 /\ runs' \in 1..MaxRuns
        /\ UNCHANGED <<env, disk, faults>>
    BY <1>1 DEF RunAgain, Inv, TypeOK
  <2>2. aborted' \in BOOLEAN
    BY <2>1
  <2>3. TypeOK'
    BY <2>1, <2>2 DEF env, disk, Inv, TypeOK, Steps, Kinds
  <2>. QED
    BY <2>1, <2>3 DEF env, disk, Inv, Created, SourceServesUntilCopied, CopiesSource,
       AfterIsWhole, SecondLineIsThere, KnownStays, Known, MigratingTakesTime,
       GateHasPolls, Before, After
<1>2. CASE GatewayCrashes
  <2>1. /\ gw' = Restarting(gw.run) /\ gw.st = "running" /\ crashes' \in 0..MaxCrashes
        /\ UNCHANGED <<sup, source, db, left, takes, disk, flow, aborted>>
    BY <1>2 DEF GatewayCrashes, Inv, TypeOK
  <2>2. gw.run \in Images
    BY <2>1 DEF Inv, TypeOK, Containers, Created, Absent
  <2>3. gw' \in Containers(Images) /\ gw'.run = gw.run /\ gw'.st = "restarting"
    BY <2>1, <2>2, ContainerType DEF Restarting
  <2>4. Created(gw)'
    BY <2>2, <2>3 DEF Created, Images
  <2>5. TypeOK'
    BY <2>1, <2>3 DEF disk, flow, Inv, TypeOK
  <2>. QED
    BY <2>1, <2>3, <2>4, <2>5 DEF disk, flow, Inv, SourceServesUntilCopied,
       CopiesSource, AfterIsWhole, SecondLineIsThere, KnownStays, Known,
       MigratingTakesTime, GateHasPolls, Before, After
<1>3. CASE SupervisorRestarts
  <2>1. /\ gw' = Running(gw.run) /\ gw.st = "restarting"
        /\ Opens \/ UNCHANGED <<db, left>>
        /\ UNCHANGED <<sup, source, takes, crashes, disk, flow, aborted>>
    BY <1>3 DEF SupervisorRestarts
  <2>2. gw.run \in Images
    BY <2>1 DEF Inv, TypeOK, Containers, Created, Absent
  <2>3. gw' \in Containers(Images) /\ gw'.run = gw.run /\ gw'.st = "running"
    BY <2>1, <2>2, ContainerType DEF Running
  <2>4. Created(gw)'
    BY <2>2, <2>3 DEF Created, Images
  <2>5. /\ db' \in {"v1", "migrating", "pending", "v2", "wrecked"}
        /\ left' \in 0..MaxMigration /\ MigratingTakesTime'
    BY <2>1, OpensType
  <2>6. TypeOK'
    BY <2>1, <2>3, <2>5 DEF disk, flow, Inv, TypeOK
  <2>. QED
    BY <2>1, <2>3, <2>4, <2>5, <2>6 DEF disk, flow, Inv, SourceServesUntilCopied,
       CopiesSource, AfterIsWhole, SecondLineIsThere, KnownStays, Known,
       GateHasPolls, Before, After
<1>4. CASE OperatorAborts
  <2>1. aborted' \in BOOLEAN /\ UNCHANGED <<env, disk, flow>>
    BY <1>4 DEF OperatorAborts
  <2>2. TypeOK'
    BY <2>1 DEF env, disk, flow, Inv, TypeOK
  <2>. QED
    BY <2>1, <2>2 DEF env, disk, flow, Inv, Created, SourceServesUntilCopied,
       CopiesSource, AfterIsWhole, SecondLineIsThere, KnownStays, Known,
       MigratingTakesTime, GateHasPolls, Before, After
<1>. QED  BY <1>1, <1>2, <1>3, <1>4

(* In every state of any number of runs, what follows the copy follows a      *)
(* whole one.                                                                 *)
THEOREM Invariance == Spec => []Inv
<1>1. Inv /\ [Next]_vars => Inv'
  <2>. SUFFICES ASSUME Inv, [Next]_vars PROVE Inv'
    OBVIOUS
  <2>1. CASE Flow
    BY <2>1, EarlyInv, ReplaceInv, StartInv, GateInv, RejectedInv DEF Flow
  <2>2. CASE RunAgain \/ GatewayCrashes \/ SupervisorRestarts \/ OperatorAborts
    BY <2>2, WorldInv
  <2>3. CASE UNCHANGED vars
    BY <2>3 DEF vars, Inv, TypeOK, Created, SourceServesUntilCopied, CopiesSource,
       AfterIsWhole, SecondLineIsThere, KnownStays, Known, MigratingTakesTime,
       GateHasPolls, Before, After
  <2>. QED  BY <2>1, <2>2, <2>3 DEF Next
<1>. QED  BY InitInv, <1>1, PTL DEF Spec

(* migrate and its steps keep the container, the directory and the counters   *)
(* well formed: no gate polls beyond either of its budgets.                   *)
THEOREM TypeCorrect == Spec => []TypeOK
<1>1. Inv => TypeOK
  BY DEF Inv
<1>. QED  BY <1>1, Invariance, PTL

(* The 1.x gateway, whose container is the only place its state is in, is     *)
(* neither stopped nor replaced before that state is whole on the host.       *)
THEOREM SourceSafe == Spec => []SourceServesUntilCopied
<1>1. Inv => SourceServesUntilCopied
  BY DEF Inv
<1>. QED  BY <1>1, Invariance, PTL

(* A deployment whose tag says it runs 2.x keeps its gateway and its config.  *)
THEOREM CurrentSafe == Spec => []KnownCurrentIsLeftAlone
<1>1. Inv => KnownCurrentIsLeftAlone
  BY DEF Inv, KnownStays, Known, KnownCurrentIsLeftAlone
<1>. QED  BY <1>1, Invariance, PTL

----------------------------------------------------------------------------
(* A migration in which nothing fails and nothing goes down, in this run of   *)
(* the command or in one before it: others may have been given up or cut off. *)
Undisturbed == faults = 0 /\ crashes = 0 /\ source.line = 1

(* The 1.x gateway is up while it is backed up and copied, and its container  *)
(* is gone before the target's is made: nothing has opened the copy by then.  *)
SourceNotOpened == Undisturbed /\ gw.run = "source" => db = "v1"
SourceIsUp == Undisturbed /\ pc \in {"extract", "chown", "stop"} => gw = Running("source")
SourceIsGone ==
  Undisturbed =>
    /\ pc = "rm" => gw \in {Absent, Stopped(Running("source"))}
    /\ pc \in {"config", "start"} => gw = Absent
CopyIsFresh == Undisturbed /\ pc \in {"rm", "config", "start"} => db = "v1"
CopyIsReady ==
  Undisturbed =>
    /\ pc \in {"stop", "rm", "config", "start"} => owned
    /\ pc = "start" => config # "none"
(* From the first start on, the target runs and can open what was copied.     *)
TargetRuns ==
  Undisturbed /\ pc \in {"gate", "startAgain", "gateAgain"} => gw = Running("target") /\ CanOpen
(* A gate polls a migration that has not answered until it is over: the       *)
(* second start finds it pending, and the second gate finds it served.        *)
MigrationIsPolled ==
  Undisturbed /\ takes <= SilentBudget =>
    /\ pc = "gate" => \/ db = "migrating" /\ polls + left = takes /\ answered = 0
                      \/ db = "pending"
    /\ pc = "startAgain" /\ ~aborted => db = "pending"
    /\ pc = "gateAgain" => db = "v2"

SlowInv ==
  /\ SourceNotOpened /\ SourceIsUp /\ SourceIsGone /\ CopyIsFresh /\ CopyIsReady
  /\ TargetRuns /\ MigrationIsPolled /\ SlowMigrationCompletes

(* What goes wrong in a migration stays on its record.                        *)
LEMMA StaysDisturbed ==
  ASSUME Inv, [Next]_vars
  PROVE  /\ source' = source /\ takes' = takes
         /\ Undisturbed' => Undisturbed /\ NoFault /\ crashes' = crashes
<1>1. faults \in Nat /\ crashes \in Nat
  BY DEF Inv, TypeOK
<1>2. source' = source /\ takes' = takes /\ faults' \in {faults, faults + 1}
      /\ crashes' \in {crashes, crashes + 1}
  <2>1. CASE Flow
    <3>1. CASE InspectSource \/ PullTarget \/ Backup \/ Extract \/ Chown \/ WriteConfig
      BY <3>1 DEF InspectSource, PullTarget, Backup, Extract, Chown, WriteConfig, env, Fault, NoFault
    <3>2. CASE StopSource \/ RemoveSource
      BY <3>2 DEF StopSource, RemoveSource, Fault, NoFault
    <3>3. CASE StartTarget \/ StartTargetAgain
      BY <3>3 DEF StartTarget, StartTargetAgain, Start, Fault, NoFault
    <3>4. CASE GateFirst \/ GateAgain
      BY <3>4 DEF GateFirst, GateAgain, Gate, NoFault
    <3>5. CASE Rejected
      BY <3>5 DEF Rejected, NoFault
    <3>. QED  BY <2>1, <3>1, <3>2, <3>3, <3>4, <3>5 DEF Flow
  <2>2. CASE RunAgain \/ GatewayCrashes \/ SupervisorRestarts \/ OperatorAborts \/ UNCHANGED vars
    BY <2>2 DEF RunAgain, GatewayCrashes, SupervisorRestarts, OperatorAborts, env, flow, vars
  <2>. QED  BY <2>1, <2>2 DEF Next
<1>. QED  BY <1>1, <1>2 DEF Undisturbed, NoFault

(* The gateway a command replaces is 1.x, and it is not opened by any of the  *)
(* steps up to the first start.                                               *)
LEMMA EarlySlow ==
  ASSUME Inv, SlowInv, Undisturbed, NoFault,
         InspectSource \/ PullTarget \/ Backup \/ Extract \/ Chown
  PROVE  SlowInv'
<1>1. /\ UNCHANGED <<gw, source, db, left, takes, crashes, polls, answered, aborted>>
      /\ config' = config
  BY DEF InspectSource, PullTarget, Backup, Extract, Chown, env, disk
<1>2. /\ pc' \in {"pull", "backup", "extract", "chown", "stop", "done"}
      /\ outcome' = outcome \/ outcome' \in {"nothing", "current", "refused", "notExtracted"}
  BY DEF InspectSource, PullTarget, Backup, Extract, Chown, Goto, Return
<1>3. pc' = "extract" => gw = Running("source")
  <2>. SUFFICES ASSUME pc' = "extract" PROVE gw = Running("source")
    OBVIOUS
  <2>1. Backup /\ gw.st = "running"
    BY DEF InspectSource, PullTarget, Backup, Extract, Chown, Goto, Return
  <2>2. gw.run = "source"
    BY <2>1 DEF Backup, Sent, Inv, CopiesSource, Before
  <2>. QED  BY <2>1, <2>2 DEF Running, Inv, TypeOK, Containers
<1>4. pc' \in {"chown", "stop"} => pc \in {"extract", "chown"}
  BY DEF InspectSource, PullTarget, Backup, Extract, Chown, Sent, Goto, Return
<1>5. pc' = "stop" => owned'
  <2>1. CASE Chown
    BY <2>1 DEF Chown, Fault, NoFault, Undisturbed
  <2>2. CASE InspectSource \/ PullTarget \/ Backup \/ Extract
    BY <2>2 DEF InspectSource, PullTarget, Backup, Extract, Goto, Return
  <2>. QED  BY <2>1, <2>2
<1>6. SourceNotOpened' /\ SourceIsUp'
  BY <1>1, <1>2, <1>3, <1>4 DEF SlowInv, SourceNotOpened, SourceIsUp, Undisturbed
<1>7. SlowMigrationCompletes'
  BY <1>1, <1>2 DEF SlowInv, SlowMigrationCompletes, Undisturbed
<1>. QED
  BY <1>2, <1>5, <1>6, <1>7 DEF SlowInv, SourceIsGone, CopyIsFresh, CopyIsReady, TargetRuns,
     MigrationIsPolled

(* The container of the source goes, and its state stays as it was copied.    *)
LEMMA ReplaceSlow ==
  ASSUME Inv, SlowInv, Undisturbed, NoFault,
         StopSource \/ RemoveSource \/ WriteConfig
  PROVE  SlowInv'
<1>1. UNCHANGED <<source, db, left, takes, crashes, owned, aborted, outcome>>
  BY DEF StopSource, RemoveSource, WriteConfig, env, Goto
<1>2. ~Fault
  BY DEF Fault, NoFault, Undisturbed
<1>3. SlowMigrationCompletes'
  BY <1>1 DEF SlowInv, SlowMigrationCompletes, NoFault
<1>4. CASE StopSource
  <2>1. pc = "stop" /\ pc' = "rm" /\ gw' = AfterStop(sup, gw)
    BY <1>2, <1>4 DEF StopSource, Sent, Goto, Replace
  <2>2. gw = Running("source") /\ db = "v1" /\ owned
    BY <2>1 DEF SlowInv, SourceIsUp, SourceNotOpened, CopyIsReady, Running
  <2>3. gw' \in {Absent, Stopped(Running("source"))}
    BY <2>1, <2>2 DEF AfterStop
  <2>. QED
    BY <1>1, <1>3, <2>1, <2>2, <2>3 DEF SlowInv, SourceNotOpened, SourceIsUp, SourceIsGone,
       CopyIsFresh, CopyIsReady, TargetRuns, MigrationIsPolled
<1>5. CASE RemoveSource
  <2>1. pc = "rm" /\ pc' = "config" /\ gw' = IF gw.st = "stopped" THEN Absent ELSE gw
    BY <1>2, <1>5 DEF RemoveSource, Sent, Goto, Replace
  <2>2. gw \in {Absent, Stopped(Running("source"))} /\ db = "v1" /\ owned
    BY <2>1 DEF SlowInv, SourceIsGone, CopyIsFresh, CopyIsReady
  <2>3. Stopped(Running("source")).st = "stopped"
    BY DEF Stopped, Running, Absent
  <2>4. gw' = Absent
    BY <2>1, <2>2, <2>3
  <2>. QED
    BY <1>1, <1>3, <2>1, <2>2, <2>4 DEF SlowInv, SourceNotOpened, SourceIsUp, SourceIsGone,
       CopyIsFresh, CopyIsReady, TargetRuns, MigrationIsPolled
<1>6. CASE WriteConfig
  <2>1. pc = "config" /\ pc' = "start" /\ gw' = gw /\ config' = "minimal"
    BY <1>2, <1>6 DEF WriteConfig, Sent, Goto, env
  <2>2. gw = Absent /\ db = "v1" /\ owned
    BY <2>1 DEF SlowInv, SourceIsGone, CopyIsFresh, CopyIsReady
  <2>. QED
    BY <1>1, <1>3, <2>1, <2>2 DEF SlowInv, SourceNotOpened, SourceIsUp, SourceIsGone,
       CopyIsFresh, CopyIsReady, TargetRuns, MigrationIsPolled
<1>. QED  BY <1>4, <1>5, <1>6

(* The first start opens a fresh copy, the second one a copy whose migration  *)
(* is over; a start that is cut off leaves no 1.x gateway to migrate again.   *)
LEMMA StartSlow ==
  ASSUME Inv, SlowInv, Undisturbed, NoFault, StartTarget \/ StartTargetAgain
  PROVE  SlowInv'
<1>1. /\ polls' = 0 /\ answered' = 0 /\ ~aborted /\ ~Fault
      /\ UNCHANGED <<sup, source, takes, crashes, owned, config, aborted>>
      /\ pc \in {"start", "startAgain"}
  BY DEF StartTarget, StartTargetAgain, Start, Sent, Fault, NoFault, Undisturbed
<1>2. gw.run # "source" /\ CanOpen
  BY <1>1 DEF SlowInv, SourceIsGone, CopyIsReady, TargetRuns, CanOpen, Absent, Running
<1>3. CASE RunsTarget /\ (pc = "start" => pc' = "gate") /\ (pc = "startAgain" => pc' = "gateAgain")
           /\ outcome' = outcome
  <2>1. gw' = Running("target") /\ Opens
    BY <1>3 DEF RunsTarget, Replace
  <2>2. TargetRuns' /\ SourceNotOpened'
    BY <1>1, <1>2, <2>1 DEF TargetRuns, SourceNotOpened, CanOpen, Running
  <2>3. MigrationIsPolled'
    <3>1. CASE pc = "start"
      <4>1. db = "v1"
        BY <3>1 DEF SlowInv, CopyIsFresh
      <4>2. left' = takes /\ db' \in {"migrating", "pending"}
        BY <1>2, <2>1, <4>1 DEF Opens
      <4>3. 0 + takes = takes
        BY DEF Inv, TypeOK
      <4>. QED  BY <1>1, <1>3, <3>1, <4>2, <4>3 DEF MigrationIsPolled
    <3>2. CASE pc = "startAgain"
      <4>1. takes <= SilentBudget => db = "pending"
        BY <1>1, <3>2 DEF SlowInv, MigrationIsPolled
      <4>2. takes <= SilentBudget => db' = "v2"
        BY <1>2, <2>1, <4>1 DEF Opens
      <4>. QED  BY <1>1, <1>3, <3>2, <4>2 DEF MigrationIsPolled
    <3>. QED  BY <1>1, <3>1, <3>2
  <2>4. SlowMigrationCompletes'
    BY <1>1, <1>3 DEF SlowInv, SlowMigrationCompletes, NoFault
  <2>. QED
    BY <1>1, <1>3, <2>2, <2>3, <2>4 DEF SlowInv, SourceIsUp, SourceIsGone, CopyIsFresh, CopyIsReady
<1>4. CASE RunsBadly(RunCutShort(sup, gw, "target")) /\ pc' = "done" /\ outcome' = "threw"
  <2>1. PICK g \in RunCutShort(sup, gw, "target") : gw' = g
    BY <1>4 DEF RunsBadly, Replace
  <2>2. g.run # "source"
    BY <1>2, <2>1 DEF RunCutShort, RunFails, Stopped, Running, Restarting, Absent, Inv, TypeOK,
       Containers
  <2>. QED
    BY <1>4, <2>1, <2>2 DEF SlowInv, SourceNotOpened, SourceIsUp, SourceIsGone, CopyIsFresh,
       CopyIsReady, TargetRuns, MigrationIsPolled, SlowMigrationCompletes
<1>5. CASE StartTarget
  <2>1. pc = "start"
    BY <1>5 DEF StartTarget, Sent
  <2>. QED  BY <1>1, <1>3, <1>4, <1>5, <2>1 DEF StartTarget, Start, Goto, Return
<1>6. CASE StartTargetAgain
  <2>1. pc = "startAgain"
    BY <1>6 DEF StartTargetAgain, Sent
  <2>. QED  BY <1>1, <1>3, <1>4, <1>6, <2>1 DEF StartTargetAgain, Start, Goto, Return
<1>. QED  BY <1>5, <1>6

(* Each poll of the first gate takes one off what the migration still needs,  *)
(* and none of the answers it is allowed: out of polls it is over.            *)
LEMMA GateSlow ==
  ASSUME Inv, SlowInv, Undisturbed, NoFault, GateFirst \/ GateAgain
  PROVE  SlowInv'
<1>1. /\ pc \in {"gate", "gateAgain"}
      /\ UNCHANGED <<gw, source, takes, crashes, owned, config, aborted>>
  BY DEF GateFirst, GateAgain, Gate, disk
<1>2. gw = Running("target") /\ CanOpen /\ Serves
  BY <1>1 DEF SlowInv, TargetRuns, Serves, Running
<1>3. TargetRuns' /\ SourceNotOpened'
  BY <1>1, <1>2 DEF TargetRuns, SourceNotOpened, CanOpen, Running
<1>4. CASE GateFirst
  <2>1. /\ pc = "gate"
        /\ \/ ~aborted /\ Started /\ pc' = "done" /\ outcome' = "migrated"
           \/ aborted /\ pc' = "startAgain" /\ outcome' = outcome
           \/ /\ ~aborted /\ ~Started /\ Tick /\ polls' = polls + 1 /\ outcome' = outcome
              /\ answered' = IF Answers THEN answered + 1 ELSE answered
              /\ IF Within(polls', answered') THEN pc' = pc ELSE pc' = "startAgain"
    BY <1>4 DEF GateFirst, Gate, Goto, Return
  <2>2. MigrationIsPolled'
    <3>. SUFFICES ASSUME takes <= SilentBudget PROVE MigrationIsPolled'
      BY <1>1 DEF MigrationIsPolled
    <3>1. CASE pc' = "done" \/ (aborted /\ pc' = "startAgain")
      BY <1>1, <3>1 DEF MigrationIsPolled
    <3>2. CASE /\ ~aborted /\ Tick /\ polls' = polls + 1
               /\ answered' = IF Answers THEN answered + 1 ELSE answered
               /\ IF Within(polls', answered') THEN pc' = pc ELSE pc' = "startAgain"
      <4>1. \/ db = "migrating" /\ polls + left = takes /\ answered = 0
            \/ db = "pending"
        BY <2>1 DEF SlowInv, MigrationIsPolled
      <4>2. CASE db = "pending"
        <5>1. db' = "pending"
          BY <3>2, <4>2 DEF Tick
        <5>. QED  BY <1>1, <2>1, <3>2, <5>1 DEF MigrationIsPolled
      <4>3. CASE db = "migrating" /\ polls + left = takes /\ answered = 0
        <5>1. /\ left' = left - 1 /\ db' = (IF left = 1 THEN "pending" ELSE "migrating")
              /\ answered' = 0
          BY <1>2, <3>2, <4>3 DEF Tick, Answers
        <5>2. left \in Nat /\ left > 0 /\ polls \in Nat /\ takes \in Nat
          BY <4>3 DEF Inv, TypeOK, MigratingTakesTime
        <5>3. CASE left = 1
          BY <1>1, <2>1, <3>2, <5>1, <5>3 DEF MigrationIsPolled
        <5>4. CASE left # 1
          <6>1. db' = "migrating" /\ polls' + left' = takes /\ polls' < SilentBudget
            BY <3>2, <4>3, <5>1, <5>2, <5>4
          <6>2. Within(polls', answered')
            BY <5>1, <6>1 DEF Within
          <6>. QED  BY <1>1, <2>1, <3>2, <5>1, <6>1, <6>2 DEF MigrationIsPolled
        <5>. QED  BY <5>3, <5>4
      <4>. QED  BY <4>1, <4>2, <4>3
    <3>. QED  BY <2>1, <3>1, <3>2
  <2>3. pc' \in {"gate", "startAgain", "done"} /\ outcome' \in {outcome, "migrated"}
    BY <2>1
  <2>4. SlowMigrationCompletes'
    BY <1>1, <2>3 DEF SlowInv, SlowMigrationCompletes, NoFault
  <2>. QED
    BY <1>3, <2>2, <2>3, <2>4 DEF SlowInv, SourceIsUp, SourceIsGone, CopyIsFresh, CopyIsReady
<1>5. CASE GateAgain
  <2>1. /\ pc = "gateAgain"
        /\ \/ ~aborted /\ Started /\ pc' = "done" /\ outcome' = "migrated"
           \/ aborted /\ pc' = "done" /\ outcome' = "notStarted"
           \/ ~aborted /\ ~Started /\ Tick /\ pc' \in {pc, "done"}
              /\ outcome' \in {outcome, "notStarted"}
    BY <1>5 DEF GateAgain, Gate, Return
  <2>2. takes <= SilentBudget => Started
    BY <1>2, <2>1 DEF SlowInv, MigrationIsPolled, Started
  <2>3. MigrationIsPolled'
    BY <1>1, <2>1, <2>2 DEF MigrationIsPolled
  <2>4. SlowMigrationCompletes'
    <3>1. takes \in Nat
      BY DEF Inv, TypeOK
    <3>. QED  BY <1>1, <2>1, <2>2, <3>1 DEF SlowInv, SlowMigrationCompletes, NoFault, Undisturbed
  <2>. QED
    BY <1>3, <2>1, <2>3, <2>4 DEF SlowInv, SourceIsUp, SourceIsGone, CopyIsFresh, CopyIsReady
<1>. QED  BY <1>4, <1>5

(* A run that is given up, another one, and what happens to a gateway that    *)
(* nothing went wrong with: it is not started again by its supervisor.        *)
LEMMA RestSlow ==
  ASSUME Inv, SlowInv, Undisturbed, NoFault, crashes' = crashes,
         \/ Rejected \/ RunAgain \/ GatewayCrashes \/ SupervisorRestarts \/ OperatorAborts
         \/ UNCHANGED vars
  PROVE  SlowInv'
<1>1. CASE Rejected
  <2>1. /\ pc' = "done" /\ outcome' = "threw" /\ db' = db /\ source' = source
        /\ gw' = gw \/ gw' = AfterStop(sup, gw)
    BY <1>1 DEF Rejected, Return, Replace
  <2>2. gw'.run = "source" => gw.run = "source"
    BY <2>1, StopLeaves DEF Inv, TypeOK
  <2>. QED
    BY <2>1, <2>2 DEF SlowInv, SourceNotOpened, SourceIsUp, SourceIsGone, CopyIsFresh,
       CopyIsReady, TargetRuns, MigrationIsPolled, SlowMigrationCompletes, Undisturbed
<1>2. CASE RunAgain
  BY <1>2 DEF RunAgain, env, SlowInv, SourceNotOpened, SourceIsUp, SourceIsGone, CopyIsFresh,
     CopyIsReady, TargetRuns, MigrationIsPolled, SlowMigrationCompletes, Undisturbed
<1>3. CASE GatewayCrashes
  <2>1. /\ UNCHANGED <<source, db, left, takes, disk, flow, aborted>>
        /\ gw' = Restarting(gw.run) /\ gw.run = "target" /\ ~CanOpen /\ gw.st = "running"
    <3>1. crashes \in Nat
      BY DEF Inv, TypeOK
    <3>. QED  BY <1>3, <3>1 DEF GatewayCrashes
  <2>2. pc \notin {"extract", "chown", "stop", "rm", "config", "start", "gate", "startAgain", "gateAgain"}
    BY <2>1 DEF SlowInv, SourceIsUp, SourceIsGone, TargetRuns, Running, Absent, Stopped
  <2>3. gw'.run = "target"
    BY <2>1 DEF Restarting
  <2>. QED
    BY <2>1, <2>2, <2>3 DEF flow, SlowInv, SourceNotOpened, SourceIsUp, SourceIsGone,
       CopyIsFresh, CopyIsReady, TargetRuns, MigrationIsPolled, SlowMigrationCompletes,
       Undisturbed
<1>4. CASE SupervisorRestarts
  <2>1. /\ UNCHANGED <<source, takes, disk, flow, aborted>>
        /\ gw' = Running(gw.run) /\ gw.st = "restarting"
        /\ gw.run # "target" => db' = db
    BY <1>4 DEF SupervisorRestarts
  <2>2. pc \notin {"extract", "chown", "stop", "rm", "config", "start", "gate", "startAgain", "gateAgain"}
    BY <2>1 DEF SlowInv, SourceIsUp, SourceIsGone, TargetRuns, Running, Absent, Stopped
  <2>3. gw'.run = gw.run
    BY <2>1 DEF Running
  <2>. QED
    BY <2>1, <2>2, <2>3 DEF flow, SlowInv, SourceNotOpened, SourceIsUp, SourceIsGone,
       CopyIsFresh, CopyIsReady, TargetRuns, MigrationIsPolled, SlowMigrationCompletes,
       Undisturbed
<1>5. CASE OperatorAborts \/ UNCHANGED vars
  <2>1. UNCHANGED <<env, disk, flow>> /\ (aborted => aborted')
    BY <1>5 DEF OperatorAborts, vars, env, disk, flow
  <2>2. SlowMigrationCompletes'
    BY <2>1 DEF env, flow, SlowInv, SlowMigrationCompletes
  <2>3. MigrationIsPolled'
    BY <2>1 DEF env, flow, SlowInv, MigrationIsPolled, Undisturbed
  <2>. QED
    BY <2>1, <2>2, <2>3 DEF env, disk, flow, SlowInv, SourceNotOpened, SourceIsUp, SourceIsGone,
       CopyIsFresh, CopyIsReady, TargetRuns, CanOpen, Undisturbed
<1>. QED  BY <1>1, <1>2, <1>3, <1>4, <1>5

(* The second start never lands in the middle of a schema migration that      *)
(* takes no longer than the gate's budget for silence: for any budgets and    *)
(* any number of runs, of which others may have been given up or cut off.     *)
THEOREM SlowIsAwaited == Spec => []SlowMigrationCompletes
<1>1. Init => SlowInv
  BY DEF Init, SlowInv, SourceNotOpened, SourceIsUp, SourceIsGone, CopyIsFresh, CopyIsReady,
     TargetRuns, MigrationIsPolled, SlowMigrationCompletes, Undisturbed
<1>2. Inv /\ SlowInv /\ [Next]_vars => SlowInv'
  <2>. SUFFICES ASSUME Inv, SlowInv, [Next]_vars PROVE SlowInv'
    OBVIOUS
  <2>1. CASE Undisturbed /\ NoFault /\ crashes' = crashes
    BY <2>1, EarlySlow, ReplaceSlow, StartSlow, GateSlow, RestSlow DEF Next, Flow
  <2>2. CASE ~Undisturbed'
    BY <2>2 DEF SlowInv, SourceNotOpened, SourceIsUp, SourceIsGone, CopyIsFresh, CopyIsReady,
       TargetRuns, MigrationIsPolled, SlowMigrationCompletes, Undisturbed
  <2>. QED  BY <2>1, <2>2, StaysDisturbed
<1>3. SlowInv => SlowMigrationCompletes
  BY DEF SlowInv
<1>. QED  BY <1>1, <1>2, <1>3, Invariance, PTL DEF Spec
=============================================================================
