---------------------------- MODULE UpgradeProofs ----------------------------
(* What an upgrade does to the state database, for any number of schemas and  *)
(* any budget of the gates.                                                   *)
EXTENDS Upgrade, TLAPS

(* The steps in which the previous release still serves, and those after the  *)
(* target was judged fit to run on the snapshot.                              *)
Early == {"pull", "inspect", "snapshot", "preflight"}
Late  == {"run", "gate", "repair", "runAgain", "gateAgain", "runBack", "gateBack"}

(* The database has the schema of one of the two releases.  Until the swap it *)
(* is the previous one's, and the snapshot is judged while that still holds;  *)
(* after it the target is known to be at least as new.                        *)
OfOneRelease == schema \in {knows["prev"], knows["target"]}
EarlyIsPrevious ==
  pc \in Early \/ outcome \in {"pullFailed", "noSnapshot", "refused"}
    => schema = knows["prev"] /\ gw.run # "target"
SnapshotIsPrevious == snap \in {0, knows["prev"]}
PreflightHasOne == pc = "preflight" => snap = knows["prev"]
LateIsNewer == pc \in Late \/ gw.run = "target" => knows["prev"] <= knows["target"]
DoneWhenSaid == outcome # "pending" => pc = "done"

(* A container that exists was created from something.                        *)
Created(g) == g.run = Nothing => g = Absent

Inv ==
  /\ TypeOK /\ Created(gw) /\ OfOneRelease /\ EarlyIsPrevious
  /\ SnapshotIsPrevious /\ PreflightHasOne /\ LateIsNewer /\ DoneWhenSaid

USE UpgradeAssumption

(* A container is a record of the two fields, whatever it was created from.   *)
LEMMA ContainerType ==
  \A r \in Images : Running(r) \in Containers(Images) /\ Restarting(r) \in Containers(Images)
  BY DEF Containers, Running, Restarting, Statuses

(* A gatewayRunCommand that fails or is cut short leaves the old container,   *)
(* one of the new kind, or none: nothing else is ever on the host.            *)
LEMMA RunLeaves ==
  ASSUME NEW g \in Containers(Images), NEW r \in Images, Created(g),
         NEW x \in RunCutShort(sup, g, r)
  PROVE  x \in Containers(Images) /\ Created(x) /\ x.run \in {g.run, r, Nothing}
  BY DEF Images, Containers, Created, RunCutShort, RunFails, Stopped, Running, Restarting,
     Absent, Statuses

(* An update begins on a database its release has run on.                     *)
LEMMA InitInv == Init => Inv
<1>. SUFFICES ASSUME Init PROVE Inv
  OBVIOUS
<1>1. gw \in Containers(Images) /\ Created(gw) /\ gw.run # "target"
  BY DEF Init, Containers, Statuses, Images, Running, Absent, Created
<1>2. fit \in [Images -> {"good", "repairable", "broken"}]
  BY DEF Init
<1>3. delay \in [Images -> 0..Slowest]
  BY DEF Init, Slowest
<1>4. knows \in [Images -> 1..MaxSchema] /\ schema = knows["prev"] /\ schema \in 1..MaxSchema
  BY DEF Init, Images
<1>5. /\ boot = 0 /\ polls = 0 /\ snap = 0 /\ faults = 0 /\ crashes = 0
      /\ sup \in Supervisors /\ previous = Nothing
      /\ pc = "pull" /\ outcome = "pending"
  BY DEF Init
<1>6. repaired \in BOOLEAN /\ aborted \in BOOLEAN
  BY DEF Init
<1>7. TypeOK
  BY <1>1, <1>2, <1>3, <1>4, <1>5, <1>6 DEF TypeOK, Slowest, Kinds, Steps
<1>. QED
  BY <1>1, <1>4, <1>5, <1>7 DEF Inv, OfOneRelease, EarlyIsPrevious, SnapshotIsPrevious,
     PreflightHasOne, LateIsNewer, DoneWhenSaid, Early, Late, TypeOK, Images

(* A release that opens the database leaves it with its own schema, or as it  *)
(* was.                                                                       *)
LEMMA OpensLeaves ==
  ASSUME Inv, NEW i \in Images, Opens(i)
  PROVE  schema' \in {schema, knows[i]} /\ schema' \in 1..MaxSchema
                                        /\ schema' \in {knows["prev"], knows["target"]}
  BY DEF Opens, Inv, TypeOK, OfOneRelease, Images

(* Every way a run of release i can end: the container is the old one, one of *)
(* i, or none, and the database is as it was or opened by i.                  *)
LEMMA RunEnds ==
  ASSUME Inv, NEW i \in Images,
         \/ Runs(i)
         \/ RunsBadly(i, RunFails(sup, gw, i))
         \/ RunsBadly(i, RunCutShort(sup, gw, i))
  PROVE  /\ gw' \in Containers(Images) /\ Created(gw)'
         /\ gw'.run \in {gw.run, i, Nothing}
         /\ boot' \in 0..Slowest
         /\ schema' \in {schema, knows[i]} /\ schema' \in 1..MaxSchema
         /\ schema' \in {knows["prev"], knows["target"]}
<1>1. i # Nothing
  BY DEF Images
<1>2. CASE Runs(i)
  <2>1. gw' = Running(i) /\ boot' = 0 /\ Opens(i)
    BY <1>2 DEF Runs
  <2>2. Running(i).run = i /\ Created(Running(i))
    BY <1>1 DEF Running, Created
  <2>3. Created(gw)'
    BY <2>1, <2>2 DEF Created
  <2>. QED  BY <2>1, <2>2, <2>3, OpensLeaves, ContainerType DEF Slowest
<1>3. CASE RunsBadly(i, RunFails(sup, gw, i)) \/ RunsBadly(i, RunCutShort(sup, gw, i))
  <2>1. PICK g \in RunCutShort(sup, gw, i) :
          /\ gw' = g /\ boot' \in {boot, 0}
          /\ Opens(i) \/ schema' = schema
    BY <1>3 DEF RunsBadly, RunCutShort
  <2>2. g \in Containers(Images) /\ Created(g) /\ g.run \in {gw.run, i, Nothing}
    BY <1>1, RunLeaves DEF Inv, TypeOK
  <2>3. Created(gw)'
    BY <2>1, <2>2 DEF Created
  <2>4. schema' \in {schema, knows[i]} /\ schema' \in 1..MaxSchema
        /\ schema' \in {knows["prev"], knows["target"]}
    BY <2>1, OpensLeaves DEF Inv, TypeOK, OfOneRelease
  <2>. QED  BY <2>1, <2>2, <2>3, <2>4 DEF Inv, TypeOK, Slowest
<1>. QED  BY <1>2, <1>3

(* The steps before the swap leave the gateway and the database alone, and    *)
(* only go on when the preflight found the target new enough.                 *)
LEMMA EarlyInv ==
  ASSUME Inv, Pull \/ InspectImage \/ TakeSnapshot \/ Preflight
  PROVE  Inv'
<1>1. /\ gw' = gw /\ boot' = boot /\ sup' = sup /\ schema' = schema
      /\ knows' = knows /\ fit' = fit /\ delay' = delay
      /\ repaired' = repaired /\ crashes' = crashes /\ polls' = polls
      /\ aborted' = aborted /\ outcome = "pending"
  <2>1. outcome = "pending"
    BY DEF Pull, InspectImage, TakeSnapshot, Preflight, Sent, Inv, DoneWhenSaid
  <2>. QED
    BY <2>1 DEF Pull, InspectImage, TakeSnapshot, Preflight, env, release
<1>2. schema = knows["prev"] /\ gw.run # "target"
  BY DEF Pull, InspectImage, TakeSnapshot, Preflight, Sent, Inv, EarlyIsPrevious, Early
<1>3. /\ faults' \in 0..MaxFaults
      /\ pc' \in Early \union {"run", "done"} /\ outcome' \in Kinds
      /\ outcome' # "pending" => pc' = "done"
      /\ previous' \in {"prev", Nothing}
      /\ snap' \in {0, knows["prev"]}
      /\ pc' = "preflight" => snap' = knows["prev"]
      /\ pc' = "run" => knows["prev"] <= knows["target"]
  <2>1. CASE Pull
    BY <1>1, <2>1 DEF Pull, Fault, NoFault, Goto, Return, Inv, TypeOK, Kinds, Early,
       SnapshotIsPrevious
  <2>2. CASE InspectImage
    <3>1. previous' \in {"prev", Nothing}
      BY <1>2, <2>2 DEF InspectImage, Inv, TypeOK, Containers, Images
    <3>. QED
      BY <1>1, <2>2, <3>1 DEF InspectImage, Fault, NoFault, Goto, Inv, TypeOK, Kinds, Early,
         SnapshotIsPrevious
  <2>3. CASE TakeSnapshot
    BY <1>1, <1>2, <2>3 DEF TakeSnapshot, Fault, NoFault, Goto, Return, Inv, TypeOK,
       Kinds, Early
  <2>4. CASE Preflight
    BY <1>1, <2>4 DEF Preflight, JudgePreflight, Fault, NoFault, Goto, Return, Sent,
       Inv, TypeOK, Kinds, Early, SnapshotIsPrevious, PreflightHasOne, Images
  <2>. QED  BY <2>1, <2>2, <2>3, <2>4
<1>4. TypeOK'
  BY <1>1, <1>2, <1>3 DEF Inv, TypeOK, Early, Steps, Images
<1>5. Created(gw)'
  BY <1>1 DEF Inv, Created
<1>. QED
  BY <1>1, <1>2, <1>3, <1>4, <1>5 DEF Inv, OfOneRelease, EarlyIsPrevious,
     SnapshotIsPrevious, PreflightHasOne, LateIsNewer, DoneWhenSaid, Early, Late

(* From the swap on the target is the newer one, so whatever a run, a gate or *)
(* the repair do to the database, both stay true of it.                       *)
LEMMA LateStep ==
  ASSUME Inv, pc \in Late, TypeOK', Created(gw)', knows' = knows, snap' = snap,
         schema' \in {knows["prev"], knows["target"]},
         pc' \in Late \union {"done"},
         outcome' \notin {"pullFailed", "noSnapshot", "refused"},
         outcome' # "pending" => pc' = "done"
  PROVE  Inv'
<1>1. knows["prev"] <= knows["target"]
  BY DEF Inv, LateIsNewer
<1>. QED
  BY <1>1 DEF Inv, OfOneRelease, EarlyIsPrevious, SnapshotIsPrevious, PreflightHasOne,
     LateIsNewer, DoneWhenSaid, Early, Late

(* updateGateway's run, the one after the repair, and the one that rolls back.*)
LEMMA SwapInv ==
  ASSUME Inv, RunTarget \/ RunTargetAgain \/ RunPrevious
  PROVE  Inv'
<1>1. PICK i \in Images :
        \/ Runs(i)
        \/ RunsBadly(i, RunFails(sup, gw, i))
        \/ RunsBadly(i, RunCutShort(sup, gw, i))
  BY DEF RunTarget, RunTargetAgain, RunPrevious, Swap, Images
<1>2. pc \in Late /\ outcome = "pending"
  BY DEF RunTarget, RunTargetAgain, RunPrevious, Sent, Late, Inv, DoneWhenSaid
<1>3. /\ polls' = 0 /\ faults' \in 0..MaxFaults
      /\ pc' \in {"gate", "gateAgain", "gateBack", "done"}
      /\ outcome' \in {"pending", "startFailed", "threw"}
      /\ outcome' # "pending" => pc' = "done"
      /\ sup' = sup /\ knows' = knows /\ fit' = fit /\ delay' = delay
      /\ repaired' = repaired /\ crashes' = crashes /\ previous' = previous
      /\ snap' = snap /\ aborted' = aborted
  <2>1. CASE RunTarget
    BY <1>2, <2>1 DEF RunTarget, Swap, Goto, Return, Fault, NoFault, Inv, TypeOK, release
  <2>2. CASE RunTargetAgain
    BY <1>2, <2>2 DEF RunTargetAgain, Swap, Goto, Return, Fault, NoFault, Inv, TypeOK, release
  <2>3. CASE RunPrevious
    BY <1>2, <2>3 DEF RunPrevious, Swap, Goto, Return, Fault, NoFault, Inv, TypeOK, release
  <2>. QED  BY <2>1, <2>2, <2>3
<1>4. /\ gw' \in Containers(Images) /\ Created(gw)' /\ boot' \in 0..Slowest
      /\ schema' \in 1..MaxSchema /\ schema' \in {knows["prev"], knows["target"]}
  BY <1>1, RunEnds
<1>5. TypeOK'
  BY <1>3, <1>4 DEF Inv, TypeOK, Steps, Kinds
<1>. QED  BY <1>2, <1>3, <1>4, <1>5, LateStep DEF Late

(* A poll of a gate only lets time pass, and decides what comes next.         *)
LEMMA GateInv ==
  ASSUME Inv, GateFirst \/ GateAgain \/ GateBack
  PROVE  Inv'
<1>1. pc \in Late /\ outcome = "pending"
  BY DEF GateFirst, GateAgain, GateBack, Late, Inv, DoneWhenSaid
<1>2. /\ pc' \in Late \union {"done"}
      /\ outcome' \in {"pending", "started", "repaired", "rolledBack", "failed"}
      /\ outcome' # "pending" => pc' = "done"
      /\ polls' \in 0..GateBudget - 1
      /\ boot' = boot \/ Tick
      /\ NoFault
      /\ UNCHANGED <<gw, sup, schema, release, repaired, crashes, previous, snap, aborted>>
  <2>1. CASE GateFirst
    BY <1>1, <2>1 DEF GateFirst, Gate, Goto, Return, Inv, TypeOK, Late
  <2>2. CASE GateAgain
    BY <1>1, <2>2 DEF GateAgain, Gate, Goto, Return, Inv, TypeOK, Late
  <2>3. CASE GateBack
    BY <1>1, <2>3 DEF GateBack, Gate, Goto, Return, Inv, TypeOK, Late
  <2>. QED  BY <2>1, <2>2, <2>3
<1>3. boot' \in 0..Slowest
  BY <1>2 DEF Tick, Slowest, Inv, TypeOK
<1>4. TypeOK'
  BY <1>2, <1>3 DEF NoFault, release, Inv, TypeOK, Late, Steps, Kinds
<1>5. Created(gw)'
  BY <1>2 DEF Inv, Created
<1>6. schema' \in {knows["prev"], knows["target"]}
  BY <1>2 DEF Inv, OfOneRelease
<1>. QED  BY <1>1, <1>2, <1>4, <1>5, <1>6, LateStep DEF release

(* The repair opens the database with the target.                             *)
LEMMA RepairInv ==
  ASSUME Inv, Repair
  PROVE  Inv'
<1>1. pc \in Late /\ outcome = "pending"
  BY DEF Repair, Sent, Late, Inv, DoneWhenSaid
<1>2. schema' \in 1..MaxSchema /\ schema' \in {knows["prev"], knows["target"]}
  BY OpensLeaves DEF Repair, Inv, TypeOK, OfOneRelease, Images
<1>3. /\ pc' = "runAgain" /\ outcome' = outcome
      /\ UNCHANGED <<gw, boot, sup, release, crashes, polls, previous, snap, aborted>>
  BY DEF Repair, Goto
<1>4. faults' \in 0..MaxFaults
  BY DEF Repair, Fault, NoFault, Inv, TypeOK
<1>5. repaired' \in BOOLEAN
  BY ZenonT(30) DEF Repair, Inv, TypeOK
<1>6. TypeOK'
  BY <1>2, <1>3, <1>4, <1>5 DEF release, Inv, TypeOK, Steps
<1>7. Created(gw)'
  BY <1>3 DEF Inv, Created
<1>. QED  BY <1>1, <1>2, <1>3, <1>6, <1>7, LateStep DEF Late, release

(* A flow that ends by an exception leaves the host as it is.                 *)
LEMMA RejectedInv ==
  ASSUME Inv, Rejected
  PROVE  Inv'
<1>1. /\ pc' = "done" /\ outcome' = "threw" /\ faults' = faults
      /\ UNCHANGED <<env, polls, previous, snap, aborted>>
  BY DEF Rejected, Return, NoFault
<1>2. TypeOK'
  BY <1>1 DEF env, release, Inv, TypeOK, Steps, Kinds
<1>. QED
  BY <1>1, <1>2 DEF env, release, Inv, Created, OfOneRelease, EarlyIsPrevious,
     SnapshotIsPrevious, PreflightHasOne, LateIsNewer, DoneWhenSaid, Early, Late

(* A crash changes nothing on disk, and the supervisor starts again what was  *)
(* there: before the swap and after a refusal that is the previous release,   *)
(* which leaves its own database as it is.                                    *)
LEMMA WorldInv ==
  ASSUME Inv, GatewayCrashes \/ SupervisorRestarts \/ OperatorAborts
  PROVE  Inv'
<1>1. CASE GatewayCrashes
  <2>1. /\ gw' = Restarting(gw.run) /\ gw.st = "running"
        /\ crashes' \in 0..MaxCrashes
        /\ UNCHANGED <<boot, sup, schema, release, repaired, flow, aborted>>
    BY <1>1 DEF GatewayCrashes, Inv, TypeOK
  <2>2. gw.run \in Images
    BY <2>1 DEF Inv, TypeOK, Containers, Created, Absent
  <2>3. gw' \in Containers(Images) /\ gw'.run = gw.run
    BY <2>1, <2>2, ContainerType DEF Restarting
  <2>4. Created(gw)'
    BY <2>2, <2>3 DEF Created, Images
  <2>5. TypeOK'
    BY <2>1, <2>3 DEF release, flow, Inv, TypeOK
  <2>. QED
    BY <2>1, <2>3, <2>4, <2>5 DEF release, flow, Inv, OfOneRelease, EarlyIsPrevious,
       SnapshotIsPrevious, PreflightHasOne, LateIsNewer, DoneWhenSaid, Early, Late
<1>2. CASE SupervisorRestarts
  <2>1. /\ Runs(gw.run) /\ gw.st = "restarting"
        /\ UNCHANGED <<sup, release, repaired, crashes, flow, aborted>>
    BY <1>2 DEF SupervisorRestarts
  <2>2. gw.run \in Images
    BY <2>1 DEF Inv, TypeOK, Containers, Created, Absent
  <2>3. /\ gw' \in Containers(Images) /\ Created(gw)' /\ gw'.run \in {gw.run, Nothing}
        /\ boot' \in 0..Slowest /\ schema' \in {schema, knows[gw.run]}
        /\ schema' \in 1..MaxSchema /\ schema' \in {knows["prev"], knows["target"]}
    BY <2>1, <2>2, RunEnds
  <2>4. TypeOK'
    BY <2>1, <2>3 DEF release, flow, Inv, TypeOK
  <2>. QED
    BY <2>1, <2>2, <2>3, <2>4 DEF release, flow, Inv, OfOneRelease, EarlyIsPrevious,
       SnapshotIsPrevious, PreflightHasOne, LateIsNewer, DoneWhenSaid, Early, Late, Images
<1>3. CASE OperatorAborts
  <2>1. aborted' \in BOOLEAN /\ UNCHANGED <<env, flow>>
    BY <1>3 DEF OperatorAborts
  <2>2. TypeOK'
    BY <2>1 DEF env, release, flow, Inv, TypeOK
  <2>. QED
    BY <2>1, <2>2 DEF env, release, flow, Inv, Created, OfOneRelease, EarlyIsPrevious,
       SnapshotIsPrevious, PreflightHasOne, LateIsNewer, DoneWhenSaid, Early, Late
<1>. QED  BY <1>1, <1>2, <1>3

(* In every state of an upgrade the database is of one of the two releases,   *)
(* and of the previous one until the target was found fit to run on it.       *)
THEOREM Invariance == Spec => []Inv
<1>1. Inv /\ [Next]_vars => Inv'
  <2>. SUFFICES ASSUME Inv, [Next]_vars PROVE Inv'
    OBVIOUS
  <2>1. CASE Flow
    BY <2>1, EarlyInv, SwapInv, GateInv, RepairInv, RejectedInv DEF Flow
  <2>2. CASE GatewayCrashes \/ SupervisorRestarts \/ OperatorAborts
    BY <2>2, WorldInv
  <2>3. CASE UNCHANGED vars
    BY <2>3 DEF vars, Inv, TypeOK, Created, OfOneRelease, EarlyIsPrevious,
       SnapshotIsPrevious, PreflightHasOne, LateIsNewer, DoneWhenSaid, Early, Late
  <2>. QED  BY <2>1, <2>2, <2>3 DEF Next
<1>. QED  BY InitInv, <1>1, PTL DEF Spec

(* updateGateway and its hooks keep the container, the database and the state *)
(* of the flow well formed, the polls of each gate within its budget.         *)
THEOREM TypeCorrect == Spec => []TypeOK
<1>1. Inv => TypeOK
  BY DEF Inv
<1>. QED  BY <1>1, Invariance, PTL

(* judgePreflight's verdict on the snapshot holds for the live database: the  *)
(* target never runs on one written by a release newer than itself.           *)
THEOREM TargetSafe == Spec => []TargetUnderstandsState
<1>1. Inv => TargetUnderstandsState
  BY DEF Inv, TypeOK, OfOneRelease, LateIsNewer, TargetUnderstandsState, Images
<1>. QED  BY <1>1, Invariance, PTL

(* An update refused before the swap has neither replaced the container nor   *)
(* migrated the database.                                                     *)
THEOREM RefusalSafe == Spec => []RefusalKeepsServing
<1>1. Inv => RefusalKeepsServing
  BY DEF Inv, EarlyIsPrevious, RefusalKeepsServing
<1>. QED  BY <1>1, Invariance, PTL

(* The snapshot an update points its operator to is one the previous release  *)
(* can take over, however far the update got.                                 *)
THEOREM SnapshotSafe == Spec => []SnapshotFitsPrevious
<1>1. Inv => SnapshotFitsPrevious
  BY DEF Inv, TypeOK, SnapshotIsPrevious, SnapshotFitsPrevious, Images
<1>. QED  BY <1>1, Invariance, PTL

----------------------------------------------------------------------------
(* A target that can run here and starts within a gate, in an update in which *)
(* nothing fails, crashes or is interrupted.                                  *)
Good ==
  /\ fit["target"] # "broken" /\ delay["target"] < GateBudget
  /\ faults = 0 /\ crashes = 0 /\ ~aborted

(* Such an update comes no further than the second gate.  There the target is *)
(* repaired and up, and as long as the gate has been asking.                  *)
NoWayBack == pc \notin {"runBack", "gateBack"} /\ outcome \notin {"rolledBack", "failed"}
RepairedByThen == pc \in {"runAgain", "gateAgain"} => repaired
UpSinceAsked == pc = "gateAgain" => gw.st = "running" /\ gw.run = "target" /\ boot >= polls

GoodInv == Good => NoWayBack /\ RepairedByThen /\ UpSinceAsked

(* What was bad stays bad: nothing that failed is forgotten.                  *)
LEMMA GoodBefore ==
  ASSUME Inv, Next, Good'
  PROVE  Good
<1>1. UNCHANGED <<fit, delay>>
  BY DEF Next, Flow, Pull, InspectImage, TakeSnapshot, Preflight, RunTarget, GateFirst, Repair,
     RunTargetAgain, GateAgain, RunPrevious, GateBack, Rejected, Swap, Gate, GatewayCrashes,
     SupervisorRestarts, OperatorAborts, env, release
<1>2. faults' = faults \/ faults' = faults + 1
  BY DEF Next, Flow, Pull, InspectImage, TakeSnapshot, Preflight, RunTarget, GateFirst, Repair,
     RunTargetAgain, GateAgain, RunPrevious, GateBack, Rejected, Swap, Gate, GatewayCrashes,
     SupervisorRestarts, OperatorAborts, flow, Fault, NoFault
<1>3. crashes' = crashes \/ crashes' = crashes + 1
  BY DEF Next, Flow, Pull, InspectImage, TakeSnapshot, Preflight, RunTarget, GateFirst, Repair,
     RunTargetAgain, GateAgain, RunPrevious, GateBack, Rejected, Swap, Gate, GatewayCrashes,
     SupervisorRestarts, OperatorAborts, env
<1>4. UNCHANGED aborted \/ aborted'
  BY ZenonT(30) DEF Next, Flow, Pull, InspectImage, TakeSnapshot, Preflight, RunTarget, GateFirst,
     Repair, RunTargetAgain, GateAgain, RunPrevious, GateBack, Rejected, Swap, Gate,
     GatewayCrashes, SupervisorRestarts, OperatorAborts
<1>. QED  BY <1>1, <1>2, <1>3, <1>4 DEF Good, Inv, TypeOK

(* At the second gate a good target fits its database.                        *)
LEMMA FitsByThen ==
  ASSUME Inv, Good, GoodInv, pc = "gateAgain"
  PROVE  Fits("target")
<1>1. "target" \in Images /\ "prev" \in Images
  BY DEF Images
<1>2. schema <= knows["target"]
  BY <1>1 DEF Inv, TypeOK, OfOneRelease, LateIsNewer, Late
<1>3. fit["target"] \in {"good", "repairable"}
  BY <1>1 DEF Good, Inv, TypeOK
<1>. QED  BY <1>2, <1>3 DEF GoodInv, RepairedByThen, Fits, Understands

(* Each step of the flow keeps a good update on its way.                      *)
LEMMA GoodFlow ==
  ASSUME Inv, Good, GoodInv, Flow, Good'
  PROVE  NoWayBack' /\ RepairedByThen' /\ UpSinceAsked'
<1>1. faults' = faults /\ NoWayBack
  BY DEF Good, GoodInv
<1>2. CASE Pull \/ InspectImage \/ TakeSnapshot \/ Preflight \/ RunTarget \/ GateFirst \/ Rejected
  <2>1. pc' \in {"inspect", "snapshot", "preflight", "run", "gate", "repair", "done"}
        /\ outcome' \notin {"rolledBack", "failed"}
    BY <1>1, <1>2 DEF Pull, InspectImage, TakeSnapshot, Preflight, RunTarget, GateFirst, Rejected,
       Swap, Gate, Goto, Return, Sent, NoWayBack
  <2>. QED  BY <2>1 DEF NoWayBack, RepairedByThen, UpSinceAsked
<1>3. CASE Repair
  <2>1. faults' # faults + 1
    BY <1>1 DEF Inv, TypeOK
  <2>2. repaired' /\ pc' = "runAgain" /\ outcome' = outcome
    BY <1>3, <2>1 DEF Repair, Fault, Goto
  <2>. QED  BY <1>1, <2>2 DEF NoWayBack, RepairedByThen, UpSinceAsked
<1>4. CASE RunTargetAgain
  <2>1. faults' # faults + 1
    BY <1>1 DEF Inv, TypeOK
  <2>2. repaired /\ repaired' = repaired /\ polls' = 0
    BY <1>4 DEF RunTargetAgain, Swap, Sent, GoodInv, RepairedByThen
  <2>3. \/ pc' = "done" /\ outcome' = "threw"
        \/ pc' = "gateAgain" /\ outcome' = outcome /\ gw' = Running("target") /\ boot' = 0
    BY <1>4, <2>1 DEF RunTargetAgain, Swap, Runs, Fault, Goto, Return
  <2>. QED  BY <1>1, <2>2, <2>3 DEF NoWayBack, RepairedByThen, UpSinceAsked, Running
<1>5. CASE GateAgain
  <2>1. /\ repaired /\ repaired' = repaired /\ gw' = gw /\ ~aborted
        /\ gw.st = "running" /\ gw.run = "target" /\ boot >= polls
    BY <1>5 DEF GateAgain, Gate, Good, GoodInv, RepairedByThen, UpSinceAsked
  <2>2. "target" \in Images /\ delay["target"] \in Nat /\ boot \in Nat /\ polls \in Nat
        /\ delay["target"] < GateBudget /\ boot <= Slowest /\ polls < GateBudget
    BY DEF Images, Inv, TypeOK, Slowest, Good
  <2>3. boot >= delay["target"] => Started
    BY <1>5, <2>1, FitsByThen DEF GateAgain, Started
  <2>4. CASE Started
    <3>1. pc' = "done" /\ outcome' = "repaired"
      BY <1>5, <2>1, <2>4 DEF GateAgain, Gate, Return
    <3>. QED  BY <3>1 DEF NoWayBack, RepairedByThen, UpSinceAsked
  <2>5. CASE ~Started
    <3>1. polls + 1 < GateBudget
      <4>1. boot < delay["target"]
        BY <2>2, <2>3, <2>5
      <4>. QED  BY <2>1, <2>2, <4>1, UpgradeAssumption
    <3>2. pc' = pc /\ outcome' = outcome /\ polls' = polls + 1 /\ Tick
      BY <1>5, <2>1, <2>2, <2>5, <3>1 DEF GateAgain, Gate
    <3>3. boot' >= polls'
      BY <2>1, <2>2, <3>1, <3>2 DEF Tick, Slowest
    <3>. QED  BY <1>1, <2>1, <3>2, <3>3 DEF NoWayBack, RepairedByThen, UpSinceAsked
  <2>. QED  BY <2>4, <2>5
<1>6. ~RunPrevious /\ ~GateBack
  BY <1>1 DEF NoWayBack, RunPrevious, GateBack, Sent
<1>. QED  BY <1>2, <1>3, <1>4, <1>5, <1>6 DEF Flow

(* The gate decides well: a release that starts within it, by itself or once  *)
(* repaired, is neither rolled back nor given up, for any budget and delay.   *)
THEOREM GoodKept == Spec => []GoodTargetIsKept
<1>1. Init => GoodInv
  BY DEF Init, GoodInv, NoWayBack, RepairedByThen, UpSinceAsked
<1>2. Inv /\ GoodInv /\ [Next]_vars => GoodInv'
  <2>. SUFFICES ASSUME Inv, GoodInv, [Next]_vars PROVE GoodInv'
    OBVIOUS
  <2>1. CASE UNCHANGED vars
    BY <2>1 DEF vars, GoodInv, Good, NoWayBack, RepairedByThen, UpSinceAsked
  <2>2. CASE Next
    <3>. SUFFICES ASSUME Good' PROVE NoWayBack' /\ RepairedByThen' /\ UpSinceAsked'
      BY DEF GoodInv
    <3>1. Good
      BY <2>2, GoodBefore
    <3>2. CASE Flow
      BY <3>1, <3>2, GoodFlow
    <3>3. CASE GatewayCrashes \/ SupervisorRestarts \/ OperatorAborts
      <4>1. /\ UNCHANGED <<pc, polls, outcome, repaired>> /\ crashes' = crashes
            /\ NoWayBack /\ RepairedByThen /\ UpSinceAsked
        BY <3>1, <3>3 DEF GatewayCrashes, SupervisorRestarts, OperatorAborts, flow, env, GoodInv, Good
      <4>2. pc = "gateAgain" => UNCHANGED <<gw, boot>>
        <5>1. CASE OperatorAborts
          BY <5>1 DEF OperatorAborts, env
        <5>2. CASE SupervisorRestarts
          BY <4>1, <5>2 DEF SupervisorRestarts, UpSinceAsked
        <5>3. CASE GatewayCrashes /\ pc = "gateAgain"
          <6>1. Fits(gw.run)
            BY <3>1, <4>1, <5>3, FitsByThen DEF UpSinceAsked
          <6>2. crashes' = crashes + 1
            BY <5>3, <6>1 DEF GatewayCrashes
          <6>. QED  BY <4>1, <6>2 DEF Inv, TypeOK
        <5>. QED  BY <3>3, <5>1, <5>2, <5>3
      <4>. QED  BY <4>1, <4>2 DEF NoWayBack, RepairedByThen, UpSinceAsked
    <3>. QED  BY <2>2, <3>2, <3>3 DEF Next
  <2>. QED  BY <2>1, <2>2
<1>3. Inv /\ GoodInv => GoodTargetIsKept
  BY DEF Inv, TypeOK, Images, GoodInv, Good, NoWayBack, GoodTargetIsKept
<1>. QED  BY <1>1, <1>2, <1>3, Invariance, PTL DEF Spec
=============================================================================
