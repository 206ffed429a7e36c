------------------------------ MODULE Upgrade ------------------------------
(* `clawops gateway update <version>`: updateGateway of                       *)
(* openclaw/gateway-ops.ts with judgePreflight and resolveUpgrade of          *)
(* openclaw/upgrade.ts, on a host whose gateway keeps its state in one SQLite *)
(* database.  A release that opens a database of an older schema migrates it, *)
(* and there is no way back.                                                  *)
EXTENDS GatewayHost

CONSTANTS
  MaxSchema,    \* schemas 1..MaxSchema
  GateBudget,   \* polls of /startupz a gate allows   (15 x 2 s)
  MaxFaults,    \* commands that fail on the host
  MaxCrashes    \* times a gateway that can start goes down by itself

ASSUME UpgradeAssumption ==
  /\ MaxSchema \in Nat \ {0} /\ GateBudget \in Nat \ {0}
  /\ MaxFaults \in Nat /\ MaxCrashes \in Nat
  /\ Nothing \notin {"prev", "target"}

(* The release the host runs and the one it is asked to run.                  *)
Images == {"prev", "target"}
Slowest == 2 * GateBudget

VARIABLES
  gw,         \* the container; gw.run is its image
  boot,       \* polls since it last started
  sup,
  schema,     \* schema of the live database
  knows,      \* the newest schema each release understands
  fit,        \* whether each release can run here at all
  delay,      \* polls each release needs to start
  repaired,   \* `doctor --fix` has run
  pc, polls,
  previous,   \* previousVersion: "prev", or Nothing when docker could not say
  snap,       \* schema of the snapshot; 0 before there is one
  outcome, aborted, faults, crashes

release == <<knows, fit, delay>>
env     == <<gw, boot, sup, schema, release, repaired, crashes>>
vars    == <<gw, boot, sup, schema, knows, fit, delay, repaired, pc, polls,
             previous, snap, outcome, aborted, faults, crashes>>

Kinds == {"pending", "pullFailed", "noSnapshot", "refused", "startFailed",
          "started", "repaired", "rolledBack", "failed", "threw"}
Steps == {"pull", "inspect", "snapshot", "preflight", "run", "gate",
          "repair", "runAgain", "gateAgain", "runBack", "gateBack", "done"}

TypeOK ==
  /\ gw \in Containers(Images)
  /\ boot \in 0..Slowest
  /\ sup \in Supervisors
  /\ schema \in 1..MaxSchema
  /\ knows \in [Images -> 1..MaxSchema]
  /\ fit \in [Images -> {"good", "repairable", "broken"}]
  /\ delay \in [Images -> 0..Slowest]
  /\ repaired \in BOOLEAN
  /\ pc \in Steps
  /\ polls \in 0..GateBudget - 1
  /\ previous \in {"prev", Nothing}
  /\ snap \in 0..MaxSchema
  /\ outcome \in Kinds
  /\ aborted \in BOOLEAN
  /\ faults \in 0..MaxFaults
  /\ crashes \in 0..MaxCrashes

Init ==
  /\ gw \in {Running("prev"), Absent}
  /\ sup \in Supervisors
  /\ knows \in [Images -> 1..MaxSchema]
  /\ schema = knows["prev"]           \* it has run here
  /\ \E f \in {"good", "repairable", "broken"}, slow \in 0..Slowest :
       /\ fit = [i \in Images |-> IF i = "prev" THEN "good" ELSE f]
       /\ delay = [i \in Images |-> IF i = "prev" THEN 0 ELSE slow]
  /\ boot = 0 /\ repaired = FALSE
  /\ pc = "pull" /\ polls = 0 /\ previous = Nothing /\ snap = 0
  /\ outcome = "pending" /\ aborted = FALSE
  /\ faults = 0 /\ crashes = 0

----------------------------------------------------------------------------
(* A release on the database it finds.                                        *)

Understands(i) == schema <= knows[i]

Fits(i) == Understands(i) /\ (fit[i] = "good" \/ (fit[i] = "repairable" /\ repaired))

(* Opening the database migrates it; a release that is going to fail anyway   *)
(* may fail before or after that.                                             *)
Opens(i) == schema' \in IF ~Understands(i) THEN {schema}
                        ELSE IF Fits(i) THEN {knows[i]}
                        ELSE {schema, knows[i]}

Runs(i) == gw' = Running(i) /\ boot' = 0 /\ Opens(i)

Started == gw.st = "running" /\ Fits(gw.run) /\ boot >= delay[gw.run]

Fault   == faults < MaxFaults /\ faults' = faults + 1
NoFault == UNCHANGED faults

(* A command goes out unless the signal is raised.                            *)
Sent(step) == pc = step /\ ~aborted

Goto(step) == pc' = step /\ UNCHANGED outcome
Return(k)  == pc' = "done" /\ outcome' = k

----------------------------------------------------------------------------
(* Before the swap: the current gateway keeps serving.                        *)

Pull ==
  /\ Sent("pull")
  /\ \/ Goto("inspect") /\ NoFault
     \/ Return("pullFailed") /\ Fault
  /\ UNCHANGED <<env, polls, previous, snap, aborted>>

\* A failed command is taken for a host without a container: nobody reads its exit code.
InspectImage ==
  /\ Sent("inspect")
  /\ \/ previous' = Nothing /\ Fault
     \/ /\ \E found \in InspectFinds(sup, gw) :
             previous' = IF found THEN gw.run ELSE Nothing
        /\ NoFault
  /\ Goto("snapshot")
  /\ UNCHANGED <<env, polls, snap, aborted>>

(* A consolidated copy of the live database, made by the image that runs, or  *)
(* by the target's when docker could not name it: `backup sqlite create`      *)
(* checkpoints and copies, and is taken not to migrate whichever runs it.  A  *)
(* snapshot whose path cannot be read is none.                                *)
SnapshotAfterSwap ==                 \* a variant: the target is started first
  /\ Sent("snapshot")
  /\ Runs("target") /\ snap' = schema'
  /\ Goto("preflight") /\ NoFault
  /\ UNCHANGED <<sup, release, repaired, crashes, polls, previous, aborted>>

TakeSnapshot ==
  /\ Sent("snapshot")
  /\ \/ snap' = schema /\ Goto("preflight") /\ NoFault
     \/ snap' = 0 /\ Return("noSnapshot") /\ Fault
  /\ UNCHANGED <<env, polls, previous, aborted>>

(* judgePreflight on what the TARGET release says of the snapshot.            *)
JudgeNothing(found, understood) == TRUE   \* a variant
JudgePreflight(found, understood) == ~(found > understood)

Preflight ==
  /\ Sent("preflight")
  /\ \/ JudgePreflight(snap, knows["target"]) /\ Goto("run") /\ NoFault
     \/ ~JudgePreflight(snap, knows["target"]) /\ Return("refused") /\ NoFault
     \/ Return("refused") /\ Fault          \* indeterminate, or no report
  /\ UNCHANGED <<env, polls, previous, snap, aborted>>

----------------------------------------------------------------------------
(* The swap.                                                                  *)

(* A run that did not succeed, or was cut short: if it got as far as starting *)
(* the release, that has opened the database.                                 *)
RunsBadly(i, left) ==
  \E g \in left :
    /\ gw' = g
    /\ boot' \in IF g = gw THEN {boot, 0} ELSE {0}
    /\ IF g \in {Running(i), Restarting(i)} THEN Opens(i) ELSE UNCHANGED schema

Swap(i, onDone, onError) ==
  /\ \/ Runs(i) /\ onDone /\ NoFault
     \/ RunsBadly(i, RunFails(sup, gw, i)) /\ onError /\ Fault
     \/ RunsBadly(i, RunCutShort(sup, gw, i)) /\ Return("threw") /\ NoFault
  /\ polls' = 0
  /\ UNCHANGED <<sup, release, repaired, crashes, previous, snap, aborted>>

(* updateGateway's own run: an exit code that is not 0 ends the update.       *)
RunTarget ==
  Sent("run") /\ Swap("target", Goto("gate"), Return("startFailed"))

(* steps.run of resolveUpgrade: nothing looks at the exit code.               *)
RunTargetAgain ==
  Sent("runAgain") /\ Swap("target", Goto("gateAgain"), Goto("gateAgain"))

RunPrevious ==
  Sent("runBack") /\ Swap("prev", Goto("gateBack"), Goto("gateBack"))

Tick == boot' = IF gw.st = "running" /\ boot < Slowest THEN boot + 1 ELSE boot

(* gate(): polls until started, its budget, or an abort.                      *)
Gate(onStarted, onNot) ==
  /\ \/ ~aborted /\ Started /\ onStarted /\ polls' = 0 /\ UNCHANGED boot
     \/ /\ ~aborted /\ ~Started /\ polls + 1 < GateBudget
        /\ polls' = polls + 1 /\ Tick /\ UNCHANGED <<pc, outcome>>
     \/ /\ ~aborted /\ ~Started /\ polls + 1 >= GateBudget
        /\ onNot /\ polls' = 0 /\ Tick
     \/ aborted /\ onNot /\ polls' = 0 /\ UNCHANGED boot
  /\ NoFault
  /\ UNCHANGED <<gw, sup, schema, release, repaired, crashes, previous, snap, aborted>>

GateFirst == pc = "gate" /\ Gate(Return("started"), Goto("repair"))

(* `doctor --fix` with the target image, in a container of its own; its exit  *)
(* code is not read, and it opens the database like any start does.           *)
RepairSkipped ==                     \* a variant
  /\ Sent("repair") /\ Goto("runAgain") /\ NoFault
  /\ UNCHANGED <<env, polls, previous, snap, aborted>>

Repair ==
  /\ Sent("repair")
  /\ \/ repaired' = TRUE /\ NoFault /\ Opens("target")
     \/ UNCHANGED <<repaired, schema>> /\ Fault
  /\ Goto("runAgain")
  /\ UNCHANGED <<gw, boot, sup, release, crashes, polls, previous, snap, aborted>>

GateAgain ==
  pc = "gateAgain" /\
  Gate(Return("repaired"), IF previous = Nothing THEN Return("failed") ELSE Goto("runBack"))

GateBack == pc = "gateBack" /\ Gate(Return("rolledBack"), Return("failed"))

(* A command that rejects (the session is gone, or the signal was raised)     *)
(* leaves updateGateway as an exception, wherever it is.                      *)
Rejected ==
  /\ pc # "done"
  /\ aborted => pc \notin {"gate", "gateAgain", "gateBack"}
  /\ Return("threw") /\ NoFault
  /\ UNCHANGED <<env, polls, previous, snap, aborted>>

Flow ==
  \/ Pull \/ InspectImage \/ TakeSnapshot \/ Preflight
  \/ RunTarget \/ GateFirst \/ Repair \/ RunTargetAgain \/ GateAgain
  \/ RunPrevious \/ GateBack \/ Rejected

----------------------------------------------------------------------------
(* The world around it.                                                       *)

flow == <<pc, polls, previous, snap, outcome, faults>>

GatewayCrashes ==
  /\ gw.st = "running"
  /\ IF Fits(gw.run) THEN crashes < MaxCrashes /\ crashes' = crashes + 1
                     ELSE UNCHANGED crashes
  /\ gw' = Restarting(gw.run)
  /\ UNCHANGED <<boot, sup, schema, release, repaired, flow, aborted>>

SupervisorRestarts ==
  /\ gw.st = "restarting"
  /\ Runs(gw.run)
  /\ UNCHANGED <<sup, release, repaired, crashes, flow, aborted>>

OperatorAborts ==
  /\ ~aborted /\ pc # "done"
  /\ aborted' = TRUE
  /\ UNCHANGED <<env, flow>>

Next == Flow \/ GatewayCrashes \/ SupervisorRestarts \/ OperatorAborts

Spec == Init /\ [][Next]_vars

----------------------------------------------------------------------------
(* What must hold.                                                            *)

(* What judgePreflight refuses never happens to the TARGET release, although  *)
(* the verdict was given on a snapshot: it never runs on a database of a      *)
(* schema from its future.                                                    *)
TargetUnderstandsState ==
  gw.run = "target" => schema <= knows["target"]

(* Refused before the swap, the host is as it was: the container was not      *)
(* replaced and the database was not migrated.                                *)
RefusalKeepsServing ==
  outcome \in {"pullFailed", "noSnapshot", "refused"}
    => gw.run # "target" /\ schema = knows["prev"]

(* Whatever the upgrade did, the snapshot it points to is of the state before *)
(* it: one the previous release can take over.                                *)
SnapshotFitsPrevious ==
  outcome \in {"refused", "startFailed", "rolledBack", "failed"} /\ snap # 0
    => snap <= knows["prev"]

(* A release that starts within the gate, on its own or once repaired, is not *)
(* rolled back, when nothing failed and nobody interrupted.                   *)
GoodTargetIsKept ==
  ( /\ outcome \in {"rolledBack", "failed"}
    /\ faults = 0 /\ crashes = 0 /\ ~aborted )
    => fit["target"] = "broken" \/ delay["target"] >= GateBudget

----------------------------------------------------------------------------
(* What the code or its documents say, and the code does not do.              *)

(* "the older release would read a database written by a newer one": what the *)
(* preflight refuses for the target, the rollback does with the previous      *)
(* release.                                                                   *)
PreviousUnderstandsState ==
  gw.st = "running" /\ gw.run = "prev" => schema <= knows["prev"]
=============================================================================
