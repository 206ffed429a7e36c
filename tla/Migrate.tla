------------------------------ MODULE Migrate ------------------------------
(* `clawops migrate`: migrate of openclaw/migrate.ts on the effects of        *)
(* migrationSteps in openclaw/migrate-flow.ts, run on a connection of its own *)
(* and, when it fails, run again.                                             *)
(*                                                                            *)
(* A 1.x gateway keeps its state in its own container: removing the container *)
(* removes the state, and whatever else was written in there.  2.x keeps it   *)
(* in the state directory on the host, migrates the 1.x schema on its first   *)
(* start without answering, then answers "migration pending", and serves from *)
(* its second start on; a start that interrupts the migration wrecks it.      *)
EXTENDS GatewayHost

CONSTANTS
  SilentBudget,   \* polls a gate allows in all                  (60 x 2 s)
  PendingBudget,  \* of those, polls that answered "not started" (15 x 2 s)
  MaxMigration,   \* polls a schema migration may take
  MaxRuns,        \* times the operator runs the command
  MaxFaults, MaxCrashes

ASSUME MigrateAssumption ==
  /\ SilentBudget \in Nat \ {0} /\ PendingBudget \in 1..SilentBudget
  /\ MaxMigration \in Nat /\ MaxRuns \in Nat \ {0}
  /\ MaxFaults \in Nat /\ MaxCrashes \in Nat
  /\ Nothing \notin {"source", "target"}

Images == {"source", "target"}

VARIABLES
  gw, sup,
  source,     \* what is deployed: its line, and whether its tag is a release
  hostState,  \* the state directory on the host
  archive,    \* where PREMIGRATION_ARCHIVE is
  owned,      \* the state directory belongs to the container's user
  config,     \* whose openclaw.json is in it
  db,         \* the database there, as 2.x sees it
  left,       \* polls its migration still needs
  takes,      \* polls it needs in all
  pc, polls, answered, outcome, runs, aborted, faults, crashes

disk == <<hostState, archive, owned, config>>
env  == <<gw, sup, source, db, left, takes, crashes>>
vars == <<gw, sup, source, hostState, archive, owned, config, db, left, takes,
          pc, polls, answered, outcome, runs, aborted, faults, crashes>>

Kinds == {"pending", "migrated", "nothing", "current", "refused",
          "notExtracted", "notStarted", "threw"}
Steps == {"inspect", "pull", "backup", "extract", "chown", "stop", "rm",
          "config", "start", "gate", "startAgain", "gateAgain", "done"}

TypeOK ==
  /\ gw \in Containers(Images)
  /\ sup \in Supervisors
  /\ source \in [line : {1, 2}, tag : {"release", "moving"}]
  /\ hostState \in {"none", "partial", "whole"}
  /\ archive \in {"none", "container"}
  /\ owned \in BOOLEAN
  /\ config \in {"none", "own", "minimal"}
  /\ db \in {"v1", "migrating", "pending", "v2", "wrecked"}
  /\ left \in 0..MaxMigration /\ takes \in 0..MaxMigration
  /\ pc \in Steps
  /\ polls \in 0..SilentBudget /\ answered \in 0..PendingBudget
  /\ outcome \in Kinds
  /\ runs \in 1..MaxRuns
  /\ aborted \in BOOLEAN
  /\ faults \in 0..MaxFaults /\ crashes \in 0..MaxCrashes

Init ==
  /\ gw = Running("source")
  /\ sup \in Supervisors
  /\ source \in [line : {1, 2}, tag : {"release", "moving"}]
  /\ IF source.line = 1
       THEN hostState = "none" /\ config = "none" /\ db = "v1" /\ owned = FALSE
       ELSE hostState = "whole" /\ config = "own" /\ db = "v2" /\ owned = TRUE
  /\ archive = "none"
  /\ takes \in 0..MaxMigration /\ left = 0
  /\ pc = "inspect" /\ polls = 0 /\ answered = 0 /\ outcome = "pending"
  /\ runs = 1 /\ aborted = FALSE
  /\ faults = 0 /\ crashes = 0

----------------------------------------------------------------------------
Fault   == faults < MaxFaults /\ faults' = faults + 1
NoFault == UNCHANGED faults

Sent(step) == pc = step /\ ~aborted

Goto(step) == pc' = step /\ UNCHANGED outcome
Return(k)  == pc' = "done" /\ outcome' = k

(* What is in a container goes with it.                                       *)
Replace(g) ==
  /\ gw' = g
  /\ archive' = IF g.run = gw.run THEN archive ELSE "none"

(* A 2.x gateway starting on the state directory.                             *)
CanOpen == owned /\ config # "none"

Opens ==
  IF ~CanOpen THEN UNCHANGED <<db, left>>
  ELSE CASE db = "v1" -> /\ left' = takes
                         /\ db' = IF takes = 0 THEN "pending" ELSE "migrating"
         [] db = "migrating" -> db' = "wrecked" /\ left' = 0
         [] db = "pending" -> db' = "v2" /\ UNCHANGED left
         [] OTHER -> UNCHANGED <<db, left>>

Serves  == gw.st = "running" /\ CanOpen /\ gw.run = "target"
Started == Serves /\ db = "v2"
Answers == Serves /\ db = "pending"

----------------------------------------------------------------------------
(* Before anything is stopped.                                                *)

(* A release tag is compared with the target line; a moving tag tells nothing *)
(* and is taken for 1.x.                                                      *)
KnownCurrent ==
  gw.run = "target" \/ (source.line = 2 /\ source.tag = "release")

InspectSource ==
  /\ Sent("inspect")
  /\ \E found \in InspectFinds(sup, gw) :
       \/ ~found /\ Return("nothing")
       \/ found /\ KnownCurrent /\ Return("current")
       \/ found /\ ~KnownCurrent /\ Goto("pull")
  /\ NoFault
  /\ UNCHANGED <<env, disk, polls, answered, runs, aborted>>

PullTarget ==
  /\ Sent("pull")
  /\ \/ Goto("backup") /\ NoFault
     \/ Return("refused") /\ Fault
  /\ UNCHANGED <<env, disk, polls, answered, runs, aborted>>

(* `docker exec` in the container, which must be running; --output names a    *)
(* path in there.                                                             *)
Backup ==
  /\ Sent("backup")
  /\ \/ /\ gw.st = "running" /\ archive' = "container"
        /\ Goto("extract") /\ NoFault
     \/ /\ gw.st # "running" /\ UNCHANGED archive
        /\ Return("refused") /\ NoFault
     \/ UNCHANGED archive /\ Return("refused") /\ Fault
  /\ UNCHANGED <<env, hostState, owned, config, polls, answered, runs, aborted>>

(* mkdir and docker cp, from the container, with root as the owner of the     *)
(* copy.  A 2.x source is already there.                                      *)
Copied(state) ==
  IF source.line = 2 THEN UNCHANGED <<hostState, owned>>
                     ELSE hostState' = state /\ owned' = FALSE

ExtractUnchecked ==                  \* a variant: the exit code is not read
  /\ Sent("extract")
  /\ \/ Copied("whole") /\ Goto("chown") /\ NoFault
     \/ Copied("partial") /\ Goto("chown") /\ Fault
  /\ UNCHANGED <<env, archive, config, polls, answered, runs, aborted>>

Extract ==
  /\ Sent("extract")
  /\ \/ Copied("whole") /\ Goto("chown") /\ NoFault
     \/ /\ Copied("partial") \/ UNCHANGED <<hostState, owned>>
        /\ Return("notExtracted") /\ Fault
  /\ UNCHANGED <<env, archive, config, polls, answered, runs, aborted>>

----------------------------------------------------------------------------
(* From here to the gate no exit code is looked at.                           *)

Chown ==
  /\ Sent("chown")
  /\ \/ owned' = TRUE /\ NoFault
     \/ UNCHANGED owned /\ Fault
  /\ Goto("stop")
  /\ UNCHANGED <<env, hostState, archive, config, polls, answered, runs, aborted>>

StopSource ==
  /\ Sent("stop")
  /\ \/ Replace(AfterStop(sup, gw)) /\ NoFault
     \/ UNCHANGED <<gw, archive>> /\ Fault
  /\ Goto("rm")
  /\ UNCHANGED <<sup, source, db, left, takes, crashes, hostState, owned, config,
                 polls, answered, runs, aborted>>

RemoveSource ==
  /\ Sent("rm")
  /\ \/ Replace(IF gw.st = "stopped" THEN Absent ELSE gw) /\ NoFault
     \/ UNCHANGED <<gw, archive>> /\ Fault
  /\ Goto("config")
  /\ UNCHANGED <<sup, source, db, left, takes, crashes, hostState, owned, config,
                 polls, answered, runs, aborted>>

WriteConfig ==
  /\ Sent("config")
  /\ \/ config' = "minimal" /\ NoFault
     \/ UNCHANGED config /\ Fault
  /\ Goto("start")
  /\ UNCHANGED <<env, hostState, archive, owned, polls, answered, runs, aborted>>

(* gatewayRunCommand with the target image.                                   *)
RunsTarget == Replace(Running("target")) /\ Opens

RunsBadly(remains) ==
  \E g \in remains :
    /\ Replace(g)
    /\ IF g.run = "target" /\ g.st # "stopped" THEN Opens ELSE UNCHANGED <<db, left>>

Start(next) ==
  /\ \/ RunsTarget /\ Goto(next) /\ NoFault
     \/ RunsBadly(RunFails(sup, gw, "target")) /\ Goto(next) /\ Fault
     \/ RunsBadly(RunCutShort(sup, gw, "target")) /\ Return("threw") /\ NoFault
  /\ polls' = 0 /\ answered' = 0
  /\ UNCHANGED <<sup, source, takes, crashes, hostState, owned, config, runs, aborted>>

StartTarget      == Sent("start") /\ Start("gate")
StartTargetAgain == Sent("startAgain") /\ Start("gateAgain")

(* One poll's worth of time.                                                  *)
Tick ==
  IF Serves /\ db = "migrating"
    THEN /\ left' = left - 1
         /\ db' = IF left = 1 THEN "pending" ELSE "migrating"
    ELSE UNCHANGED <<db, left>>

(* The two budgets: silence is given all the polls, a gateway that answers    *)
(* and is not started only some of them.                                      *)
WithinOneBudget(i, n) == i < PendingBudget     \* a variant: one short budget
Within(i, n) == i < SilentBudget /\ n < PendingBudget

Gate(onStarted, onNot) ==
  /\ \/ ~aborted /\ Started /\ onStarted /\ UNCHANGED <<db, left, polls, answered>>
     \/ /\ ~aborted /\ ~Started
        /\ polls' = polls + 1
        /\ answered' = IF Answers THEN answered + 1 ELSE answered
        /\ Tick
        /\ IF Within(polls', answered') THEN UNCHANGED <<pc, outcome>> ELSE onNot
     \/ aborted /\ onNot /\ UNCHANGED <<db, left, polls, answered>>
  /\ NoFault
  /\ UNCHANGED <<gw, sup, source, takes, crashes, disk, runs, aborted>>

GateFirst == pc = "gate" /\ Gate(Return("migrated"), Goto("startAgain"))

GateAgainForever ==                  \* a variant: started again until it serves
  pc = "gateAgain" /\ Gate(Return("migrated"), Goto("startAgain"))

GateAgain == pc = "gateAgain" /\ Gate(Return("migrated"), Return("notStarted"))

(* A command that rejects leaves the sequence where it is; a copy or a stop   *)
(* that was under way may be done, or done in part.                           *)
Rejected ==
  /\ pc # "done"
  /\ aborted => pc \notin {"gate", "gateAgain"}
  /\ Return("threw") /\ NoFault
  /\ \/ UNCHANGED <<gw, disk>>
     \/ ~aborted /\ pc = "extract" /\ Copied("partial") /\ UNCHANGED <<gw, archive, config>>
     \/ ~aborted /\ pc = "stop" /\ Replace(AfterStop(sup, gw))
        /\ UNCHANGED <<hostState, owned, config>>
  /\ UNCHANGED <<sup, source, db, left, takes, crashes, polls, answered, runs, aborted>>

Flow ==
  \/ InspectSource \/ PullTarget \/ Backup \/ Extract \/ Chown
  \/ StopSource \/ RemoveSource \/ WriteConfig
  \/ StartTarget \/ GateFirst \/ StartTargetAgain \/ GateAgain \/ Rejected

----------------------------------------------------------------------------
(* The world around it.                                                       *)

flow == <<pc, polls, answered, outcome, faults, runs>>

RunAgain ==
  /\ pc = "done" /\ runs < MaxRuns /\ runs' = runs + 1
  /\ pc' = "inspect" /\ outcome' = "pending" /\ aborted' = FALSE
  /\ polls' = 0 /\ answered' = 0
  /\ UNCHANGED <<env, disk, faults>>

(* A 1.x container of a systemd unit is run with --rm: were it to exit by     *)
(* itself its state would be gone, migration or not.  It is taken to stay up. *)
GatewayCrashes ==
  /\ gw.st = "running"
  /\ ~(gw.run = "source" /\ sup = "systemd")
  /\ IF gw.run = "target" /\ ~CanOpen
       THEN UNCHANGED crashes
       ELSE crashes < MaxCrashes /\ crashes' = crashes + 1
  /\ gw' = Restarting(gw.run)
  /\ UNCHANGED <<sup, source, db, left, takes, disk, flow, aborted>>

SupervisorRestarts ==
  /\ gw.st = "restarting"
  /\ gw' = Running(gw.run)
  /\ IF gw.run = "target" THEN Opens ELSE UNCHANGED <<db, left>>
  /\ UNCHANGED <<sup, source, takes, crashes, disk, flow, aborted>>

OperatorAborts ==
  /\ ~aborted /\ pc # "done"
  /\ aborted' = TRUE
  /\ UNCHANGED <<env, disk, flow>>

Next == Flow \/ RunAgain \/ GatewayCrashes \/ SupervisorRestarts \/ OperatorAborts

Spec == Init /\ [][Next]_vars

(* The process keeps running the flow; every wait in it is bounded.           *)
FairSpec == Spec /\ WF_vars(Flow)

----------------------------------------------------------------------------
(* What must hold.                                                            *)

(* "stopping it first destroys what the migration came to save": in any       *)
(* number of runs, failed or interrupted, the 1.x gateway is neither stopped  *)
(* nor replaced before its state is whole on the host.                        *)
SourceServesUntilCopied ==
  hostState # "whole" => gw.run = "source" /\ gw.st # "stopped"

(* A deployment that is known to run 2.x is refused: its gateway is not       *)
(* replaced, and its config not overwritten by the minimal one.               *)
KnownCurrentIsLeftAlone ==
  source.line = 2 /\ source.tag = "release" => config = "own" /\ gw.run = "source"

(* The second start never lands in the middle of a schema migration that      *)
(* takes no longer than the gate's budget for silence: with nothing else      *)
(* going wrong such a deployment is migrated.                                 *)
SlowMigrationCompletes ==
  ( /\ outcome = "notStarted"
    /\ faults = 0 /\ crashes = 0 /\ ~aborted /\ source.line = 1 )
    => takes > SilentBudget

(* Every run of the command ends.                                             *)
MigrationEnds == pc # "done" ~> pc = "done"

----------------------------------------------------------------------------
(* What the code or its documents say, and the code does not do.              *)

(* "Where the pre-migration backup is written on the host", "A verified       *)
(* backup was taken first: ... Restore it": the archive the report names is   *)
(* still somewhere when the report is made.                                   *)
BackupIsThere == outcome \in {"migrated", "notStarted"} => archive # "none"
=============================================================================
