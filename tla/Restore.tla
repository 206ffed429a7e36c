------------------------------ MODULE Restore ------------------------------
(* `clawops backup restore [--activate]`: stageRestore and activateStaged of  *)
(* openclaw/backup-flows.ts, activateRestored of openclaw/restore.ts and the  *)
(* restartGateway and waitForGateway they call.                               *)
(*                                                                            *)
(* Directories are inodes.  A rename moves one from path to path, and a       *)
(* running container keeps the directory it mounted wherever that one goes.   *)
(* `at[d]` is the path d is at, or the directory it is INSIDE: `mv a b` with  *)
(* b an existing directory puts a inside b and succeeds.                      *)
EXTENDS GatewayHost, FiniteSets

CONSTANTS
  Blanks,         \* empty directories docker may create for a missing mount source
  RestartBudget,  \* polls restartGateway allows a gateway to start   (15 x 2 s)
  HealthBudget,   \* polls activateStaged allows it after that        (180 s)
  MaxFaults,      \* commands that fail on the host
  MaxCrashes      \* times a gateway that can start goes down by itself

ASSUME BudgetAssumption ==
  RestartBudget \in Nat \ {0} /\ HealthBudget \in Nat \ {0}
ASSUME BoundAssumption == MaxFaults \in Nat /\ MaxCrashes \in Nat
ASSUME DirAssumption ==
  /\ "old" \notin Blanks /\ "new" \notin Blanks
  /\ Nothing \notin Blanks \union {"old", "new"}

(* The state being replaced, the state in the archive, and the blanks.        *)
Dirs  == {"old", "new"} \union Blanks
(* stateDir, statePath in the bundle, .clawops-restored-*, .pre-restore-*,    *)
(* .failed-restore-*.                                                         *)
Paths == {"live", "staged", "holding", "preserved", "failed"}
ASSUME PathAssumption == Dirs \intersect (Paths \union {"nowhere"}) = {}

(* A delay no budget covers: this state never lets the gateway start.         *)
Forever == RestartBudget + HealthBudget + 1

VARIABLES
  at,           \* where each directory is
  gw,           \* the container; gw.run is the directory it mounts
  boot,         \* polls since the container last started
  sup,          \* who supervises it
  delay,        \* polls a gateway needs to start on each directory
  pc,           \* the command the flow runs next
  rollingBack,  \* inside activateRestored's catch block
  polls,        \* polls made by the wait under way
  outcome,      \* what the flow returned
  ssh,          \* the flow's session
  aborted,      \* the operator pressed ^C (the signal is raised)
  faults, crashes

env  == <<gw, boot, sup, delay, crashes>>
vars == <<at, gw, boot, sup, delay, pc, rollingBack, polls, outcome, ssh,
          aborted, faults, crashes>>

----------------------------------------------------------------------------
(* What the flow returns: the kind, the `rolledBack` flag of ActivateOutcome, *)
(* and the paths it names to the operator.                                    *)
Kinds == {"pending", "ok", "staged", "refused", "failed", "threw"}
Outcomes == [kind : Kinds, rolledBack : BOOLEAN, names : SUBSET Paths]

Pending        == [kind |-> "pending", rolledBack |-> FALSE, names |-> {}]
Result(k, ps)  == [kind |-> k, rolledBack |-> FALSE, names |-> ps]
RolledBack(ps) == [kind |-> "failed", rolledBack |-> TRUE, names |-> ps]

Staging == {"room", "upload", "expand", "copyOut", "manifest", "confirm"}
Waiting == {"restart", "run", "gate", "health"}
Steps   == Staging \union Waiting \union
           {"chown", "look", "out", "aside", "unstage", "in", "undoAside",
            "tidy", "park", "back", "done"}

TypeOK ==
  /\ at \in [Dirs -> Paths \union Dirs \union {"nowhere"}]
  /\ gw \in Containers(Dirs)
  /\ boot \in 0..Forever
  /\ sup \in Supervisors
  /\ delay \in [Dirs -> 0..Forever]
  /\ pc \in Steps
  /\ rollingBack \in BOOLEAN
  /\ polls \in 0..RestartBudget + HealthBudget
  /\ outcome \in Outcomes
  /\ ssh \in {"up", "down"}
  /\ aborted \in BOOLEAN
  /\ faults \in 0..MaxFaults
  /\ crashes \in 0..MaxCrashes

Init ==
  /\ at = [d \in Dirs |-> IF d = "old" THEN "live" ELSE "nowhere"]
  /\ gw = Running("old")
  /\ sup \in Supervisors
  /\ \E slow \in 0..Forever :   \* the old state is known to start, the new is not
       delay = [d \in Dirs |-> CASE d = "old" -> 0
                                 [] d = "new" -> slow
                                 [] OTHER     -> Forever]
  /\ boot = 0
  /\ pc = "room"
  /\ rollingBack = FALSE
  /\ polls = 0
  /\ outcome = Pending
  /\ ssh = "up"
  /\ aborted = FALSE
  /\ faults = 0 /\ crashes = 0

----------------------------------------------------------------------------
(* Commands on the host.                                                      *)

At(p) == {d \in Dirs : at[d] = p}

Started == gw.st = "running" /\ boot >= delay[gw.run]

(* A command is sent on a session that is up, and not after an abort.         *)
Sent(step) == pc = step /\ ssh = "up" /\ ~aborted

Fault   == faults < MaxFaults /\ faults' = faults + 1
NoFault == UNCHANGED faults

Goto(step) == pc' = step /\ UNCHANGED <<outcome, rollingBack>>
Return(o)  == pc' = "done" /\ outcome' = o /\ UNCHANGED rollingBack

Move(p, q) == \E d \in At(p) :
  at' = [at EXCEPT ![d] = IF At(q) = {} THEN q ELSE CHOOSE e \in At(q) : TRUE]
MoveFails(p) == UNCHANGED at /\ (IF At(p) = {} THEN NoFault ELSE Fault)

Quiet == UNCHANGED <<env, polls, ssh, aborted>>

(* `mv p q`, with what the flow does after a success and after a failure.  A  *)
(* session that is lost while it runs reports success whatever happened       *)
(* (`code ?? 0` in transport/ssh.ts); an abort rejects, done or not.          *)
Rename(p, q, onDone, onError) ==
  /\ UNCHANGED <<env, polls>>
  /\ \/ Move(p, q) /\ NoFault /\ onDone /\ UNCHANGED <<ssh, aborted>>
     \/ MoveFails(p) /\ onError /\ UNCHANGED <<ssh, aborted>>
     \/ /\ Move(p, q) \/ UNCHANGED at
        /\ ssh' = "down" /\ NoFault /\ onDone /\ UNCHANGED aborted
     \/ Move(p, q) /\ aborted' = TRUE /\ NoFault /\ UNCHANGED ssh
        /\ Return(Result("threw", {}))

----------------------------------------------------------------------------
(* stageRestore.                                                              *)

HasRoomFor ==
  /\ Sent("room")
  /\ Goto("upload") \/ Return(Result("refused", {}))
  /\ NoFault /\ UNCHANGED at /\ Quiet

UploadArchive ==
  /\ Sent("upload")
  /\ \/ Goto("expand") /\ NoFault
     \/ Return(Result("failed", {})) /\ Fault
  /\ UNCHANGED at /\ Quiet

(* `openclaw backup restore` in the container, then `rm` of the archive.      *)
ExpandArchive ==
  /\ Sent("expand")
  /\ \/ Goto("copyOut") /\ NoFault
     \/ Return(Result("failed", {})) /\ Fault
  /\ UNCHANGED at /\ Quiet

CopyOut ==
  /\ Sent("copyOut")
  /\ \/ /\ at' = [at EXCEPT !["new"] = "staged"]
        /\ Goto("manifest") /\ NoFault
     \/ /\ UNCHANGED at
        /\ Return(Result("failed", {})) /\ Fault
  /\ Quiet

(* locateRestoredState: a manifest clawops does not know is left as it is.    *)
LocateRestoredState ==
  /\ Sent("manifest")
  /\ Goto("confirm") \/ Return(Result("failed", {"staged"}))
  /\ NoFault /\ UNCHANGED at /\ Quiet

(* Without --activate, or when the operator says no, the flow ends here.      *)
Confirm ==
  /\ pc = "confirm"
  /\ Goto("chown") \/ Return(Result("staged", {"staged"}))
  /\ NoFault /\ UNCHANGED at /\ Quiet

----------------------------------------------------------------------------
(* activateStaged and activateRestored.                                       *)

Chown ==
  /\ Sent("chown")
  /\ \/ Goto("look") /\ NoFault
     \/ Return(Result("failed", {"staged"})) /\ Fault
  /\ UNCHANGED at /\ Quiet

(* `test -d staging`.                                                         *)
LookForStaged ==
  /\ Sent("look")
  /\ IF At("staged") # {} THEN Goto("out") ELSE Return(Result("failed", {}))
  /\ NoFault /\ UNCHANGED at /\ Quiet

MoveOut ==
  /\ Sent("out")
  /\ Rename("staged", "holding", Goto("aside"), Return(Result("failed", {})))

(* Variants the properties must tell from the code: a failure that is not     *)
(* looked at, and one that does not put staging back.                         *)
MoveAsideUnchecked ==
  /\ Sent("aside")
  /\ Rename("live", "preserved", Goto("in"), Goto("in"))

MoveAsideNoUndo ==
  /\ Sent("aside")
  /\ Rename("live", "preserved", Goto("in"), Return(Result("failed", {})))

MoveAside ==
  /\ Sent("aside")
  /\ Rename("live", "preserved", Goto("in"), Goto("unstage"))

(* Undoes MoveOut; its own failure is not looked at.                          *)
PutStagingBack ==
  /\ Sent("unstage")
  /\ Rename("holding", "staged", Return(Result("failed", {})),
            Return(Result("failed", {})))

(* The restored state moves in; if it cannot, the old one is put back.        *)
MoveIn ==
  /\ Sent("in")
  /\ Rename("holding", "live", Goto("restart"), Goto("undoAside"))

(* Undoes MoveAside; its own failure is not looked at either.                 *)
PutOldBack ==
  /\ Sent("undoAside")
  /\ Rename("preserved", "live", Return(RolledBack({})), Return(RolledBack({})))

----------------------------------------------------------------------------
(* restartGateway, on the way in and again in the catch block, where          *)
(* `restart().catch(() => undefined)` drops whatever it throws.               *)

RestartOver ==
  /\ polls' = 0
  /\ IF rollingBack THEN Return(RolledBack({"failed"}))
                    ELSE Goto("health")

RestartThrows ==
  /\ polls' = 0
  /\ IF rollingBack
       THEN Return(RolledBack({"failed"}))
       ELSE pc' = "park" /\ rollingBack' = TRUE /\ UNCHANGED outcome

(* uname, the image, the published port.                                      *)
InspectForRestart ==
  /\ Sent("restart")
  /\ \E found \in InspectFinds(sup, gw) :
       \/ found /\ Goto("run") /\ NoFault /\ UNCHANGED polls
       \/ ~found /\ RestartThrows /\ NoFault
       \/ RestartThrows /\ Fault
  /\ UNCHANGED <<at, env, ssh, aborted>>

(* The directory a container started now mounts; docker creates one that is   *)
(* missing.                                                                   *)
MountsLive(d) ==
  \/ at[d] = "live" /\ UNCHANGED at
  \/ /\ At("live") = {} /\ d \in Blanks /\ at[d] = "nowhere"
     /\ at' = [at EXCEPT ![d] = "live"]

RunGateway ==
  /\ Sent("run")
  /\ \E d \in Dirs :
       /\ MountsLive(d)
       /\ \/ gw' = Running(d) /\ Goto("gate") /\ NoFault
             /\ polls' = 0 /\ UNCHANGED <<ssh, aborted>>
          \/ gw' \in RunFails(sup, gw, d) /\ RestartThrows /\ Fault
             /\ UNCHANGED <<ssh, aborted>>
          \/ gw' \in RunCutShort(sup, gw, d) /\ ssh' = "down"
             /\ Goto("gate") /\ NoFault /\ UNCHANGED <<polls, aborted>>
          \/ gw' \in RunCutShort(sup, gw, d) /\ aborted' = TRUE
             /\ RestartThrows /\ NoFault /\ UNCHANGED ssh
  /\ boot' \in IF gw' = gw /\ pc' # "gate" THEN {boot, 0} ELSE {0}
  /\ UNCHANGED <<sup, delay, crashes>>

Tick == boot' = IF gw.st = "running" /\ boot < Forever THEN boot + 1 ELSE boot

(* The wait inside restartGateway: fifteen probes of /startupz.               *)
GateRestart ==
  /\ Sent("gate")
  /\ \/ Started /\ RestartOver /\ UNCHANGED boot
     \/ ~Started /\ polls + 1 < RestartBudget /\ polls' = polls + 1
        /\ Goto("gate") /\ Tick
     \/ ~Started /\ polls + 1 >= RestartBudget /\ RestartThrows /\ Tick
  /\ NoFault
  /\ UNCHANGED <<at, gw, sup, delay, crashes, ssh, aborted>>

(* openclaw/ready.ts waitForGateway: a docker that cannot be asked is an      *)
(* error at once, anything else is asked again until the deadline.            *)
WaitHealthy ==
  /\ Sent("health")
  /\ \/ Started /\ polls' = 0 /\ Goto("tidy") /\ UNCHANGED boot /\ NoFault
     \/ ~Started /\ polls + 1 < HealthBudget /\ polls' = polls + 1
        /\ Goto("health") /\ Tick /\ NoFault
     \/ ~Started /\ polls + 1 >= HealthBudget /\ RestartThrows /\ Tick /\ NoFault
     \/ RestartThrows /\ UNCHANGED boot /\ Fault
  /\ UNCHANGED <<at, gw, sup, delay, crashes, ssh, aborted>>

----------------------------------------------------------------------------
(* The catch block, and the end of a restore that held.                       *)

(* Variants: the old state put back first, and a message that forgets it.     *)
ParkSkipped ==
  /\ Sent("park")
  /\ Rename("preserved", "live", Goto("restart"), Return(Result("failed", {})))

MoveBackSilent ==
  /\ Sent("back")
  /\ Rename("preserved", "live", Goto("restart"), Return(Result("failed", {"failed"})))

Park ==
  /\ Sent("park")
  /\ Rename("live", "failed", Goto("back"), Return(Result("failed", {"preserved"})))

MoveBack ==
  /\ Sent("back")
  /\ Rename("preserved", "live", Goto("restart"),
            Return(Result("failed", {"preserved", "failed"})))

(* `rm -rf` of the bundle wrapper.                                            *)
Tidy ==
  /\ Sent("tidy")
  /\ at' = [d \in Dirs |-> IF at[d] = "staged" THEN "nowhere" ELSE at[d]]
  /\ Return(Result("ok", {"preserved"}))
  /\ NoFault /\ Quiet

(* A command on a lost session, or after an abort, rejects.  In the try block *)
(* that is one more reason to roll back, in restart() of the catch block it   *)
(* is dropped, and anywhere else it leaves the flow as an exception.          *)
Rejected ==
  /\ ssh = "down" \/ aborted
  /\ \/ pc \in Waiting /\ RestartThrows
     \/ /\ pc \notin Waiting \union {"confirm", "done"}
        /\ Return(Result("threw", {})) /\ UNCHANGED polls
  /\ NoFault
  /\ UNCHANGED <<at, env, ssh, aborted>>

Flow ==
  \/ HasRoomFor \/ UploadArchive \/ ExpandArchive \/ CopyOut
  \/ LocateRestoredState \/ Confirm
  \/ Chown \/ LookForStaged \/ MoveOut \/ MoveAside \/ PutStagingBack
  \/ MoveIn \/ PutOldBack
  \/ InspectForRestart \/ RunGateway \/ GateRestart \/ WaitHealthy
  \/ Park \/ MoveBack \/ Tidy \/ Rejected

----------------------------------------------------------------------------
(* The world around it.                                                       *)

flow == <<pc, rollingBack, polls, outcome, faults>>

GatewayCrashes ==
  /\ gw.st = "running"
  /\ IF delay[gw.run] = Forever
       THEN UNCHANGED crashes      \* it exits whenever it is started
       ELSE crashes < MaxCrashes /\ crashes' = crashes + 1
  /\ gw' = Restarting(gw.run)
  /\ UNCHANGED <<at, boot, sup, delay, flow, ssh, aborted>>

(* The supervisor starts it again, on whatever is at the mounted path now.    *)
SupervisorRestarts ==
  /\ gw.st = "restarting"
  /\ \E d \in Dirs : MountsLive(d) /\ gw' = Running(d)
  /\ boot' = 0
  /\ UNCHANGED <<sup, delay, crashes, flow, ssh, aborted>>

(* The network fails, or another tool call of the process drains the pool.    *)
SessionLost ==
  /\ ssh = "up" /\ pc # "done"
  /\ ssh' = "down"
  /\ UNCHANGED <<at, env, flow, aborted>>

OperatorAborts ==
  /\ ~aborted /\ pc # "done"
  /\ aborted' = TRUE
  /\ UNCHANGED <<at, env, flow, ssh>>

Next == Flow \/ GatewayCrashes \/ SupervisorRestarts \/ SessionLost \/ OperatorAborts

Spec == Init /\ [][Next]_vars

----------------------------------------------------------------------------
(* What must hold.                                                            *)

(* "It is kept, never deleted": the state that was live is at its own path,   *)
(* at the preserved path, or inside the directory docker created at its path; *)
(* never gone and never inside the restored state, wherever the flow stopped. *)
OldStateKept ==
  \/ at["old"] \in {"live", "preserved"}
  \/ at["old"] \in Blanks /\ at[at["old"]] = "live"

(* A flow that returns (rather than throws) without claiming a rollback has   *)
(* left the old state live, or says where it is.                              *)
OldStateIsWhereItSays ==
  pc = "done" /\ outcome.kind # "threw" /\ ~outcome.rolledBack
    => \/ at["old"] = "live"
       \/ at["old"] = "preserved" /\ "preserved" \in outcome.names

(* After one failed command, on a session that lasts, a flow that stopped     *)
(* before the swap has the expanded archive where it was, so that a retry     *)
(* finds it.                                                                  *)
RetryFindsStaged ==
  ( /\ pc = "done" /\ outcome.kind = "failed" /\ ~outcome.rolledBack
    /\ faults <= 1 /\ ssh = "up" /\ at["old"] = "live" /\ at["new"] # "nowhere" )
    => at["new"] = "staged"

(* Success is only returned for the restored state itself: at the live path,  *)
(* mounted by the gateway that answered, with the old one set aside.          *)
SuccessIsTheRestoredState ==
  [][pc = "tidy" /\ outcome'.kind = "ok"
       => at'["new"] = "live" /\ at'["old"] = "preserved" /\ gw.run = "new"]_vars

----------------------------------------------------------------------------
(* What the code or its documents say, and the code does not do.              *)

(* "rolledBack: true", "The previous state has been put back."                *)
RolledBackIsLive == pc = "done" /\ outcome.rolledBack => at["old"] = "live"
=============================================================================
