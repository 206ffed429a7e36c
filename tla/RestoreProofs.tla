---------------------------- MODULE RestoreProofs ----------------------------
(* What a restore does to the state it replaces, for any budgets, any number  *)
(* of failures and of directories docker may create in between.               *)
EXTENDS Restore, TLAPS

(* The steps before the live directory is renamed, those after it in which    *)
(* the old state is aside, and those of the catch block that restart on it.   *)
Before  == Staging \union {"chown", "look", "out", "aside", "unstage"}
Aside   == {"in", "undoAside", "park", "back", "tidy"}
PutBack == {"restart", "run", "gate"}

(* One directory at the live path, and nothing but the old state preserved.   *)
OneLive == \A d, e \in At("live") : d = e
OnlyOldPreserved == At("preserved") \subseteq {"old"}

(* Where the old state is while the session says what really happened.        *)
LiveBefore == pc \in Before => at["old"] = "live"
PreservedAfter ==
  ssh = "up" /\ (pc \in Aside \/ (pc \in Waiting /\ ~rollingBack))
    => at["old"] = "preserved"
(* The restored state is out of the way when the old one is moved back.       *)
NewOutOfTheWay == ssh = "up" /\ pc \in {"in", "undoAside", "back"} => at["new"] # "live"
(* Inside a blank directory only after the last rename of the flow.           *)
InsideAtTheEnd ==
  at["old"] \notin Paths => pc = "done" \/ (pc \in PutBack /\ rollingBack)
CatchRollsBack == (pc \in {"park", "back"} => rollingBack) /\ (pc = "health" => ~rollingBack)

Inv ==
  /\ TypeOK /\ OldStateKept
  /\ OneLive /\ OnlyOldPreserved /\ LiveBefore /\ PreservedAfter
  /\ NewOutOfTheWay /\ InsideAtTheEnd /\ CatchRollsBack

USE BudgetAssumption, BoundAssumption, DirAssumption, PathAssumption

(* What one `mv` does: a directory that was at p is at q, or, where something *)
(* was at q already, inside that.                                             *)
LEMMA MoveMeans ==
  ASSUME TypeOK, NEW p \in Paths, NEW q \in Paths, Move(p, q)
  PROVE  \E d \in At(p), x \in At(q) \union {q} :
           /\ at' = [at EXCEPT ![d] = x]
           /\ x = q => At(q) = {}
           /\ x \in Dirs \union {q} /\ d \in Dirs
<1>1. PICK d \in At(p) :
        at' = [at EXCEPT ![d] = IF At(q) = {} THEN q ELSE CHOOSE e \in At(q) : TRUE]
  BY DEF Move
<1>2. At(q) \subseteq Dirs /\ d \in Dirs
  BY DEF At
<1>3. CASE At(q) = {}
  BY <1>1, <1>2, <1>3
<1>4. CASE At(q) # {}
  <2>. DEFINE x == CHOOSE e \in At(q) : TRUE
  <2>1. x \in At(q)
    BY <1>4
  <2>2. x # q
    BY <1>2, <2>1
  <2>3. at' = [at EXCEPT ![d] = x]
    BY <1>1, <1>4
  <2>. HIDE DEF x
  <2>. QED  BY <1>2, <2>1, <2>2, <2>3
<1>. QED  BY <1>3, <1>4

(* The directories after a rename, as far as the old state depends on them.   *)
AtWell == at \in [Dirs -> Paths \union Dirs \union {"nowhere"}]
Kept   == AtWell /\ OldStateKept /\ OneLive /\ OnlyOldPreserved

(* Renames that touch neither the live nor the preserved path.                *)
LEMMA StagedMoves ==
  ASSUME Inv, at["old"] \in {"live", "preserved"},
         Move("staged", "holding") \/ Move("holding", "staged")
  PROVE  Kept' /\ at'["old"] = at["old"] /\ (at'["new"] = "live" => at["new"] = "live")
<1>1. PICK d \in Dirs, x \in Dirs \union {"holding", "staged"} :
        at' = [at EXCEPT ![d] = x] /\ at[d] \in {"holding", "staged"}
  BY MoveMeans DEF Inv, At, Paths
<1>2. "old" \in Dirs /\ "new" \in Dirs /\ d # "old" /\ x \notin {"live", "preserved"}
  BY <1>1 DEF Dirs, Paths
<1>3. AtWell'
  BY <1>1 DEF AtWell, Inv, TypeOK, Paths
<1>4. at'["old"] = at["old"] /\ (at'["new"] = "live" => at["new"] = "live")
  BY <1>1, <1>2 DEF Inv, TypeOK
<1>5. OneLive' /\ OnlyOldPreserved'
  BY <1>1, <1>2 DEF Inv, TypeOK, OneLive, OnlyOldPreserved, At
<1>. QED  BY <1>3, <1>4, <1>5 DEF Kept, OldStateKept

(* The old state is set aside: nothing else is live, nothing else preserved.  *)
LEMMA AsideMoves ==
  ASSUME Inv, at["old"] = "live", Move("live", "preserved")
  PROVE  Kept' /\ at'["old"] = "preserved" /\ at'["new"] # "live"
<1>1. PICK d \in At("live"), x \in At("preserved") \union {"preserved"} :
        at' = [at EXCEPT ![d] = x] /\ d \in Dirs
  BY MoveMeans DEF Inv, Paths
<1>2. "old" \in Dirs /\ "new" \in Dirs /\ "old" # "new"
  BY DEF Dirs
<1>3. d = "old"
  BY <1>1, <1>2 DEF Inv, OneLive, At
<1>4. x = "preserved"
  BY <1>1 DEF Inv, OnlyOldPreserved, At
<1>5. at["new"] # "live"
  BY <1>2 DEF Inv, OneLive, At
<1>6. AtWell' /\ at'["old"] = "preserved" /\ at'["new"] # "live"
  BY <1>1, <1>2, <1>3, <1>4, <1>5 DEF AtWell, Inv, TypeOK, Paths
<1>7. OneLive' /\ OnlyOldPreserved'
  BY <1>1, <1>2, <1>3, <1>4 DEF Inv, TypeOK, OneLive, OnlyOldPreserved, At
<1>. QED  BY <1>6, <1>7 DEF Kept, OldStateKept

(* The restored state moves in, to the live path or inside what is there.     *)
LEMMA InMoves ==
  ASSUME Inv, at["old"] = "preserved", Move("holding", "live")
  PROVE  Kept' /\ at'["old"] = "preserved"
<1>1. PICK d \in At("holding"), x \in At("live") \union {"live"} :
        /\ at' = [at EXCEPT ![d] = x] /\ d \in Dirs /\ x \in Dirs \union {"live"}
        /\ x = "live" => At("live") = {}
  BY MoveMeans DEF Inv, Paths
<1>2. "old" \in Dirs /\ d # "old" /\ x # "preserved"
  BY <1>1 DEF Dirs, At, Paths
<1>3. AtWell' /\ at'["old"] = "preserved"
  BY <1>1, <1>2 DEF AtWell, Inv, TypeOK, Paths
<1>4. OneLive'
  <2>1. CASE x = "live"
    BY <1>1, <1>2, <2>1 DEF Inv, TypeOK, OneLive, At
  <2>2. CASE x # "live"
    BY <1>1, <1>2, <2>2 DEF Inv, TypeOK, OneLive, At
  <2>. QED  BY <2>1, <2>2
<1>5. OnlyOldPreserved'
  BY <1>1, <1>2 DEF Inv, TypeOK, OnlyOldPreserved, At
<1>. QED  BY <1>3, <1>4, <1>5 DEF Kept, OldStateKept

(* What failed is parked, and with it the restored state if it was live.      *)
LEMMA ParkMoves ==
  ASSUME Inv, at["old"] = "preserved", Move("live", "failed")
  PROVE  Kept' /\ at'["old"] = "preserved" /\ at'["new"] # "live"
<1>1. PICK d \in At("live"), x \in At("failed") \union {"failed"} :
        at' = [at EXCEPT ![d] = x] /\ d \in Dirs /\ x \in Dirs \union {"failed"}
  BY MoveMeans DEF Inv, Paths
<1>2. /\ "old" \in Dirs /\ "new" \in Dirs /\ d # "old"
      /\ x \notin {"preserved", "live"}
  BY <1>1 DEF Dirs, At, Paths
<1>3. AtWell' /\ at'["old"] = "preserved"
  BY <1>1, <1>2 DEF AtWell, Inv, TypeOK, Paths
<1>4. at'["new"] # "live"
  BY <1>1, <1>2 DEF Inv, TypeOK, OneLive, At
<1>5. OneLive' /\ OnlyOldPreserved'
  BY <1>1, <1>2 DEF Inv, TypeOK, OneLive, OnlyOldPreserved, At
<1>. QED  BY <1>3, <1>4, <1>5 DEF Kept, OldStateKept

(* The old state goes back to the live path, or inside the blank directory    *)
(* docker created there: never inside the restored one.                       *)
LEMMA BackMoves ==
  ASSUME Inv, at["old"] = "preserved", at["new"] # "live", Move("preserved", "live")
  PROVE  Kept'
<1>1. PICK d \in At("preserved"), x \in At("live") \union {"live"} :
        /\ at' = [at EXCEPT ![d] = x] /\ d \in Dirs
        /\ x = "live" => At("live") = {}
  BY MoveMeans DEF Inv, Paths
<1>2. "old" \in Dirs /\ d = "old" /\ x # "preserved" /\ "nowhere" \notin Dirs
  BY <1>1 DEF Dirs, At, Paths, Inv, OnlyOldPreserved
<1>3. CASE x = "live"
  <2>1. AtWell' /\ at'["old"] = "live"
    BY <1>1, <1>2, <1>3 DEF AtWell, Inv, TypeOK, Paths
  <2>2. OneLive' /\ OnlyOldPreserved'
    BY <1>1, <1>2, <1>3 DEF Inv, TypeOK, OneLive, OnlyOldPreserved, At
  <2>. QED  BY <2>1, <2>2 DEF Kept, OldStateKept
<1>4. CASE x # "live"
  <2>1. x \in Dirs /\ at[x] = "live"
    BY <1>1, <1>4 DEF At
  <2>2. x \in Blanks /\ x # "old"
    BY <2>1 DEF Dirs
  <2>3. AtWell' /\ at'["old"] = x /\ at'[x] = "live"
    BY <1>1, <1>2, <2>1, <2>2 DEF AtWell, Inv, TypeOK
  <2>4. OneLive' /\ OnlyOldPreserved'
    BY <1>1, <1>2, <1>4, <2>1 DEF Inv, TypeOK, OneLive, OnlyOldPreserved, At
  <2>. QED  BY <2>2, <2>3, <2>4 DEF Kept, OldStateKept
<1>. QED  BY <1>3, <1>4

(* docker creates a directory at the live path only when nothing is there,    *)
(* which is when the old state is aside.                                      *)
LEMMA MountKeeps ==
  ASSUME Inv, NEW d \in Dirs, MountsLive(d)
  PROVE  Kept' /\ at'["old"] = at["old"] /\ at'["new"] = at["new"]
<1>1. CASE UNCHANGED at
  BY <1>1 DEF Inv, TypeOK, Kept, AtWell, OldStateKept, OneLive, OnlyOldPreserved, At
<1>2. CASE At("live") = {} /\ d \in Blanks /\ at[d] = "nowhere" /\ at' = [at EXCEPT ![d] = "live"]
  <2>1. "old" \in Dirs /\ "new" \in Dirs /\ d # "old" /\ d # "new" /\ Blanks \subseteq Dirs
    BY <1>2 DEF Dirs
  <2>2. at["old"] = "preserved"
    BY <1>2, <2>1 DEF Inv, OldStateKept, At
  <2>3. AtWell' /\ at'["old"] = at["old"] /\ at'["new"] = at["new"]
    BY <1>2, <2>1 DEF AtWell, Inv, TypeOK, Paths
  <2>4. OneLive' /\ OnlyOldPreserved'
    BY <1>2, <2>1 DEF Inv, TypeOK, OneLive, OnlyOldPreserved, At
  <2>. QED  BY <2>2, <2>3, <2>4 DEF Kept, OldStateKept
<1>. QED  BY <1>1, <1>2 DEF MountsLive

----------------------------------------------------------------------------
(* Everything the flow may return.                                            *)
Returned ==
  {Pending, Result("threw", {}), Result("refused", {}), Result("failed", {}),
   Result("failed", {"staged"}), Result("staged", {"staged"}),
   Result("failed", {"preserved"}), Result("failed", {"preserved", "failed"}),
   Result("ok", {"preserved"}), RolledBack({}), RolledBack({"failed"})}

(* Each is a kind, a flag and paths of the host.                              *)
LEMMA ReturnedType == Returned \subseteq Outcomes
<1>1. ASSUME NEW k \in Kinds, NEW ps \in SUBSET Paths
      PROVE  Result(k, ps) \in Outcomes /\ RolledBack(ps) \in Outcomes
  BY <1>1 DEF Result, RolledBack, Outcomes, Kinds
<1>2. Pending \in Outcomes
  BY DEF Pending, Outcomes, Kinds
<1>3. /\ {"threw", "refused", "failed", "staged", "ok"} \subseteq Kinds
      /\ {} \in SUBSET Paths /\ {"staged"} \in SUBSET Paths
      /\ {"preserved"} \in SUBSET Paths /\ {"failed"} \in SUBSET Paths
      /\ {"preserved", "failed"} \in SUBSET Paths
  BY DEF Kinds, Paths
<1>4. /\ Result("threw", {}) \in Outcomes /\ Result("refused", {}) \in Outcomes
      /\ Result("failed", {}) \in Outcomes /\ RolledBack({}) \in Outcomes
  BY <1>1, <1>3
<1>5. /\ Result("failed", {"staged"}) \in Outcomes /\ Result("staged", {"staged"}) \in Outcomes
      /\ Result("failed", {"preserved"}) \in Outcomes /\ Result("ok", {"preserved"}) \in Outcomes
      /\ Result("failed", {"preserved", "failed"}) \in Outcomes
      /\ RolledBack({"failed"}) \in Outcomes
  BY <1>1, <1>3
<1>. HIDE DEF Result, RolledBack, Pending
<1>. QED  BY <1>2, <1>4, <1>5 DEF Returned

(* A restore begins on a host that serves the old state.                      *)
LEMMA InitInv == Init => Inv
<1>. SUFFICES ASSUME Init PROVE Inv
  OBVIOUS
<1>1. "old" \in Dirs /\ "new" \in Dirs
  BY DEF Dirs
<1>2. at = [d \in Dirs |-> IF d = "old" THEN "live" ELSE "nowhere"] /\ gw = Running("old")
  BY DEF Init
<1>3. delay \in [Dirs -> 0..Forever]
  BY DEF Init, Forever
<1>4. /\ sup \in Supervisors /\ boot = 0 /\ polls = 0 /\ faults = 0 /\ crashes = 0
      /\ pc = "room" /\ outcome = Pending /\ ssh = "up"
  BY DEF Init
<1>5. rollingBack \in BOOLEAN /\ aborted \in BOOLEAN
  BY ZenonT(30) DEF Init
<1>6. outcome \in Outcomes
  BY <1>4, ReturnedType DEF Returned
<1>7. TypeOK
  BY <1>1, <1>2, <1>3, <1>4, <1>5, <1>6
     DEF TypeOK, Paths, Forever, Steps, Staging, Containers, Running, Statuses
<1>8. OldStateKept /\ OneLive /\ OnlyOldPreserved
  BY <1>1, <1>2 DEF OldStateKept, OneLive, OnlyOldPreserved, At
<1>9. at["old"] = "live"
  BY <1>1, <1>2
<1>. QED
  BY <1>4, <1>7, <1>8, <1>9 DEF Inv, LiveBefore, PreservedAfter, NewOutOfTheWay,
     InsideAtTheEnd, CatchRollsBack, Aside, Waiting, Paths

(* Until the swap only the archive's state appears, at a path of its own.     *)
LEMMA StagingInv ==
  ASSUME Inv,
         \/ HasRoomFor \/ UploadArchive \/ ExpandArchive \/ CopyOut
         \/ LocateRestoredState \/ Confirm \/ Chown \/ LookForStaged
  PROVE  Inv'
<1>1. /\ pc \in Before /\ pc' \in (Before \ {"aside", "unstage"}) \union {"done"}
      /\ UNCHANGED <<env, polls, ssh, aborted, rollingBack>>
      /\ outcome' \in Returned \union {outcome}
  BY DEF HasRoomFor, UploadArchive, ExpandArchive, CopyOut, LocateRestoredState, Confirm,
     Chown, LookForStaged, Sent, Goto, Return, Quiet, Before, Staging, Returned
<1>2. faults' \in 0..MaxFaults
  BY DEF HasRoomFor, UploadArchive, ExpandArchive, CopyOut, LocateRestoredState, Confirm,
     Chown, LookForStaged, Fault, NoFault, Inv, TypeOK
<1>3. at' = at \/ at' = [at EXCEPT !["new"] = "staged"]
  BY DEF HasRoomFor, UploadArchive, ExpandArchive, CopyOut, LocateRestoredState, Confirm,
     Chown, LookForStaged
<1>4. "old" \in Dirs /\ at["old"] = "live"
  BY <1>1 DEF Dirs, Inv, LiveBefore
<1>5. at' \in [Dirs -> Paths \union Dirs \union {"nowhere"}] /\ at'["old"] = "live"
  BY <1>3, <1>4 DEF Inv, TypeOK, Paths
<1>6. OneLive' /\ OnlyOldPreserved'
  BY <1>3 DEF Inv, TypeOK, OneLive, OnlyOldPreserved, At
<1>7. outcome' \in Outcomes
  BY <1>1, ReturnedType DEF Inv, TypeOK
<1>8. TypeOK'
  BY <1>1, <1>2, <1>5, <1>7 DEF env, Inv, TypeOK, Steps, Before, Staging
<1>. QED
  BY <1>1, <1>5, <1>6, <1>8 DEF Inv, OldStateKept, LiveBefore, PreservedAfter,
     NewOutOfTheWay, InsideAtTheEnd, CatchRollsBack, Before, Aside, Waiting, Staging, Paths

(* Every rename of the flow changes nothing but the directories, and says     *)
(* nothing of itself when the session is lost.                                *)
Renames == MoveOut \/ MoveAside \/ PutStagingBack \/ MoveIn \/ PutOldBack \/ Park \/ MoveBack

(* What a rename leaves alone, however it ends.                               *)
LEMMA RenameFrame ==
  ASSUME Inv, Renames
  PROVE  /\ UNCHANGED <<env, polls, rollingBack>>
         /\ faults' \in 0..MaxFaults /\ ssh' \in {"up", "down"} /\ aborted' \in BOOLEAN
         /\ pc' \in {"aside", "in", "unstage", "restart", "undoAside", "back", "done"}
         /\ outcome' \in Outcomes
         /\ ssh = "up"
<1>1. /\ UNCHANGED <<env, polls, rollingBack>> /\ ssh = "up" /\ ssh' \in {"up", "down"}
      /\ pc' \in {"aside", "in", "unstage", "restart", "undoAside", "back", "done"}
      /\ outcome' \in Returned \union {outcome}
  <2>1. CASE MoveOut
    BY <2>1 DEF MoveOut, Rename, Sent, Goto, Return, Returned
  <2>2. CASE MoveAside
    BY <2>2 DEF MoveAside, Rename, Sent, Goto, Return, Returned
  <2>3. CASE PutStagingBack
    BY <2>3 DEF PutStagingBack, Rename, Sent, Goto, Return, Returned
  <2>4. CASE MoveIn
    BY <2>4 DEF MoveIn, Rename, Sent, Goto, Return, Returned
  <2>5. CASE PutOldBack
    BY <2>5 DEF PutOldBack, Rename, Sent, Goto, Return, Returned
  <2>6. CASE Park
    BY <2>6 DEF Park, Rename, Sent, Goto, Return, Returned
  <2>7. CASE MoveBack
    BY <2>7 DEF MoveBack, Rename, Sent, Goto, Return, Returned
  <2>. QED  BY <2>1, <2>2, <2>3, <2>4, <2>5, <2>6, <2>7 DEF Renames
<1>2. NoFault \/ Fault
  BY DEF Renames, MoveOut, MoveAside, PutStagingBack, MoveIn, PutOldBack, Park, MoveBack,
     Rename, MoveFails
<1>3. faults' \in 0..MaxFaults
  BY <1>2 DEF Fault, NoFault, Inv, TypeOK
<1>4. aborted' = aborted \/ aborted' = TRUE
  BY DEF Renames, MoveOut, MoveAside, PutStagingBack, MoveIn, PutOldBack, Park, MoveBack,
     Rename
<1>5. aborted' \in BOOLEAN
  BY <1>4 DEF Inv, TypeOK
<1>. QED  BY <1>1, <1>3, <1>5, ReturnedType DEF Inv, TypeOK

(* A rename keeps the old state, and takes the flow where it is.              *)
LEMMA RenameInv ==
  ASSUME Inv, Renames
  PROVE  Inv'
<1>1. /\ UNCHANGED <<env, polls, rollingBack>>
      /\ faults' \in 0..MaxFaults /\ ssh' \in {"up", "down"} /\ aborted' \in BOOLEAN
      /\ pc' \in {"aside", "in", "unstage", "restart", "undoAside", "back", "done"}
      /\ outcome' \in Outcomes /\ ssh = "up"
  BY RenameFrame
<1>2. AtWell' => TypeOK'
  BY <1>1 DEF AtWell, env, Inv, TypeOK, Steps, Waiting
<1>3. at' = at => Kept' /\ at'["old"] = at["old"] /\ at'["new"] = at["new"]
  BY DEF Inv, TypeOK, Kept, AtWell, OldStateKept, OneLive, OnlyOldPreserved, At
<1>4. Blanks \intersect Paths = {}
  BY DEF Dirs
<1>5. CASE MoveOut \/ PutStagingBack
  <2>1. at["old"] = "live" /\ pc' \in {"aside", "done"}
    BY <1>5 DEF MoveOut, PutStagingBack, Rename, Sent, Goto, Return, Inv, LiveBefore, Before
  <2>2. at' = at \/ Move("staged", "holding") \/ Move("holding", "staged")
    BY <1>5 DEF MoveOut, PutStagingBack, Rename, MoveFails
  <2>3. Kept' /\ at'["old"] = "live"
    BY <1>3, <2>1, <2>2, StagedMoves
  <2>. QED
    BY <1>1, <1>2, <2>1, <2>3 DEF Kept, Inv, LiveBefore, PreservedAfter, NewOutOfTheWay,
       InsideAtTheEnd, CatchRollsBack, Before, Staging, Aside, Waiting, Paths
<1>6. CASE MoveAside
  <2>1. at["old"] = "live" /\ at["new"] # "live"
    BY <1>6 DEF MoveAside, Sent, Inv, LiveBefore, Before, OneLive, At, Dirs
  <2>2. \/ Move("live", "preserved") /\ pc' \in {"in", "done"}
        \/ at' = at /\ pc' = "unstage"
        \/ at' = at /\ pc' = "in" /\ ssh' = "down"
    BY <1>6 DEF MoveAside, Rename, MoveFails, Goto, Return
  <2>3. \/ Kept' /\ at'["old"] = "preserved" /\ at'["new"] # "live" /\ pc' \in {"in", "done"}
        \/ Kept' /\ at'["old"] = "live" /\ pc' = "unstage"
        \/ Kept' /\ at'["old"] = "live" /\ pc' = "in" /\ ssh' = "down"
    BY <1>3, <2>1, <2>2, AsideMoves
  <2>. QED
    BY <1>1, <1>2, <2>3 DEF Kept, Inv, LiveBefore, PreservedAfter, NewOutOfTheWay,
       InsideAtTheEnd, CatchRollsBack, Before, Staging, Aside, Waiting, Paths
<1>7. CASE MoveIn
  <2>1. at["old"] = "preserved" /\ at["new"] # "live"
    BY <1>1, <1>7 DEF MoveIn, Sent, Inv, PreservedAfter, NewOutOfTheWay, Aside
  <2>2. \/ Move("holding", "live") /\ pc' \in {"restart", "done"}
        \/ at' = at /\ pc' \in {"restart", "undoAside"}
    BY <1>7 DEF MoveIn, Rename, MoveFails, Goto, Return
  <2>3. /\ Kept' /\ at'["old"] = "preserved"
        /\ pc' \in {"restart", "done", "undoAside"}
        /\ pc' = "undoAside" => at'["new"] # "live"
    BY <1>3, <2>1, <2>2, InMoves
  <2>. QED
    BY <1>1, <1>2, <2>3 DEF Kept, Inv, LiveBefore, PreservedAfter, NewOutOfTheWay,
       InsideAtTheEnd, CatchRollsBack, Before, Staging, Aside, Waiting, Paths
<1>8. CASE Park
  <2>1. at["old"] = "preserved" /\ rollingBack
    BY <1>1, <1>8 DEF Park, Sent, Inv, PreservedAfter, Aside, CatchRollsBack
  <2>2. \/ Move("live", "failed") /\ pc' \in {"back", "done"}
        \/ at' = at /\ pc' = "done"
        \/ at' = at /\ pc' = "back" /\ ssh' = "down"
    BY <1>8 DEF Park, Rename, MoveFails, Goto, Return
  <2>3. /\ Kept' /\ at'["old"] = "preserved" /\ pc' \in {"back", "done"}
        /\ pc' = "back" /\ ssh' = "up" => at'["new"] # "live"
    BY <1>3, <2>1, <2>2, ParkMoves
  <2>. QED
    BY <1>1, <1>2, <2>1, <2>3 DEF Kept, Inv, LiveBefore, PreservedAfter, NewOutOfTheWay,
       InsideAtTheEnd, CatchRollsBack, Before, Staging, Aside, Waiting, Paths
<1>9. CASE PutOldBack \/ MoveBack
  <2>1. at["old"] = "preserved" /\ at["new"] # "live"
    BY <1>1, <1>9 DEF PutOldBack, MoveBack, Sent, Inv, PreservedAfter, NewOutOfTheWay, Aside
  <2>2. at' = at \/ Move("preserved", "live")
    BY <1>9 DEF PutOldBack, MoveBack, Rename, MoveFails
  <2>3. Kept'
    BY <1>3, <2>1, <2>2, BackMoves
  <2>4. pc' = "done" \/ (pc' = "restart" /\ rollingBack')
    BY <1>1, <1>9 DEF PutOldBack, MoveBack, Rename, Sent, Goto, Return, Inv, CatchRollsBack
  <2>. QED
    BY <1>1, <1>2, <2>3, <2>4 DEF Kept, Inv, LiveBefore, PreservedAfter, NewOutOfTheWay,
       InsideAtTheEnd, CatchRollsBack, Before, Staging, Aside, PutBack, Waiting
<1>. QED  BY <1>5, <1>6, <1>7, <1>8, <1>9 DEF Renames

----------------------------------------------------------------------------
(* A step of the restart or of the wait leaves the old state where it is: the *)
(* flow goes on, or into the catch block, or out of it.                       *)
LEMMA WaitStep ==
  ASSUME Inv, pc \in Waiting, TypeOK', Kept', at'["old"] = at["old"],
         ssh' = "up" => ssh = "up",
         \/ rollingBack /\ rollingBack' /\ pc' \in PutBack \union {"done"}
         \/ ~rollingBack /\ ~rollingBack' /\ pc' \in {"run", "gate", "health", "tidy"}
         \/ ~rollingBack /\ rollingBack' /\ pc' = "park"
  PROVE  Inv'
<1>1. ssh' = "up" /\ ~rollingBack => at'["old"] = "preserved"
  BY DEF Inv, PreservedAfter
<1>2. at'["old"] \notin Paths => rollingBack
  BY DEF Inv, InsideAtTheEnd, Waiting
<1>. QED
  BY <1>1, <1>2 DEF Kept, Inv, LiveBefore, PreservedAfter, NewOutOfTheWay,
     InsideAtTheEnd, CatchRollsBack, Before, Staging, Aside, PutBack, Waiting

(* What restartGateway's end and its exceptions mean to the flow.             *)
LEMMA RestartMeans ==
  ASSUME Inv, RestartOver \/ RestartThrows
  PROVE  /\ polls' = 0 /\ outcome' \in Returned \union {outcome}
         /\ rollingBack' \in BOOLEAN
         /\ \/ rollingBack /\ rollingBack' /\ pc' = "done"
            \/ ~rollingBack /\ ~rollingBack' /\ pc' = "health"
            \/ ~rollingBack /\ rollingBack' /\ pc' = "park"
<1>1. CASE RestartOver
  BY <1>1 DEF RestartOver, Goto, Return, Returned, Inv, TypeOK
<1>2. CASE RestartThrows
  BY <1>2 DEF RestartThrows, Return, Returned, Inv, TypeOK
<1>. QED  BY <1>1, <1>2

(* Whatever becomes of a run, there is a container of some directory, or none.*)
LEMMA GatewayLeaves ==
  ASSUME Inv, NEW d \in Dirs, NEW g \in RunCutShort(sup, gw, d) \union {Running(d)}
  PROVE  g \in Containers(Dirs)
  BY DEF RunFails, RunCutShort, Stopped, Running, Restarting, Absent, Containers, Statuses,
     Inv, TypeOK

(* The inspection, the run, both waits, and an exception in any of them.      *)
LEMMA WaitingInv ==
  ASSUME Inv,
         \/ InspectForRestart \/ RunGateway \/ GateRestart \/ WaitHealthy
         \/ Rejected /\ pc \in Waiting
  PROVE  Inv'
<1>1. at' = at => Kept' /\ at'["old"] = at["old"]
  BY DEF Inv, TypeOK, Kept, AtWell, OldStateKept, OneLive, OnlyOldPreserved, At
<1>2. CASE InspectForRestart
  <2>1. pc = "restart" /\ UNCHANGED <<at, env, ssh, aborted>> /\ (NoFault \/ Fault)
    BY <1>2 DEF InspectForRestart, Sent
  <2>2. RestartThrows \/ (Goto("run") /\ UNCHANGED polls)
    BY <1>2 DEF InspectForRestart
  <2>3. /\ polls' \in {0, polls} /\ outcome' \in Returned \union {outcome}
        /\ rollingBack' \in BOOLEAN /\ pc' \in Steps
        /\ \/ rollingBack /\ rollingBack' /\ pc' \in PutBack \union {"done"}
           \/ ~rollingBack /\ ~rollingBack' /\ pc' \in {"run", "health"}
           \/ ~rollingBack /\ rollingBack' /\ pc' = "park"
    BY <2>2, RestartMeans DEF Goto, PutBack, Inv, TypeOK, Steps, Waiting
  <2>4. TypeOK'
    BY <2>1, <2>3, ReturnedType
       DEF env, Fault, NoFault, Inv, TypeOK
  <2>. QED  BY <1>1, <2>1, <2>3, <2>4, WaitStep DEF Waiting
<1>3. CASE RunGateway
  <2>1. PICK d \in Dirs : MountsLive(d) /\ gw' \in RunCutShort(sup, gw, d) \union {Running(d)}
    BY <1>3 DEF RunGateway, RunCutShort
  <2>2. /\ pc = "run" /\ ssh = "up" /\ ssh' \in {"up", "down"} /\ aborted' \in BOOLEAN
        /\ NoFault \/ Fault
        /\ UNCHANGED <<sup, delay, crashes>> /\ boot' \in {boot, 0}
        /\ RestartThrows \/ (Goto("gate") /\ polls' \in {0, polls})
    BY <1>3 DEF RunGateway, Sent, Inv, TypeOK
  <2>3. /\ polls' \in {0, polls} /\ outcome' \in Returned \union {outcome}
        /\ rollingBack' \in BOOLEAN /\ pc' \in Steps
        /\ \/ rollingBack /\ rollingBack' /\ pc' \in PutBack \union {"done"}
           \/ ~rollingBack /\ ~rollingBack' /\ pc' \in {"gate", "health"}
           \/ ~rollingBack /\ rollingBack' /\ pc' = "park"
    BY <2>2, RestartMeans DEF Goto, PutBack, Inv, TypeOK, Steps, Waiting
  <2>4. Kept' /\ at'["old"] = at["old"]
    BY <2>1, MountKeeps
  <2>5. gw' \in Containers(Dirs)
    BY <2>1, GatewayLeaves DEF Inv, TypeOK
  <2>6. TypeOK'
    BY <2>2, <2>3, <2>4, <2>5, ReturnedType
       DEF Kept, AtWell, Fault, NoFault, Forever, Inv, TypeOK
  <2>. QED  BY <2>2, <2>3, <2>4, <2>6, WaitStep DEF Waiting
<1>4. CASE GateRestart
  <2>1. /\ pc = "gate" /\ NoFault /\ UNCHANGED <<at, gw, sup, delay, crashes, ssh, aborted>>
        /\ boot' = boot \/ Tick
    BY <1>4 DEF GateRestart, Sent
  <2>2. \/ RestartOver \/ RestartThrows
        \/ Goto("gate") /\ polls' = polls + 1 /\ polls + 1 < RestartBudget
    BY <1>4 DEF GateRestart
  <2>3. /\ polls' \in 0..RestartBudget + HealthBudget
        /\ outcome' \in Returned \union {outcome}
        /\ rollingBack' \in BOOLEAN /\ pc' \in Steps
        /\ \/ rollingBack /\ rollingBack' /\ pc' \in PutBack \union {"done"}
           \/ ~rollingBack /\ ~rollingBack' /\ pc' \in {"gate", "health"}
           \/ ~rollingBack /\ rollingBack' /\ pc' = "park"
    BY <2>2, RestartMeans DEF Goto, PutBack, Inv, TypeOK, Steps, Waiting
  <2>4. boot' \in 0..Forever
    BY <2>1 DEF Tick, Forever, Inv, TypeOK
  <2>5. TypeOK'
    BY <2>1, <2>3, <2>4, ReturnedType
       DEF NoFault, Inv, TypeOK
  <2>. QED  BY <1>1, <2>1, <2>3, <2>5, WaitStep DEF Waiting
<1>5. CASE WaitHealthy
  <2>1. /\ pc = "health" /\ (NoFault \/ Fault)
        /\ UNCHANGED <<at, gw, sup, delay, crashes, ssh, aborted>>
    BY <1>5 DEF WaitHealthy, Sent
  <2>2. boot' = boot \/ Tick
    BY <1>5 DEF WaitHealthy
  <2>3. \/ RestartThrows
        \/ Goto("tidy") /\ polls' = 0
        \/ Goto("health") /\ polls' = polls + 1 /\ polls + 1 < HealthBudget
    BY <1>5 DEF WaitHealthy
  <2>4. ~rollingBack
    BY <2>1 DEF Inv, CatchRollsBack
  <2>5. /\ polls' \in 0..RestartBudget + HealthBudget
        /\ outcome' \in Returned \union {outcome}
        /\ rollingBack' \in BOOLEAN /\ pc' \in Steps
        /\ \/ ~rollingBack' /\ pc' \in {"health", "tidy"}
           \/ rollingBack' /\ pc' = "park"
    BY <2>3, <2>4, RestartMeans DEF Goto, Inv, TypeOK, Steps, Waiting
  <2>6. boot' \in 0..Forever
    BY <2>2 DEF Tick, Forever, Inv, TypeOK
  <2>7. TypeOK'
    BY <2>1, <2>5, <2>6, ReturnedType
       DEF Fault, NoFault, Inv, TypeOK
  <2>. QED  BY <1>1, <2>1, <2>4, <2>5, <2>7, WaitStep DEF Waiting
<1>6. CASE Rejected /\ pc \in Waiting
  <2>1. RestartThrows /\ NoFault /\ UNCHANGED <<at, env, ssh, aborted>>
    BY <1>6 DEF Rejected
  <2>2. /\ polls' = 0 /\ outcome' \in Returned \union {outcome}
        /\ rollingBack' \in BOOLEAN /\ pc' \in Steps
        /\ \/ rollingBack /\ rollingBack' /\ pc' = "done"
           \/ ~rollingBack /\ ~rollingBack' /\ pc' = "health"
           \/ ~rollingBack /\ rollingBack' /\ pc' = "park"
    BY <2>1, RestartMeans DEF Steps, Waiting
  <2>3. TypeOK'
    BY <2>1, <2>2, ReturnedType DEF env, NoFault, Inv, TypeOK
  <2>. QED  BY <1>1, <1>6, <2>1, <2>2, <2>3, WaitStep
<1>. QED  BY <1>2, <1>3, <1>4, <1>5, <1>6

(* An exception anywhere else, and the end of a restore that held.            *)
LEMMA EndInv ==
  ASSUME Inv, Tidy \/ (Rejected /\ pc \notin Waiting)
  PROVE  Inv'
<1>1. /\ pc' = "done" /\ outcome' \in Returned /\ faults' = faults
      /\ UNCHANGED <<env, polls, ssh, aborted, rollingBack>>
  BY DEF Tidy, Rejected, Return, NoFault, Quiet, Returned
<1>2. CASE at' = at
  <2>1. TypeOK'
    BY <1>1, <1>2, ReturnedType DEF env, Inv, TypeOK, Steps
  <2>. QED
    BY <1>1, <1>2, <2>1 DEF Inv, OldStateKept, OneLive, OnlyOldPreserved, At, LiveBefore,
       PreservedAfter, NewOutOfTheWay, InsideAtTheEnd, CatchRollsBack, Before, Staging,
       Aside, Waiting
<1>3. CASE Tidy
  <2>1. at' = [d \in Dirs |-> IF at[d] = "staged" THEN "nowhere" ELSE at[d]]
    BY <1>3 DEF Tidy
  <2>2. "old" \in Dirs /\ at["old"] = "preserved"
    BY <1>3 DEF Dirs, Tidy, Sent, Inv, PreservedAfter, Aside
  <2>3. at' \in [Dirs -> Paths \union Dirs \union {"nowhere"}] /\ at'["old"] = "preserved"
    BY <2>1, <2>2 DEF Inv, TypeOK
  <2>4. OneLive' /\ OnlyOldPreserved'
    BY <2>1 DEF Inv, OneLive, OnlyOldPreserved, At
  <2>5. TypeOK'
    BY <1>1, <2>3, ReturnedType DEF env, Inv, TypeOK, Steps
  <2>. QED
    BY <1>1, <2>3, <2>4, <2>5 DEF Inv, OldStateKept, LiveBefore, PreservedAfter,
       NewOutOfTheWay, InsideAtTheEnd, CatchRollsBack, Before, Staging, Aside, Waiting, Paths
<1>. QED  BY <1>2, <1>3 DEF Rejected

(* The gateway, its supervisor, the network and the operator move nothing.    *)
LEMMA WorldInv ==
  ASSUME Inv, GatewayCrashes \/ SupervisorRestarts \/ SessionLost \/ OperatorAborts
  PROVE  Inv'
<1>1. UNCHANGED <<pc, rollingBack, polls, outcome, faults, sup, delay>>
  BY DEF GatewayCrashes, SupervisorRestarts, SessionLost, OperatorAborts, flow, env
<1>2. ssh' \in {ssh, "down"} /\ (ssh' = "up" => ssh = "up")
  BY DEF GatewayCrashes, SupervisorRestarts, SessionLost, OperatorAborts, Inv, TypeOK
<1>3. aborted' \in BOOLEAN
  BY DEF GatewayCrashes, SupervisorRestarts, SessionLost, OperatorAborts, Inv, TypeOK
<1>4. gw' \in Containers(Dirs) /\ boot' \in {boot, 0} /\ crashes' \in 0..MaxCrashes
  <2>1. CASE GatewayCrashes
    <3>1. gw' = Restarting(gw.run) /\ gw.run \in Dirs \union {Nothing}
      BY <2>1 DEF GatewayCrashes, Inv, TypeOK, Containers
    <3>2. gw' \in Containers(Dirs)
      BY <3>1 DEF Restarting, Containers, Statuses
    <3>. QED  BY <2>1, <3>2 DEF GatewayCrashes, Inv, TypeOK
  <2>2. CASE SupervisorRestarts
    BY <2>2 DEF SupervisorRestarts, Inv, TypeOK, Containers, Statuses, Running
  <2>3. CASE SessionLost \/ OperatorAborts
    BY <2>3 DEF SessionLost, OperatorAborts, env, Inv, TypeOK
  <2>. QED  BY <2>1, <2>2, <2>3
<1>5. Kept' /\ at'["old"] = at["old"] /\ at'["new"] = at["new"]
  <2>1. CASE SupervisorRestarts
    BY <2>1, MountKeeps DEF SupervisorRestarts
  <2>2. CASE at' = at
    BY <2>2 DEF Inv, TypeOK, Kept, AtWell, OldStateKept, OneLive, OnlyOldPreserved, At
  <2>. QED  BY <2>1, <2>2 DEF GatewayCrashes, SessionLost, OperatorAborts
<1>6. TypeOK'
  BY <1>1, <1>2, <1>3, <1>4, <1>5 DEF Kept, AtWell, Forever, Inv, TypeOK
<1>. QED
  BY <1>1, <1>2, <1>5, <1>6 DEF Kept, Inv, LiveBefore, PreservedAfter, NewOutOfTheWay,
     InsideAtTheEnd, CatchRollsBack

(* In every state of a restore the old state is where the step expects it.    *)
THEOREM Invariance == Spec => []Inv
<1>1. Inv /\ [Next]_vars => Inv'
  <2>. SUFFICES ASSUME Inv, [Next]_vars PROVE Inv'
    OBVIOUS
  <2>1. CASE Flow
    BY <2>1, StagingInv, RenameInv, WaitingInv, EndInv DEF Flow, Renames
  <2>2. CASE GatewayCrashes \/ SupervisorRestarts \/ SessionLost \/ OperatorAborts
    BY <2>2, WorldInv
  <2>3. CASE UNCHANGED vars
    BY <2>3 DEF vars, Inv, TypeOK, OldStateKept, OneLive, OnlyOldPreserved, At, LiveBefore,
       PreservedAfter, NewOutOfTheWay, InsideAtTheEnd, CatchRollsBack
  <2>. QED  BY <2>1, <2>2, <2>3 DEF Next
<1>. QED  BY InitInv, <1>1, PTL DEF Spec

(* The steps of a restore keep the directories, the container, the waits and  *)
(* what is returned well formed.                                              *)
THEOREM TypeCorrect == Spec => []TypeOK
<1>1. Inv => TypeOK
  BY DEF Inv
<1>. QED  BY <1>1, Invariance, PTL

(* activateRestored never loses the state that was live: whatever fails, and  *)
(* wherever the flow is cut short, it is live, preserved, or inside the blank *)
(* directory docker created at the live path.                                 *)
THEOREM OldStateSafe == Spec => []OldStateKept
<1>1. Inv => OldStateKept
  BY DEF Inv
<1>. QED  BY <1>1, Invariance, PTL

----------------------------------------------------------------------------
(* What a flow that ends in this step has said: that it threw, that it rolled *)
(* back, or where the old state is.                                           *)
SaysWell ==
  \/ outcome'.kind = "threw" \/ outcome'.rolledBack
  \/ at'["old"] = "live"
  \/ at'["old"] = "preserved" /\ "preserved" \in outcome'.names

(* Every step of the flow that ends it says so.                               *)
LEMMA EndSays ==
  ASSUME Inv, Flow, pc' = "done"
  PROVE  SaysWell
<1>1. "old" \in Dirs /\ "new" \in Dirs
  BY DEF Dirs
<1>2. CASE \/ HasRoomFor \/ UploadArchive \/ ExpandArchive \/ CopyOut
           \/ LocateRestoredState \/ Confirm \/ Chown \/ LookForStaged
  <2>1. at["old"] = "live"
    BY <1>2 DEF HasRoomFor, UploadArchive, ExpandArchive, CopyOut, LocateRestoredState, Confirm,
       Chown, LookForStaged, Sent, Inv, LiveBefore, Before, Staging
  <2>2. at' = at \/ at' = [at EXCEPT !["new"] = "staged"]
    BY <1>2 DEF HasRoomFor, UploadArchive, ExpandArchive, CopyOut, LocateRestoredState, Confirm,
       Chown, LookForStaged
  <2>. QED  BY <1>1, <2>1, <2>2 DEF Inv, TypeOK, SaysWell
<1>3. CASE MoveOut \/ PutStagingBack
  <2>1. at["old"] = "live"
    BY <1>3 DEF MoveOut, PutStagingBack, Sent, Inv, LiveBefore, Before
  <2>2. at' = at \/ Move("staged", "holding") \/ Move("holding", "staged")
    BY <1>3 DEF MoveOut, PutStagingBack, Rename, MoveFails
  <2>. QED  BY <2>1, <2>2, StagedMoves DEF SaysWell
<1>4. CASE MoveAside \/ MoveIn
  <2>1. outcome' = Result("threw", {})
    BY <1>4 DEF MoveAside, MoveIn, Rename, Goto, Return
  <2>. QED  BY <2>1 DEF SaysWell, Result
<1>5. CASE PutOldBack
  <2>1. outcome' \in {Result("threw", {}), RolledBack({})}
    BY <1>5 DEF PutOldBack, Rename, Return
  <2>. QED  BY <2>1 DEF SaysWell, Result, RolledBack
<1>6. CASE Park \/ MoveBack
  <2>1. \/ outcome' = Result("threw", {})
        \/ at' = at /\ outcome' \in {Result("failed", {"preserved"}),
                                     Result("failed", {"preserved", "failed"})}
    BY <1>6 DEF Park, MoveBack, Rename, MoveFails, Goto, Return
  <2>2. at["old"] = "preserved"
    BY <1>6 DEF Park, MoveBack, Sent, Inv, PreservedAfter, Aside
  <2>. QED  BY <2>1, <2>2 DEF SaysWell, Result
<1>7. CASE \/ InspectForRestart \/ RunGateway \/ GateRestart \/ WaitHealthy
           \/ Rejected /\ pc \in Waiting
  <2>1. RestartOver \/ RestartThrows
    BY <1>7 DEF InspectForRestart, RunGateway, GateRestart, WaitHealthy, Rejected, Goto, Waiting
  <2>2. outcome' = RolledBack({"failed"})
    BY <2>1 DEF RestartOver, RestartThrows, Goto, Return
  <2>. QED  BY <2>2 DEF SaysWell, RolledBack
<1>8. CASE Tidy
  <2>1. at' = [d \in Dirs |-> IF at[d] = "staged" THEN "nowhere" ELSE at[d]]
        /\ outcome' = Result("ok", {"preserved"})
    BY <1>8 DEF Tidy, Return
  <2>2. at["old"] = "preserved"
    BY <1>8 DEF Tidy, Sent, Inv, PreservedAfter, Aside
  <2>. QED  BY <1>1, <2>1, <2>2 DEF SaysWell, Result
<1>9. CASE Rejected /\ pc \notin Waiting
  <2>1. outcome' = Result("threw", {})
    BY <1>9 DEF Rejected, Return
  <2>. QED  BY <2>1 DEF SaysWell, Result
<1>. QED  BY <1>2, <1>3, <1>4, <1>5, <1>6, <1>7, <1>8, <1>9 DEF Flow

(* A flow that returns without claiming a rollback has left the old state at  *)
(* its own path or names the path it is at, whatever the world does after it. *)
THEOREM OldStateNamed == Spec => []OldStateIsWhereItSays
<1>1. Init => OldStateIsWhereItSays
  BY DEF Init, OldStateIsWhereItSays
<1>2. Inv /\ OldStateIsWhereItSays /\ [Next]_vars => OldStateIsWhereItSays'
  <2>. SUFFICES ASSUME Inv, OldStateIsWhereItSays, [Next]_vars PROVE OldStateIsWhereItSays'
    OBVIOUS
  <2>1. CASE Flow
    BY <2>1, EndSays DEF SaysWell, OldStateIsWhereItSays
  <2>2. CASE GatewayCrashes \/ SupervisorRestarts \/ SessionLost \/ OperatorAborts
    <3>1. UNCHANGED <<pc, outcome>>
      BY <2>2 DEF GatewayCrashes, SupervisorRestarts, SessionLost, OperatorAborts, flow
    <3>2. at'["old"] = at["old"]
      BY <2>2, MountKeeps DEF GatewayCrashes, SupervisorRestarts, SessionLost, OperatorAborts
    <3>. QED  BY <3>1, <3>2 DEF OldStateIsWhereItSays
  <2>3. CASE UNCHANGED vars
    BY <2>3 DEF vars, OldStateIsWhereItSays
  <2>. QED  BY <2>1, <2>2, <2>3 DEF Next
<1>. QED  BY <1>1, <1>2, Invariance, PTL DEF Spec
----------------------------------------------------------------------------
(* Where the expanded archive is at each step of a session that lasts, up to  *)
(* the swap: nothing else is at the paths it goes through, and the swap is    *)
(* only undone when a command has failed.                                     *)
OnlyNewStaged == At("staged") \union At("holding") \subseteq {"new"}
StagedUntilOut ==
  ssh = "up" /\ pc \in {"manifest", "confirm", "chown", "look", "out"} => at["new"] = "staged"
HeldUntilIn == ssh = "up" /\ pc \in {"aside", "unstage"} => at["new"] = "holding"
NotYetThere == ssh = "up" /\ pc \in {"room", "upload", "expand", "copyOut"} => at["new"] = "nowhere"
UndoneForAFault == pc = "unstage" => faults >= 1

RetryInv ==
  /\ OnlyNewStaged /\ StagedUntilOut /\ HeldUntilIn /\ NotYetThere /\ UndoneForAFault
  /\ RetryFindsStaged

----------------------------------------------------------------------------
(* A rename brings nothing but the archive's state to the paths of the        *)
(* archive, and takes that state from one to the other whole.                 *)
LEMMA MoveStaged ==
  ASSUME Inv, OnlyNewStaged, NEW p \in Paths, NEW q \in Paths, Move(p, q),
         p \in {"staged", "holding"} \/ q \notin {"staged", "holding"}
  PROVE  /\ OnlyNewStaged'
         /\ at["new"] = p /\ p \in {"staged", "holding"} /\ q \in {"staged", "holding"} /\ p # q
              => at'["new"] = q
         /\ at["new"] # p => at'["new"] = at["new"]
<1>1. PICK d \in At(p), x \in At(q) \union {q} :
        /\ at' = [at EXCEPT ![d] = x] /\ (x = q => At(q) = {})
        /\ x \in Dirs \union {q} /\ d \in Dirs
  BY MoveMeans DEF Inv
<1>2. "new" \in Dirs /\ at[d] = p /\ at \in [Dirs -> Paths \union Dirs \union {"nowhere"}]
  BY <1>1 DEF Dirs, At, Inv, TypeOK
<1>3. at["new"] # p => at'["new"] = at["new"]
  BY <1>1, <1>2
<1>4. OnlyNewStaged'
  <2>. SUFFICES ASSUME NEW e \in Dirs, at'[e] \in {"staged", "holding"} PROVE e = "new"
    BY DEF OnlyNewStaged, At
  <2>1. CASE e = d
    <3>1. x \in {"staged", "holding"}
      BY <1>1, <1>2, <2>1
    <3>2. x = q
      BY <1>1, <3>1 DEF Paths
    <3>. QED  BY <1>2, <2>1, <3>1, <3>2 DEF OnlyNewStaged, At
  <2>2. CASE e # d
    BY <1>1, <1>2, <2>2 DEF OnlyNewStaged, At
  <2>. QED  BY <2>1, <2>2
<1>5. ASSUME at["new"] = p, p \in {"staged", "holding"}, q \in {"staged", "holding"}, p # q
      PROVE  at'["new"] = q
  <2>1. d = "new"
    BY <1>2, <1>5 DEF OnlyNewStaged, At
  <2>2. At(q) = {}
    BY <1>5 DEF OnlyNewStaged, At
  <2>. QED  BY <1>1, <1>2, <2>1, <2>2
<1>. QED  BY <1>3, <1>4, <1>5

(* Until the swap the archive's state is at a path of its own, or nowhere.    *)
LEMMA StagingRetry ==
  ASSUME Inv, RetryInv,
         \/ HasRoomFor \/ UploadArchive \/ ExpandArchive \/ CopyOut
         \/ LocateRestoredState \/ Confirm \/ Chown \/ LookForStaged
  PROVE  RetryInv'
<1>1. CASE HasRoomFor \/ UploadArchive \/ ExpandArchive
  <2>1. at' = at /\ at["new"] = "nowhere" /\ ssh' = ssh
        /\ pc' \in {"upload", "expand", "copyOut", "done"}
    BY <1>1 DEF HasRoomFor, UploadArchive, ExpandArchive, Sent, Goto, Return, Quiet,
       RetryInv, NotYetThere
  <2>. QED
    BY <2>1 DEF RetryInv, OnlyNewStaged, At, StagedUntilOut, HeldUntilIn, NotYetThere,
       UndoneForAFault, RetryFindsStaged
<1>2. CASE CopyOut
  <2>1. "new" \in Dirs /\ DOMAIN at = Dirs /\ at["new"] = "nowhere" /\ ssh' = "up"
    BY <1>2 DEF Dirs, Inv, TypeOK, CopyOut, Sent, Quiet, RetryInv, NotYetThere
  <2>2. \/ at' = [at EXCEPT !["new"] = "staged"] /\ pc' = "manifest"
        \/ at' = at /\ pc' = "done"
    BY <1>2 DEF CopyOut, Goto, Return
  <2>3. OnlyNewStaged'
    BY <2>1, <2>2 DEF RetryInv, OnlyNewStaged, At
  <2>. QED
    BY <2>1, <2>2, <2>3 DEF RetryInv, StagedUntilOut, HeldUntilIn, NotYetThere,
       UndoneForAFault, RetryFindsStaged
<1>3. CASE LocateRestoredState \/ Confirm \/ Chown \/ LookForStaged
  <2>1. /\ at' = at /\ (ssh = "up" => at["new"] = "staged") /\ ssh' = ssh
        /\ pc' \in {"confirm", "chown", "look", "out", "done"}
    BY <1>3 DEF LocateRestoredState, Confirm, Chown, LookForStaged, Sent, Goto, Return, Quiet,
       RetryInv, StagedUntilOut
  <2>. QED
    BY <2>1 DEF RetryInv, OnlyNewStaged, At, StagedUntilOut, HeldUntilIn, NotYetThere,
       UndoneForAFault, RetryFindsStaged
<1>. QED  BY <1>1, <1>2, <1>3

(* The renames of the swap, and those that undo it: a swap that is undone     *)
(* for one fault puts the archive's state back, unless the undoing is the     *)
(* second.                                                                    *)
LEMMA RenameRetry ==
  ASSUME Inv, RetryInv, Renames
  PROVE  RetryInv'
<1>1. "old" \in Dirs /\ "new" \in Dirs /\ ssh = "up" /\ faults \in Nat /\ faults' \in Nat
  BY RenameFrame DEF Dirs, Inv, TypeOK
<1>2. at' = at => OnlyNewStaged'
  BY DEF RetryInv, OnlyNewStaged, At
<1>3. CASE MoveOut
  <2>1. at["new"] = "staged"
    BY <1>1, <1>3 DEF MoveOut, Sent, RetryInv, StagedUntilOut
  <2>2. \/ Move("staged", "holding") /\ pc' = "aside"
        \/ at' = at /\ pc' = "done"
        \/ at' = at /\ pc' = "aside" /\ ssh' = "down"
        \/ pc' = "done" /\ outcome'.kind = "threw" /\ Move("staged", "holding")
    BY <1>3 DEF MoveOut, Rename, MoveFails, Goto, Return, Result
  <2>3. /\ OnlyNewStaged'
        /\ \/ pc' = "aside" /\ (at'["new"] = "holding" \/ ssh' = "down")
           \/ pc' = "done" /\ (at'["new"] = "staged" \/ outcome'.kind = "threw")
    BY <1>2, <2>1, <2>2, MoveStaged DEF RetryInv, Paths
  <2>. QED
    BY <2>3 DEF RetryInv, StagedUntilOut, HeldUntilIn, NotYetThere, UndoneForAFault,
       RetryFindsStaged
<1>4. CASE MoveAside
  <2>1. at["new"] = "holding" /\ at["old"] = "live"
    BY <1>1, <1>4 DEF MoveAside, Sent, RetryInv, HeldUntilIn, Inv, LiveBefore, Before
  <2>2. \/ Move("live", "preserved") /\ (pc' = "in" \/ (pc' = "done" /\ outcome'.kind = "threw"))
        \/ at' = at /\ pc' = "unstage" /\ faults' = faults + 1
        \/ at' = at /\ pc' = "in"
    BY <1>1, <1>4, <2>1 DEF MoveAside, Rename, MoveFails, Fault, At, Goto, Return, Result
  <2>3. /\ OnlyNewStaged' /\ at'["new"] = "holding"
        /\ \/ pc' = "in" \/ (pc' = "done" /\ outcome'.kind = "threw")
           \/ pc' = "unstage" /\ faults' >= 1
    BY <1>1, <1>2, <2>1, <2>2, MoveStaged DEF RetryInv, Paths
  <2>. QED
    BY <2>3 DEF RetryInv, StagedUntilOut, HeldUntilIn, NotYetThere, UndoneForAFault,
       RetryFindsStaged
<1>5. CASE PutStagingBack
  <2>1. at["new"] = "holding" /\ faults >= 1
    BY <1>1, <1>5 DEF PutStagingBack, Sent, RetryInv, HeldUntilIn, UndoneForAFault
  <2>2. /\ pc' = "done"
        /\ \/ Move("holding", "staged")
           \/ at' = at /\ faults' = faults + 1
           \/ at' = at /\ ssh' = "down"
    BY <1>1, <1>5, <2>1 DEF PutStagingBack, Rename, MoveFails, Fault, At, Return
  <2>3. /\ OnlyNewStaged'
        /\ at'["new"] = "staged" \/ ~(faults' <= 1) \/ ssh' = "down"
    BY <1>1, <1>2, <2>1, <2>2, MoveStaged DEF RetryInv, Paths
  <2>. QED
    BY <2>2, <2>3 DEF RetryInv, StagedUntilOut, HeldUntilIn, NotYetThere, UndoneForAFault,
       RetryFindsStaged
<1>6. CASE MoveIn \/ PutOldBack \/ Park \/ MoveBack
  <2>1. \/ at' = at \/ Move("holding", "live") \/ Move("preserved", "live") \/ Move("live", "failed")
    BY <1>6 DEF MoveIn, PutOldBack, Park, MoveBack, Rename, MoveFails
  <2>2. OnlyNewStaged'
    BY <1>2, <2>1, MoveStaged DEF RetryInv, Paths
  <2>3. CASE MoveIn
    <3>1. pc' \in {"restart", "undoAside"} \/ (pc' = "done" /\ outcome'.kind = "threw")
      BY <2>3 DEF MoveIn, Rename, Goto, Return, Result
    <3>. QED
      BY <2>2, <3>1 DEF RetryInv, StagedUntilOut, HeldUntilIn, NotYetThere, UndoneForAFault,
         RetryFindsStaged
  <2>4. CASE PutOldBack
    <3>1. pc' = "done" /\ (outcome'.kind = "threw" \/ outcome'.rolledBack)
      BY <2>4 DEF PutOldBack, Rename, Return, Result, RolledBack
    <3>. QED
      BY <2>2, <3>1 DEF RetryInv, StagedUntilOut, HeldUntilIn, NotYetThere, UndoneForAFault,
         RetryFindsStaged
  <2>5. CASE Park \/ MoveBack
    <3>1. at["old"] = "preserved"
      BY <1>1, <2>5 DEF Park, MoveBack, Sent, Inv, PreservedAfter, Aside
    <3>2. \/ pc' \in {"restart", "back"}
          \/ pc' = "done" /\ (outcome'.kind = "threw" \/ at' = at)
      BY <2>5 DEF Park, MoveBack, Rename, MoveFails, Goto, Return, Result
    <3>. QED
      BY <2>2, <3>1, <3>2 DEF RetryInv, StagedUntilOut, HeldUntilIn, NotYetThere,
         UndoneForAFault, RetryFindsStaged
  <2>. QED  BY <1>6, <2>3, <2>4, <2>5
<1>. QED  BY <1>3, <1>4, <1>5, <1>6 DEF Renames

(* The waits end the flow only with a rollback, and everything else that      *)
(* ends it after the swap is an exception or a success.                       *)
LEMMA RestRetry ==
  ASSUME Inv, RetryInv,
         \/ InspectForRestart \/ RunGateway \/ GateRestart \/ WaitHealthy \/ Tidy \/ Rejected
         \/ GatewayCrashes \/ SupervisorRestarts \/ SessionLost \/ OperatorAborts
         \/ UNCHANGED vars
  PROVE  RetryInv'
<1>1. \/ at' = at
      \/ \E d \in Dirs : MountsLive(d)
      \/ at' = [d \in Dirs |-> IF at[d] = "staged" THEN "nowhere" ELSE at[d]] /\ Tidy
  BY DEF InspectForRestart, RunGateway, GateRestart, WaitHealthy, Tidy, Rejected,
     GatewayCrashes, SupervisorRestarts, SessionLost, OperatorAborts, vars
<1>2. OnlyNewStaged'
  BY <1>1 DEF MountsLive, Inv, TypeOK, RetryInv, OnlyNewStaged, At
<1>3. CASE InspectForRestart \/ RunGateway \/ GateRestart \/ WaitHealthy \/ (Rejected /\ pc \in Waiting)
  <2>1. RestartOver \/ RestartThrows \/ pc' \in {"run", "gate", "health", "tidy"}
    BY <1>3 DEF InspectForRestart, RunGateway, GateRestart, WaitHealthy, Rejected, Goto
  <2>2. pc' \in {"run", "gate", "health", "tidy", "park"} \/ (pc' = "done" /\ outcome'.rolledBack)
    BY <2>1 DEF RestartOver, RestartThrows, Goto, Return, RolledBack
  <2>. QED
    BY <1>2, <2>2 DEF RetryInv, StagedUntilOut, HeldUntilIn, NotYetThere, UndoneForAFault,
       RetryFindsStaged
<1>4. CASE Tidy \/ (Rejected /\ pc \notin Waiting)
  <2>1. pc' = "done" /\ outcome'.kind \in {"ok", "threw"}
    BY <1>4 DEF Tidy, Rejected, Return, Result
  <2>. QED
    BY <1>2, <2>1 DEF RetryInv, StagedUntilOut, HeldUntilIn, NotYetThere, UndoneForAFault,
       RetryFindsStaged
<1>5. CASE \/ GatewayCrashes \/ SupervisorRestarts \/ SessionLost \/ OperatorAborts
           \/ UNCHANGED vars
  <2>1. UNCHANGED <<pc, outcome, faults>> /\ (ssh' = "up" => ssh = "up")
    BY <1>5 DEF GatewayCrashes, SupervisorRestarts, SessionLost, OperatorAborts, flow, vars
  <2>2. at'["old"] = at["old"] /\ at'["new"] = at["new"]
    BY <1>5, MountKeeps DEF GatewayCrashes, SupervisorRestarts, SessionLost, OperatorAborts, vars
  <2>. QED
    BY <1>2, <2>1, <2>2 DEF RetryInv, StagedUntilOut, HeldUntilIn, NotYetThere,
       UndoneForAFault, RetryFindsStaged
<1>. QED  BY <1>3, <1>4, <1>5

(* stageRestore's promise for a retry: one failed command on a session that   *)
(* lasts, before the swap, leaves the expanded archive where it was staged.   *)
THEOREM RetryCanFind == Spec => []RetryFindsStaged
<1>1. Init => RetryInv
  BY DEF Init, RetryInv, OnlyNewStaged, At, StagedUntilOut, HeldUntilIn, NotYetThere,
     UndoneForAFault, RetryFindsStaged, Dirs
<1>2. Inv /\ RetryInv /\ [Next]_vars => RetryInv'
  BY StagingRetry, RenameRetry, RestRetry DEF Next, Flow, Renames
<1>3. RetryInv => RetryFindsStaged
  BY DEF RetryInv
<1>. QED  BY <1>1, <1>2, <1>3, Invariance, PTL DEF Spec

----------------------------------------------------------------------------
(* What the gateway runs while the flow waits for it, on a session that       *)
(* lasts: what is at the live path.  A blank directory needs more polls to    *)
(* start than both waits have, so the one that answers is the restored state. *)
BlanksNeverStart == \A b \in Blanks : delay[b] = Forever
RunsLive ==
  ssh = "up" /\ ~rollingBack /\ pc \in {"gate", "health"} =>
    gw.run \in Dirs /\ at[gw.run] = "live"
BootIsCounted ==
  ssh = "up" /\ ~rollingBack =>
    /\ pc = "gate" => boot <= polls /\ polls < RestartBudget
    /\ pc = "health" => boot <= RestartBudget + polls /\ polls < HealthBudget
RestoredAnswers == ssh = "up" /\ pc = "tidy" => gw.run = "new" /\ at["new"] = "live"
PendingUntilDone == pc # "done" => outcome.kind = "pending"

SuccessInv == BlanksNeverStart /\ RunsLive /\ BootIsCounted /\ RestoredAnswers /\ PendingUntilDone

(* A directory that is live when a gateway is started on it is the one it     *)
(* mounts, created by docker if there was none.                               *)
LEMMA MountsWhatIsLive ==
  ASSUME Inv, NEW d \in Dirs, MountsLive(d)
  PROVE  /\ at'[d] = "live"
         /\ \A e \in Dirs : at[e] = "live" => e = d /\ at' = at
<1>1. at \in [Dirs -> Paths \union Dirs \union {"nowhere"}]
  BY DEF Inv, TypeOK
<1>2. CASE at[d] = "live" /\ UNCHANGED at
  BY <1>1, <1>2 DEF Inv, OneLive, At
<1>3. CASE At("live") = {} /\ at' = [at EXCEPT ![d] = "live"]
  BY <1>1, <1>3 DEF At
<1>. QED  BY <1>2, <1>3 DEF MountsLive

(* A gateway that answers while the flow waits runs the restored state: a     *)
(* blank directory needs longer than both waits, and the old state is aside.  *)
LEMMA StartedIsRestored ==
  ASSUME Inv, SuccessInv, ssh = "up", ~rollingBack, pc = "health", Started
  PROVE  gw.run = "new" /\ at["new"] = "live"
<1>1. /\ gw.run \in Dirs /\ at[gw.run] = "live" /\ at["old"] = "preserved"
      /\ boot <= RestartBudget + polls /\ polls < HealthBudget
      /\ boot \in 0..Forever /\ polls \in 0..RestartBudget + HealthBudget
  BY DEF SuccessInv, RunsLive, BootIsCounted, Inv, TypeOK, PreservedAfter, Waiting
<1>2. boot < Forever
  BY <1>1 DEF Forever
<1>3. boot >= delay[gw.run]
  BY DEF Started
<1>4. gw.run \notin Blanks
  <2>. SUFFICES ASSUME gw.run \in Blanks PROVE FALSE
    OBVIOUS
  <2>1. delay[gw.run] = Forever
    BY DEF SuccessInv, BlanksNeverStart
  <2>. QED  BY <1>1, <1>2, <1>3, <2>1 DEF Forever
<1>. QED  BY <1>1, <1>4 DEF Dirs, Paths

(* The steps that start the gateway, wait for it, and give it up.             *)
LEMMA WaitingSuccess ==
  ASSUME Inv, SuccessInv,
         \/ InspectForRestart \/ RunGateway \/ GateRestart \/ WaitHealthy
         \/ Rejected /\ pc \in Waiting
  PROVE  SuccessInv'
<1>1. delay' = delay /\ (ssh' = "up" => ssh = "up")
  BY DEF InspectForRestart, RunGateway, GateRestart, WaitHealthy, Rejected, env
<1>2. BlanksNeverStart'
  BY <1>1 DEF SuccessInv, BlanksNeverStart, Forever
<1>3. outcome.kind = "pending"
  BY DEF InspectForRestart, RunGateway, GateRestart, WaitHealthy, Rejected, Sent, Waiting,
     SuccessInv, PendingUntilDone
<1>4. ASSUME RestartThrows PROVE SuccessInv'
  <2>1. (rollingBack' /\ pc' = "park" /\ outcome' = outcome) \/ pc' = "done"
    BY <1>4 DEF RestartThrows, Return
  <2>. QED
    BY <1>2, <1>3, <2>1 DEF SuccessInv, RunsLive, BootIsCounted, RestoredAnswers, PendingUntilDone
<1>5. CASE InspectForRestart
  <2>1. RestartThrows \/ (pc' = "run" /\ outcome' = outcome)
    BY <1>5 DEF InspectForRestart, Goto
  <2>2. CASE pc' = "run" /\ outcome' = outcome
    BY <1>2, <1>3, <2>2
       DEF SuccessInv, RunsLive, BootIsCounted, RestoredAnswers, PendingUntilDone
  <2>. QED  BY <1>4, <2>1, <2>2
<1>6. CASE RunGateway
  <2>1. PICK d \in Dirs :
          /\ MountsLive(d)
          /\ \/ gw' = Running(d) /\ pc' = "gate" /\ polls' = 0 /\ outcome' = outcome
             \/ RestartThrows
             \/ ssh' = "down" /\ pc' = "gate" /\ outcome' = outcome
    BY <1>6 DEF RunGateway, Goto
  <2>2. CASE gw' = Running(d) /\ pc' = "gate" /\ polls' = 0 /\ outcome' = outcome
    <3>1. boot' = 0
      BY <1>6, <2>2 DEF RunGateway
    <3>2. gw'.run = d /\ at'[d] = "live"
      BY <2>1, <2>2, MountsWhatIsLive DEF Running
    <3>. QED
      BY <1>2, <1>3, <2>2, <3>1, <3>2
         DEF SuccessInv, RunsLive, BootIsCounted, RestoredAnswers, PendingUntilDone
  <2>3. CASE ssh' = "down" /\ pc' = "gate" /\ outcome' = outcome
    BY <1>2, <1>3, <2>3
       DEF SuccessInv, RunsLive, BootIsCounted, RestoredAnswers, PendingUntilDone
  <2>. QED  BY <1>4, <2>1, <2>2, <2>3
<1>7. CASE GateRestart
  <2>1. pc = "gate" /\ UNCHANGED <<at, gw, ssh>> /\ ssh = "up"
    BY <1>7 DEF GateRestart, Sent
  <2>2. boot \in 0..Forever /\ polls \in 0..RestartBudget + HealthBudget
    BY DEF Inv, TypeOK
  <2>3. CASE Started /\ RestartOver /\ UNCHANGED boot
    <3>1. \/ pc' = "done"
          \/ pc' = "health" /\ polls' = 0 /\ UNCHANGED <<outcome, rollingBack>>
      BY <2>3 DEF RestartOver, Goto, Return
    <3>2. boot' <= RestartBudget + 0 \/ rollingBack
      BY <2>1, <2>2, <2>3 DEF SuccessInv, BootIsCounted
    <3>. QED
      BY <1>2, <1>3, <2>1, <3>1, <3>2
         DEF SuccessInv, RunsLive, BootIsCounted, RestoredAnswers, PendingUntilDone
  <2>4. CASE polls + 1 < RestartBudget /\ polls' = polls + 1 /\ Goto("gate") /\ Tick
    <3>1. boot' <= boot + 1
      BY <2>2, <2>4 DEF Tick
    <3>2. rollingBack \/ (boot' <= polls' /\ polls' < RestartBudget)
      <4>1. boot' \in Int
        BY <2>2, <2>4 DEF Tick
      <4>. QED  BY <2>1, <2>2, <2>4, <3>1, <4>1 DEF SuccessInv, BootIsCounted
    <3>. QED
      BY <1>2, <1>3, <2>1, <2>4, <3>2
         DEF SuccessInv, RunsLive, BootIsCounted, RestoredAnswers, PendingUntilDone, Goto
  <2>. QED  BY <1>4, <1>7, <2>3, <2>4 DEF GateRestart
<1>8. CASE WaitHealthy
  <2>1. pc = "health" /\ UNCHANGED <<at, gw, ssh>> /\ ssh = "up" /\ ~rollingBack
    BY <1>8 DEF WaitHealthy, Sent, Inv, CatchRollsBack
  <2>2. boot \in 0..Forever /\ polls \in 0..RestartBudget + HealthBudget
    BY DEF Inv, TypeOK
  <2>3. CASE Started /\ Goto("tidy")
    <3>1. gw'.run = "new" /\ at'["new"] = "live"
      BY <2>1, <2>3, StartedIsRestored
    <3>. QED
      BY <1>2, <1>3, <2>3, <3>1
         DEF SuccessInv, RunsLive, BootIsCounted, RestoredAnswers, PendingUntilDone, Goto
  <2>4. CASE polls + 1 < HealthBudget /\ polls' = polls + 1 /\ Goto("health") /\ Tick
    <3>1. boot' <= boot + 1 /\ boot' \in Int
      BY <2>2, <2>4 DEF Tick
    <3>2. boot' <= RestartBudget + polls' /\ polls' < HealthBudget
      BY <2>1, <2>2, <2>4, <3>1 DEF SuccessInv, BootIsCounted
    <3>. QED
      BY <1>2, <1>3, <2>1, <2>4, <3>2
         DEF SuccessInv, RunsLive, BootIsCounted, RestoredAnswers, PendingUntilDone, Goto
  <2>. QED  BY <1>4, <1>8, <2>3, <2>4 DEF WaitHealthy
<1>9. CASE Rejected /\ pc \in Waiting
  BY <1>4, <1>9 DEF Rejected
<1>. QED  BY <1>5, <1>6, <1>7, <1>8, <1>9

(* The other steps of the flow wait for nothing.                              *)
LEMMA OtherSuccess ==
  ASSUME Inv, SuccessInv,
         \/ HasRoomFor \/ UploadArchive \/ ExpandArchive \/ CopyOut
         \/ LocateRestoredState \/ Confirm \/ Chown \/ LookForStaged
         \/ Renames \/ Tidy \/ (Rejected /\ pc \notin Waiting)
  PROVE  SuccessInv'
<1>1. /\ delay' = delay /\ pc # "done"
      /\ \/ pc' = "done"
         \/ pc' \notin {"gate", "health", "tidy"} /\ outcome' = outcome
  <2>1. CASE \/ HasRoomFor \/ UploadArchive \/ ExpandArchive \/ CopyOut
             \/ LocateRestoredState \/ Confirm \/ Chown \/ LookForStaged
    BY <2>1 DEF HasRoomFor, UploadArchive, ExpandArchive, CopyOut, LocateRestoredState, Confirm,
       Chown, LookForStaged, Sent, Goto, Return, Quiet, env
  <2>2. CASE Tidy \/ (Rejected /\ pc \notin Waiting)
    BY <2>2 DEF Tidy, Rejected, Sent, Return, Quiet, env
  <2>3. CASE MoveOut \/ MoveAside \/ PutStagingBack
    BY <2>3 DEF MoveOut, MoveAside, PutStagingBack, Rename, Sent, Goto, Return, env
  <2>4. CASE MoveIn \/ PutOldBack
    BY <2>4 DEF MoveIn, PutOldBack, Rename, Sent, Goto, Return, env
  <2>5. CASE Park \/ MoveBack
    BY <2>5 DEF Park, MoveBack, Rename, Sent, Goto, Return, env
  <2>. QED  BY <2>1, <2>2, <2>3, <2>4, <2>5 DEF Renames
<1>. QED
  BY <1>1 DEF SuccessInv, BlanksNeverStart, RunsLive, BootIsCounted, RestoredAnswers,
     PendingUntilDone, Forever

(* A gateway that goes down comes up on what is live by then, which on a      *)
(* session that lasts is what it ran before.                                  *)
LEMMA WorldSuccess ==
  ASSUME Inv, SuccessInv,
         GatewayCrashes \/ SupervisorRestarts \/ SessionLost \/ OperatorAborts \/ UNCHANGED vars
  PROVE  SuccessInv'
<1>1. /\ UNCHANGED <<pc, rollingBack, polls, outcome, delay>>
      /\ ssh' = "up" => ssh = "up"
  BY DEF GatewayCrashes, SupervisorRestarts, SessionLost, OperatorAborts, flow, env, vars
<1>2. boot' \in {boot, 0} /\ boot \in 0..Forever /\ polls \in 0..RestartBudget + HealthBudget
  BY DEF GatewayCrashes, SupervisorRestarts, SessionLost, OperatorAborts, env, vars, Inv, TypeOK
<1>3. BlanksNeverStart' /\ BootIsCounted' /\ PendingUntilDone'
  <2>1. boot' <= boot /\ boot' \in Int
    BY <1>2
  <2>. QED
    BY <1>1, <1>2, <2>1
       DEF SuccessInv, BlanksNeverStart, BootIsCounted, PendingUntilDone, Forever
<1>4. CASE SupervisorRestarts
  <2>1. PICK d \in Dirs : MountsLive(d) /\ gw' = Running(d)
    BY <1>4 DEF SupervisorRestarts
  <2>2. gw'.run = d /\ at'[d] = "live" /\ "new" \in Dirs
    BY <2>1, MountsWhatIsLive DEF Running, Dirs
  <2>3. RunsLive'
    BY <2>2 DEF RunsLive
  <2>4. RestoredAnswers'
    BY <1>1, <2>1, <2>2, MountsWhatIsLive DEF SuccessInv, RestoredAnswers
  <2>. QED  BY <1>3, <2>3, <2>4 DEF SuccessInv
<1>5. CASE GatewayCrashes \/ SessionLost \/ OperatorAborts \/ UNCHANGED vars
  <2>1. at' = at /\ gw'.run = gw.run
    BY <1>5 DEF GatewayCrashes, SessionLost, OperatorAborts, env, vars, Restarting
  <2>. QED
    BY <1>1, <1>3, <2>1 DEF SuccessInv, RunsLive, RestoredAnswers
<1>. QED  BY <1>4, <1>5

(* The flow returns success only from its last step, on what it waited for.   *)
LEMMA OnlyTidySucceeds ==
  ASSUME Inv, SuccessInv, [Next]_vars, pc = "tidy", outcome'.kind = "ok"
  PROVE  at'["new"] = "live" /\ at'["old"] = "preserved" /\ gw.run = "new"
<1>1. outcome.kind = "pending"
  BY DEF SuccessInv, PendingUntilDone
<1>2. Tidy
  <2>1. CASE Rejected
    BY <2>1 DEF Rejected, Return, Result, Waiting
  <2>2. CASE GatewayCrashes \/ SupervisorRestarts \/ SessionLost \/ OperatorAborts \/ UNCHANGED vars
    BY <1>1, <2>2 DEF GatewayCrashes, SupervisorRestarts, SessionLost, OperatorAborts, flow, vars
  <2>. QED
    BY <2>1, <2>2 DEF Next, Flow, HasRoomFor, UploadArchive, ExpandArchive, CopyOut,
       LocateRestoredState, Confirm, Chown, LookForStaged, MoveOut, MoveAside, PutStagingBack,
       MoveIn, PutOldBack, InspectForRestart, RunGateway, GateRestart, WaitHealthy, Park,
       MoveBack, Sent
<1>3. ssh = "up" /\ at' = [d \in Dirs |-> IF at[d] = "staged" THEN "nowhere" ELSE at[d]]
  BY <1>2 DEF Tidy, Sent
<1>4. gw.run = "new" /\ at["new"] = "live" /\ at["old"] = "preserved"
  BY <1>3 DEF SuccessInv, RestoredAnswers, Inv, PreservedAfter, Aside
<1>. QED  BY <1>3, <1>4 DEF Dirs

(* Success is the restored state, mounted by the gateway that answered and    *)
(* with the old one set aside, whatever docker created at the live path while *)
(* the two were being swapped.                                                *)
THEOREM SuccessIsRestored == Spec => SuccessIsTheRestoredState
<1>1. Init => SuccessInv
  <2>. SUFFICES ASSUME Init PROVE SuccessInv
    OBVIOUS
  <2>1. pc = "room" /\ outcome.kind = "pending"
    BY DEF Init, Pending
  <2>2. BlanksNeverStart
    BY DEF Init, BlanksNeverStart, Dirs
  <2>. QED
    BY <2>1, <2>2 DEF SuccessInv, RunsLive, BootIsCounted, RestoredAnswers, PendingUntilDone
<1>2. Inv /\ SuccessInv /\ [Next]_vars => SuccessInv'
  BY WaitingSuccess, OtherSuccess, WorldSuccess DEF Next, Flow, Renames
<1>3. Inv /\ SuccessInv /\ [Next]_vars =>
        [pc = "tidy" /\ outcome'.kind = "ok"
           => at'["new"] = "live" /\ at'["old"] = "preserved" /\ gw.run = "new"]_vars
  BY OnlyTidySucceeds
<1>. QED  BY <1>1, <1>2, <1>3, Invariance, PTL DEF Spec, SuccessIsTheRestoredState
=============================================================================
