--------------------------- MODULE TailnetProofs ---------------------------
(* With one command at a time, and plans that keep the instance, there is     *)
(* always a way in.                                                           *)
EXTENDS Tailnet, TLAPS

(* The commands of one stack are run one after the other, and no plan among   *)
(* them replaces its instance.                                                *)
OneAtATime == (\A p, q \in Procs : p = q) /\ Replacing = {FALSE}

(* What a command read when it started is still what the file says, until it  *)
(* writes the file itself.                                                    *)
SeenIsFile(p) == at[p] \notin {"idle", "forget"} => work[p].seen = override

(* Between the guard and the update the host stays where the guard found it.  *)
GuardHolds(p) ==
  at[p] \in {"confirm", "up"} /\ work[p].plan.net = "private"
    => hostIp # None /\ hostIp = work[p].seen.ip

(* From the pinning to the write the verified address is the host's.          *)
VerifiedHolds(p) ==
  at[p] \in {"probe", "write"}
    => hostIp # None /\ work[p].ip = hostIp /\ hostIp \in pinned

(* The keys go after the override, or after the host.                         *)
KeysGoLast(p) ==
  /\ at[p] = "forget" => override = NoOverride
  /\ at[p] = "doomed" => door = "gone"

(* A host that is gone is on no tailnet.                                      *)
GoneIsOff == door = "gone" => hostIp = None

Rest(p) == SeenIsFile(p) /\ GuardHolds(p) /\ VerifiedHolds(p) /\ KeysGoLast(p)

Safe == WayIn /\ PrivateOverrideIsTheHost /\ KnownBeforeUsed /\ GoneIsOff

Inv == TypeOK /\ Safe /\ \A p \in Procs : Rest(p)

USE TailnetAssumption

(* The start values are values of their types.                                *)
LEMMA Values ==
  /\ NoOverride \in [ip : Ips \union {None}, private : BOOLEAN]
  /\ NoOverride.ip = None /\ ~NoOverride.private
  /\ NoWork \in Work
  BY DEF NoOverride, NoWork, Work

(* Where a command is, and what it carries, after it moves on, ends or starts.*)
LEMMA Moves ==
  ASSUME TypeOK, NEW p \in Procs, NEW step \in Steps
  PROVE  /\ Goto(p, step) => at' \in [Procs -> Steps] /\ at'[p] = step
         /\ Ends(p) => /\ at' \in [Procs -> Steps] /\ at'[p] = "idle"
                       /\ work' \in [Procs -> Work]
         /\ Starts(p, step) => /\ at' \in [Procs -> Steps] /\ at'[p] = step
                               /\ work' \in [Procs -> Work] /\ work'[p].seen = override
<1>1. Goto(p, step) => at' \in [Procs -> Steps] /\ at'[p] = step
  BY DEF TypeOK, Goto
<1>2. Ends(p) => at' \in [Procs -> Steps] /\ at'[p] = "idle" /\ work' \in [Procs -> Work]
  BY Values DEF TypeOK, Ends, Steps
<1>3. Starts(p, step) => work' \in [Procs -> Work] /\ work'[p].seen = override
  BY DEF TypeOK, Starts, Work
<1>. QED  BY <1>1, <1>2, <1>3 DEF Starts

(* There is no other command.                                                 *)
LEMMA Only == ASSUME OneAtATime, TypeOK', NEW p \in Procs, Safe', Rest(p)' PROVE Inv'
  BY DEF OneAtATime, Inv

(* harden keeps the invariant.                                               *)
LEMMA HardenInv ==
  ASSUME OneAtATime, Inv, NEW p \in Procs,
         Harden(p) \/ Join(p) \/ Verify(p) \/ ProbeTailnet(p) \/ WriteOverride(p)
  PROVE  Inv'
<1>. USE Only, Moves, Values DEF Inv, TypeOK, Steps
<1>1. CASE Harden(p)
  <2>1. TypeOK'
    BY <1>1 DEF Harden, Starts, Goto, Ends, OneAtATime, NoWork, file
  <2>2. Safe'
    BY <1>1 DEF Harden, Starts, Safe, WayIn, PrivateOverrideIsTheHost, KnownBeforeUsed,
       GoneIsOff, Rest, SeenIsFile, GuardHolds, VerifiedHolds, KeysGoLast, OneAtATime, file
  <2>3. Rest(p)'
    BY <1>1 DEF Harden, Starts, Goto, Ends, Rest, SeenIsFile, GuardHolds, VerifiedHolds,
       KeysGoLast, Safe, GoneIsOff, OneAtATime, file
  <2>. QED  BY <2>1, <2>2, <2>3
<1>2. CASE Join(p)
  <2>1. TypeOK'
    BY <1>2 DEF Join, Reach, Goto, Ends, OneAtATime, NoWork, file
  <2>2. Safe'
    BY <1>2 DEF Join, Reach, Safe, WayIn, PrivateOverrideIsTheHost, KnownBeforeUsed,
       GoneIsOff, Rest, SeenIsFile, GuardHolds, VerifiedHolds, KeysGoLast, OneAtATime, file
  <2>3. Rest(p)'
    BY <1>2 DEF Join, Reach, Goto, Ends, Rest, SeenIsFile, GuardHolds, VerifiedHolds,
       KeysGoLast, Safe, GoneIsOff, OneAtATime, file
  <2>. QED  BY <2>1, <2>2, <2>3
<1>3. CASE Verify(p)
  <2>1. TypeOK'
    BY <1>3 DEF Verify, Work, Goto, Ends, OneAtATime, NoWork, file
  <2>2. Safe'
    BY <1>3 DEF Verify, Work, Safe, WayIn, PrivateOverrideIsTheHost, KnownBeforeUsed,
       GoneIsOff, Rest, SeenIsFile, GuardHolds, VerifiedHolds, KeysGoLast, OneAtATime, file
  <2>3. Rest(p)'
    BY <1>3 DEF Verify, Work, Goto, Ends, Rest, SeenIsFile, GuardHolds, VerifiedHolds,
       KeysGoLast, Safe, GoneIsOff, OneAtATime, file
  <2>. QED  BY <2>1, <2>2, <2>3
<1>4. CASE ProbeTailnet(p)
  <2>1. TypeOK'
    BY <1>4 DEF ProbeTailnet, Goto, Ends, OneAtATime, NoWork, file
  <2>2. Safe'
    BY <1>4 DEF ProbeTailnet, Safe, WayIn, PrivateOverrideIsTheHost, KnownBeforeUsed,
       GoneIsOff, Rest, SeenIsFile, GuardHolds, VerifiedHolds, KeysGoLast, OneAtATime, file
  <2>3. Rest(p)'
    BY <1>4 DEF ProbeTailnet, Goto, Ends, Rest, SeenIsFile, GuardHolds, VerifiedHolds,
       KeysGoLast, Safe, GoneIsOff, OneAtATime, file
  <2>. QED  BY <2>1, <2>2, <2>3
<1>5. CASE WriteOverride(p)
  <2>1. TypeOK'
    BY <1>5 DEF WriteOverride, Work, Goto, Ends, OneAtATime, NoWork, file
  <2>2. Safe'
    BY <1>5 DEF WriteOverride, Work, Safe, WayIn, PrivateOverrideIsTheHost,
       KnownBeforeUsed, GoneIsOff, Rest, SeenIsFile, GuardHolds, VerifiedHolds,
       KeysGoLast, OneAtATime, file
  <2>3. Rest(p)'
    BY <1>5 DEF WriteOverride, Work, Goto, Ends, Rest, SeenIsFile, GuardHolds,
       VerifiedHolds, KeysGoLast, Safe, GoneIsOff, OneAtATime, file
  <2>. QED  BY <2>1, <2>2, <2>3
<1>. QED  BY <1>1, <1>2, <1>3, <1>4, <1>5

(* revert keeps the invariant.                                               *)
LEMMA RevertInv ==
  ASSUME OneAtATime, Inv, NEW p \in Procs,
         Revert(p) \/ ProbePublic(p) \/ Logout(p) \/ DropOverride(p) \/ ForgetHost(p)
  PROVE  Inv'
<1>. USE Only, Moves, Values DEF Inv, TypeOK, Steps
<1>1. CASE Revert(p)
  <2>1. TypeOK'
    BY <1>1 DEF Revert, Starts, Goto, Ends, OneAtATime, NoWork, file
  <2>2. Safe'
    BY <1>1 DEF Revert, Starts, Safe, WayIn, PrivateOverrideIsTheHost, KnownBeforeUsed,
       GoneIsOff, Rest, SeenIsFile, GuardHolds, VerifiedHolds, KeysGoLast, OneAtATime, file
  <2>3. Rest(p)'
    BY <1>1 DEF Revert, Starts, Goto, Ends, Rest, SeenIsFile, GuardHolds, VerifiedHolds,
       KeysGoLast, Safe, GoneIsOff, OneAtATime, file
  <2>. QED  BY <2>1, <2>2, <2>3
<1>2. CASE ProbePublic(p)
  <2>1. TypeOK'
    BY <1>2 DEF ProbePublic, Goto, Ends, OneAtATime, NoWork, file
  <2>2. Safe'
    BY <1>2 DEF ProbePublic, Safe, WayIn, PrivateOverrideIsTheHost, KnownBeforeUsed,
       GoneIsOff, Rest, SeenIsFile, GuardHolds, VerifiedHolds, KeysGoLast, OneAtATime, file
  <2>3. Rest(p)'
    BY <1>2 DEF ProbePublic, Goto, Ends, Rest, SeenIsFile, GuardHolds, VerifiedHolds,
       KeysGoLast, Safe, GoneIsOff, OneAtATime, file
  <2>. QED  BY <2>1, <2>2, <2>3
<1>3. CASE Logout(p)
  <2>1. TypeOK'
    BY <1>3 DEF Logout, Reach, Goto, Ends, OneAtATime, NoWork, file
  <2>2. Safe'
    BY <1>3 DEF Logout, Reach, Safe, WayIn, PrivateOverrideIsTheHost, KnownBeforeUsed,
       GoneIsOff, Rest, SeenIsFile, GuardHolds, VerifiedHolds, KeysGoLast, OneAtATime, file
  <2>3. Rest(p)'
    BY <1>3 DEF Logout, Reach, Goto, Ends, Rest, SeenIsFile, GuardHolds, VerifiedHolds,
       KeysGoLast, Safe, GoneIsOff, OneAtATime, file
  <2>. QED  BY <2>1, <2>2, <2>3
<1>4. CASE DropOverride(p)
  <2>1. TypeOK'
    BY <1>4 DEF DropOverride, Goto, Ends, OneAtATime, NoWork, file
  <2>2. Safe'
    BY <1>4 DEF DropOverride, Safe, WayIn, PrivateOverrideIsTheHost, KnownBeforeUsed,
       GoneIsOff, Rest, SeenIsFile, GuardHolds, VerifiedHolds, KeysGoLast, OneAtATime, file
  <2>3. Rest(p)'
    BY <1>4 DEF DropOverride, Goto, Ends, Rest, SeenIsFile, GuardHolds, VerifiedHolds,
       KeysGoLast, Safe, GoneIsOff, OneAtATime, file
  <2>. QED  BY <2>1, <2>2, <2>3
<1>5. CASE ForgetHost(p)
  <2>1. TypeOK'
    BY <1>5 DEF ForgetHost, Goto, Ends, OneAtATime, NoWork, file
  <2>2. Safe'
    BY <1>5 DEF ForgetHost, Safe, WayIn, PrivateOverrideIsTheHost, KnownBeforeUsed,
       GoneIsOff, Rest, SeenIsFile, GuardHolds, VerifiedHolds, KeysGoLast, OneAtATime, file
  <2>3. Rest(p)'
    BY <1>5 DEF ForgetHost, Goto, Ends, Rest, SeenIsFile, GuardHolds, VerifiedHolds,
       KeysGoLast, Safe, GoneIsOff, OneAtATime, file
  <2>. QED  BY <2>1, <2>2, <2>3
<1>. QED  BY <1>1, <1>2, <1>3, <1>4, <1>5

(* apply keeps the invariant.                                                *)
LEMMA ApplyInv ==
  ASSUME OneAtATime, Inv, NEW p \in Procs,
         (\E plan \in Plans : Apply(p, plan)) \/ Guard(p) \/ ConfirmDrift(p) \/ Up(p) \/ Record(p)
  PROVE  Inv'
<1>. USE Only, Moves, Values DEF Inv, TypeOK, Steps
<1>1. ASSUME NEW plan \in Plans, Apply(p, plan) PROVE Inv'
  <2>0. [seen |-> override, ip |-> None, plan |-> plan] \in Work
    BY DEF Work
  <2>1. /\ at' = [at EXCEPT ![p] = "guard"] /\ UNCHANGED <<file, hostIp, door, here>>
        /\ work'[p] = [seen |-> override, ip |-> None, plan |-> plan]
        /\ work' \in [Procs -> Work]
    BY <1>1, <2>0 DEF Apply, Goto
  <2>2. TypeOK'
    BY <1>1, <2>1 DEF OneAtATime, file
  <2>3. Safe'
    BY <2>1 DEF Safe, WayIn, PrivateOverrideIsTheHost, KnownBeforeUsed, GoneIsOff, file
  <2>4. Rest(p)'
    BY <2>1 DEF Rest, SeenIsFile, GuardHolds, VerifiedHolds, KeysGoLast, file
  <2>. QED  BY <2>2, <2>3, <2>4
<1>2. CASE Guard(p)
  <2>1. TypeOK'
    BY <1>2 DEF Guard, Guarded, Reach, Goto, Ends, OneAtATime, NoWork, file
  <2>2. Safe'
    BY <1>2 DEF Guard, Guarded, Reach, Safe, WayIn, PrivateOverrideIsTheHost,
       KnownBeforeUsed, GoneIsOff, Rest, SeenIsFile, GuardHolds, VerifiedHolds,
       KeysGoLast, OneAtATime, file
  <2>3. Rest(p)'
    BY <1>2 DEF Guard, Guarded, Reach, Goto, Ends, Rest, SeenIsFile, GuardHolds,
       VerifiedHolds, KeysGoLast, Safe, GoneIsOff, OneAtATime, file
  <2>. QED  BY <2>1, <2>2, <2>3
<1>3. CASE ConfirmDrift(p)
  <2>1. TypeOK'
    BY <1>3 DEF ConfirmDrift, Goto, Ends, OneAtATime, NoWork, file
  <2>2. Safe'
    BY <1>3 DEF ConfirmDrift, Safe, WayIn, PrivateOverrideIsTheHost, KnownBeforeUsed,
       GoneIsOff, Rest, SeenIsFile, GuardHolds, VerifiedHolds, KeysGoLast, OneAtATime, file
  <2>3. Rest(p)'
    BY <1>3 DEF ConfirmDrift, Goto, Ends, Rest, SeenIsFile, GuardHolds, VerifiedHolds,
       KeysGoLast, Safe, GoneIsOff, OneAtATime, file
  <2>. QED  BY <2>1, <2>2, <2>3
<1>4. CASE Up(p)
  <2>0. work[p].plan \in Plans
    BY <1>4 DEF Up
  <2>1. ~work[p].plan.replaces
    BY <2>0 DEF Plans, OneAtATime
  <2>2. work[p].plan.net \in {"open", "deny", "private"}
    BY <2>0 DEF Plans
  <2>3. /\ door' \in {door, work[p].plan.net}
        /\ hostIp' = IF door = "gone" THEN None ELSE hostIp
    BY <1>4, <2>1 DEF Up, NewHost, Inv, Safe, GoneIsOff
  <2>4. work[p].plan.net = "private" => hostIp # None /\ hostIp = override.ip
    BY <1>4 DEF Up, Rest, GuardHolds, SeenIsFile
  <2>5. TypeOK'
    BY <1>4, <2>2, <2>3 DEF Up, Goto, Ends, OneAtATime, file
  <2>6. Safe'
    BY <1>4, <2>2, <2>3, <2>4
    DEF Up, Safe, WayIn, PrivateOverrideIsTheHost, KnownBeforeUsed, GoneIsOff, file
  <2>7. Rest(p)'
    BY <1>4 DEF Up, Goto, Ends, Rest, SeenIsFile, GuardHolds, VerifiedHolds, KeysGoLast,
       file
  <2>. QED  BY <2>5, <2>6, <2>7
<1>5. CASE Record(p)
  <2>1. TypeOK'
    <3>1. /\ override' \in [ip : Ips \union {None}, private : BOOLEAN]
          /\ override'.private => override'.ip # None
      <4>1. CASE work[p].plan.net = "private" /\ override.ip # None
        <5>1. override' = [override EXCEPT !.private = TRUE]
          BY <1>5, <4>1 DEF Record
        <5>. QED  BY <5>1, <4>1
      <4>2. CASE work[p].plan.net # "private" /\ override.ip # None
        <5>1. override' = [override EXCEPT !.private = FALSE]
          BY <1>5, <4>2 DEF Record
        <5>. QED  BY <5>1, <4>2
      <4>3. CASE override.ip = None
        BY <1>5, <4>3 DEF Record
      <4>. QED  BY <4>1, <4>2, <4>3
    <3>. QED  BY <1>5, <3>1 DEF Record, Ends, OneAtATime
  <2>2. Safe'
    BY <1>5 DEF Record, Work, Safe, WayIn, PrivateOverrideIsTheHost, KnownBeforeUsed,
       GoneIsOff, Rest, SeenIsFile, GuardHolds, VerifiedHolds, KeysGoLast, OneAtATime, file
  <2>3. Rest(p)'
    BY <1>5 DEF Record, Work, Goto, Ends, Rest, SeenIsFile, GuardHolds, VerifiedHolds,
       KeysGoLast, Safe, GoneIsOff, OneAtATime, file
  <2>. QED  BY <2>1, <2>2, <2>3
<1>. QED  BY <1>1, <1>2, <1>3, <1>4, <1>5

(* destroy, init and the death of a command keep the invariant.              *)
LEMMA DestroyInv ==
  ASSUME OneAtATime, Inv, NEW p \in Procs,
         Destroy(p) \/ DestroyStack(p) \/ ForgetDoomed(p) \/ InitStack(p) \/ Dies(p)
  PROVE  Inv'
<1>. USE Only, Moves, Values DEF Inv, TypeOK, Steps
<1>1. CASE Destroy(p)
  <2>1. TypeOK'
    BY <1>1 DEF Destroy, Starts, Goto, Ends, OneAtATime, NoWork, file
  <2>2. Safe'
    BY <1>1 DEF Destroy, Starts, Safe, WayIn, PrivateOverrideIsTheHost, KnownBeforeUsed,
       GoneIsOff, Rest, SeenIsFile, GuardHolds, VerifiedHolds, KeysGoLast, OneAtATime, file
  <2>3. Rest(p)'
    BY <1>1 DEF Destroy, Starts, Goto, Ends, Rest, SeenIsFile, GuardHolds, VerifiedHolds,
       KeysGoLast, Safe, GoneIsOff, OneAtATime, file
  <2>. QED  BY <2>1, <2>2, <2>3
<1>2. CASE DestroyStack(p)
  <2>1. TypeOK'
    BY <1>2 DEF DestroyStack, Goto, Ends, OneAtATime, NoWork, file
  <2>2. Safe'
    BY <1>2 DEF DestroyStack, Safe, WayIn, PrivateOverrideIsTheHost, KnownBeforeUsed,
       GoneIsOff, Rest, SeenIsFile, GuardHolds, VerifiedHolds, KeysGoLast, OneAtATime, file
  <2>3. Rest(p)'
    BY <1>2 DEF DestroyStack, Goto, Ends, Rest, SeenIsFile, GuardHolds, VerifiedHolds,
       KeysGoLast, Safe, GoneIsOff, OneAtATime, file
  <2>. QED  BY <2>1, <2>2, <2>3
<1>3. CASE ForgetDoomed(p)
  <2>1. TypeOK'
    BY <1>3 DEF ForgetDoomed, Goto, Ends, OneAtATime, NoWork, file
  <2>2. Safe'
    BY <1>3 DEF ForgetDoomed, Safe, WayIn, PrivateOverrideIsTheHost, KnownBeforeUsed,
       GoneIsOff, Rest, SeenIsFile, GuardHolds, VerifiedHolds, KeysGoLast, OneAtATime, file
  <2>3. Rest(p)'
    BY <1>3 DEF ForgetDoomed, Goto, Ends, Rest, SeenIsFile, GuardHolds, VerifiedHolds,
       KeysGoLast, Safe, GoneIsOff, OneAtATime, file
  <2>. QED  BY <2>1, <2>2, <2>3
<1>4. CASE InitStack(p)
  <2>1. TypeOK'
    BY <1>4 DEF InitStack, Goto, Ends, OneAtATime, NoWork, file
  <2>2. Safe'
    BY <1>4 DEF InitStack, Safe, WayIn, PrivateOverrideIsTheHost, KnownBeforeUsed,
       GoneIsOff, Rest, SeenIsFile, GuardHolds, VerifiedHolds, KeysGoLast, OneAtATime, file
  <2>3. Rest(p)'
    BY <1>4 DEF InitStack, Goto, Ends, Rest, SeenIsFile, GuardHolds, VerifiedHolds,
       KeysGoLast, Safe, GoneIsOff, OneAtATime, file
  <2>. QED  BY <2>1, <2>2, <2>3
<1>5. CASE Dies(p)
  <2>1. TypeOK'
    BY <1>5 DEF Dies, Goto, Ends, OneAtATime, NoWork, file
  <2>2. Safe'
    BY <1>5 DEF Dies, Safe, WayIn, PrivateOverrideIsTheHost, KnownBeforeUsed, GoneIsOff,
       Rest, SeenIsFile, GuardHolds, VerifiedHolds, KeysGoLast, OneAtATime, file
  <2>3. Rest(p)'
    BY <1>5 DEF Dies, Goto, Ends, Rest, SeenIsFile, GuardHolds, VerifiedHolds,
       KeysGoLast, Safe, GoneIsOff, OneAtATime, file
  <2>. QED  BY <2>1, <2>2, <2>3
<1>. QED  BY <1>1, <1>2, <1>3, <1>4, <1>5

(* Every step keeps the invariant.                                            *)
LEMMA NextInv == ASSUME OneAtATime, Inv, [Next]_vars PROVE Inv'
<1>1. CASE HereToggles
  BY <1>1 DEF HereToggles, Inv, TypeOK, Safe, WayIn, PrivateOverrideIsTheHost,
     KnownBeforeUsed, GoneIsOff, Rest, SeenIsFile, GuardHolds, VerifiedHolds, KeysGoLast,
     file
<1>2. CASE UNCHANGED vars
  BY <1>2 DEF Inv, TypeOK, Safe, WayIn, PrivateOverrideIsTheHost, KnownBeforeUsed,
     GoneIsOff, Rest, SeenIsFile, GuardHolds, VerifiedHolds, KeysGoLast, vars, file
<1>. QED  BY <1>1, <1>2, HardenInv, RevertInv, ApplyInv, DestroyInv DEF Next

(* The invariant holds at the start.                                          *)
LEMMA InitInv == Init => Inv
  BY Values DEF Init, Inv, TypeOK, Safe, WayIn, PrivateOverrideIsTheHost,
     KnownBeforeUsed, GoneIsOff, Rest, SeenIsFile, GuardHolds, VerifiedHolds, KeysGoLast,
     Steps

(* The inductive invariant of one command at a time.                          *)
THEOREM Invariance == OneAtATime /\ Spec => []Inv
<1>1. SUFFICES ASSUME OneAtATime PROVE Spec => []Inv
  OBVIOUS
<1>2. Inv /\ [Next]_vars => Inv'
  BY <1>1, NextInv
<1>. QED  BY <1>2, InitInv, PTL DEF Spec

(* Type correctness: what the file, the host and a command can hold.          *)
THEOREM TypeCorrect == OneAtATime /\ Spec => []TypeOK
  BY Invariance, PTL DEF Inv

(* A stack closed by a private-only plan is on the tailnet: one command at a  *)
(* time leaves a way in, wherever it dies.                                    *)
THEOREM AlwaysAWayIn == OneAtATime /\ Spec => []WayIn
  BY Invariance, PTL DEF Inv, Safe

(* The address clawops has for such a stack is the host's.                    *)
THEOREM OverrideIsRight == OneAtATime /\ Spec => []PrivateOverrideIsTheHost
  BY Invariance, PTL DEF Inv, Safe

(* The address in the config, while it is the host's, has its keys on file.   *)
THEOREM NoFirstUse == OneAtATime /\ Spec => []KnownBeforeUsed
  BY Invariance, PTL DEF Inv, Safe
=============================================================================
