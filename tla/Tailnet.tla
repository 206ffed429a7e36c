------------------------------ MODULE Tailnet ------------------------------
(* How one stack is reached: over its public address, or over its tailnet     *)
(* address.  `harden --tailscale` moves clawops onto the tailnet, applying a  *)
(* private-only plan closes the public ports, `harden --tailscale-revert`     *)
(* goes back, and `destroy` ends it all.  Each is a process of its own (a CLI *)
(* command or an MCP call) that reads ~/.clawops/config.json when it starts   *)
(* and writes it much later.                                                  *)
EXTENDS FiniteSets

CONSTANTS
  Procs,        \* commands that may be under way at once
  Ips,          \* tailnet addresses
  Replacing,    \* may the plans that are applied replace the instance?
  None

ASSUME TailnetAssumption == None \notin Ips /\ Ips # {} /\ Replacing \subseteq BOOLEAN

VARIABLES
  override,     \* stacks[name].tailscale in config.json
  pinned,       \* tailnet addresses whose host keys known_hosts holds
  hostIp,       \* the host's tailnet address, None when it is on no tailnet
  door,         \* what the last applied plan made of the public ports, "gone"
                \* when there is no deployment
  here,         \* this machine is on the tailnet
  at,           \* the step each command is at
  work          \* what it carries from step to step

file == <<override, pinned>>
vars == <<file, hostIp, door, here, at, work>>

NoOverride == [ip |-> None, private |-> FALSE]

Steps == {"idle", "join", "verify", "probe", "write",             \* harden
          "knock", "logout", "drop", "forget",                    \* revert
          "guard", "confirm", "up", "record",                     \* apply
          "destroy", "doomed"}                                    \* destroy

(* What a plan may say of the ports: SSH open to some CIDR, the default (no   *)
(* CIDR, which nothing guards), or private-only over the address it was made  *)
(* for, which may be an old one.  Some of what else it says (another instance *)
(* type, an image newer than the deployed one) replaces the instance.         *)
Plans == [net : {"open", "deny"}, ip : {None}, replaces : Replacing]
           \union [net : {"private"}, ip : Ips, replaces : Replacing]

NoWork == [seen |-> NoOverride, ip |-> None, plan |-> None]

(* The override a command read when it started, the address it verified, and  *)
(* the plan it applies.                                                       *)
Work == [seen : [ip : Ips \union {None}, private : BOOLEAN],
         ip : Ips \union {None},
         plan : Plans \union {None}]

TypeOK ==
  /\ override \in [ip : Ips \union {None}, private : BOOLEAN]
  /\ override.private => override.ip # None
  /\ pinned \subseteq Ips
  /\ hostIp \in Ips \union {None}
  /\ door \in {"open", "deny", "private", "gone"}
  /\ here \in BOOLEAN
  /\ at \in [Procs -> Steps]
  /\ work \in [Procs -> Work]
  /\ \A p \in Procs : at[p] \in {"guard", "confirm", "up", "record"} => work[p].plan \in Plans

(* A stack that was deployed with SSH open and is on no tailnet yet.          *)
Init ==
  /\ override = NoOverride /\ pinned = {}
  /\ hostIp = None /\ door = "open" /\ here \in BOOLEAN
  /\ at = [p \in Procs |-> "idle"]
  /\ work = [p \in Procs |-> NoWork]

(* An SSH session to the public address (None) or a tailnet one can be had.   *)
Reach(ip) == IF ip = None THEN door = "open" ELSE hostIp = ip /\ here

Goto(p, step) == at' = [at EXCEPT ![p] = step]

(* The command returns, throws, or its process dies.                          *)
Ends(p) == /\ at' = [at EXCEPT ![p] = "idle"]
           /\ work' = [work EXCEPT ![p] = NoWork]

(* Every command reads the config when it starts, and keeps what it read.     *)
Starts(p, step) ==
  /\ at[p] = "idle"
  /\ Goto(p, step)
  /\ work' = [work EXCEPT ![p].seen = override]
  /\ UNCHANGED <<file, hostIp, door, here>>

----------------------------------------------------------------------------
(* harden --tailscale: everything but the probe runs over the connection the  *)
(* config gave, whose address is work[p].seen.ip (None: the public one).      *)
Harden(p) == Starts(p, "join")

(* The module joins a host that is on no tailnet; a join that is not seen to  *)
(* have worked is an error, whatever the host did.  Without --tailscale (the  *)
(* module alone), or with --json, the command ends here.                      *)
JoinAnyway(p) ==                     \* a variant: check() is not asked first
  /\ at[p] = "join"
  /\ IF Reach(work[p].seen.ip)
       THEN hostIp' \in Ips
       ELSE UNCHANGED hostIp
  /\ \/ Reach(work[p].seen.ip) /\ Goto(p, "verify") /\ UNCHANGED work
     \/ Ends(p)
  /\ UNCHANGED <<file, door, here>>

Join(p) ==
  /\ at[p] = "join"
  /\ IF Reach(work[p].seen.ip) /\ hostIp = None
       THEN hostIp' \in Ips \union {None}
       ELSE UNCHANGED hostIp
  /\ \/ /\ Reach(work[p].seen.ip) /\ hostIp' # None
        /\ Goto(p, "verify") /\ UNCHANGED work
     \/ Ends(p)
  /\ UNCHANGED <<file, door, here>>

(* The host says its address and shows its keys, over the trusted connection; *)
(* they are pinned for that address before anything connects to it.           *)
VerifyUnpinned(p) ==                 \* a variant: the keys are read, not pinned
  /\ at[p] = "verify"
  /\ \/ /\ Reach(work[p].seen.ip) /\ hostIp # None
        /\ work' = [work EXCEPT ![p].ip = hostIp]
        /\ Goto(p, "probe")
     \/ Ends(p)
  /\ UNCHANGED <<file, hostIp, door, here>>

Verify(p) ==
  /\ at[p] = "verify"
  /\ \/ /\ Reach(work[p].seen.ip) /\ hostIp # None
        /\ pinned' = pinned \union {hostIp}
        /\ work' = [work EXCEPT ![p].ip = hostIp]
        /\ Goto(p, "probe")
     \/ Ends(p) /\ UNCHANGED pinned
  /\ UNCHANGED <<override, hostIp, door, here>>

(* A session of its own to that address, or nothing is recorded.              *)
ProbeTailnet(p) ==
  /\ at[p] = "probe"
  /\ IF Reach(work[p].ip)
       THEN Goto(p, "write") /\ UNCHANGED work
       ELSE Ends(p)
  /\ UNCHANGED <<file, hostIp, door, here>>

(* The config read at the start is written back with the new override: a      *)
(* privateOnly flag set before, or since, is not in it.                       *)
WriteOverride(p) ==
  /\ at[p] = "write"
  /\ override' = [ip |-> work[p].ip, private |-> FALSE]
  /\ Ends(p)
  /\ UNCHANGED <<pinned, hostIp, door, here>>

----------------------------------------------------------------------------
(* harden --tailscale-revert, all of it over the public address.              *)
Revert(p) == override.ip # None /\ Starts(p, "knock")

(* A public address that does not answer: refused, nothing changed.           *)
ProbePublic(p) ==
  /\ at[p] = "knock"
  /\ IF Reach(None)
       THEN Goto(p, "logout") /\ UNCHANGED work
       ELSE Ends(p)
  /\ UNCHANGED <<file, hostIp, door, here>>

(* `tailscale logout`: done; said to have failed; or, on a session that goes  *)
(* away, taken for done (a channel that closes with no exit code reads as 0). *)
Logout(p) ==
  /\ at[p] = "logout"
  /\ \/ /\ Reach(None)
        /\ hostIp' \in {None, hostIp}
        /\ Goto(p, "drop") /\ UNCHANGED work
     \/ Ends(p) /\ UNCHANGED hostIp
  /\ UNCHANGED <<file, door, here>>

(* The config is read again, and loses the override; then known_hosts loses   *)
(* the keys of the address the command started with.                          *)
DropOverride(p) ==
  /\ at[p] = "drop"
  /\ override' = NoOverride
  /\ Goto(p, "forget")
  /\ UNCHANGED <<pinned, hostIp, door, here, work>>

ForgetHost(p) ==
  /\ at[p] = "forget"
  /\ pinned' = pinned \ {work[p].seen.ip}
  /\ Ends(p)
  /\ UNCHANGED <<override, hostIp, door, here>>

----------------------------------------------------------------------------
(* apply.                                                                     *)
Apply(p, plan) ==
  /\ at[p] = "idle"
  /\ Goto(p, "guard")
  /\ work' = [work EXCEPT ![p] = [seen |-> override, ip |-> None, plan |-> plan]]
  /\ UNCHANGED <<file, hostIp, door, here>>

(* guardPrivateOnlyApply: a private-only plan is for the address the config   *)
(* has, and that address answers now.                                         *)
Guarded(p) ==
  work[p].plan.net = "private" =>
    /\ work[p].seen.ip # None
    /\ work[p].plan.ip = work[p].seen.ip
    /\ Reach(work[p].seen.ip)

GuardUnprobed(p) ==                  \* a variant: the plan-time probe is trusted
  /\ at[p] = "guard"
  /\ IF work[p].plan.net = "private" => work[p].plan.ip = work[p].seen.ip
       THEN Goto(p, "confirm") /\ UNCHANGED work
       ELSE Ends(p)
  /\ UNCHANGED <<file, hostIp, door, here>>

Guard(p) ==
  /\ at[p] = "guard"
  /\ IF Guarded(p)
       THEN Goto(p, "confirm") /\ UNCHANGED work
       ELSE Ends(p)
  /\ UNCHANGED <<file, hostIp, door, here>>

(* A stack that has drifted since the plan is only updated if the operator    *)
(* says so, however long that takes.                                          *)
ConfirmDrift(p) ==
  /\ at[p] = "confirm"
  /\ \/ Goto(p, "up") /\ UNCHANGED work
     \/ Ends(p)
  /\ UNCHANGED <<file, hostIp, door, here>>

(* stack.up: done; or failed before, or after, the rules or the instance were *)
(* changed.  A new instance is on no tailnet.                                 *)
NewHost(p) == door = "gone" \/ work[p].plan.replaces

Up(p) ==
  /\ at[p] = "up"
  /\ \/ /\ door' = work[p].plan.net
        /\ hostIp' = IF NewHost(p) THEN None ELSE hostIp
        /\ Goto(p, "record") /\ UNCHANGED work
     \/ /\ door' \in {door, work[p].plan.net}
        /\ hostIp' \in {hostIp} \union (IF NewHost(p) THEN {None} ELSE {})
        /\ Ends(p)
  /\ UNCHANGED <<file, here>>

(* recordPublicExposure reads the config again; what follows it in apply      *)
(* (waiting, the config overlay) changes nothing here.                        *)
Record(p) ==
  /\ at[p] = "record"
  /\ IF override.ip # None
       THEN override' = [override EXCEPT !.private = work[p].plan.net = "private"]
       ELSE UNCHANGED override
  /\ Ends(p)
  /\ UNCHANGED <<pinned, hostIp, door, here>>

----------------------------------------------------------------------------
(* destroy: the instance goes, and the keys of its addresses with it; the     *)
(* override stays (and, over MCP, the keys).                                  *)
Destroy(p) == Starts(p, "destroy")

DestroyStack(p) ==
  /\ at[p] = "destroy"
  /\ \/ hostIp' = None /\ door' = "gone"
     \/ UNCHANGED <<hostIp, door>>
  /\ \/ door' = "gone" /\ Goto(p, "doomed") /\ UNCHANGED work
     \/ Ends(p)
  /\ UNCHANGED <<file, here>>

ForgetDoomed(p) ==
  /\ at[p] = "doomed"
  /\ pinned' = pinned \ {work[p].seen.ip}
  /\ Ends(p)
  /\ UNCHANGED <<override, hostIp, door, here>>

----------------------------------------------------------------------------
(* `init --force` for a stack that is there (and stacks delete, then init):   *)
(* its entry is replaced, and the new one has no override.                    *)
InitStack(p) ==
  /\ at[p] = "idle"
  /\ override' = NoOverride
  /\ UNCHANGED <<pinned, hostIp, door, here, at, work>>

(* A command is killed.                                                       *)
Dies(p) ==
  /\ at[p] # "idle"
  /\ Ends(p)
  /\ UNCHANGED <<file, hostIp, door, here>>

(* Tailscale on this machine is turned on or off.                             *)
HereToggles ==
  /\ here' = ~here
  /\ UNCHANGED <<file, hostIp, door, at, work>>

Next ==
  \/ \E p \in Procs :
       \/ Harden(p) \/ Join(p) \/ Verify(p) \/ ProbeTailnet(p) \/ WriteOverride(p)
       \/ Revert(p) \/ ProbePublic(p) \/ Logout(p) \/ DropOverride(p) \/ ForgetHost(p)
       \/ (\E plan \in Plans : Apply(p, plan))
       \/ Guard(p) \/ ConfirmDrift(p) \/ Up(p) \/ Record(p)
       \/ Destroy(p) \/ DestroyStack(p) \/ ForgetDoomed(p)
       \/ InitStack(p) \/ Dies(p)
  \/ HereToggles

Spec == Init /\ [][Next]_vars

----------------------------------------------------------------------------
(* What must hold while one command runs at a time (each may die anywhere)    *)
(* and the plans that are applied keep the instance.                          *)

(* "leave no way in": a stack whose public ports a private-only plan has      *)
(* closed is on the tailnet.  Guarding the apply, checking the door before    *)
(* the logout, and never leaving any other way, are three flows' business.    *)
WayIn == door = "private" => hostIp # None

(* On such a stack the address clawops uses, if the config still has one, is  *)
(* the host's: no sequence of joins, reverts and old plans separates them.    *)
PrivateOverrideIsTheHost ==
  door = "private" /\ override.ip # None => hostIp = override.ip

(* clawops never has to trust the tailnet address on first use: while the     *)
(* config names the host's, known_hosts has its keys, whatever died where.    *)
KnownBeforeUsed == hostIp # None /\ override.ip = hostIp => hostIp \in pinned

----------------------------------------------------------------------------
(* What the documents say, and the code does not do.                          *)

(* "No path closes public access without a live proof that the tailnet        *)
(* reaches the host, taken immediately before the change": a private-only     *)
(* plan is only put in force on a host that is on the tailnet.                *)
ClosesWithProof ==
  [][door # "private" /\ door' = "private" => hostIp' # None]_vars
=============================================================================
