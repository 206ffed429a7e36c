-------------------------------- MODULE Deploy --------------------------------
(***************************************************************************)
(* One stack, from a request to a gateway that answers: clawops plan, up,  *)
(* apply, the wizard and their MCP tools, for a cloud stack through Pulumi *)
(* and for an owner's host through the bootstrap script (Provision).  Each *)
(* runs in a process of its own and may be killed; the script it started   *)
(* then goes on alone.                                                     *)
(*                                                                         *)
(* A request is reduced to a size, a release, whether SSH and the gateway  *)
(* are given CIDRs, and how the gateway is published.  Private-only plans  *)
(* are in Tailnet, the steps of a config write in RemoteConfig, the        *)
(* registration and the passphrase in Home.                                *)
(***************************************************************************)
EXTENDS Provision

CONSTANTS
  Procs,          \* the processes a command may run in
  Providers,      \* "gcp", "aws", "azure", "local"
  Sizes,          \* instance types
  Allowed,        \* those the operator's spending policy allows
  Supported,      \* the releases this clawops deploys
  Places,         \* what a program looks up outside the plan: the project, the AMI
  Unset,          \* a key of the stack config that is not set
  Requests,       \* what is asked for
  MaxCommands,    \* bound
  MaxEvents,      \* bound on what happens around the commands
  MaxTotal        \* bound on both

Intents == [size : Sizes, version : Versions, ssh : BOOLEAN, gateway : BOOLEAN, publish : {"loopback", "all"}]

ASSUME DeployAssumption ==
  /\ Scripts = Procs \cup {Boot} /\ Allowed \subseteq Sizes /\ Supported \subseteq Versions
  /\ Unset \notin Places \cup Sizes /\ Requests \subseteq Intents /\ MaxCommands \in Nat /\ MaxEvents \in Nat /\ MaxTotal \in Nat

VARIABLES
  provider,       \* of the stack
  ambient,        \* the project, subscription or AMI a lookup returns now
  stack,          \* the Pulumi stack: its version, 0 before the first update, and its resources
  plans,          \* the plan files
  proc,           \* what each process is doing
  commands, events

vars == <<machine, provider, ambient, stack, plans, proc, commands, events>>

NoIntent == [size |-> Unset, version |-> NoVersion, ssh |-> FALSE, gateway |-> FALSE, publish |-> "loopback"]

\* `version`: metadata.stackVersion, 0 when missing.  `diff`: what the preview says happens to the
\* machine, "none" when there is no diff.  `looked` is the lookup the preview made, and `beside` says
\* that an update landed where the drift check cannot see it.
NoPlan == [intent |-> NoIntent, version |-> 0, diff |-> "none", looked |-> Unset, beside |-> FALSE]

\* `asks`: there is somebody to confirm a drift.  `pinned`: the stack config's project.
Idle == [pc |-> "idle", cmd |-> "none", plan |-> NoPlan, asks |-> FALSE, wait |-> FALSE, pinned |-> Unset,
         warned |-> FALSE]

NoResources == [size |-> Unset, version |-> NoVersion, ssh |-> FALSE, gateway |-> FALSE, place |-> Unset]

NoStack == [version |-> 0, live |-> NoResources]

Diffs == {"create", "same", "update", "restart", "replace"}

TypeOK ==
  /\ provider \in Providers /\ ambient \in Places /\ commands \in 0..MaxCommands /\ events \in 0..MaxEvents
  /\ stack.version \in 0..MaxTotal + 1 /\ host.conf \in Configs
  /\ \A p \in plans \cup {proc[q].plan : q \in Procs} : p.diff \in Diffs \cup {"none"} /\ p.version \in 0..stack.version

-----------------------------------------------------------------------------
(* The programs.  Each reads the stack config; the same config makes the same resources. *)

\* Both the preview and the update read the config from here.  AWS resolves nothing to pin.
writeStackConfig(i) ==
  [instanceType |-> i.size, openclawVersion |-> i.version, publishGateway |-> i.publish,
   sshCidrs |-> i.ssh, gatewayCidrs |-> i.gateway,
   project |-> IF provider \in {"gcp", "azure"} THEN ambient ELSE Unset]

resolveIngressCidrs(cfg) == cfg.sshCidrs
\* Loopback publishing drops the gateway's rules.
resolveGatewayIngressCidrs(cfg) == cfg.publishGateway = "all" /\ cfg.gatewayCidrs

Resources(cfg, place) ==
  [size |-> cfg.instanceType, version |-> cfg.openclawVersion, place |-> place,
   ssh |-> resolveIngressCidrs(cfg), gateway |-> resolveGatewayIngressCidrs(cfg)]

\* A pinned project or subscription, or whatever the environment says.
gcpProgram(cfg) == Resources(cfg, IF cfg.project # Unset THEN cfg.project ELSE ambient)
azureProgram(cfg) == Resources(cfg, IF cfg.project # Unset THEN cfg.project ELSE ambient)
\* The most recent AMI, looked up by every preview and every update.
awsProgram(cfg) == Resources(cfg, ambient)

program(cfg) ==
  CASE provider = "gcp" -> gcpProgram(cfg) [] provider = "azure" -> azureProgram(cfg) [] OTHER -> awsProgram(cfg)

\* What a change does to the machine: another project, subscription or AMI replaces it and its disk.
Changed(live, new, stops) ==
  CASE live = NoResources     -> "create"
    [] live # NoResources /\ live.place # new.place -> "replace"
    [] live # NoResources /\ live.place = new.place /\ stops -> "restart"
    [] OTHER -> IF live = new THEN "same" ELSE "update"

gcpInstance(live, new) == Changed(live, new, live.size # new.size)
\* New user data stops and starts the instance, and is not run by it.
awsInstance(live, new) == Changed(live, new, live.size # new.size \/ live.version # new.version)
azureMachine(live, new) == Changed(live, new, live.size # new.size)

diff(live, new) ==
  CASE provider = "gcp" -> gcpInstance(live, new) [] provider = "azure" -> azureMachine(live, new)
    [] OTHER -> awsInstance(live, new)

-----------------------------------------------------------------------------
(* Machines. *)

\* A machine that a script has made, and its stack.
Made(version) ==
  [Blank(FALSE, "none") EXCEPT !.token = 1, !.minted = 1, !.conf = Written("default", TRUE),
                               !.gateway = [ver |-> version, token |-> 1, by |-> Boot]]

\* A host of the owner's that was bootstrapped with one release and updated to another since.
UpdatedSince(v, w) ==
  [Made(w) EXCEPT !.systemd = TRUE, !.unit = v, !.dropin = w, !.gateway.by = Nobody]

\* A host of the owner's that is new, with or without a 1.x config, or in use; a cloud stack that is new,
\* or deployed once.
Init ==
  /\ provider \in Providers /\ ambient \in Places
  /\ plans = {} /\ proc = [q \in Procs |-> Idle] /\ overlap = FALSE /\ commands = 0 /\ events = 0
  /\ script = [s \in Scripts |-> NotRun]
  /\ \/ /\ provider = "local" /\ stack = NoStack
        /\ \/ \E systemd \in BOOLEAN, legacy \in {"none", "home"} : host = Blank(systemd, legacy)
           \/ \E v, w \in Supported : v # w /\ host = UpdatedSince(v, w)
     \/ provider # "local" /\ stack = NoStack /\ host = [Blank(FALSE, "none") EXCEPT !.there = FALSE]
     \/ \E i \in Requests :
          /\ provider # "local" /\ i.size \in Allowed /\ i.version \in Supported
          /\ stack = [version |-> 1, live |-> program(writeStackConfig(i))] /\ host = Made(i.version)

\* A new machine boots into the startup script.  GCP runs it at every boot, as it is by then.
AtEveryBoot(version) == IF provider = "gcp" THEN {version} ELSE {}
Machine(kind, version) ==
  CASE kind \in {"create", "replace"} ->
         /\ host' = Blank(FALSE, "none") /\ overlap' = FALSE
         /\ script' = Launched(script, Boot, version)
    [] kind = "restart" -> Reboot(AtEveryBoot(version))
    [] OTHER -> UNCHANGED machine

-----------------------------------------------------------------------------
(* Commands. *)

At(q, pc) == proc[q].pc = pc
Goto(q, pc) == proc' = [proc EXCEPT ![q].pc = pc]
End(q) == proc' = [proc EXCEPT ![q] = Idle]
Quiet == UNCHANGED <<machine, provider, ambient, stack, plans, commands, events>>

Start(q, p) ==
  /\ At(q, "idle") /\ commands < MaxCommands /\ commands + events < MaxTotal /\ commands' = commands + 1
  /\ proc' = [proc EXCEPT ![q] = p]
  /\ UNCHANGED <<machine, provider, ambient, stack, plans, events>>

Asked(i) == [NoPlan EXCEPT !.intent = i]

plan(q, i) ==
  provider # "local" /\ Start(q, [Idle EXCEPT !.pc = "guard", !.cmd = "plan", !.plan = Asked(i)])

\* One deploy path with apply, and nobody who is asked about a drift.
up(q, i, wait) ==
  provider # "local" /\ Start(q, [Idle EXCEPT !.pc = "guard", !.cmd = "up", !.plan = Asked(i), !.wait = wait])

\* deploy_app passes no CIDRs at all.
deployApp(q, i) == ~i.ssh /\ ~i.gateway /\ i.publish = "loopback" /\ up(q, i, TRUE)

\* The wizard writes its plan by hand: no preview, no version.
wizard(q, i) ==
  provider # "local" /\ Start(q, [Idle EXCEPT !.pc = "check", !.cmd = "wizard", !.plan = Asked(i), !.wait = TRUE])

\* The plan file of any day; --yes, and clawops_apply, have nobody to ask about a drift.
apply(q, p, asks) ==
  Start(q, [Idle EXCEPT !.pc = "check", !.cmd = "apply", !.plan = p, !.asks = asks, !.wait = TRUE])

\* The MCP tool passes the release on unguarded.
localUp(q, i, mcp, wait) ==
  /\ provider = "local" /\ AtRest(q) /\ (mcp \/ i.version \in Supported)
  /\ Start(q, [Idle EXCEPT !.pc = "session", !.cmd = "local", !.wait = wait,
                           !.plan = Asked([NoIntent EXCEPT !.version = i.version])])

-----------------------------------------------------------------------------
(* generatePlan *)

enforceInstanceType(q) == proc[q].plan.intent.size \in Allowed
guardOpenclawVersion(q) == proc[q].plan.intent.version \in Supported

\* A flag that is no CIDR, an address that cannot be detected, a state backend that cannot be
\* opened: there is no plan then.
OpenStack(q) ==
  /\ At(q, "guard") /\ Quiet
  /\ End(q) \/ (enforceInstanceType(q) /\ guardOpenclawVersion(q) /\ Goto(q, "preview"))

\* A preview that fails is a warning; a plan without a public key is not previewed.
Preview(q) ==
  /\ At(q, "preview") /\ Quiet
  /\ \/ End(q)
     \/ Goto(q, "validate")
     \/ proc' = [proc EXCEPT ![q].pc = "info", ![q].plan.looked = ambient,
                             ![q].plan.diff = diff(stack.live, program(writeStackConfig(proc[q].plan.intent)))]

\* The version is asked for after the preview; it may not be answered, and a new stack has none.
StackInfo(q) ==
  /\ At(q, "info") /\ Quiet
  /\ \/ Goto(q, "validate")
     \/ proc' = [proc EXCEPT ![q].pc = "validate", ![q].plan.version = stack.version]

validatePlanNetwork(i) == i.publish = "loopback" => ~i.gateway

\* --out, or a file the operator makes of the output; --dry-run and a "no" end an `up` here.
FinishPlan(q) ==
  /\ At(q, "validate") /\ UNCHANGED <<machine, provider, ambient, stack, commands, events>>
  /\ \/ End(q) /\ UNCHANGED plans
     \/ /\ validatePlanNetwork(proc[q].plan.intent)
        /\ IF proc[q].cmd = "plan"
             THEN End(q) /\ plans' = plans \cup {proc[q].plan}
             ELSE Goto(q, "check") /\ UNCHANGED plans

-----------------------------------------------------------------------------
(* applyPlan *)

\* The release and the policy again, the stack, and what the environment says by now.
ApplyConfig(q) ==
  /\ At(q, "check") /\ Quiet
  /\ \/ End(q)
     \/ /\ enforceInstanceType(q) /\ guardOpenclawVersion(q)
        /\ proc' = [proc EXCEPT ![q].pc = "drift", ![q].pinned = writeStackConfig(proc[q].plan.intent).project]

Drifted(q) == proc[q].plan.version # 0 /\ stack.version # 0 /\ proc[q].plan.version # stack.version

\* For comparison: a drift is only looked for where somebody can be asked.
LooksIfItCanAsk(q) ==
  /\ At(q, "drift") /\ Quiet
  /\ IF proc[q].asks /\ Drifted(q)
       THEN proc' = [proc EXCEPT ![q].pc = "ask", ![q].warned = TRUE]
       ELSE Goto(q, "up")

\* A stack without a version, then or now, is not checked.  The warning is printed either way.
DriftCheck(q) ==
  /\ At(q, "drift") /\ Quiet
  /\ \/ End(q)                                            \* stack.info() fails
     \/ IF Drifted(q)
          THEN proc' = [proc EXCEPT ![q].pc = IF proc[q].asks THEN "ask" ELSE "up", ![q].warned = TRUE]
          ELSE Goto(q, "up")

confirmDrift(q) ==
  At(q, "ask") /\ Quiet /\ (End(q) \/ Goto(q, "up"))

\* Where an update lands between two looks at the version, the check cannot see it.
Beside(q) == At(q, "info") \/ (proc[q].pc \in {"ask", "up"} /\ proc[q].plan.version # 0)
Landed == [r \in Procs |-> IF Beside(r) THEN [proc[r] EXCEPT !.plan.beside = TRUE] ELSE proc[r]]

Wanted(q) == program([writeStackConfig(proc[q].plan.intent) EXCEPT !.project = proc[q].pinned])

\* All that the waits need to know.
Waiting(pc) == [Idle EXCEPT !.pc = pc, !.cmd = "wait"]

Update(new) ==
  /\ stack' = [version |-> stack.version + 1, live |-> new]
  /\ Machine(diff(stack.live, new), new.version)

\* An update that fails, or is killed, may have done nothing or all of it, and is a version too.
Up(q) ==
  /\ At(q, "up") /\ UNCHANGED <<provider, ambient, plans, commands, events>>
  /\ \/ \E mine \in {Idle} \cup (IF proc[q].wait THEN {Waiting("ssh")} ELSE {}) :
          Update(Wanted(q)) /\ proc' = [Landed EXCEPT ![q] = mine]
     \/ /\ stack' = [stack EXCEPT !.version = @ + 1] /\ proc' = [Landed EXCEPT ![q] = Idle]
        /\ UNCHANGED machine
     \/ End(q) /\ UNCHANGED <<machine, stack>>            \* the stack is locked, the backend is away

\* A refused connection is retried until the deadline, anything else ends the wait.
waitForSsh(q) ==
  /\ At(q, "ssh") /\ Quiet
  /\ End(q) \/ (host.there /\ stack.live.ssh /\ Goto(q, "gateway"))

\* By the deadline, or when docker refuses: a failure that leaves everything where it is.
waitForGateway(q) ==
  /\ At(q, "gateway") /\ Quiet
  /\ End(q) \/ (CanAnswer /\ (End(q) \/ Goto(q, "overlay")))

\* A plan made by the wizard or by hand carries an overlay.
applyConfigOverlay(q) ==
  /\ At(q, "overlay") /\ End(q)
  /\ UNCHANGED <<provider, ambient, stack, plans, commands, events>>
  /\ UNCHANGED machine \/ Edit

-----------------------------------------------------------------------------
(* localBootstrap *)

\* The script is sent over SSH and runs there; a new run by this process has the last one's place.
Bootstrap(q) ==
  /\ At(q, "session") /\ UNCHANGED <<host, provider, ambient, stack, plans, commands, events>>
  /\ \/ End(q) /\ UNCHANGED <<script, overlap>>
     \/ Launch(q, proc[q].plan.intent.version) /\ Goto(q, "script")

\* A session lost while the script runs has no exit code, which counts as 0; a wait would fail on it.
ScriptEnded(q) ==
  /\ At(q, "script") /\ Quiet
  /\ \/ End(q)
     \/ ~proc[q].wait /\ proc' = [proc EXCEPT ![q] = Waiting("overlay")]
     \/ script[q].pc = "done" /\ proc' = [proc EXCEPT ![q] = Waiting(IF proc[q].wait THEN "gateway" ELSE "overlay")]

Killed(q) == ~At(q, "idle") /\ End(q) /\ Quiet

-----------------------------------------------------------------------------
(* Around the commands. *)

Event ==
  /\ events < MaxEvents /\ commands + events < MaxTotal /\ events' = events + 1
  /\ UNCHANGED <<provider, plans, commands>>

\* gcloud config set project, az account set in another terminal; Canonical publishes an AMI.
Elsewhere ==
  Event /\ ambient' \in Places \ {ambient} /\ provider # "local" /\ UNCHANGED <<machine, stack, proc>>

\* An update or a destroy by another operator, on the same backend.
UpdatedElsewhere ==
  /\ Event /\ provider # "local" /\ UNCHANGED ambient /\ proc' = Landed
  /\ \E i \in Requests : i.size \in Allowed /\ i.version \in Supported /\ Update(program(writeStackConfig(i)))

Destroyed ==
  /\ Event /\ stack.live # NoResources /\ UNCHANGED ambient /\ proc' = Landed
  /\ stack' = [version |-> stack.version + 1, live |-> NoResources]
  /\ host' = [host EXCEPT !.there = FALSE] /\ overlap' = FALSE
  /\ script' = [s \in Scripts |-> NotRun]

OnTheMachine ==
  /\ Event /\ UNCHANGED <<ambient, stack, proc>>
  /\ \/ Reboot(AtEveryBoot(stack.live.version))
     \/ \E v \in Supported : GatewayUpdate(v)
     \/ Edit

Command(q) ==
  \/ \E i \in Requests :
       \/ plan(q, i) \/ deployApp(q, i) \/ wizard(q, i)
       \/ \E wait \in BOOLEAN : up(q, i, wait)
       \/ \E mcp, wait \in BOOLEAN : localUp(q, i, mcp, wait)
  \/ \E p \in plans, asks \in BOOLEAN : apply(q, p, asks)

Step(q) ==
  \/ OpenStack(q) \/ Preview(q) \/ StackInfo(q) \/ FinishPlan(q)
  \/ ApplyConfig(q) \/ DriftCheck(q) \/ confirmDrift(q) \/ Up(q)
  \/ waitForSsh(q) \/ waitForGateway(q) \/ applyConfigOverlay(q)
  \/ Bootstrap(q) \/ ScriptEnded(q) \/ Killed(q)

Scripted(s) == ScriptStep(s) /\ UNCHANGED <<provider, ambient, stack, plans, proc, commands, events>>

Next ==
  \/ \E q \in Procs : Command(q) \/ Step(q)
  \/ \E s \in Scripts : Scripted(s)
  \/ Elsewhere \/ UpdatedElsewhere \/ Destroyed \/ OnTheMachine

Spec == Init /\ [][Next]_vars

-----------------------------------------------------------------------------
(* Properties. *)

Updating(q) == At(q, "up") /\ stack' # stack /\ proc'[q].pc # "up"

\* plan/apply.ts, ADR 0008: an update that was previewed does to the machine what the preview said, a
\* replacement above all, unless the operator was warned of a drift, the plan has no version to compare,
\* a lookup answers differently by now, or the other update slipped between two looks at the version.
ReviewedIsApplied ==
  [][\A q \in Procs : Updating(q) =>
       \/ proc[q].plan.diff = "none" \/ proc[q].plan.version = 0
       \/ proc[q].warned \/ proc[q].plan.beside \/ proc[q].plan.looked # Wanted(q).place
       \/ diff(stack.live, Wanted(q)) = proc[q].plan.diff]_vars

\* providers/startup.ts: "re-running provisioning never clobbers a later edit": as long as it is the
\* same machine, and no two runs of the script, or a run and a day-two command, overlapped.
EditsSurvive ==
  [][host.there /\ host.conf.edited /\ ~overlap =>
       host'.conf.edited \/ ~host'.there \/ host'.minted < host.minted \/ overlap']_host

\* bootstrap.sh.tmpl: "Generated once and reused on re-runs": the gateway that runs has the token of the
\* file, which is the one clients are given, wherever a run was cut and however often it is run again.
TokenIsKept == host.there /\ host.gateway.ver # NoVersion /\ ~overlap => host.gateway.token = host.token

\* A bootstrap that finished, with nothing started since, runs the release that was asked of it, whatever
\* an update or a restart had pinned before.
DoneRunsWhatWasAsked ==
  \A q \in Procs : script[q].pc = "done" /\ host.gateway.by = q /\ ~overlap => host.gateway.ver = script[q].ver

===============================================================================
