----------------------------- MODULE HostSetup -----------------------------
(***************************************************************************)
(* A gateway's host being set up: `agent install` and `agent uninstall`,   *)
(* one at a time, and `clawops harden`, which may run at the same moment   *)
(* from another terminal.  They meet in the firewall: install adds rules   *)
(* to a ufw that is active, and harden's reset drops all of them and puts  *)
(* back those agent.json asked for when it was read.                       *)
(*                                                                         *)
(* install and uninstall are sequences of remote commands, each of which   *)
(* may fail, be killed with a restarting gateway, or be the last the       *)
(* operator's machine sends; the host may reboot.                          *)
(***************************************************************************)
EXTENDS Hardening

CONSTANTS
  Tokens,         \* bound: installations, each with a token of its own
  MaxFlows,       \* bound: commands given to the host
  MaxReboots      \* bound

ASSUME HostSetupAssumption == Tokens \in Nat /\ MaxFlows \in Nat /\ MaxReboots \in Nat

VARIABLES
  agent,          \* the rest of what install leaves on the host
  entry,          \* the token in the gateway's clawops entry; 0: no entry
  denied,         \* every other agent's tools.deny covers the clawops tools
  setup,          \* the install or uninstall under way
  last,           \* how the last one ended
  overlap,        \* an install wrote agent.json and its rule around a reset
  missed,         \* the failures that were passed over and still tell, of Passed
  flows, reboots  \* bounds

setupVars == <<agentJson, agent, entry, denied, setup, last, overlap, missed, flows, reboots>>
hostVars == <<hardenVars, setupVars>>

\* env: the token in agent.env, as the last install wrote it.  run: the token the process was started with, 0 when it is down.
\* runFleet: that process is a fleet member.  boot: its unit is enabled.  table, tableBoot: the
\* fleet's firewall table and its unit.
Agent == [env : 0..Tokens, run : 0..Tokens, runFleet : BOOLEAN, boot : BOOLEAN,
          fleet : BOOLEAN, table : BOOLEAN, tableBoot : BOOLEAN]

\* show: the gateway did not say that an entry was there.  stop: the agent was told to stop, and runs
\* or is enabled still.  table: the unit of the table did not load it at boot.
Passed == {"show", "stop", "table"}

NoSetup == [pc |-> "idle", kind |-> "plain", token |-> 0, tries |-> 0, rules |-> {}, failed |-> FALSE]

Kinds == {"plain", "fleet", "serves"}     \* serves: a fleet member that serves peers
JsonOf(kind) == IF kind = "serves" THEN "serves" ELSE "plain"

SetupTypeOK ==
  /\ fw \in [on : BOOLEAN, rules : SUBSET Rules]
  /\ ssh \in Sshd
  /\ agentJson \in {"none", "plain", "serves"}
  /\ agent \in Agent /\ entry \in 0..Tokens /\ denied \in BOOLEAN
  /\ setup.kind \in Kinds /\ setup.token \in 0..Tokens /\ setup.tries \in 0..3
  /\ overlap \in BOOLEAN /\ missed \subseteq Passed /\ flows \in 0..MaxFlows /\ reboots \in 0..MaxReboots

SetupInit ==
  /\ HardenInit
  /\ agentJson = "none"
  /\ agent = [env |-> 0, run |-> 0, runFleet |-> FALSE, boot |-> FALSE,
              fleet |-> FALSE, table |-> FALSE, tableBoot |-> FALSE]
  /\ entry = 0 /\ denied \in BOOLEAN
  /\ setup = NoSetup /\ last = "none" /\ overlap = FALSE /\ missed = {}
  /\ flows = 0 /\ reboots = 0

-----------------------------------------------------------------------------
(* Steps. *)

At(pc) == setup.pc = pc
Goto(pc) == setup' = [setup EXCEPT !.pc = pc]
End(how) == setup' = NoSetup /\ last' = how

\* Between writing agent.json and adding its rule, install is where harden's reset may be
\* between reading the one and dropping the other.
Overlaps == overlap \/ harden.rules # {}

Keep(v) == UNCHANGED <<v, hardenVars, flows, reboots>>

-----------------------------------------------------------------------------
(* agent install *)

Install(kind) ==
  /\ At("idle") /\ flows < MaxFlows /\ agent.env < Tokens
  /\ setup' = [NoSetup EXCEPT !.pc = "guardrail", !.kind = kind, !.token = agent.env + 1]
  /\ flows' = flows + 1 /\ last' = "none" /\ missed' = missed \ {"show"}
  /\ UNCHANGED <<agentJson, agent, entry, denied, overlap, reboots, hardenVars>>

\* The host, its tailnet and the guardrail as the denies would leave it: nothing is changed yet.
Preconditions ==
  /\ At("guardrail")
  /\ \/ End("refused") \/ (Goto(IF denied THEN "verify" ELSE "deny") /\ UNCHANGED last)
  /\ Keep(<<agentJson, agent, entry, denied, overlap, missed>>)

\* A write into a gateway that restarts is lost, and made again up to three times.
gatewayWrite ==
  /\ At("deny")
  /\ \/ denied' = TRUE /\ Goto("verify") /\ UNCHANGED last
     \/ /\ setup.tries < 3 /\ UNCHANGED <<denied, last>>
        /\ setup' = [setup EXCEPT !.tries = @ + 1]
     \/ UNCHANGED denied /\ End("verify")
  /\ Keep(<<agentJson, agent, entry, overlap, missed>>)

\* What the gateway holds is read back, and the runtime and the files are copied.
VerifyAndCopy ==
  /\ At("verify")
  /\ \/ denied /\ Goto(IF setup.kind = "plain" THEN "json" ELSE "table") /\ UNCHANGED last
     \/ End("install")
  /\ Keep(<<agentJson, agent, entry, denied, overlap, missed>>)

\* For comparison: install leaves the table out.
TableLater ==
  /\ At("table") /\ Goto("json")
  /\ UNCHANGED <<agent, last>>
  /\ Keep(<<agentJson, entry, denied, overlap, missed>>)

\* `nft -f` replaces the table at once, and a script that stops before it leaves the one there is.
installPeerFirewall ==
  /\ At("table")
  /\ \/ /\ agent' = [agent EXCEPT !.table = TRUE, !.tableBoot = TRUE]
        /\ Goto("json") /\ UNCHANGED last
     \/ /\ \E boot, table \in BOOLEAN :
             agent' = [agent EXCEPT !.tableBoot = @ \/ boot, !.table = @ \/ (boot /\ table)]
        /\ End("install")
  /\ missed' = IF agent'.table THEN missed \ {"table"} ELSE missed
  /\ Keep(<<agentJson, entry, denied, overlap>>)

WriteJson ==
  /\ At("json")
  /\ \/ agentJson' = JsonOf(setup.kind) /\ agent' = [agent EXCEPT !.fleet = (setup.kind # "plain")]
        /\ Goto("env") /\ UNCHANGED last
     \/ UNCHANGED <<agentJson, agent>> /\ End("install")
  /\ overlap' = Overlaps
  /\ Keep(<<entry, denied, missed>>)

\* The token, the unit file and the state directory.
WriteEnv ==
  /\ At("env")
  /\ \/ agent' = [agent EXCEPT !.env = setup.token] /\ Goto("ufw status") /\ UNCHANGED last
     \/ agent' \in {agent, [agent EXCEPT !.env = setup.token]} /\ End("install")
  /\ overlap' = Overlaps
  /\ Keep(<<agentJson, entry, denied, missed>>)

\* An active firewall is given the rules; one that is not is left alone.
UfwRules ==
  /\ At("ufw status")
  /\ Goto(IF fw.on THEN "ufw allow" ELSE "start")
  /\ overlap' = Overlaps
  /\ UNCHANGED last /\ Keep(<<agentJson, agent, entry, denied, missed>>)

WantedRules(kind) == {"agent"} \cup (IF kind = "serves" THEN {"peers"} ELSE {})

UfwAllow ==
  /\ At("ufw allow")
  /\ \/ fw' = [fw EXCEPT !.rules = @ \cup WantedRules(setup.kind)] /\ Goto("start") /\ UNCHANGED last
     \/ fw' \in {fw, [fw EXCEPT !.rules = @ \cup {"agent"}]} /\ End("install")
  /\ overlap' = Overlaps
  /\ UNCHANGED <<agentJson, agent, entry, denied, missed, flows, reboots, ssh, marks, done, harden>>

Running(a) == [a EXCEPT !.run = a.env, !.runFleet = a.fleet]

\* daemon-reload, enable, restart: a start that fails has at least been enabled.
Start ==
  /\ At("start")
  /\ \/ /\ agent' = [Running(agent) EXCEPT !.boot = TRUE] /\ missed' = missed \ {"stop"}
        /\ Goto("answers") /\ UNCHANGED last
     \/ /\ agent' \in {agent, [agent EXCEPT !.boot = TRUE, !.run = 0]} /\ UNCHANGED missed
        /\ End("start")
  /\ Keep(<<agentJson, entry, denied, overlap>>)

\* `systemctl disable --now ... || true`: of the two, either may have failed, and nobody is told.
StopAgent ==
  /\ \E running, enabled \in BOOLEAN :
       agent' = [agent EXCEPT !.run = IF running THEN @ ELSE 0, !.boot = @ /\ enabled]
  /\ missed' = IF agent'.run = 0 /\ ~agent'.boot THEN missed \ {"stop"} ELSE missed \cup {"stop"}

\* An install that gives up on its agent has it stopped.
Abandon == StopAgent /\ End("stopped")

\* A host agent that does not answer 401 in time is stopped.
Answers ==
  /\ At("answers")
  /\ \/ agent.run = setup.token /\ Goto("show") /\ UNCHANGED <<agent, missed, last>>
     \/ Abandon
  /\ Keep(<<agentJson, entry, denied, overlap>>)

\* For comparison: an entry that is there is kept, and taken for this one.
KeepsEntry ==
  /\ At("show")
  /\ Goto(IF entry # 0 THEN "done" ELSE "add") /\ UNCHANGED <<agent, missed, last, entry>>
  /\ Keep(<<agentJson, denied, overlap>>)

\* `mcp add` has tries of its own.
GoAdd == setup' = [setup EXCEPT !.pc = "add", !.tries = 0] /\ UNCHANGED <<agent, last>>

\* wireGatewayMcp with `rewire`: an entry that is there is removed first.  A `show` that fails, or is
\* killed with the gateway, says the same as one that finds nothing.
Unset ==
  /\ At("show")
  /\ \/ Abandon /\ UNCHANGED entry                            \* no `mcp add`
     \/ Abandon /\ entry # 0 /\ entry' \in {entry, 0}         \* it was not removed, or not known to be
     \/ GoAdd /\ entry' = 0 /\ UNCHANGED missed
     \/ GoAdd /\ entry # 0 /\ UNCHANGED entry /\ missed' = missed \cup {"show"}
  /\ Keep(<<agentJson, denied, overlap>>)

\* `openclaw mcp add` refuses a name that is there, and probes the server before it saves.
Saves == entry = 0 /\ agent.run = setup.token /\ entry' = setup.token

\* It may be killed before or after it saved.  An entry that `show` finds then is taken for the one
\* it saved; it is run again when `show` finds none, or is killed itself, up to three times.
Add ==
  /\ At("add")
  /\ \/ Saves /\ Goto("done") /\ UNCHANGED <<agent, missed, last>>
     \/ /\ setup.tries < 3 /\ (Saves \/ UNCHANGED entry)
        /\ \E pc \in {"done", "add"} :
             /\ pc = "done" => entry' # 0
             /\ setup' = [setup EXCEPT !.tries = @ + 1, !.pc = pc]
        /\ UNCHANGED <<agent, missed, last>>
     \/ (UNCHANGED entry \/ (setup.tries = 3 /\ Saves)) /\ Abandon
  /\ Keep(<<agentJson, denied, overlap>>)

Done == /\ At("done") /\ End("installed")
        /\ Keep(<<agentJson, agent, entry, denied, overlap, missed>>)

installHostAgent ==
  \/ Preconditions \/ gatewayWrite \/ VerifyAndCopy \/ installPeerFirewall \/ WriteJson \/ WriteEnv
  \/ UfwRules \/ UfwAllow \/ Start \/ Answers \/ Unset \/ Add \/ Done

-----------------------------------------------------------------------------
(* agent uninstall.  A step that fails is reported, and the next is taken. *)

Uninstall ==
  /\ At("idle") /\ flows < MaxFlows /\ agent.env # 0
  /\ setup' = [NoSetup EXCEPT !.pc = "unwire"]
  /\ flows' = flows + 1 /\ last' = "none"
  /\ UNCHANGED <<agentJson, agent, entry, denied, overlap, missed, reboots, hardenVars>>

Next1(pc, failed) == setup' = [setup EXCEPT !.pc = pc, !.failed = @ \/ failed]

\* What there is to unset is what `show` finds: one that fails reports nothing.  Then agent.json is
\* read for the rules that may be there; one that could not be read asks for none.
Unwire ==
  /\ At("unwire")
  /\ \E failed \in BOOLEAN, rules \in {{}, IF agentJson # "none" THEN {"agent", "peers"} ELSE {}} :
       /\ \/ ~failed /\ entry' \in {entry, 0}
          \/ failed /\ entry # 0 /\ entry' \in {entry, 0}
       /\ setup' = [setup EXCEPT !.pc = "stop", !.failed = failed, !.rules = rules]
  /\ UNCHANGED last /\ Keep(<<agentJson, agent, denied, overlap, missed>>)

\* What is reported is the daemon-reload.
StopUnit ==
  /\ At("stop") /\ StopAgent
  /\ \E failed \in BOOLEAN : Next1("ufw delete", failed)
  /\ UNCHANGED last /\ Keep(<<agentJson, entry, denied, overlap>>)

\* The rules `ufw status` shows, which it does for an active firewall, if it can.
UfwDelete ==
  /\ At("ufw delete")
  /\ \E there \in {{}, IF fw.on THEN fw.rules \cap setup.rules ELSE {}} :
       \E gone \in SUBSET there :
         /\ fw' = [fw EXCEPT !.rules = @ \ gone]
         /\ Next1("peer table", gone # there)
  /\ UNCHANGED <<last, agentJson, agent, entry, denied, overlap, missed, flows, reboots, ssh, marks, done, harden>>

\* Each line of the script may fail; whether its last does is what is reported.
removePeerFirewall ==
  /\ At("peer table")
  /\ \E table, unit, failed \in BOOLEAN :
       /\ agent' = [agent EXCEPT !.table = @ /\ table, !.tableBoot = @ /\ unit]
       /\ Next1("rm", failed)
  /\ UNCHANGED last /\ Keep(<<agentJson, entry, denied, overlap, missed>>)

\* The files, whatever failed before: agent.json, and what the two units need to start.
RemoveFiles ==
  /\ At("rm")
  /\ \E json, lib, rules \in BOOLEAN :      \* what is left
       /\ agentJson' = IF json THEN agentJson ELSE "none"
       /\ agent' = [agent EXCEPT !.fleet = @ /\ json, !.boot = @ /\ lib, !.tableBoot = @ /\ rules]
       /\ End(IF json \/ lib \/ rules \/ setup.failed THEN "left" ELSE "uninstalled")
  /\ Keep(<<entry, denied, overlap, missed>>)

uninstallHostAgent == Unwire \/ StopUnit \/ UfwDelete \/ removePeerFirewall \/ RemoveFiles

-----------------------------------------------------------------------------
(* The world. *)

\* The operator's machine goes away in the middle of an install or an uninstall.
SetupDies == /\ ~At("idle") /\ End("died")
             /\ Keep(<<agentJson, agent, entry, denied, overlap, missed>>)

\* Enabled units start, the table's before Docker's and the agent's after it: the first is a oneshot
\* and may fail, the second is started again until it runs.  Whatever was being done over SSH is cut
\* off.
Reboot ==
  /\ reboots < MaxReboots /\ reboots' = reboots + 1
  /\ \E loads \in BOOLEAN :
       LET a == [agent EXCEPT !.table = agent.tableBoot /\ loads]
       IN  /\ agent' = IF a.boot THEN Running(a) ELSE [a EXCEPT !.run = 0]
           /\ missed' = (missed \cap (IF a.boot THEN {"show", "stop"} ELSE {"show"}))
                          \cup (IF a.tableBoot /\ ~loads THEN {"table"} ELSE {})
  /\ setup' = NoSetup /\ last' = IF At("idle") THEN last ELSE "died"
  /\ harden' = Resting
  /\ UNCHANGED <<agentJson, entry, denied, overlap, flows, fw, ssh, marks, done>>

Hardens ==
  /\ \/ /\ flows < MaxFlows /\ flows' = flows + 1
        /\ \E options \in Selections, provider \in Providers : HardenStart(options, provider)
     \/ (HardenCheck \/ HardenApply \/ HardenNext \/ HardenDies) /\ UNCHANGED flows
  /\ overlap' = (overlap \/ (harden'.rules # {} /\ setup.pc \in {"env", "ufw status", "ufw allow"}))
  /\ UNCHANGED <<agentJson, agent, entry, denied, missed, setup, last, reboots>>

SetupNext ==
  \/ \E kind \in Kinds : Install(kind)
  \/ installHostAgent
  \/ Uninstall \/ uninstallHostAgent
  \/ SetupDies \/ Reboot \/ Hardens

SetupSpec == SetupInit /\ [][SetupNext]_hostVars

-----------------------------------------------------------------------------
(* Once an install has succeeded, a firewall that is on lets the gateway   *)
(* reach the host agent, and peers reach the one that serves them: whether *)
(* harden came before, after, or failed and ran again, unless the two ran  *)
(* into each other (ufw.ts: the reset `drops every rule, the host agent's  *)
(* included`).                                                             *)
AgentIsLetIn ==
  last = "installed" /\ fw.on /\ ~overlap =>
    "agent" \in fw.rules /\ (agentJson = "serves" => "peers" \in fw.rules)

(* Once an install has succeeded, the gateway has an entry, every other    *)
(* agent is denied its tools, and the entry carries the token the running  *)
(* agent asks for: after a reinstall, killed additions and a reboot alike, *)
(* unless `show` did not name the entry of the install before, which is    *)
(* then neither removed nor told from the new one (mcp-wire.ts).           *)
WiredTokenIsServed ==
  last = "installed" =>
    entry # 0 /\ denied /\ ("show" \notin missed => entry = agent.run)

(* "Wired" means that the gateway reached this agent with this token: what *)
(* mcp-wire.ts says that `mcp add` makes certain.                          *)
WiredIsThisOne == last = "installed" => entry = agent.run

(* A fleet member's agent never runs without the table that keeps everyone *)
(* else on the host off the peer port: not while it is installed, not      *)
(* while it is removed, not after a reboot, wherever any of them stops     *)
(* (install.ts, `before the agent starts`).  What is left is an agent that *)
(* was told to stop and did not, and a unit that failed at boot: of        *)
(* neither does anybody ask.                                               *)
TableBeforeAgent ==
  agent.run # 0 /\ agent.runFleet => agent.table \/ missed \cap {"stop", "table"} # {}

(* The same with nothing left out.                                         *)
NoAgentWithoutTable == agent.run # 0 /\ agent.runFleet => agent.table

(* An uninstall that reports no failure leaves no rule of install's in the *)
(* firewall (install.ts, `Removes what install added`).                    *)
UninstallTakesTheRules == last = "uninstalled" => fw.rules \cap {"agent", "peers"} = {}
=============================================================================
