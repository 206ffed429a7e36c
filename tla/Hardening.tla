----------------------------- MODULE Hardening -----------------------------
(***************************************************************************)
(* `clawops harden` on one host.  runHardening takes the selected modules  *)
(* in the catalog's order: it asks each whether it is in place (check) and *)
(* otherwise runs its script (apply), a chain of commands in one remote    *)
(* shell that can stop after any of them.  A module that fails is          *)
(* recorded, and the next one is taken.                                    *)
(*                                                                         *)
(* What the scripts do is kept for the two modules a host can be lost by:  *)
(* ufw, whose reset drops every rule and which reads, before it, which     *)
(* rules to put back; and ssh, which rewrites sshd_config and restarts the *)
(* daemon.  Of the others it is kept whether their work was done and       *)
(* whether their sentinel file says so.                                    *)
(***************************************************************************)
EXTENDS Naturals, Sequences

CONSTANTS
  Providers,      \* the providers the host may be of
  Selections,     \* what --options may name; {} is the default selection
  Sshds           \* what the daemon's surroundings may be

VARIABLES
  fw,             \* ufw: on, and its rules
  ssh,            \* sshd: up, what sshd_config holds, and what is around it
  marks,          \* the sentinels in /etc/clawops/hardening
  done,           \* the modules whose work is done
  agentJson,      \* /etc/clawops-agent/agent.json: none, plain, or serves peers
  harden          \* the run of `clawops harden`

hardenVars == <<fw, ssh, marks, done, harden>>

\* match: sshd_config ends in a Match block, which the lines appended to it fall into.  keys:
\* clawops's authorized_keys holds one.
Sshd == [up : BOOLEAN, file : {"stock", "hardened"}, match : BOOLEAN, keys : BOOLEAN]

Rules == {"ssh", "gateway", "agent", "peers"}

-----------------------------------------------------------------------------
(* The catalog.  A step of a script runs after one that succeeded ("and")  *)
(* or after one that failed ("or"); the shell gives && and || the same     *)
(* precedence.                                                             *)

And(what) == [if |-> "and", what |-> what]
Or(what)  == [if |-> "or", what |-> what]

\* A module of every provider: `other` is what check may answer when nothing is in place.
Common(id, on, other, script) ==
  [id |-> id, on |-> on, for |-> Providers, other |-> other, script |-> script]

\* A module that only reports: apply changes nothing.
Audit(id, on, provider, other) ==
  [id |-> id, on |-> on, for |-> {provider}, other |-> {"applied", "skipped"} \cup other, script |-> <<>>]

sshModule == Common("ssh", TRUE, {"missing"},
  <<And("keys"), And("settings"), And("sshd -t"), And("restart"), Or("restart"), And("mark")>>)

\* For comparison: a script that turns the firewall on before it has rules.
EnablesFirst == Common("ufw", TRUE, {"missing"},
  <<And("read"), And("prepare"), And("reset"), And("enable"), And("rules"), And("mark")>>)

makeUfwModule == Common("ufw", TRUE, {"missing"},
  <<And("read"), And("prepare"), And("reset"), And("rules"), And("enable"), And("mark")>>)

fail2banModule == Common("fail2ban", TRUE, {"missing", "drifted"},
  <<And("prepare"), And("work"), And("mark")>>)

unattendedUpgradesModule == Common("unattended-upgrades", TRUE, {"missing"},
  <<And("prepare"), And("work"), And("mark")>>)

\* Its check looks at the socket whatever the sentinel says.
dockerSocketModule == Common("docker-socket", TRUE, {"skipped", "drifted"}, <<And("work"), And("mark")>>)

auditdModule == Common("auditd", FALSE, {"missing"},
  <<And("prepare"), And("work"), Or("work"), And("prepare"), And("mark")>>)

sysctlModule == Common("sysctl", FALSE, {"missing"}, <<And("work"), And("prepare"), And("mark")>>)

\* The audit's own failure is ignored, and with it that of the installation before it.
lynisModule == Common("lynis", FALSE, {"missing"}, <<And("prepare"), And("work"), Or("nothing"), And("mark")>>)

awsSgAuditModule          == Audit("aws-sg-audit", TRUE, "aws", {"drifted"})
awsSsmCheckModule         == Audit("aws-ssm-check", TRUE, "aws", {"drifted"})
gcpFirewallAuditModule    == Audit("gcp-firewall-audit", TRUE, "gcp", {"drifted"})
gcpShieldedVmModule       == Audit("gcp-shielded-vm", TRUE, "gcp", {"missing"})
gcpOsLoginModule          == Audit("gcp-os-login", FALSE, "gcp", {"drifted"})
azureNsgAuditModule       == Audit("azure-nsg-audit", TRUE, "azure", {"drifted"})
azureDiskEncryptionModule == Audit("azure-disk-encryption", TRUE, "azure", {"missing"})
azureDefenderModule       == Audit("azure-defender", TRUE, "azure", {"missing"})
azureJitModule            == Audit("azure-jit", FALSE, "azure", {"missing"})

\* The two AWS modules that act do so through the cloud's API, on no file of the host.
awsFlowLogsModule  == [Audit("aws-flow-logs", FALSE, "aws", {"missing"})
                         EXCEPT !.script = <<And("prepare"), And("work")>>]
awsGuardDutyModule == [Audit("aws-guardduty", FALSE, "aws", {"missing", "drifted"})
                         EXCEPT !.script = <<And("work")>>]

tailscaleModule == Common("tailscale", FALSE, {"missing", "drifted"},
                          <<And("prepare"), And("prepare"), And("work")>>)

MODULE_CATALOG ==
  <<sshModule, makeUfwModule, fail2banModule, unattendedUpgradesModule, dockerSocketModule,
    auditdModule, lynisModule, sysctlModule,
    awsSgAuditModule, awsSsmCheckModule, awsFlowLogsModule, awsGuardDutyModule,
    gcpFirewallAuditModule, gcpShieldedVmModule, gcpOsLoginModule,
    azureNsgAuditModule, azureDiskEncryptionModule, azureDefenderModule, azureJitModule,
    tailscaleModule>>

\* The places in the catalog of the modules a run takes.
resolveModules(options, provider) ==
  {i \in DOMAIN MODULE_CATALOG :
     LET m == MODULE_CATALOG[i]
     IN  provider \in m.for /\ (IF options = {} THEN m.on ELSE m.id \in options)}

-----------------------------------------------------------------------------
Resting == [pc |-> "idle", dryRun |-> FALSE, at |-> 1, todo |-> {}, step |-> 1, ok |-> TRUE, rules |-> {}]

\* The module in hand.
Current == MODULE_CATALOG[harden.at]

HardenInit ==
  /\ \/ fw = [on |-> FALSE, rules |-> {}]
     \/ fw = [on |-> TRUE, rules |-> {"ssh"}]       \* turned on by its owner
  /\ ssh \in {s \in Sshd : s.up /\ s.file = "stock" /\ [match |-> s.match, keys |-> s.keys] \in Sshds}
  /\ marks = {} /\ done = {}
  /\ harden = Resting

\* check reads the sentinel, then the thing itself; docker-socket looks at the socket alone, and
\* lynis has not run until its sentinel says so.
InPlace(m) ==
  \/ m.id \in marks /\ (m.id = "lynis" => m.id \in done) /\ m.id # "docker-socket"
  \/ m.id \in done /\ m.id # "lynis"
  \/ m.id = "ufw" /\ fw.on
  \/ m.id = "ssh" /\ ssh.file = "hardened" /\ ~ssh.match

check(m) == IF InPlace(m) THEN {"applied"} ELSE m.other

\* The first of the modules that are left, in the catalog's order.
Take(todo, dryRun) ==
  \E i \in todo :
    /\ \A j \in todo : i <= j
    /\ harden' = [Resting EXCEPT !.pc = "check", !.dryRun = dryRun, !.at = i, !.todo = todo \ {i}]

HardenStart(options, provider) ==
  /\ harden.pc = "idle"
  /\ \E dryRun \in BOOLEAN : Take(resolveModules(options, provider), dryRun)
  /\ UNCHANGED <<fw, ssh, marks, done>>

NextModule == IF harden.todo = {} THEN harden' = Resting ELSE Take(harden.todo, harden.dryRun)

\* A check that is not `applied` is followed by apply, unless the run is a dry one.
HardenCheck ==
  /\ harden.pc = "check"
  /\ \E status \in check(Current) :
       IF status = "applied" \/ harden.dryRun \/ Current.script = <<>>
       THEN NextModule ELSE harden' = [harden EXCEPT !.pc = "apply"]
  /\ UNCHANGED <<fw, ssh, marks, done>>

\* For comparison: a reset that does not put the host agent's rules back.
ForgetsAgent ==
  \E exposed \in BOOLEAN :
    harden' = [harden EXCEPT !.step = @ + 1,
                 !.rules = {"ssh"} \cup (IF exposed THEN {"gateway"} ELSE {})]

\* The rules the script is made of are read before it is run.
publishedGateway ==
  \E exposed \in BOOLEAN :
    harden' = [harden EXCEPT !.step = @ + 1,
                 !.rules = {"ssh"} \cup (IF exposed THEN {"gateway"} ELSE {})
                             \cup (IF agentJson # "none" THEN {"agent"} ELSE {})
                             \cup (IF agentJson = "serves" THEN {"peers"} ELSE {})]

Advance(ok) == harden' = [harden EXCEPT !.step = @ + 1, !.ok = ok]

\* What a command of the script changes when it succeeds.
Effect(what, id) ==
  /\ fw' = CASE what = "reset"  -> [on |-> FALSE, rules |-> {}]
             [] what = "rules"  -> [fw EXCEPT !.rules = @ \cup harden.rules]
             [] what = "enable" -> [fw EXCEPT !.on = TRUE]
             [] OTHER           -> fw
  /\ ssh' = CASE what = "settings" -> [ssh EXCEPT !.file = "hardened"]
              [] what = "restart"  -> [ssh EXCEPT !.up = TRUE]
              [] OTHER             -> ssh
  /\ done' = IF what \in {"work", "enable"} \/ (id = "ssh" /\ what = "restart")
             THEN done \cup {id} ELSE done
  /\ marks' = IF what = "mark" THEN marks \cup {id} ELSE marks

\* A configuration with the appended lines inside a Match block is one sshd refuses.
Refused == ssh.file = "hardened" /\ ssh.match

CanSucceed(what) == ~(what \in {"sshd -t", "restart"} /\ Refused) /\ (what = "keys" => ssh.keys)

\* A daemon restarted on a configuration it refuses is stopped and does not come back.
Fails(what) ==
  /\ ssh' = IF what = "restart" /\ Refused THEN [ssh EXCEPT !.up = FALSE] ELSE ssh
  /\ UNCHANGED <<fw, marks, done>>

HardenApply ==
  /\ harden.pc = "apply" /\ harden.step <= Len(Current.script)
  /\ LET m == Current
         s == m.script[harden.step]
     IN  IF s.what = "read" THEN publishedGateway /\ UNCHANGED <<fw, ssh, marks, done>>
         ELSE IF s.what = "keys" /\ ~ssh.keys     \* nothing is touched
         THEN NextModule /\ UNCHANGED <<fw, ssh, marks, done>>
         ELSE IF (s.if = "and") = harden.ok
         THEN \/ CanSucceed(s.what) /\ Effect(s.what, m.id) /\ Advance(TRUE)
              \/ s.what \notin {"mark", "nothing", "keys"} /\ Fails(s.what) /\ Advance(FALSE)
         ELSE Advance(harden.ok) /\ UNCHANGED <<fw, ssh, marks, done>>

\* The module's result, an error or not, is recorded and the next one is taken.
HardenNext ==
  /\ harden.pc = "apply" /\ harden.step > Len(Current.script)
  /\ NextModule
  /\ UNCHANGED <<fw, ssh, marks, done>>

\* Ctrl-C or a lost connection: no other module is taken.  The script that is running stops where
\* it is, or goes on by itself.
HardenDies ==
  /\ harden.pc # "idle"
  /\ \/ harden' = Resting
     \/ harden.pc = "apply" /\ harden' = [harden EXCEPT !.todo = {}]
  /\ UNCHANGED <<fw, ssh, marks, done>>

-----------------------------------------------------------------------------
(* A firewall that is on lets SSH in, wherever the script that turned it   *)
(* on, or the one that reset it, was cut off (ufw.ts, apply).              *)
SshIsLetIn == fw.on => "ssh" \in fw.rules

(* The daemon operators come in by is never lost to hardening it.          *)
SshdKeepsServing == ssh.up
=============================================================================
