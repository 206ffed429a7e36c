------------------------------ MODULE Provision ------------------------------
(***************************************************************************)
(* A machine and the script that makes it a gateway: the startup script of *)
(* a cloud instance (providers/startup.ts), or the bootstrap that clawops  *)
(* runs over SSH on an owner's host (bootstrap.sh.tmpl), which have their  *)
(* steps in common.  Both run under `set -e`, may be cut short anywhere,   *)
(* may be run again, and may run twice at the same time.                   *)
(***************************************************************************)
EXTENDS Naturals

CONSTANTS
  Scripts,        \* who may be running one: the machine's first boot, or a command
  Boot,           \* the machine itself
  Nobody,         \* a container no script is known to have started
  Versions,       \* OpenClaw releases
  NoVersion       \* none

ASSUME ProvisionAssumption == Boot \in Scripts /\ Nobody \notin Scripts /\ NoVersion \notin Versions

VARIABLES
  host,           \* the machine
  script,         \* [s]: the run of the script that s started
  overlap         \* two runs of it overlapped, ever

machine == <<host, script, overlap>>

\* openclaw.json, reduced to where it came from, whether it has gateway.mode, and whether it
\* carries something written after provisioning: an overlay, an operator's edit.
Configs == [body : {"none", "partial", "legacy", "default"}, mode : BOOLEAN, edited : BOOLEAN]
NoConf == [body |-> "none", mode |-> FALSE, edited |-> FALSE]
Written(body, mode) == [body |-> body, mode |-> mode, edited |-> FALSE]
Partial == Written("partial", FALSE)

NoGateway == [ver |-> NoVersion, token |-> 0, by |-> Nobody]

\* `legacy`: the file 1.x kept its config in, and the name it has once it is migrated.  `minted`
\* counts the tokens, so that each is a new one.
Blank(systemd, legacy) ==
  [there |-> TRUE, systemd |-> systemd, token |-> 0, minted |-> 0, conf |-> NoConf, legacy |-> legacy,
   unit |-> NoVersion, dropin |-> NoVersion, gateway |-> NoGateway]

NotRun == [pc |-> "none", ver |-> NoVersion, migrated |-> FALSE]
AtRest(s) == script[s].pc \in {"none", "done", "failed"}

-----------------------------------------------------------------------------
(* Running it. *)

Launched(scripts, s, ver) ==
  [scripts EXCEPT ![s] = [pc |-> "prepare", ver |-> ver, migrated |-> FALSE]]

Launch(s, ver) ==
  /\ script' = Launched(script, s, ver)
  /\ overlap' = (overlap \/ \E t \in Scripts \ {s} : ~AtRest(t))

Busy == \E s \in Scripts : ~AtRest(s)
In(s, pc) == host.there /\ script[s].pc = pc
Go(s, pc) == script' = [script EXCEPT ![s].pc = pc] /\ UNCHANGED overlap
Fail(s) == Go(s, "failed") /\ UNCHANGED host

\* The user, docker and its daemon, the image.  Any of them may fail; nothing here is undone.
Prepare(s) ==
  /\ In(s, "prepare") /\ UNCHANGED host
  /\ Go(s, "token") \/ Go(s, "failed")

\* For comparison: a token of its own for every run.
TokenEachTime(s) == In(s, "token") /\ Go(s, "mint") /\ UNCHANGED host

\* `[ ! -s file ]`: there is none, or it is empty.
TokenFile(s) ==
  /\ In(s, "token") /\ UNCHANGED host
  /\ Go(s, IF host.token = 0 THEN "mint" ELSE "migrate")

\* The redirection empties the file; a run that dies there leaves it so.
MintToken(s) ==
  /\ In(s, "mint")
  /\ \/ Go(s, "migrate") /\ host' = [host EXCEPT !.token = host.minted + 1, !.minted = @ + 1]
     \/ Go(s, "failed") /\ host' = [host EXCEPT !.token = 0]

\* A 1.x config is migrated only where there is no config yet.
NeedsMigration(s) ==
  /\ In(s, "migrate") /\ UNCHANGED host
  /\ Go(s, IF host.legacy = "home" /\ host.conf.body = "none" THEN "copy" ELSE "default")

\* `cp` fails when another run has moved the file.
CopyLegacy(s) ==
  /\ In(s, "copy")
  /\ \/ /\ host.legacy = "home" /\ Go(s, "move")
        /\ host' = [host EXCEPT !.conf = Written("legacy", FALSE)]
     \/ host.legacy = "home" /\ Go(s, "failed") /\ host' = [host EXCEPT !.conf = Partial]
     \/ host.legacy # "home" /\ Fail(s)

MoveLegacy(s) ==
  /\ In(s, "move") /\ UNCHANGED overlap
  /\ IF host.legacy = "home"
       THEN /\ host' = [host EXCEPT !.legacy = "migrated"]
            /\ script' = [script EXCEPT ![s].pc = "default", ![s].migrated = TRUE]
       ELSE script' = [script EXCEPT ![s].pc = "failed"] /\ UNCHANGED host

\* For comparison: the default config is written whatever is there already.
DefaultAlways(s) == In(s, "default") /\ Go(s, "write") /\ UNCHANGED host

NeedsDefault(s) ==
  /\ In(s, "default") /\ UNCHANGED host
  /\ Go(s, IF host.conf.body = "none" THEN "write" ELSE "mode")

WriteDefault(s) ==
  /\ In(s, "write")
  /\ \/ Go(s, "mode") /\ host' = [host EXCEPT !.conf = Written("default", TRUE)]
     \/ Go(s, "failed") /\ host' = [host EXCEPT !.conf = Partial]

\* `openclaw config set gateway.mode local`, for a config THIS run has migrated.  Its failure is
\* a warning; it cannot read half a file.
SetMode(s) ==
  /\ In(s, "mode") /\ Go(s, IF host.systemd THEN "unit" ELSE "start")
  /\ \/ UNCHANGED host
     \/ script[s].migrated /\ host.conf.body # "partial" /\ host' = [host EXCEPT !.conf.mode = TRUE]

\* A Linux host of the owner's has a systemd unit; the others run a detached container.
WriteUnit(s) ==
  In(s, "unit") /\ Go(s, "dropin") /\ host' = [host EXCEPT !.unit = script[s].ver]

\* For comparison: the drop-in of the last update is left where it was.
KeepsDropin(s) == In(s, "dropin") /\ Go(s, "start") /\ UNCHANGED host

\* What an update or a restart has pinned would override the unit.
RemoveDropin(s) ==
  In(s, "dropin") /\ Go(s, "start") /\ host' = [host EXCEPT !.dropin = NoVersion]

\* What systemd runs: the drop-in before the unit.
UnitVersion == IF host.dropin # NoVersion THEN host.dropin ELSE host.unit

Started(ver, s) == [ver |-> ver, token |-> host.token, by |-> s]

\* systemctl restart, or stop, rm and run: the old container is gone before the new one can fail.
StartGateway(s) ==
  /\ In(s, "start")
  /\ \/ /\ Go(s, "done")
        /\ host' = [host EXCEPT !.gateway = Started(IF host.systemd THEN UnitVersion ELSE script[s].ver, s)]
     \/ Go(s, "failed") /\ host' = [host EXCEPT !.gateway = NoGateway]

-----------------------------------------------------------------------------
(* What else happens to the machine. *)

\* A gateway that can answer: it has its token, and a whole config with gateway.mode.
CanAnswer ==
  /\ host.there /\ host.gateway.ver # NoVersion /\ host.gateway.token # 0
  /\ host.conf.body # "partial" /\ host.conf.mode

\* A run is killed: out of memory, a shutdown, a pipe nobody reads any more.
Cut(s) == ~AtRest(s) /\ Fail(s)

\* The gateway after a restart of the machine, which systemd starts from its unit and docker as it was.
Restarted(h) ==
  IF h.systemd /\ h.gateway.ver # NoVersion THEN [h EXCEPT !.gateway = Started(UnitVersion, Nobody)] ELSE h

\* `again`: what a machine that runs its startup script at every boot has for one now.
Reboot(again) ==
  /\ host.there /\ host' = Restarted(host) /\ UNCHANGED overlap
  /\ LET stopped == [s \in Scripts |-> IF AtRest(s) THEN script[s] ELSE [script[s] EXCEPT !.pc = "failed"]]
     IN script' = IF again = {} THEN stopped ELSE Launched(stopped, Boot, CHOOSE v \in again : TRUE)

\* Whoever restarts the gateway on a systemd host pins what it runs (restartGateway, Upgrade).
Pinned(v) == [host EXCEPT !.gateway = Started(v, IF v = @.ver THEN @.by ELSE Nobody),
                          !.dropin = IF host.systemd THEN v ELSE NoVersion]

\* clawops gateway update: another release on the same state.
GatewayUpdate(v) ==
  /\ host.there /\ host.gateway.ver \notin {NoVersion, v}
  /\ host' = Pinned(v) /\ overlap' = (overlap \/ Busy) /\ UNCHANGED script

\* An overlay, clawops config set: the config is read, merged and written, and then the gateway restarted.
\* The restart may not take place, for want of a gateway too, or take it down and not start it again.
AfterRestart ==
  {host} \cup (IF host.gateway.ver = NoVersion THEN {}
               ELSE {Pinned(host.gateway.ver), [Pinned(host.gateway.ver) EXCEPT !.gateway = NoGateway]})
Edit ==
  /\ host.there /\ host.conf.body \notin {"none", "partial"}
  /\ \E h \in AfterRestart : host' = [h EXCEPT !.conf.edited = TRUE]
  /\ overlap' = (overlap \/ Busy) /\ UNCHANGED script

ScriptStep(s) ==
  \/ Prepare(s) \/ TokenFile(s) \/ MintToken(s)
  \/ NeedsMigration(s) \/ CopyLegacy(s) \/ MoveLegacy(s) \/ NeedsDefault(s) \/ WriteDefault(s) \/ SetMode(s)
  \/ WriteUnit(s) \/ RemoveDropin(s) \/ StartGateway(s) \/ Cut(s)
=============================================================================
