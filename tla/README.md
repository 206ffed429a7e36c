# A TLA+ verification of clawops

clawops deploys and runs an OpenClaw gateway, one container on one host per
*stack*, from the operator's machine: over the cloud's API (through Pulumi) and
over SSH.  Most of what it does is a *flow*: a sequence of shell commands sent
to the host one after the other, each of which may fail, be lost with the
connection, be interrupted by the operator, or find that the world has moved
since the last one.  Little of it is transactional and all of it is unattended,
so what is hard is not an algorithm but what is left behind: on the host after a
flow that stopped half way, in `~/.clawops` after two commands that both wrote
it, in a process after a call that was waiting when another one cleaned up.

This directory models those parts in TLA+, checks them with TLC, and proves the
properties that matter most with TLAPS.  Paths below are relative to the
repository; `src/` is its source directory.

## Inventory

| Component | State | Operations | What is hard | Module |
|---|---|---|---|---|
| Gateway container (`openclaw/runtime.ts`, `health.ts`, `ready.ts`) | the container `openclaw`, its mount, its image, its supervisor (docker or a systemd unit) | start, stop, inspect, restart by the supervisor | a start that fails or is cut short leaves any of several containers; the supervisor acts by itself | `GatewayHost`; the unit and its drop-in in `Provision` |
| Backup restore (`backup-flows.ts`, `restore.ts`) | directories on the host: live, staged, preserved, failed; the container | stage, activate, roll back, two waits | renames of a directory a container has mounted; rollback of a partial swap; a session lost in the catch block | `Restore` |
| Gateway update (`gateway-ops.ts`, `upgrade.ts`) | releases, the schema of the state, the snapshot | pull, snapshot, preflight, swap, repair, roll back | a forward-only schema; a verdict given on a copy of the state | `Upgrade` |
| 1.x migration (`migrate.ts`, `migrate-flow.ts`) | the source container, the host copy, the archive, the config | inspect, back up, extract, stop, start, gate, start again | running it again after any partial run; a schema migration slower than the gate | `Migrate` |
| SSH pool (`transport/pool.ts`) | a map of arrays of entries, a cleanup timer | acquire, release, drain, evict | `await` between reading an array and writing it back; drains under other calls | `SshPool` over `Leases` |
| Tailnet reachability (`harden/flows.ts`, `tailscale-cutover.ts`, `plan/private-only.ts`, parts of `plan/apply.ts`, `destroy.ts`, `config/*`) | the override in `config.json`, pinned keys, the host's tailnet membership, the public ports | harden, revert, apply, destroy, init | each command works on what it read at its start, and dies anywhere | `Tailnet` |
| Remote configuration (`plan/remote-config.ts`, `config` in the CLI and MCP, `secret rotate`) | `openclaw.json` and a temporary file on the host, the gateway's loaded config | read, merge, validate, write, restart, clear a request | read-modify-write with no lock, one temporary path for all, a command on the host that outlives its client | `RemoteConfig` |
| Plan and apply (`plan/*`, `cli/commands/plan.ts`, `up.ts`, `apply.ts`, `setup.ts`, their MCP tools, `providers/*`) | plan files, the Pulumi stack and its config, the machine | generate, validate, preview, check the drift, update, wait, overlay | the stack, the lookups or the machine change between the plan and its use; confirmations that are skipped | `Deploy` (over `Provision`), `Tailnet`, `RemoteConfig` |
| Startup script and local bootstrap (`providers/startup.ts`, `local/bootstrap.sh.tmpl`) | the token file, `openclaw.json`, the unit, a drop-in, the container | run, stop anywhere, run again, run twice at once | `set -e` and redirections that empty a file first; a drop-in that outlives its reason | `Provision` |
| Config store (`config/*`, `pulumi/passphrase.ts`, `stack.ts`, `cli.ts`, `init`, `stacks`) | `~/.clawops/config.json`, the passphrase, the Pulumi backends | register, deploy, destroy, delete, cap | read-modify-write with no lock, minutes long; a secret generated at first use | `Home` |
| Host agent (`hostagent/guardrail.ts`, `handoff.ts`, `operator.ts`, `dispatch`) | a request file on the host written by the agent and cleared by every operator; the gateway's config, read per call | judge a call, record a request, clear it | several writers, several clocks, a config edited under a call | `HostAgent` |
| Host setup (`hostagent/install.ts`, `peer-firewall.ts`, `cli/mcp-wire.ts`) | `agent.json`, `agent.env`, the unit, the firewall, the fleet's table, the gateway's entry | install, uninstall, wire, a reboot | steps that fail half way and are run again; the firewall `harden` resets | `HostSetup` over `Hardening` |
| Hardening (`harden/modules/*`, `runner.ts`) | ufw, sshd, sentinels | check, apply, one module after the other | one chain of `&&` and `\|\|` that stops anywhere, on the only way in | `Hardening` |
| Fleet peers (`hostagent/peer-*.ts`, `fleet-status.ts`) | open connections, lookups in flight, a query, the table | serve, look up, query, repair, report | limits, timeouts, identity asked per request, a report put together over minutes | `FleetPeers` |
| SSH transport (`transport/*`) | the known_hosts file, a privilege cache per session | connect, exec, escalate, wait | a command re-run under sudo after half of its effects; deadlines | in the flows: a lost session reads as exit 0, a wait ends |
| MCP server (`mcp/*`) | an audit log, long-running calls | one tool per flow above | concurrent calls in one process | commands of `Deploy` and `Home`, the guardrail in `HostAgent`, callers in `SshPool` |
| Providers, Pulumi programs, preflight | none | declarative programs | a lookup that answers differently at each run | what a change does to the machine, in `Deploy` |
| Secrets, OpenClaw helpers, diagnostics, CLI shell | files written whole; none | lookups, reports, prompts | nothing a model checker reaches | the passphrase in `Home`; the rest not modelled |

The components call each other downwards only: a CLI command or an MCP tool
builds a context from `config.json` (`cli/context.ts`), takes a session from the
pool, and runs one flow on it.  They share three things: the files under
`~/.clawops` (config, passphrase, known_hosts, audit log), the pool of the
process, and the host.  Nothing locks any of them, except Pulumi its own stack.

`PROJECT.json` lists every component with what is left out of it, and under
`hazards` the places where this code can go wrong that a test would hardly reach.

## The modules

`GatewayHost` (no variables) says what each command on the container may leave
behind.  `Restore`, `Upgrade` and `Migrate` extend it and are each one flow and
the world around it; `SshPool` implements `Leases`; `HostSetup` extends
`Hardening`, whose steps it interleaves with its own; `Deploy` extends
`Provision`, whose script its commands start; `Tailnet`, `RemoteConfig`,
`HostAgent`, `FleetPeers` and `Home` stand alone.

### GatewayHost

A container is `[st, run]`: its status and what it was created from.
`RunFails` and `RunCutShort` are the outcomes of `gatewayRunCommand`, one shell
command of several parts, when docker refuses parts of it or the connection
goes while it runs; `AfterStop` and `InspectFinds` likewise.

### Restore

The filesystem of the host is a function `at` from directories to paths, and a
running container keeps the *directory* it mounted when that is renamed away
under it, as a bind mount does.  `mv a b` with an existing directory `b` puts
`a` inside it, and docker makes an empty directory for a missing mount source:
both happen on the failure paths and both are modelled.  One action is one
command of the flow (`pc` names it); `Rejected` is a lost session or a raised
signal at whichever command is next, with the three different things the code
does about it (in the `try`, in `restart()` of the `catch`, anywhere else).  The
gateway needs `delay[d]` polls to answer on directory `d`.

### Upgrade

`schema` is the schema of the state database and `knows[r]` the newest schema a
release `r` can open; opening a database of an older schema migrates it there
and then, for good.  The flow pulls, snapshots, preflights the snapshot in the
target image, swaps, gates, repairs once and rolls back.  An `inspect` that fails is
taken for a host without a container, as the code reads only its output.

### Migrate

The 1.x container keeps its state inside; the flow archives it, copies it to the
host, stops and removes the container, writes a minimal config and starts 2.x,
whose first start migrates the database over `takes` polls.  `RunAgain` runs
the whole command again on whatever the last run left.

### SshPool and Leases

JavaScript arrays are objects with an identity: `pool[h]` and a waiting call's
`seen[c]` may be the same array or two, which is where this code's mistakes can
be; `entries[a]` is an array's content and `Swept` the garbage collector.  The
abstract `Leases` only says that a session is lent to one caller at a time and
comes back; `ImplementsLeases` is the refinement, with `lent <- held`.

### Tailnet

`at[p]` is the step a command is at and `work[p]` what it carries: the override
it read at its start, the address it verified, its plan.  `door` is what the last
applied plan made of the public ports.  Any number of commands may be under
way; each may fail or be killed at each step (`Dies`).

### RemoteConfig

Every command that rewrites `openclaw.json` takes the same steps (`at[w]`): read
the file, merge an edit, validate, send one shell command that writes it, then
perhaps restart the gateway, wait for it and clear the host agent's request.
The shell command is an actor of its own (`shell[w]`), one action per part: the
redirection, `base64 -d`, `mv`, `chown`, or the restart.  It goes on when its
client is stopped or loses the session, and a lost session reads as exit 0
(`ReadsAsDone`), as `Ssh2Session.exec` has it.  All runs write through one
temporary path, so what matters is which *inode* a path leads to when it is
opened and when it is moved: `config` and `tmp` name inodes, `fd[w]` is the one
a shell has open, and `files` their contents.  A config is the set of edits it
carries.  `crossed` and `overlapped` record what a property is conditional on:
that a run read the file between the read and the write of another, and that two
write commands ran at once.

### HostAgent

A call (`call[c]`) is made by the operator, a stranger or another agent, and is
judged by `currentGuardrail` on `config` as it is *then*; `raced` records that it
was edited since the call.  `file` is `handoffs.jsonl`, a sequence of lines in
the order they were appended, and `parseHandoffs` is the reader: a request lives
until `TTL` after its stamp, unless a line with a later stamp clears its command.
Each operator has a clock of its own (`now + skew[o]`).  A command that succeeds
(`OperatorRan`), the stamp of its line (`clearedLine`) and the append
(`clearHostHandoffs`) are three steps, of which the last two may never come:
`harden` reads the stack's outputs and connects again before it stamps.  Two
things are recorded that the code does not keep: when the command really
succeeded, by the host's clock (`ran`), and, of a request, the machines that had
run its command and not yet stamped (`overtook`).

### FleetPeers

`HERE` queries, `THERE` serves.  The two reads of `authorizePeer` (`who`, `me`)
end in any order, each with the answer of the moment it ends or an error;
`inFlight` is `createPeerHandler`'s counter, kept beside the requests as the code
keeps it.  An attempt that was given up goes on at the other end.  `watch` is
`watchPeerTable`: what the last round found, and the last thing it *said*, which
is only said when it changes.  `status` is what `clawops fleet status` has read
of each host so far; a host without `ss`, or a report that ends before its last
section, leaves `listening` false and is no problem.  `overtaken` records that
something it had found in order changed afterwards.  `world` changes under all
of them.

### Hardening and HostSetup

A hardening module's script is a sequence of steps, each run after a success
(`And`) or after a failure (`Or`), as the shell gives `&&` and `||` one
precedence; any step may fail, and the operator may go away at any.  What the
steps do is kept for ufw and sshd.  `HostSetup` adds the install and uninstall
of the host agent, one action per remote command, with the token each install
generates, the unit, the fleet's table and the gateway's `clawops` entry, and a
reboot that starts what is enabled.  `overlap` records that an install was
between writing `agent.json` and its rule while `harden` was between reading the
one and resetting the other.  `missed` holds the failures that the code passes
over and that still tell: a `show` that failed or was killed and was taken for
one that found nothing, a `systemctl disable --now ... || true` that left the
agent running or enabled, a boot at which the table's oneshot failed.

### Home

Each process reads `config.json` once (`proc[q].snap`) and later writes it back
whole.  A stack in a backend is the passphrase it was encrypted with, whether it
has resources, and whether its outputs were registered, which are three
different moments of an `up`.  `StorePassphrase` empties the file before it fills
it.  The ghosts say what a property is conditional on: that commands ran at once
(`raced`), that two first uses of the passphrase did (`firstUses`), that the
operator lowered the cap, or forgot or overwrote a stack.

### Provision and Deploy

`Provision` is a machine and the script that makes it a gateway, for the first
boot of a cloud instance and for the bootstrap over SSH alike, one action per
command that writes something.  It may be run by several at once: `overlap`
records that.  `gateway` is the release, the token and the script the container
was started by.  An edit of the config is written first; the restart after it
may not take place, or leave no gateway (`AfterRestart`).

In `Deploy` a process plans, previews, checks the drift, updates, waits and
writes the overlay.  The Pulumi stack is its version and its live resources;
`program` is what the programs make of the stack config *and of a lookup* made at
every run (the project, the AMI), and `diff` what the providers do about a change:
an in-place update, a restart, a replacement with an empty disk.  `warned` says
the operator was told of a drift, `looked` what the preview looked up, and
`beside` that another update landed where the check cannot see it.  The script a
dead command started runs on alone.  A host of the owner's starts new, with or
without a 1.x config, or bootstrapped and updated since (`UpdatedSince`).

## What the runs show

| Run | Result | Shows |
|---|---|---|
| `restore` (MCRestore) | passes, 81,428 states | the old state is never lost and is where the outcome says (`OldStateKept`, `OldStateIsWhereItSays`), a failed activation can be retried (`RetryFindsStaged`), success is only said of the restored state (`SuccessIsTheRestoredState`) |
| `upgrade` (MCUpgrade) | passes, 187,255 states | the target never opens a database newer than it knows (`TargetUnderstandsState`), refusals leave the old gateway serving (`RefusalKeepsServing`), the snapshot suits the previous release (`SnapshotFitsPrevious`), good targets are kept (`GoodTargetIsKept`) |
| `migrate` (MCMigrate) | passes, 153,058 states | over two runs: the source serves until its state is whole on the host (`SourceServesUntilCopied`), a slow schema migration is not mistaken for a failed start (`SlowMigrationCompletes`), each run ends (`MigrationEnds`) |
| `pool` (MCSshPool) | passes, 37,947 states | on two hosts: only another call's drain closes a held session (`OnlyDrainClosesHeld`), the pool implements `Leases` (`ImplementsLeases`), an idle connection is used again or goes (`IdleIsEvicted`) |
| `tailnet` (MCTailnet) | passes, 1,584 states | a private-only stack has a way in (`WayIn`), over the address in the config (`PrivateOverrideIsTheHost`), whose keys were pinned first (`KnownBeforeUsed`) |
| `remote_config` (MCRemoteConfig) | passes, 2,957,138 states | `openclaw.json` and what the gateway loaded are whole and valid wherever a run is stopped, cut off or fails, unless two write commands overlap (`WholeConfig`); unless a run reads in the window of another, what a run says it wrote stays written (`DoneIsKept`), and what it says it applied stays loaded (`AppliedWhenSaid`) |
| `host_agent` (MCHostAgent) | passes, 900,210 states | nobody but the operator passes the guardrail but through an edit that raced the call, or from inside a container without `--strict` (`OutsidersAreRefused`); a request stays on every reader's list until it lapses or a machine that has run its command since clears it, but for the skew and for a request made between a run and its stamp (`AskedUntilRun`), and never comes back (`NeverComesBack`) |
| `fleet` (MCFleetPeers) | passes, 1,654,880 states | only a tagged node other than the host itself is served (`ServesOnlyTaggedPeers`), every lookup slot is given back (`SlotsAreGivenBack`), a good `fleet status` whose readings still hold means that the table stands and that the peer's service runs and authorises a query, which reaches it if its host could say what listens (`StatusOkMeansServed`), a standing failure is the last thing said of the table (`FailureOnRecord`), queries end (`QueryEnds`), the table is put back (`TableIsPutBack`) |
| `host_setup` (MCHostSetup) | passes, 9,667,303 states | SSH is let in by every firewall that is on (`SshIsLetIn`); after an install that succeeded the gateway reaches the agent (`AgentIsLetIn`) with the token it asks for, unless `show` hid an older entry (`WiredTokenIsServed`); a fleet agent never runs without its table, unless it outlived a stop or the table's unit failed at boot (`TableBeforeAgent`) |
| `home` (MCHome) | passes, 2,016,067 states | the cap on stacks holds from every surface (`CapHolds`), the passphrase that encrypted a stack is kept (`PassphraseIsKept`), a deployed stack is not forgotten unasked (`DeployedIsListed`) |
| `deploy` (MCDeploy) | passes, 3,652,908 states | running the script again keeps the token clients have (`TokenIsKept`) and the edits (`EditsSurvive`) and leaves the release asked for (`DoneRunsWhatWasAsked`); what was reviewed is what is applied, or the operator was warned (`ReviewedIsApplied`) |
| `tailnet_closes_with_proof` | violation | a private-only plan that replaces the instance passes the guard: "No path closes public access without a live proof" (`ClosesWithProof`) |

The violated property quotes a document of the repository, and `findings` in
`PROJECT.json` cites it.  Ten more configurations state what a document or a
comment says of the program and are *expected to fail*; each is the counterexample
of a divergence named below:

| Configuration | What fails |
|---|---|
| `MCRestore_RolledBackIsLive.cfg` | "rolledBack" is returned with the old state not live |
| `MCUpgrade_PreviousUnderstandsState.cfg` | the rollback starts the previous release on a database the target has migrated |
| `MCMigrate_BackupIsThere.cfg` | the archive a report names went with the container it was in |
| `MCSshPool_ReusedIsOpen.cfg` | a drained (closed) connection is lent out |
| `MCHostSetup_SshdKeepsServing.cfg` | sshd is restarted on a file `sshd -t` refused |
| `MCHostSetup_UninstallTakesTheRules.cfg` | an uninstall says it is done and a rule is left |
| `MCHostSetup_WiredIsThisOne.cfg` | an install ends wired with the token of the one before |
| `MCHostSetup_NoAgentWithoutTable.cfg` | a fleet agent that was not stopped runs on without its table |
| `MCHostAgent_ClearedWasRun.cfg` | a request is cleared by a run that came before it |
| `MCHome_OverwritingNeedsForce.cfg` | the wizard replaces the entry of a deployed stack |

### Bounds

- Waits are counted in polls.  Budgets are constants: `RestartBudget` = 1,
  `HealthBudget` = 6, `GateBudget` = 2, `SilentBudget` = 4.  What matters is
  their order (the restart wait is far shorter than the health wait; the silence
  budget is longer than the pending one) and that a delay can fall before, between
  and after them; `delay` and `takes` range over all of those, and over never.
- `MaxFaults` = 2: one command fails, and one of the recovery of that.  A third
  failure only makes a recovery that already stopped stop earlier.
- `MaxCrashes` (1 or 2) bounds the times a gateway that *can* start goes down by
  itself; one that cannot goes down as often as it is started, unbounded.
- `Blanks` has two directories: docker can make one at the live path before and
  one after the swap.
- `MaxSchema` = 2 with two releases gives every order of what they know, and
  `MaxRuns` = 2 a run after any partial run.
- `pool`: two calls on two hosts, where they wait for connections of one host or
  of two, and drain or evict under each other.  Two calls do not exhaust a limit
  of two; a call at the limit throws and changes nothing, and `OperatorProofs` has
  the two safety properties for any number of calls and any limit.
- `tailnet`: one command at a time; two addresses make every stale plan and stale
  override possible.  With two commands at once `WayIn` fails (a revert between
  an apply's guard and its update), which the documents do not exclude either;
  the theorems state the assumption as `OneAtATime`.
- `remote_config`: three runs (one whose edit the schema refuses), one fault, two
  polls.  Three is the least with a late command, a run that reads after it and
  one that writes over both; two faults reach nothing new of a client, which ends
  at its first.  The conditions are needed: without `~overlapped` and `~crossed`
  two runs already violate each property (see the divergences).  The theorems
  are for any number of runs, faults and polls.
- `host_agent`: one call, whose guardrail keeps nothing from one call to the next;
  two operators, one a tick behind the host and one a tick ahead, over two ticks of
  the host's clock and a TTL of one, so that a run, a request and the stamp of the
  run fall at three times, each order of two stamps and of their lines occurs, and
  a line before its request by either clock; three lines of the file;
  configurations that each differ from a sound one in one part, the sets of who is
  bound among them.  The file and the configuration meet only in a call that is
  allowed, so that once there is a line the configuration stays a sound one
  (`McSettled`).
- `fleet`: two connections for one lookup slot, two attempts to a query, and two
  changes of the world, which put one between any two reads and another after.
- `host_setup`: three commands (an install, a second one or a `harden`, and
  an uninstall, in every order and with two of them at once), one reboot, and the
  hardening modules in three selections, of which `ufw` alone and `ssh` with
  another hold everything that interacts.
- `home`: two processes, three names, two backends, a cap of two, so that a third
  registration meets it.  The first number is taken by whoever made the stacks there
  are: `MaxCommands` = 4 gives three commands one after the other, and `MaxRacing`
  = 3 two that overlap.
- `deploy`: two processes on one stack; three requests, which differ in size (one
  outside the policy), release and exposure; two commands and one event around
  them.  A stale plan takes a plan, an event and an apply; a bootstrap over an
  earlier one takes two commands, and an update or edit between is the event.

### Fairness

`Migrate` assumes `WF_vars(Flow)`: the process of the flow keeps running.
Nothing is assumed of the gateway, the supervisor, the session or the operator;
every wait of these flows is bounded by a budget, so that the flow ends all the
same.  `SshPool` assumes that a connection attempt ends (`readyTimeout`,
ssh.ts), that time passes, and that `setInterval` fires.  `FleetPeers` assumes
the timers: the listener's and the client's deadlines (`Stall`, `GiveUp`), that
the client's process runs (`runPeerCall`), and that the watch's next round comes
(`repairPeerTable`); nothing is assumed of the network, of tailscaled or of the
other host.  The other modules have safety properties only.

## What is proved

Theorems are checked by `tlapm` for every value of the constants.  `AgentProofs`
and `OperatorProofs` hold the proofs of several components each and extend them,
which is why those components' types, initial states, steps and specifications
carry a name of their own (`AgentSpec`, `SetupSpec`, `HomeSpec`, ...).

| Module | Theorems | Inductive invariant |
|---|---|---|
| `RestoreProofs` | types, `OldStateKept`, `OldStateIsWhereItSays`, `RetryFindsStaged`, `SuccessIsTheRestoredState` | who is where at each step: one directory live, only the old one preserved (`OneLive`, `OnlyOldPreserved`, `LiveBefore`, `PreservedAfter`), the new one out of the way until its move (`NewOutOfTheWay`), a directory inside another only at the end (`InsideAtTheEnd`), and the catch block only after the swap began (`CatchRollsBack`).  For what the outcome says: every step that ends the flow says where the old state is (`SaysWell`, `EndSays`), and no later step of the host moves it.  For a retry: where the expanded archive is at each step of a session that lasts (`StagedUntilOut`, `HeldUntilIn`), with nothing else at its two paths (`OnlyNewStaged`), and an undo only after a fault (`UndoneForAFault`).  For success: the gateway that is waited for runs what is live (`RunsLive`), and the polls of both waits bound how long it has been up (`BootIsCounted`), so that a blank directory docker created never answers in time |
| `UpgradeProofs` | types; the snapshot and refusal properties; `GoodTargetIsKept` | the schema is one some release knows (`OfOneRelease`), early steps run the previous release (`EarlyIsPrevious`), the snapshot is of it (`SnapshotIsPrevious`), a preflight has one (`PreflightHasOne`), later steps may have migrated (`LateIsNewer`), an outcome means done (`DoneWhenSaid`).  `GoodInv`, of a target that starts within a gate in an update where nothing went wrong: it is never on the way back (`NoWayBack`), repaired by the second gate (`RepairedByThen`) and there up as long as the gate has asked (`UpSinceAsked`) |
| `MigrateProofs` | types; the source is served until copied; known 2.x left alone; `SlowMigrationCompletes` | what each step has copied (`CopiesSource`, `AfterIsWhole`), the second line (`SecondLineIsThere`, `KnownStays`), what a started migration takes (`MigratingTakesTime`, `GateHasPolls`).  While nothing fails (`Undisturbed`), in any run: a 1.x gateway has opened nothing (`SourceNotOpened`), its container is gone before the target's is made (`SourceIsGone`), which finds a copy it can open for the first time (`CopyIsFresh`, `CopyIsReady`), and the polls of the first gate and what the migration still needs make what it takes (`MigrationIsPolled`) |
| `OperatorProofs`: `SshPool` | types, exclusion, the timer, the drain, the refinement of `Leases` | `HeldIsMarked`: a held session is marked in use whichever arrays its entry is in, for any number of callers, hosts, sessions and any limit |
| `OperatorProofs`: `Home` | types, `CapHolds`, `PassphraseIsKept`, `DeployedIsListed` | what a command read is within the cap, with room where it is to register (`CapInv`): the read-modify-write carries its own bound.  Who opens a stack has the passphrase of the file or the operator's, who makes one found none, one at a time (`PassInv`).  A command that runs alone knows the config (`ListInv`) |
| `TailnetProofs` | types, `WayIn`, `PrivateOverrideIsTheHost`, `KnownBeforeUsed` | what a command read is what the file says (`SeenIsFile`), what the guard saw holds until the update (`GuardHolds`), what was verified until the write (`VerifiedHolds`), keys go last (`KeysGoLast`), a host that is gone is on no tailnet (`GoneIsOff`) |
| `RemoteConfigProofs` | every property of its run | `FileInv`: a command is sent validated and once (`ShellFits`, `SentIsValid`), a run's inode is new when it opens it and the temporary file is never the live one (`InodesApart`), one command writes at a time, to the temporary file (`OneWrites`, `WritesTmp`).  `SaidInv`: one window at a time (`OneWindow`), a read is of the live config until it is moved (`ReadIsFresh`), and each later step has its edit in the file, then loaded (`WrittenIsThere`, `LoadedIsThere`) |
| `AgentProofs`: `FleetPeers` | types, `ServesOnlyTaggedPeers`, `SlotsAreGivenBack`, `StatusOkMeansServed`, `FailureOnRecord` | the two reads behind an authorisation still hold, each, unless the host registered again (`ReadsAgree`); what `fleet status` found in order of a host still is, or a change has overtaken it (`ReadIsCurrent`); the slots are counted with the cardinality theorems of finite sets, for any number of connections and any limit |
| `AgentProofs`: `HostAgent` | types, `OutsidersAreRefused`, `AskedUntilRun`, `NeverComesBack` | a call that waits for its judgement came from one whom the configuration lets reach the agent, or that was edited since (`LetThrough`); of every line that was stamped or is to be, no request on file is later than the run it is of, was asked before its stamp by a machine that had run already, or is as late as the stamp by its operator's clock (`StampsFollowRuns`, `Settled`), so that no line of any operator, however late, clears any other.  `NeverComesBack` follows from what `parseHandoffs` returns when a line is appended and when time passes |
| `AgentProofs`: `HostSetup` over `Hardening` | types, `SshIsLetIn`, `AgentIsLetIn`, `WiredTokenIsServed`, `TableBeforeAgent` | where in ufw's chain of `&&` and `\|\|` the reset, the rules and the enabling are (`UfwChain`), for each module the catalog can hold; a fleet agent that runs or is enabled has its table, or is one of those that `missed` names (`Fenced`); what each step of an install has written, and that the entry `mcp add` finds is none or its own unless a `show` hid it (`Wired`); and, unless a reset ran into it, the rules an install added are in the firewall while it is on, and in the list a reset that is under way has read (`LetIn`) |
| `DeployProofs` (`Deploy` over `Provision`) | types, `TokenIsKept`, `DoneRunsWhatWasAsked`, `EditsSurvive`, `ReviewedIsApplied` | of the machine, while no two runs overlapped: one script at a time (`OneRun`), nothing before the token was minted (`MintedFirst`), what each step of a script has left (`StepsKnow`), the gateway's token is the file's (`GatewayHasToken`).  Of the commands: a host of the owner's has no stack, and a machine in the cloud runs no script but its own (`Apart`); a plan, in a file or in a command's hands, says what its version of the stack would become, and up to the update that version is the stack's or the operator knows (`ReviewInv`); the versions are no more than the commands and events (`VersionsCounted`) |

The invariants themselves do not carry over a step: `WayIn`, say, is kept by
`Up` only because the guard's answer still holds at that point, which is what
the strengthening records.  The assumptions are those the modules name
(`BudgetAssumption`, `BoundAssumption`, `DirAssumption`, `TailnetAssumption`,
`FleetAssumption`, `HostAgentAssumption`, `DriftAssumption`, `HostSetupAssumption`,
`HomeAssumption`, ...: sets are finite, counters numbers and clocks integers), and
`OneAtATime` in `TailnetProofs`.  Some theorems are of properties no run
repeats: they hold in the runs' models by the theorem.

Every invariant and every action property of the runs is stated by a theorem.
Left to TLC: liveness under fairness (`MigrationEnds`, `IdleIsEvicted`,
`QueryEnds`, `TableIsPutBack`), which is out of the prover's reach.

## Abstractions

- A session lost during a command that only reads is lost before it.  For
  commands that write, the partial outcomes are modelled.
- The preflight runs on a snapshot, and starting a release there changes nothing
  of the live state.
- `setConfig` writes a temporary file and renames it: one step.  What is *in* it
  may be old, and is modelled.
- Pulumi's own lock makes an update or a destroy one step, which may fail before
  or after its effect.  In `Deploy` an update that fails leaves the resources as
  they were; in `Home` it may leave some, without outputs.
- `/tmp` and the state directory are on one filesystem, where `mv` is a rename.
- The edits of two runs are of different keys, and a merge loses nothing.  The
  gateway's own writes to `openclaw.json`, the second attempt of a command under
  sudo, and the plugins installed between a plan's write and its restart (which
  only warn) are left out of `RemoteConfig`; `get`, `validate` and `--dry-run`
  only read.
- The host's tailnet membership changes through clawops only.
- `Deploy` leaves private-only plans to `Tailnet`, the steps of a config write to
  `RemoteConfig` and the registration and the passphrase to `Home`.  The region,
  tags, Bedrock and Key Vault options are data; a change of an Azure VM's
  `customData` is an update in place.  The account preflights only read.
- The guardrail's conditions are judged on a configuration reduced to what lets a
  message or a tool call reach the host agent; the JSON that says so is data.
- A hardening script whose client goes away stops there or runs to its end before
  the next `harden` begins: two chains at once on one host are left out, as are two
  installs.
- Between the `chmod` and the `chown` of the token file (`providers/startup.ts:103`)
  its owner and mode are not modelled; no property is about them.
- `fleet status` is of two hosts; a report that finds a problem is not ok whatever
  the other says, and nothing more is made of it.
- Names, messages, versions and JSON are members of small sets.

Some properties are conditional on what the code does not prevent.  What is
recorded for them is named for it, no guard reads it, and each is an open hazard:
`raced` (a file or a state was changed between a check and its use), `overlap`,
`overlapped` and `crossed` (two commands ran into each other), `firstUses`,
`overtook` (a request asked between a run and the stamp of its line), `missed`
(a failure nobody is told of), `overtaken` and an unknown listener (`fleet status`).

## Not modelled

Diagnostics, `monitor` and `status` are read-only reports.  The OpenClaw helpers
build a piece of JSON or read something, and keep nothing between calls.  The
secret files are written whole under a rename and looked up.  The audit log's
rotation, MCP progress and schemas, prompts, wording and the web site say nothing
about the state of a deployment.  The escalated second run of a command
(`transport/privileged.ts`) and trust on first use are still open, see the plan.

## Divergences met

On the host:

- "rolledBack" is said on the way through the catch block (`openclaw/restore.ts:131`)
  although a rename there can have gone *inside* a directory docker made
  (`MCRestore_RolledBackIsLive.cfg`), and the restart of the old state's gateway
  after a rollback drops its own failure (`openclaw/restore.ts:170`);
- the gateway is not stopped before the swap (`docs/backup-restore.md:111`
  says so, `openclaw/backup-flows.ts:289` reads as if it were);
- the restart of a restore gives the gateway 15 polls two seconds apart
  (`plan/remote-config.ts:207`) before the three minutes
  `docs/backup-restore.md:117` promises it begin: a slower start is rolled back;
- a rollback starts the previous release on a database the target has migrated
  (`openclaw/upgrade.ts:217`, `MCUpgrade_PreviousUnderstandsState.cfg`); a target
  whose `run` command itself fails is not rolled back (`openclaw/gateway-ops.ts:198`),
  and the rollback's own start is not verified by its exit code (`:233`);
- the migration's archive stays in the container that is removed
  (`openclaw/migrate-flow.ts:87`, `MCMigrate_BackupIsThere.cfg`); "nothing to
  migrate" is also said of a host whose container was lost (`openclaw/migrate.ts:101`),
  and a moving tag hides the line a release is of (`:91`);
- `harden`'s sshd script is one chain of `&&` and `||`, so that sshd is restarted
  also when `sshd -t` refused the file the chain has just appended to
  (`harden/modules/ssh.ts:67`, `MCHostSetup_SshdKeepsServing.cfg`): with
  settings that fall into a closing `Match` block, the daemon does not come up;
- lynis marks itself installed after an installation that failed (`|| true`), and a
  module whose check answers `skipped` is applied all the same
  (`harden/runner.ts:63`);
- a ufw reset that begins before an install's `agent.json` and ends after its rule
  drops the rule, and both report success (`overlap`);
- uninstall removes `agent.json`, which says which rules to remove, also when
  `ufw delete` failed, and does not see the rules of a ufw that is inactive
  (`hostagent/install.ts:561`, `:611`, `MCHostSetup_UninstallTakesTheRules.cfg`);
- a rewire unsets the gateway's entry and then adds the new one
  (`cli/mcp-wire.ts:107`): an install that fails there leaves none;
- "wired" is said to mean "the gateway connected" (`cli/mcp-wire.ts:61`), but a
  `show` that fails or is killed counts as no entry (`:100`), nothing is unset, and
  the `show` after an addition that was killed finds the old one (`:128`): an
  install ends wired with the token of the one before
  (`MCHostSetup_WiredIsThisOne.cfg`).  An uninstall whose `show` fails leaves the
  entry and reports nothing (`hostagent/install.ts:575`);
- the fleet's table is to stand "before the agent starts" (`hostagent/install.ts:423`),
  but a stop that fails is swallowed by `|| true` (`:497`, `:506`, `:587`) and the table
  is removed all the same (`:606`), and the oneshot that loads it may fail at boot
  before the agent's unit starts (`MCHostSetup_NoAgentWithoutTable.cfg`);
- a cleared line is said to clear "every request for that command made before it"
  (`hostagent/handoff.ts:130`), and ADR 0014 that a request clears "when the operator
  runs the matching command" (`docs/decisions/0014-host-agent-operator-handoff.md:125`):
  the line of a `harden` is stamped after the outputs are read and a connection is made
  (`harden/flows.ts:192`-`:198`), so that a request asked meanwhile is cleared by a run
  that came before it (`MCHostAgent_ClearedWasRun.cfg`);
- `fleet status` says "ok" of a peer where nothing listens, when its host has no `ss`
  or its report was cut short (`hostagent/fleet-status.ts:106`);
- the bootstrap is said to be "idempotent; safe to re-run"
  (`providers/local/bootstrap.sh.tmpl:2`): one cut short in the migration of a 1.x
  config never sets `gateway.mode`, and one cut short while it writes
  `openclaw.json` leaves a partial file that later runs keep;
- two runs of the script at once, or one beside an update or a restart, lose the
  token clients have, the drop-in or an edit (`overlap`): a client that is stopped
  leaves its script running, and nothing keeps the next one from starting.

In the operator's home and process:

- the pool's limit is checked before the connection is made and its entry added
  after it (`transport/pool.ts:85`), and an array is written back over another
  call's (`:95`), drained or not (`MCSshPool_ReusedIsOpen.cfg`);
- hardening a private-only stack again drops its `privateOnly` flag, and what is
  written back is as old as the flow's start (`harden/flows.ts:53`); destroy leaves
  the override; `harden --tailscale --json` returns before the cutover
  (`cli/commands/harden.ts:158`); a plan with no CIDR closes the ports with no guard;
- the wizard replaces the entry of a stack without `force`, whatever state its URL
  points at (`config/init.ts:61`-`:63`, `MCHome_OverwritingNeedsForce.cfg`), and
  replaces its `GATEWAY_TOKEN_<stack>` before the operator declines; it does not
  register a cloud stack;
- two `init`s that end together keep one stack; two deletions can leave none and
  no default, which is a config the next command cannot read;
- the deployed-check of a deletion looks for a public address
  (`config/stack-delete.ts:97`): resources an `up` that failed left behind are
  not seen;
- the refusal to delete a deployed local stack names `clawops down`, which always
  throws for one, and nothing removes its state file;
- two first uses of the passphrase overwrite each other (`pulumi/passphrase.ts:70`):
  the stack of the first cannot be opened again.

Between a plan and its use:

- the drift check is silent for a stack with no version in the plan and after a
  preview that failed; the version is captured after the preview and compared
  before the update, so an update between two of these is not seen (`beside`);
- a plan does not record the project, and the newest AMI is looked up at the
  preview and again at the update: what is applied may be a replacement nobody saw;
- the confirmations of `apply` and `deploy_app`, and `up --dry-run`, name what is
  created, updated and deleted, and not what is *replaced*;
- `deploy_app` passes no CIDRs, so that SSH that was open is closed and the wait
  for it times out;
- `clawops_up` with no version asks for `stable`, which a cloud stack refuses and
  a local one does not check;
- a new release on an existing AWS or GCP machine changes metadata the machine
  reads at its first boot, if ever: success may be reported while the old gateway
  answers;
- `--no-wait` returns before the overlay; a session lost during the bootstrap reads
  as exit 0 (`transport/ssh.ts:110`), with `--no-wait` as success;
- the channels of a plan are said to "replace" the remote config's and are merged
  into them (`plan/apply.ts:227`).

In `openclaw.json`:

- `atomicWriteConfig` ("Atomically write", `plan/remote-config.ts:64`) is atomic
  for one writer: two that overlap share `/tmp/clawops-config.json.tmp`, and the
  second can move the first one's half-written file into place (`:119`);
- two runs that read the same file both report success and one edit is lost
  (`cli/commands/config.ts:95`), also when the first was interrupted and its
  command lands late;
- without `--restart` a write cut off with its session is reported as done
  (`transport/ssh.ts:110`); a `chown` that fails after the `mv` is reported as
  "Failed to write config" (`plan/remote-config.ts:128`), and that "the rejected
  config was kept" is said without looking (`:102`).

## Plan

What is left, in this order:

1. the privileged re-run and trust on first use of the transport;
2. two flows on one host (an abstract *safe change* that `Restore`, `Upgrade` and
   `Migrate` each implement, and what their interleaving breaks);
3. the account preflights, which enable APIs when asked, and the audit log's
   rotation under two servers.
