-------------------------------- MODULE Home --------------------------------
(***************************************************************************)
(* The operator's own machine: ~/.clawops/config.json, the passphrase that *)
(* encrypts the Pulumi stacks, and the commands that use them.  Commands   *)
(* run in processes of their own (terminals, an MCP server), each reads    *)
(* the config once and works on what it read, and any of them may be       *)
(* killed between two steps.                                               *)
(*                                                                         *)
(* A stack's entry is reduced to where its Pulumi state is, "local" for a  *)
(* machine that has none.  Known hosts, SSH keys and the token file are    *)
(* left to the modules that use them.                                      *)
(***************************************************************************)
EXTENDS Naturals, FiniteSets

CONSTANTS
  Procs,          \* the processes a command may run in
  Names,          \* stack names
  Urls,           \* state backends
  NoName,         \* a `defaults.stack` that is missing
  Caps,           \* what the operator may answer for policy.maxStacks; 0: no limit
  MaxCommands,    \* bound
  MaxRacing       \* bound on the commands once two of them ran at the same time

ASSUME HomeAssumption ==
  /\ "local" \notin Urls /\ NoName \notin Names /\ IsFiniteSet(Names)
  /\ Caps \subseteq Nat /\ MaxCommands \in Nat \ {0} /\ MaxRacing \in Nat

VARIABLES
  config,         \* ~/.clawops/config.json
  passFile,       \* the stored passphrase; 0: no file, or an empty one
  backend,        \* [url][name]: the Pulumi stack
  localState,     \* the names with a ~/.clawops/state file: a host was bootstrapped
  proc,           \* what each process is doing
  commands,       \* bound, and the source of fresh passphrases
  raced,          \* a command was started while another was running
  firstUses,      \* two first uses of the passphrase overlapped
  lowered,        \* the operator set a cap below what there was
  asked,          \* <<url, name>> forgotten with --force, or after "could not verify"
  overwritten     \* <<url, name>> whose entry the wizard replaced

ghosts == <<raced, firstUses, lowered, asked, overwritten>>
homeVars == <<config, passFile, backend, localState, proc, commands, ghosts>>

Operator == MaxCommands + 1                       \* PULUMI_CONFIG_PASSPHRASE
Passphrases == 1..MaxCommands \cup {Operator}
Places == Urls \cup {"local"}

Configs == [there : BOOLEAN, stacks : UNION {[S -> Places] : S \in SUBSET Names},
            default : Names \cup {NoName}, max : Caps \cup {0}]
NoConfig == [there |-> FALSE, stacks |-> [n \in {} |-> "local"], default |-> NoName, max |-> 0]

NoStack == [pass |-> 0, resources |-> FALSE, outputs |-> FALSE]
Free(q) == proc[q].pc = "idle"
AtRest == [pc |-> "idle", cmd |-> "none", name |-> NoName, place |-> "local", force |-> FALSE,
           env |-> FALSE, snap |-> NoConfig, id |-> 0, pass |-> 0, limits |-> {}, last |-> FALSE]

Has(c, n) == n \in DOMAIN c.stacks
Card(c) == Cardinality(DOMAIN c.stacks)

HomeTypeOK ==
  /\ config \in Configs /\ passFile \in Passphrases \cup {0}
  /\ backend \in [Urls -> [Names -> [pass : Passphrases \cup {0}, resources : BOOLEAN, outputs : BOOLEAN]]]
  /\ localState \subseteq Names /\ commands \in 0..MaxCommands
  /\ asked \cup overwritten \subseteq Places \X Names

\* A machine that has never run clawops, or one on which stacks were registered, and deployed with
\* the passphrase that is stored or the operator's own; two at most.
HomeInit ==
  /\ \/ config = NoConfig /\ passFile = 0 /\ backend = [u \in Urls |-> [n \in Names |-> NoStack]]
     \/ \E S \in SUBSET Names \ {{}}, d \in Names, u \in Urls, up \in SUBSET Names, own \in BOOLEAN, max \in Caps :
          /\ d \in S /\ up \subseteq S /\ Cardinality(S) <= 2 /\ (max = 0 \/ Cardinality(S) <= max)
          /\ config = [there |-> TRUE, stacks |-> [n \in S |-> u], default |-> d, max |-> max]
          /\ passFile = IF up = {} \/ own THEN 0 ELSE 1
          /\ backend = [w \in Urls |-> [n \in Names |->
               IF w = u /\ n \in up
                 THEN [pass |-> IF own THEN Operator ELSE 1, resources |-> TRUE, outputs |-> TRUE]
                 ELSE NoStack]]
  /\ localState = {} /\ proc = [q \in Procs |-> AtRest] /\ commands = 1
  /\ raced = FALSE /\ firstUses = FALSE /\ lowered = FALSE /\ asked = {} /\ overwritten = {}

-----------------------------------------------------------------------------
(* Reading and writing the config. *)

\* `defaults.stack` has to be a string; nothing says it has to be a stack.
Readable(c) == c.there => c.default # NoName
getConfig == Readable(config)
requireConfig == getConfig /\ config.there

setConfig(c) == config' = c

stackCapRefusal(c, n) == c.there /\ c.max # 0 /\ ~Has(c, n) /\ Card(c) >= c.max

\* Everything outside `stacks` survives, and the default moves.
merge(c, n, place) ==
  [c EXCEPT !.there = TRUE, !.default = n,
            !.stacks = [m \in DOMAIN c.stacks \cup {n} |-> IF m = n THEN place ELSE c.stacks[m]]]

-----------------------------------------------------------------------------
(* Commands. *)

At(q, pc) == proc[q].pc = pc
Goto(q, pc) == proc' = [proc EXCEPT ![q].pc = pc]
End(q) == proc' = [proc EXCEPT ![q] = AtRest]

\* A process is given a command.  What it needs is read in its first step.
Start(q, cmd, n, place, force, env, pc) ==
  /\ Free(q) /\ commands < MaxCommands
  /\ (raced \/ \E r \in Procs : ~Free(r)) => commands < MaxRacing
  /\ commands' = commands + 1
  /\ proc' = [proc EXCEPT ![q] = [AtRest EXCEPT !.pc = pc, !.cmd = cmd, !.name = n, !.place = place,
                                  !.force = force, !.env = env, !.id = commands + 1]]
  /\ raced' = (raced \/ \E r \in Procs : ~Free(r))
  /\ UNCHANGED <<config, passFile, backend, localState, firstUses, lowered, asked, overwritten>>

Steps(q) == UNCHANGED <<passFile, backend, localState, commands, raced, firstUses>>

-----------------------------------------------------------------------------
(* clawops init, and clawops_init *)

Init_(q, n, place, force) == Start(q, "init", n, place, force, FALSE, "init")

\* The config is read once.  No key, no host, a flag that is missing: refused as well.
InitRead(q) ==
  LET p == proc[q] IN
  /\ At(q, "init")
  /\ \/ End(q)
     \/ /\ getConfig /\ (Has(config, p.name) => p.force) /\ ~stackCapRefusal(config, p.name)
        /\ proc' = [proc EXCEPT ![q].pc = "account", ![q].snap = config]
  /\ UNCHANGED <<config, lowered, asked, overwritten>> /\ Steps(q)

Replaced(c, n, place) == IF Has(c, n) /\ c.stacks[n] # place THEN {<<c.stacks[n], n>>} ELSE {}

\* For comparison: the stack is merged into what the file holds by now.
MergesFresh(q) ==
  LET p == proc[q] IN
  /\ At(q, "account") /\ End(q) /\ setConfig(merge(config, p.name, p.place))
  /\ asked' = asked \cup Replaced(config, p.name, p.place)
  /\ UNCHANGED <<lowered, overwritten>> /\ Steps(q)

\* The cloud is asked which account this is, which takes seconds and may fail; then the stack is
\* merged into the config as it was read.
InitWrite(q) ==
  LET p == proc[q] IN
  /\ At(q, "account") /\ End(q)
  /\ \/ UNCHANGED <<config, asked>>
     \/ /\ setConfig(merge(p.snap, p.name, p.place))
        /\ asked' = asked \cup Replaced(p.snap, p.name, p.place)
  /\ UNCHANGED <<lowered, overwritten>> /\ Steps(q)

-----------------------------------------------------------------------------
(* The setup wizard, as far as it touches the config. *)

Wizard(q, n, local) == Start(q, "wizard", n, "local", ~local, FALSE, "policy")

\* promptSpendingPolicy: the limits are kept, or a cap is answered.
promptSpendingPolicy(q) ==
  /\ At(q, "policy") /\ getConfig
  /\ \/ Goto(q, "name")
     \/ \E cap \in Caps : proc' = [proc EXCEPT ![q].limits = {cap}, ![q].pc = "limits"]
  /\ UNCHANGED <<config, lowered, asked, overwritten>> /\ Steps(q)

\* savePolicy returns false when there is no config yet, and is called again at the end.
After(q) == IF proc[q].last THEN End(q) ELSE Goto(q, "name")

ReadForPolicy(q) ==
  /\ At(q, "limits")
  /\ IF requireConfig THEN proc' = [proc EXCEPT ![q].pc = "save", ![q].snap = config] ELSE After(q)
  /\ UNCHANGED <<config, lowered, asked, overwritten>> /\ Steps(q)

savePolicy(q) ==
  LET p == proc[q] IN
  /\ At(q, "save")
  /\ \E cap \in p.limits :
       /\ setConfig([p.snap EXCEPT !.max = cap])
       /\ lowered' = (lowered \/ (cap # 0 /\ Card(p.snap) > cap))
  /\ IF p.last THEN End(q) ELSE proc' = [proc EXCEPT ![q].pc = "name", ![q].limits = {}]
  /\ UNCHANGED <<asked, overwritten>> /\ Steps(q)

\* finishPolicy: at the end of a wizard that was not cut short.
Finish(q) ==
  IF proc[q].cmd = "wizard" /\ proc[q].limits # {}
    THEN proc' = [proc EXCEPT ![q].pc = "limits", ![q].last = TRUE]
    ELSE End(q)

\* The name is refused beyond the cap.  Nothing asks whether it is taken.  A cloud deployment goes
\* through applyPlan, which needs the stack to be registered; --dry-run or a "no" ends here.
WizardName(q) ==
  LET p == proc[q] IN
  /\ At(q, "name")
  /\ \/ End(q)
     \/ /\ getConfig /\ ~stackCapRefusal(config, p.name)
        /\ Finish(q) \/ Goto(q, IF p.force THEN "context" ELSE "register")
  /\ UNCHANGED <<config, lowered, asked, overwritten>> /\ Steps(q)

\* runLocalDeploy reads the config again.
WizardRead(q) ==
  LET p == proc[q] IN
  /\ At(q, "register")
  /\ \/ /\ getConfig /\ ~stackCapRefusal(config, p.name)
        /\ proc' = [proc EXCEPT ![q].pc = "registered", ![q].snap = config]
     \/ End(q)
  /\ UNCHANGED <<config, lowered, asked, overwritten>> /\ Steps(q)

runLocalDeploy(q) ==
  LET p == proc[q] IN
  /\ At(q, "registered")
  /\ setConfig(merge(p.snap, p.name, p.place))
  /\ overwritten' = overwritten \cup Replaced(p.snap, p.name, p.place)
  /\ Goto(q, "bootstrap")
  /\ UNCHANGED <<lowered, asked>> /\ Steps(q)

-----------------------------------------------------------------------------
(* The context of a command, and its Pulumi stack. *)

\* A check that cannot be made is a warning, and the deletion goes on; any other command fails.
Fails(q) ==
  IF proc[q].cmd = "delete"
    THEN /\ Goto(q, "confirm")
         /\ asked' = asked \cup {<<config.stacks[m], m>> : m \in {proc[q].name} \cap DOMAIN config.stacks}
    ELSE End(q) /\ UNCHANGED asked

\* Where a local stack's command goes: a deletion asks for the state file, a deployment
\* bootstraps, and nothing destroys one.
LocalContext(q) ==
  CASE proc[q].cmd = "delete" ->
         IF proc[q].name \in localState THEN End(q) ELSE Goto(q, "confirm")
    [] proc[q].cmd = "destroy" -> End(q)
    [] OTHER -> Goto(q, "bootstrap")

buildContext(q) ==
  LET n == proc[q].name IN
  /\ At(q, "context")
  /\ IF ~requireConfig \/ ~Has(config, n)
       THEN Fails(q)
       ELSE /\ UNCHANGED asked
            /\ IF config.stacks[n] = "local"
                 THEN LocalContext(q)
                 ELSE proc' = [proc EXCEPT ![q].pc = "passphrase", ![q].place = config.stacks[n]]
  /\ UNCHANGED <<config, lowered, overwritten>> /\ Steps(q)

\* The CLI is neither found nor can it be installed.
ensurePulumiCli(q) ==
  /\ At(q, "passphrase") /\ Fails(q)
  /\ UNCHANGED <<config, lowered, overwritten>> /\ Steps(q)

Generating(q) == proc[q].pc \in {"generate", "store"}

\* An operator's own passphrase is left alone; one that is stored is used; an empty file is none.
ensurePassphrase(q) ==
  LET p == proc[q] IN
  /\ At(q, "passphrase")
  /\ CASE p.env -> proc' = [proc EXCEPT ![q].pc = "open", ![q].pass = Operator]
       [] ~p.env /\ passFile # 0 -> proc' = [proc EXCEPT ![q].pc = "open", ![q].pass = passFile]
       [] OTHER -> Goto(q, "generate")
  /\ firstUses' = (firstUses \/ (~p.env /\ passFile = 0 /\ \E r \in Procs : Generating(r)))
  /\ UNCHANGED <<config, passFile, backend, localState, commands, raced, lowered, asked, overwritten>>

\* writeFileSync empties the file before it fills it.
GeneratePassphrase(q) ==
  /\ At(q, "generate") /\ Goto(q, "store")
  /\ passFile' = 0
  /\ UNCHANGED <<config, backend, localState, commands, ghosts>>

\* For comparison: storing it is best effort, as the chmod before it is.
StoresIfItCan(q) ==
  /\ At(q, "store")
  /\ proc' = [proc EXCEPT ![q].pc = "open", ![q].pass = proc[q].id]
  /\ passFile' \in {passFile, proc[q].id}
  /\ UNCHANGED <<config, backend, localState, commands, ghosts>>

StorePassphrase(q) ==
  /\ At(q, "store")
  /\ proc' = [proc EXCEPT ![q].pc = "open", ![q].pass = proc[q].id]
  /\ passFile' = proc[q].id
  /\ UNCHANGED <<config, backend, localState, commands, ghosts>>

\* What a command does once it has its stack.
Then(q) ==
  CASE proc[q].cmd = "delete"  -> "outputs"
    [] proc[q].cmd = "destroy" -> IF proc[q].force THEN "destroy" ELSE "sure"
    [] OTHER                   -> "up"

\* createOrSelectStack: a stack that is not there is created, and encrypted with the passphrase.
getOrCreateStack(q) ==
  LET p == proc[q] IN
  /\ At(q, "open")
  /\ \/ /\ Goto(q, Then(q)) /\ UNCHANGED asked
        /\ backend' = [backend EXCEPT ![p.place][p.name].pass = IF @ = 0 THEN p.pass ELSE @]
     \/ Fails(q) /\ UNCHANGED backend
  /\ UNCHANGED <<config, passFile, localState, commands, raced, firstUses, lowered, overwritten>>

Opens(q) == backend[proc[q].place][proc[q].name].pass = proc[q].pass

-----------------------------------------------------------------------------
(* Deploying and destroying. *)

Deploy(q, n, env) == Start(q, "deploy", n, "local", FALSE, env, "context")

\* The outputs are registered when the program ends: an `up` that fails, or is killed, may leave
\* resources and no outputs.
Up(q) ==
  LET p == proc[q] IN
  /\ At(q, "up")
  /\ \/ /\ Opens(q) /\ Finish(q)
        /\ backend' = [backend EXCEPT ![p.place][p.name].resources = TRUE, ![p.place][p.name].outputs = TRUE]
     \/ Opens(q) /\ End(q) /\ backend' = [backend EXCEPT ![p.place][p.name].resources = TRUE]
     \/ End(q) /\ UNCHANGED backend
  /\ UNCHANGED <<config, passFile, localState, commands, ghosts>>

\* The state file is the last thing a bootstrap writes.
Bootstrap(q) ==
  /\ At(q, "bootstrap")
  /\ \/ Finish(q) /\ localState' = localState \cup {proc[q].name}
     \/ End(q) /\ localState' \in {localState, localState \cup {proc[q].name}}
  /\ UNCHANGED <<config, passFile, backend, commands, ghosts>>

\* `clawops destroy` looks the stack up and then asks.
Destroy(q, n, env) == Start(q, "destroy", n, "local", FALSE, env, "context")
\* clawops_destroy has asked, and `clawops down` has been given --yes, before the config is read.
Down(q, n, env) == Start(q, "destroy", n, "local", TRUE, env, "context")

Sure(q) ==
  /\ At(q, "sure") /\ (End(q) \/ Goto(q, "destroy"))
  /\ UNCHANGED <<config, lowered, asked, overwritten>> /\ Steps(q)

\* The Pulumi stack itself stays, with its passphrase.
DestroyStack(q) ==
  LET p == proc[q] IN
  /\ At(q, "destroy") /\ End(q)
  /\ \/ Opens(q) /\ backend' = [backend EXCEPT ![p.place][p.name].resources = FALSE,
                                               ![p.place][p.name].outputs = FALSE]
     \/ UNCHANGED backend
  /\ UNCHANGED <<config, passFile, localState, commands, ghosts>>

-----------------------------------------------------------------------------
(* clawops stacks delete, and clawops_stacks_delete *)

Delete(q, n, force, env) == Start(q, "delete", n, "local", force, env, "check")

\* --force skips the default and the deployed check; never "not found" and "only remaining".
checkStackDelete(q) ==
  LET p == proc[q] IN
  /\ At(q, "check")
  /\ IF ~requireConfig \/ ~Has(config, p.name) \/ Card(config) = 1 \/ (config.default = p.name /\ ~p.force)
       THEN End(q)
       ELSE Goto(q, IF p.force THEN "confirm" ELSE "context")
  /\ UNCHANGED <<config, lowered, asked, overwritten>> /\ Steps(q)

\* For comparison: outputs that cannot be read are taken for none.
TakenForNone(q) ==
  /\ At(q, "outputs") /\ Goto(q, "confirm")
  /\ UNCHANGED <<config, lowered, asked, overwritten>> /\ Steps(q)

\* Deployed is having a public address among the outputs.
isStackDeployed(q) ==
  LET p == proc[q] IN
  /\ At(q, "outputs")
  /\ \/ Fails(q)
     \/ /\ UNCHANGED asked
        /\ IF backend[p.place][p.name].outputs THEN End(q) ELSE Goto(q, "confirm")
  /\ UNCHANGED <<config, lowered, overwritten>> /\ Steps(q)

\* --yes, a prompt or an elicitation; then the config is read afresh.
ConfirmDelete(q) ==
  LET p == proc[q] IN
  /\ At(q, "confirm")
  /\ \/ End(q)
     \/ requireConfig /\ proc' = [proc EXCEPT ![q].pc = "forget", ![q].snap = config]
  /\ UNCHANGED <<config, lowered, asked, overwritten>> /\ Steps(q)

Without(c, n) == [m \in DOMAIN c.stacks \ {n} |-> c.stacks[m]]

\* The first of the stacks that are left becomes the default; none is first of none.
Forgotten(c, n) ==
  IF c.default # n
    THEN {[c EXCEPT !.stacks = Without(c, n)]}
    ELSE {[c EXCEPT !.stacks = Without(c, n), !.default = d] :
            d \in IF DOMAIN c.stacks \ {n} = {} THEN {NoName} ELSE DOMAIN c.stacks \ {n}}

deleteStackFromConfig(q) ==
  LET p == proc[q] IN
  /\ At(q, "forget") /\ End(q)
  /\ \E c \in Forgotten(p.snap, p.name) : setConfig(c)
  /\ asked' = IF p.force THEN asked \cup {<<p.snap.stacks[m], m>> : m \in {p.name} \cap DOMAIN p.snap.stacks} ELSE asked
  /\ UNCHANGED <<lowered, overwritten>> /\ Steps(q)

-----------------------------------------------------------------------------
\* The terminal is closed, the machine sleeps, the server is restarted.
Killed(q) ==
  /\ ~Free(q) /\ End(q)
  /\ UNCHANGED <<config, passFile, backend, localState, commands, ghosts>>

Command(q, n) ==
  \/ \E place \in Places, force \in BOOLEAN : Init_(q, n, place, force)
  \/ \E local \in BOOLEAN : Wizard(q, n, local)
  \/ \E env \in BOOLEAN : Deploy(q, n, env) \/ Destroy(q, n, env) \/ Down(q, n, env)
  \/ \E force, env \in BOOLEAN : Delete(q, n, force, env)

Step(q) ==
  \/ InitRead(q) \/ InitWrite(q)
  \/ promptSpendingPolicy(q) \/ ReadForPolicy(q) \/ savePolicy(q) \/ WizardName(q) \/ WizardRead(q) \/ runLocalDeploy(q)
  \/ buildContext(q) \/ ensurePulumiCli(q)
  \/ ensurePassphrase(q) \/ GeneratePassphrase(q) \/ StorePassphrase(q) \/ getOrCreateStack(q)
  \/ Up(q) \/ Bootstrap(q) \/ Sure(q) \/ DestroyStack(q)
  \/ checkStackDelete(q) \/ isStackDeployed(q) \/ ConfirmDelete(q) \/ deleteStackFromConfig(q)

HomeNext == \E q \in Procs : Step(q) \/ Killed(q) \/ \E n \in Names : Command(q, n)

HomeSpec == HomeInit /\ [][HomeNext]_homeVars

-----------------------------------------------------------------------------
(* Properties. *)

\* config/policy.ts: no registration, from any surface and at the same time as any other, leaves
\* more stacks than the cap written with them, unless the operator set the cap below what there was.
CapHolds == config.max # 0 => Card(config) <= config.max \/ lowered

\* pulumi/passphrase.ts: a passphrase that encrypted a stack is the operator's own or is on disk,
\* whatever was killed and when, unless two first uses of it overlapped.
PassphraseIsKept ==
  \A u \in Urls, n \in Names : backend[u][n].pass \in {0, Operator, passFile} \/ firstUses

\* config/stack-delete.ts: a deployed stack (one with outputs) that the config no longer leads to
\* was forgotten with --force or a warning, or replaced by the wizard, or by commands that raced.
DeployedIsListed ==
  \A u \in Urls, n \in Names :
    backend[u][n].outputs =>
      (Has(config, n) /\ config.stacks[n] = u) \/ <<u, n>> \in asked \cup overwritten \/ raced

\* config/init.ts: "Overwriting an existing stack needs `force`, because changing a stateUrl orphans
\* the Pulumi state it points at".
OverwritingNeedsForce ==
  \A u \in Urls, n \in Names :
    backend[u][n].outputs =>
      (Has(config, n) /\ config.stacks[n] = u) \/ <<u, n>> \in asked \/ raced

=============================================================================
