----------------------------- MODULE HostAgent -----------------------------
(***************************************************************************)
(* The host agent: a clawops server on the gateway's host, for the one     *)
(* OpenClaw agent its operator talks to.  Three things are read or written *)
(* by parties that do not wait for each other:                             *)
(*                                                                         *)
(*   - openclaw.json, which anybody with the gateway's commands edits, and *)
(*     which the guardrail reads again for every call;                     *)
(*   - handoffs.jsonl, appended to by the host agent (a request, stamped   *)
(*     with the host's clock) and by every operator's machine (a line that *)
(*     clears the requests for one command, stamped with ITS clock, some   *)
(*     time after the command succeeded);                                  *)
(*   - the commands themselves, which an operator may run at any time.     *)
(*                                                                         *)
(* A call is asked by somebody the gateway let through, is judged on the   *)
(* configuration as it is when the guardrail reads it, and is then refused,*)
(* recorded as a request, or run.                                          *)
(***************************************************************************)
EXTENDS Integers, Sequences, SequencesExt, FiniteSets

CONSTANTS
  Calls,        \* calls the server can have in hand at once
  Others,       \* the other agents of the gateway
  Operators,    \* the operator's machines
  Commands,     \* what a handoff tool may ask for, as the command line it becomes
  Skews,        \* how far the operators' clocks may be from the host's
  TTL,          \* HANDOFF_TTL_MS, in ticks
  MaxTime,      \* bound: the host's clock stops here
  MaxLines,     \* bound: lines of handoffs.jsonl
  Drift         \* bound: the configurations openclaw.json is edited to

ASSUME HostAgentAssumption ==
  /\ Skews \subseteq [Operators -> Int] /\ TTL \in Nat /\ MaxTime \in Nat
  /\ MaxLines \in Nat /\ Commands # {}
  /\ Others \cap {"operator", "stranger"} = {}

VARIABLES
  strict,       \* `agent install --strict`, in agent.json
  config,       \* openclaw.json, as far as the guardrail looks at it
  call,         \* [Calls -> a call]
  now,          \* the host's clock
  skew,         \* how far each operator's clock is from the host's
  file,         \* handoffs.jsonl
  op            \* [Operators -> what the machine is doing]

agentVars == <<strict, config, call, now, skew, file, op>>

(***************************************************************************)
(* The gateway's configuration, reduced to what lets a message or a tool   *)
(* call reach the host agent.  An agent of the roster that is not absent   *)
(* is offered the clawops tools (open), is denied them but acts in the     *)
(* container, where the token is (inside), or can do neither (contained).  *)
(***************************************************************************)
Roster == {"absent", "open", "inside", "contained"}

Config == [default : BOOLEAN,              \* marked as the gateway's default agent
           routed  : BOOLEAN,              \* named by a route outside `bindings`
           bound   : SUBSET {"operator", "stranger"},
           dmOpen  : BOOLEAN,              \* a stranger may open a DM on the channel
           shared  : BOOLEAN,              \* other agents see or message its sessions
           blocked : BOOLEAN,              \* tools.deny covers the clawops tools for all
           roster  : [Others -> Roster]]

ASSUME DriftAssumption == Drift \subseteq Config

IsDefaultAgent(c) == c.default \/ (\A a \in Others : c.roster[a] = "absent")

\* For comparison: a guardrail without condition 5.
CheckWithoutDenies(c) ==
  /\ ~IsDefaultAgent(c) /\ ~c.routed
  /\ c.bound = {"operator"}
  /\ ~c.dmOpen
  /\ ~c.shared
  /\ strict => (\A a \in Others : c.roster[a] # "inside")

\* The six conditions of the operator-only guardrail.
checkGuardrail(c) ==
  /\ ~IsDefaultAgent(c) /\ ~c.routed
  /\ c.bound = {"operator"}
  /\ ~c.dmOpen
  /\ ~c.shared
  /\ ~c.blocked /\ (\A a \in Others : c.roster[a] # "open")
  /\ strict => (\A a \in Others : c.roster[a] # "inside")

(***************************************************************************)
(* Who the gateway lets reach the host agent's tools, in a configuration.  *)
(***************************************************************************)
InsideOnly(c, who) == who \in Others /\ c.roster[who] = "inside" /\ ~c.shared

Reaches(c, who) ==
  \/ who = "operator" /\ "operator" \in c.bound /\ ~c.blocked
  \/ /\ who = "stranger" /\ ~c.blocked
     /\ "stranger" \in c.bound \/ c.dmOpen \/ c.routed \/ IsDefaultAgent(c)
  \/ /\ who \in Others /\ c.roster[who] # "absent"
     /\ \/ ~c.blocked /\ (c.roster[who] = "open" \/ c.shared)
        \/ c.roster[who] \in {"open", "inside"}

(***************************************************************************)
(* handoffs.jsonl                                                          *)
(***************************************************************************)
\* What the code does not write: of a request, the machines that had run the command and not yet
\* stamped their line (overtook); of a line that clears, the machine it is of (by) and when the
\* command succeeded there, by the host's clock (ran).
Handoff == [kind : {"request"}, command : Commands, at : Int, overtook : SUBSET Operators]
HandoffCleared == [kind : {"cleared"}, command : Commands, at : Int, by : Operators, ran : Nat]
Line == Handoff \cup HandoffCleared

Asked(f) == {l \in ToSet(f) : l.kind = "request"}

Clears(f, c) == {l \in ToSet(f) : l.kind = "cleared" /\ l.command = c}

\* When a command was cleared: the latest stamp counts, whatever the order of the lines.
ClearedAt(f, c) == {l.at : l \in Clears(f, c)}

\* For comparison: the last line for the command counts, not the latest stamp.
LastClearCounts(f, r) ==
  LET clears == SelectSeq(f, LAMBDA l : l.kind = "cleared" /\ l.command = r.command)
  IN  clears # <<>> /\ Last(clears).at >= r.at

\* For comparison: any clear of the command hides every request for it.
ClearedEver(f, r) == ClearedAt(f, r.command) # {}

ClearedSince(f, r) == \E t \in ClearedAt(f, r.command) : t >= r.at

parseHandoffs(f, t) ==
  {r \in Asked(f) : ~(t - r.at > TTL) /\ ~ClearedSince(f, r)}

-----------------------------------------------------------------------------
NoCall == [stage |-> "none", by |-> "operator", command |-> CHOOSE c \in Commands : TRUE,
           through |-> FALSE, raced |-> FALSE]

Call == [stage   : {"none", "asked", "allowed"},
         by      : {"operator", "stranger"} \cup Others,
         command : Commands,    \* what it becomes, if it is recorded as a request
         through : BOOLEAN,     \* the caller came in through the container alone
         raced   : BOOLEAN]     \* the configuration was edited before it was judged

Machine == [stage   : {"idle", "ran", "clears"},
            command : Commands,
            ran     : 0..MaxTime,   \* when the command succeeded, by the host's clock
            at      : Int]          \* the stamp of the line to come, by the machine's

Idle == [stage |-> "idle", command |-> CHOOSE c \in Commands : TRUE, ran |-> 0, at |-> 0]

AgentTypeOK ==
  /\ strict \in BOOLEAN /\ config \in Config
  /\ call \in [Calls -> Call]
  /\ now \in 0..MaxTime /\ skew \in Skews
  /\ file \in Seq(Line) /\ Len(file) <= MaxLines
  /\ op \in [Operators -> Machine]

\* As `agent install` leaves it: the guardrail held when it looked last.
AgentInit ==
  /\ strict \in BOOLEAN
  /\ config \in Drift /\ checkGuardrail(config)
  /\ call = [c \in Calls |-> NoCall]
  /\ now = 0 /\ skew \in Skews
  /\ file = <<>>
  /\ op = [o \in Operators |-> Idle]

-----------------------------------------------------------------------------
(* The world. *)

Tick == /\ now < MaxTime /\ now' = now + 1
        /\ UNCHANGED <<strict, config, call, skew, file, op>>

\* Somebody edits openclaw.json, which a call not yet judged has not seen.
Edit ==
  /\ config' \in Drift \ {config}
  /\ call' = [c \in Calls |-> [call[c] EXCEPT !.raced = @ \/ call[c].stage = "asked"]]
  /\ UNCHANGED <<strict, now, skew, file, op>>

-----------------------------------------------------------------------------
(* A call. *)

\* Somebody the gateway lets through calls a tool of the server.
Arrive(c, who, command) ==
  /\ call[c].stage = "none"
  /\ Reaches(config, who)
  /\ call' = [call EXCEPT ![c] = [stage |-> "asked", by |-> who, command |-> command,
                                  through |-> InsideOnly(config, who), raced |-> FALSE]]
  /\ UNCHANGED <<strict, config, now, skew, file, op>>

\* hostAgentDispatch awaits the guardrail, which reads the configuration as it is now.  A
\* configuration that cannot be read does not hold, and a call that is not allowed is answered
\* with the refusal.
currentGuardrail(c) ==
  /\ call[c].stage = "asked"
  /\ \E readable \in BOOLEAN :
       call' = [call EXCEPT ![c] = IF readable /\ checkGuardrail(config)
                                   THEN [@ EXCEPT !.stage = "allowed"] ELSE NoCall]
  /\ UNCHANGED <<strict, config, now, skew, file, op>>

\* The machines that have run the command, before now, and not yet stamped the line that says so.
Unstamped(command) ==
  {o \in Operators : op[o].stage = "ran" /\ op[o].command = command /\ op[o].ran < now}

\* What follows the guardrail.  A call for another stack, or one that would end the host, is
\* refused and a read runs: neither leaves a request.  A handoff is recorded, if the file can be
\* written, and shown.
hostAgentDispatch(c) ==
  /\ call[c].stage = "allowed"
  /\ \/ UNCHANGED file
     \/ /\ Len(file) < MaxLines
        /\ file' = Append(file, [kind |-> "request", command |-> call[c].command, at |-> now,
                                 overtook |-> Unstamped(call[c].command)])
  /\ call' = [call EXCEPT ![c] = NoCall]
  /\ UNCHANGED <<strict, config, now, skew, op>>

-----------------------------------------------------------------------------
(* An operator's machine: the command, asked for or not, and then the line. *)

\* A command succeeds.  One that fails clears nothing.
OperatorRan(o, command) ==
  /\ op[o].stage = "idle"
  /\ op' = [op EXCEPT ![o] = [stage |-> "ran", command |-> command, ran |-> now, at |-> 0]]
  /\ UNCHANGED <<strict, config, call, now, skew, file>>

\* The line is stamped when it is about to be appended: after `harden`, which first reads the
\* stack's outputs and connects again, that is as much later as those take.  If either fails
\* there is no line.
clearedLine(o) ==
  /\ op[o].stage = "ran"
  /\ \/ op' = [op EXCEPT ![o] = [stage |-> "clears", command |-> op[o].command,
                                 ran |-> op[o].ran, at |-> now + skew[o]]]
     \/ op' = [op EXCEPT ![o] = Idle]
  /\ UNCHANGED <<strict, config, call, now, skew, file>>

\* clearHostHandoffs: one line appended over SSH, or none, and the command ends either way.
clearHostHandoffs(o) ==
  /\ op[o].stage = "clears"
  /\ op' = [op EXCEPT ![o] = Idle]
  /\ \/ UNCHANGED file
     \/ /\ Len(file) < MaxLines
        /\ file' = Append(file, [kind |-> "cleared", command |-> op[o].command, at |-> op[o].at,
                                 by |-> o, ran |-> op[o].ran])
  /\ UNCHANGED <<strict, config, call, now, skew>>

AgentNext ==
  \/ Tick \/ Edit
  \/ \E c \in Calls :
       \/ \E who \in {"operator", "stranger"} \cup Others,
             command \in Commands : Arrive(c, who, command)
       \/ currentGuardrail(c) \/ hostAgentDispatch(c)
  \/ \E o \in Operators :
       \/ \E command \in Commands : OperatorRan(o, command)
       \/ clearedLine(o) \/ clearHostHandoffs(o)

AgentSpec == AgentInit /\ [][AgentNext]_agentVars

-----------------------------------------------------------------------------
(* Nobody but the operator gets a call past the guardrail, unless the      *)
(* configuration was edited between the call and its check, or the caller  *)
(* is an agent in the container of a host installed without --strict (what *)
(* guardrail.ts says of each condition).                                   *)
OutsidersAreRefused ==
  \A c \in Calls :
    call[c].stage = "allowed" =>
      \/ call[c].by = "operator" \/ call[c].raced
      \/ (call[c].through /\ ~strict)

(* A request leaves the list of a reader, the host agent or any operator,  *)
(* when it lapses by that reader's clock or when a machine clears it which  *)
(* has run the command since it was asked; or it is lost to one of two      *)
(* races: it was asked after that machine had run the command and before    *)
(* the line was stamped, or it was asked after the stamp, of a clock that   *)
(* is ahead (parseHandoffs, handoff.ts).                                    *)
AskedUntilRun ==
  \A r \in Asked(file), t \in {now} \cup {now + skew[o] : o \in Operators} :
    r \in parseHandoffs(file, t)
      \/ t - r.at > TTL
      \/ \E l \in Clears(file, r.command) :
           /\ l.at >= r.at
           /\ r.at <= l.ran \/ l.by \in r.overtook \/ r.at >= l.at - skew[l.by]

(* Without the first race: what is cleared has been run since it was asked, *)
(* but for a clock that is ahead (handoff.ts, `it clears every request for  *)
(* that command made before it`).                                           *)
ClearedWasRun ==
  \A r \in Asked(file) : \A l \in Clears(file, r.command) :
    l.at >= r.at => r.at <= l.ran \/ r.at >= l.at - skew[l.by]

(* A request that has left the host's list never comes back to it, in      *)
(* whatever order the operators' machines append their lines.              *)
NeverComesBack ==
  [][\A r \in Asked(file) :
       r \notin parseHandoffs(file, now) => r \notin parseHandoffs(file', now')]_agentVars
=============================================================================
