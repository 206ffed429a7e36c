--------------------------- MODULE OperatorProofs ---------------------------
(* What the operator's side keeps.                                            *)
(*                                                                            *)
(* SshPool: for any number of calls, hosts, sessions and any MAX_PER_HOST.    *)
(*                                                                            *)
(* Home: for any number of processes, stacks, caps and state backends.        *)
EXTENDS SshPool, Home, FiniteSetTheorems, TLAPS

(* ExclusiveUse is not inductive: it needs that a session is marked inUse for *)
(* as long as a call holds it.                                                *)
HeldIsMarked == \A c \in Callers : held[c] # None => held[c] \in inUse

Inv == TypeOK /\ ExclusiveUse /\ HeldIsMarked

(* Dropping the arrays nobody refers to leaves a set of sessions in each.     *)
LEMMA SweptType ==
  ASSUME NEW e, NEW p, NEW s, \A a \in Arrays : e[a] \in SUBSET Sessions
  PROVE  Swept(e, p, s) \in [Arrays -> SUBSET Sessions]
  BY DEF Swept

(* In the initial state no call holds anything.                               *)
LEMMA InitInv == Init => Inv
  BY PoolAssumption DEF Init, Inv, TypeOK, ExclusiveUse, HeldIsMarked

(* Reusing an idle entry keeps the invariant: it was not marked, so nobody    *)
(* held it.                                                                   *)
LEMMA ReuseInv ==
  ASSUME Inv, NEW c \in Callers, NEW h \in Hosts, Reuse(c, h)
  PROVE  Inv'
<1>1. PICK s \in Idle(h) :
        /\ inUse' = inUse \union {s} /\ stale' = stale \ {s}
        /\ held' = [held EXCEPT ![c] = s]
  BY DEF Reuse
<1>2. s \in Sessions /\ s \notin inUse /\ s # None
  BY PoolAssumption DEF Inv, TypeOK, Idle, Entries
<1>3. h # None
  BY PoolAssumption
<1>4. TypeOK'
  BY <1>1, <1>2, <1>3 DEF Inv, TypeOK, Reuse
<1>5. ExclusiveUse' /\ HeldIsMarked'
  BY <1>1, <1>2 DEF Inv, TypeOK, ExclusiveUse, HeldIsMarked
<1>. QED  BY <1>4, <1>5 DEF Inv

(* A call that goes to wait for its connection has read one array.            *)
LEMMA StartConnectInv ==
  ASSUME Inv, NEW c \in Callers, NEW h \in Hosts, StartConnect(c, h)
  PROVE  Inv'
<1>1. PICK a \in Arrays : a # None /\ seen' = [seen EXCEPT ![c] = a]
                          /\ entries' \in [Arrays -> SUBSET Sessions]
  <2>1. CASE pool[h] # None
    BY <2>1 DEF Inv, TypeOK, StartConnect
  <2>2. CASE pool[h] = None
    <3>1. (CHOOSE x \in FreeArrays : TRUE) \in FreeArrays
      BY <2>2 DEF StartConnect
    <3>2. (CHOOSE x \in FreeArrays : TRUE) \in Arrays
      BY <3>1 DEF FreeArrays
    <3>. QED  BY <2>2, <3>2, PoolAssumption DEF Inv, TypeOK, StartConnect
  <2>. QED  BY <2>1, <2>2
<1>2. h # None
  BY PoolAssumption
<1>3. TypeOK'
  BY <1>1, <1>2 DEF Inv, TypeOK, StartConnect
<1>. QED  BY <1>3 DEF Inv, StartConnect, ExclusiveUse, HeldIsMarked

(* The session connect returns is new, so the call that gets it is its only   *)
(* holder, whatever happened to the array in the meantime.                    *)
LEMMA ConnectedInv ==
  ASSUME Inv, NEW c \in Callers, Connected(c)
  PROVE  Inv'
<1>1. PICK s \in FreshSessions :
        /\ to' = [to EXCEPT ![s] = host[c]]
        /\ pool' = [pool EXCEPT ![host[c]] = seen[c]]
        /\ entries' = Swept([entries EXCEPT ![seen[c]] = @ \union {s}],
                            [pool EXCEPT ![host[c]] = seen[c]],
                            [seen EXCEPT ![c] = None])
        /\ inUse' = inUse \union {s} /\ stale' = stale \ {s}
        /\ held' = [held EXCEPT ![c] = s]
  <2>1. (CHOOSE x \in FreshSessions : TRUE) \in FreshSessions
    BY DEF Connected
  <2>. QED  BY <2>1 DEF Connected
<1>2. s \in Sessions /\ s # None /\ \A d \in Callers : held[d] # s
  BY <1>1, PoolAssumption DEF FreshSessions
<1>3. /\ doing[c] = "connecting" /\ timer' = TRUE /\ host' = host
      /\ doing' = [doing EXCEPT ![c] = "holding"]
      /\ seen' = [seen EXCEPT ![c] = None]
  BY DEF Connected
<1>4. seen[c] \in Arrays /\ host[c] \in Hosts
  BY <1>3 DEF Inv, TypeOK
<1>5. entries' \in [Arrays -> SUBSET Sessions]
  <2>. DEFINE e == [entries EXCEPT ![seen[c]] = @ \union {s}]
  <2>1. \A a \in Arrays : e[a] \in SUBSET Sessions
    BY <1>2 DEF Inv, TypeOK
  <2>. QED  BY <1>1, <2>1, SweptType
<1>6. TypeOK'
  BY <1>1, <1>2, <1>3, <1>4, <1>5 DEF Inv, TypeOK
<1>7. ExclusiveUse' /\ HeldIsMarked'
  BY <1>1, <1>2 DEF Inv, TypeOK, ExclusiveUse, HeldIsMarked
<1>. QED  BY <1>6, <1>7 DEF Inv

(* A connection that fails changes neither holders nor marks.                 *)
LEMMA ConnectFailsInv ==
  ASSUME Inv, NEW c \in Callers, ConnectFails(c)
  PROVE  Inv'
<1>1. entries' \in [Arrays -> SUBSET Sessions]
  BY SweptType DEF Inv, TypeOK, ConnectFails
<1>2. TypeOK'
  BY <1>1 DEF Inv, TypeOK, ConnectFails
<1>. QED  BY <1>2 DEF Inv, ConnectFails, ExclusiveUse, HeldIsMarked

(* A release unmarks one session, which by ExclusiveUse nobody else holds.    *)
LEMMA LetGoInv ==
  ASSUME Inv, NEW c \in Callers, LetGo(c)
  PROVE  ExclusiveUse' /\ HeldIsMarked'
  BY DEF Inv, TypeOK, LetGo, ExclusiveUse, HeldIsMarked

(* Releasing, with and without the drain, keeps the invariant.                *)
LEMMA ReleaseInv ==
  ASSUME Inv, NEW c \in Callers, Release(c) \/ ReleaseAndDrain(c)
  PROVE  Inv'
<1>1. LetGo(c)
  BY DEF Release, ReleaseAndDrain
<1>2. CASE Release(c)
  <2>1. TypeOK'
    BY <1>2 DEF Inv, TypeOK, Release, LetGo
  <2>. QED  BY <1>1, <2>1, LetGoInv DEF Inv
<1>3. CASE ReleaseAndDrain(c)
  <2>1. entries' \in [Arrays -> SUBSET Sessions]
    BY <1>3, SweptType DEF Inv, TypeOK, ReleaseAndDrain
  <2>2. to' \in [Sessions -> Hosts \union {None}] /\ pool' \in [Hosts -> Arrays \union {None}]
    BY <1>3 DEF Inv, TypeOK, ReleaseAndDrain
  <2>3. TypeOK'
    BY <1>3, <2>1, <2>2 DEF Inv, TypeOK, ReleaseAndDrain, LetGo
  <2>. QED  BY <1>1, <2>3, LetGoInv DEF Inv
<1>. QED  BY <1>2, <1>3

(* Time does not change who holds what.                                       *)
LEMMA AgesInv ==
  ASSUME Inv, NEW s \in Sessions, Ages(s)
  PROVE  Inv'
  BY DEF Inv, TypeOK, Ages, ExclusiveUse, HeldIsMarked

(* What a sweep of the timer writes to the map: new arrays, or nothing.       *)
LEMMA CleanupPool ==
  ASSUME Inv, Cleanup
  PROVE  /\ pool' \in [Hosts -> Arrays \union {None}]
         /\ entries' \in [Arrays -> SUBSET Sessions]
<1>. DEFINE new == CHOOSE f \in NewArrays : TRUE
            p   == [h \in Hosts |-> IF Active(h) = {} THEN None ELSE new[h]]
            e   == [a \in Arrays |-> IF \E h \in Hosts : p[h] = a
                                       THEN Active(CHOOSE h \in Hosts : p[h] = a)
                                       ELSE entries[a]]
<1>1. /\ NewArrays # {}
      /\ pool' = p
      /\ entries' = Swept(e, p, seen)
  BY DEF Cleanup
<1>2. new \in [Hosts -> Arrays]
  <2>1. new \in NewArrays
    BY <1>1
  <2>2. new \in [Hosts -> FreeArrays]
    BY <2>1 DEF NewArrays
  <2>. HIDE DEF new
  <2>. QED  BY <2>2 DEF FreeArrays
<1>3. \A h \in Hosts : Active(h) \in SUBSET Sessions
  BY DEF Active, Entries, Inv, TypeOK
<1>4. \A a \in Arrays : e[a] \in SUBSET Sessions
  <2>1. SUFFICES ASSUME NEW a \in Arrays PROVE e[a] \in SUBSET Sessions
    OBVIOUS
  <2>2. CASE \E h \in Hosts : p[h] = a
    <3>. DEFINE g == CHOOSE h \in Hosts : p[h] = a
    <3>1. g \in Hosts
      BY <2>2
    <3>2. e[a] = Active(g)
      BY <2>2
    <3>. HIDE DEF g, e
    <3>. QED  BY <3>1, <3>2, <1>3
  <2>3. CASE ~\E h \in Hosts : p[h] = a
    <3>1. e[a] = entries[a]
      BY <2>3
    <3>. HIDE DEF e
    <3>. QED  BY <3>1 DEF Inv, TypeOK
  <2>. QED  BY <2>2, <2>3
<1>5. p \in [Hosts -> Arrays \union {None}]
  <2>. HIDE DEF new
  <2>. QED  BY <1>2
<1>. HIDE DEF p, e
<1>. QED  BY <1>1, <1>4, <1>5, SweptType

(* The timer evicts no session a call holds, and marks none.                  *)
LEMMA CleanupInv ==
  ASSUME Inv, Cleanup
  PROVE  Inv'
<1>1. /\ inUse' = inUse /\ doing' = doing /\ host' = host
      /\ seen' = seen /\ held' = held
      /\ timer' \in BOOLEAN /\ stale' \subseteq stale
  BY DEF Cleanup
<1>2. to' \in [Sessions -> Hosts \union {None}]
  BY DEF Cleanup, Inv, TypeOK
<1>3. TypeOK'
  BY <1>1, <1>2, CleanupPool DEF Inv, TypeOK
<1>. QED  BY <1>1, <1>3 DEF Inv, ExclusiveUse, HeldIsMarked

(* Every step of the pool keeps the invariant.                                *)
LEMMA NextInv == Inv /\ [Next]_vars => Inv'
<1>. SUFFICES ASSUME Inv, [Next]_vars PROVE Inv'
  OBVIOUS
<1>1. ASSUME NEW c \in Callers, NEW h \in Hosts, Reuse(c, h) PROVE Inv'
  BY <1>1, ReuseInv
<1>2. ASSUME NEW c \in Callers, NEW h \in Hosts, StartConnect(c, h) PROVE Inv'
  BY <1>2, StartConnectInv
<1>3. ASSUME NEW c \in Callers, Connected(c) PROVE Inv'
  BY <1>3, ConnectedInv
<1>4. ASSUME NEW c \in Callers, ConnectFails(c) PROVE Inv'
  BY <1>4, ConnectFailsInv
<1>5. ASSUME NEW c \in Callers, Release(c) \/ ReleaseAndDrain(c) PROVE Inv'
  BY <1>5, ReleaseInv
<1>6. ASSUME NEW s \in Sessions, Ages(s) PROVE Inv'
  BY <1>6, AgesInv
<1>7. CASE Cleanup
  BY <1>7, CleanupInv
<1>8. CASE UNCHANGED vars
  BY <1>8 DEF Inv, TypeOK, ExclusiveUse, HeldIsMarked, vars
<1>. QED  BY <1>1, <1>2, <1>3, <1>4, <1>5, <1>6, <1>7, <1>8 DEF Next

(* In every reachable state of the pool a session that is held is marked and  *)
(* has one holder.                                                            *)
THEOREM Invariance == Spec => []Inv
  BY InitInv, NextInv, PTL DEF Spec

(* acquireSession, release, drainPool and the timer keep the map, the arrays  *)
(* and the state of every call well formed: a call that waits has an array,   *)
(* a call that was given a session has one.                                   *)
THEOREM TypeCorrect == Spec => []TypeOK
<1>1. Inv => TypeOK
  BY DEF Inv
<1>. QED  BY <1>1, Invariance, PTL

(* acquireSession never gives a session to a call while another one has it.   *)
THEOREM Exclusion == Spec => []ExclusiveUse
<1>1. Inv => ExclusiveUse
  BY DEF Inv
<1>. QED  BY <1>1, Invariance, PTL

----------------------------------------------------------------------------
(* A map that is not empty has its timer: only acquireSession fills it, and   *)
(* whatever stops the timer has emptied it.                                   *)
LEMMA NextWatched == PooledIsWatched /\ [Next]_vars => PooledIsWatched'
<1>. SUFFICES ASSUME PooledIsWatched, [Next]_vars PROVE PooledIsWatched'
  OBVIOUS
<1>1. ASSUME NEW c \in Callers, Connected(c) PROVE PooledIsWatched'
  BY <1>1 DEF Connected, PooledIsWatched
<1>2. ASSUME NEW c \in Callers, ReleaseAndDrain(c) PROVE PooledIsWatched'
  BY <1>2 DEF ReleaseAndDrain, PooledIsWatched
<1>3. CASE Cleanup
  BY <1>3 DEF Cleanup, PooledIsWatched
<1>4. CASE UNCHANGED <<pool, timer>>
  BY <1>4 DEF PooledIsWatched
<1>. QED
  BY <1>1, <1>2, <1>3, <1>4
     DEF Next, Reuse, StartConnect, ConnectFails, Release, Ages, vars

(* startCleanupTimer, drainPool and the timer itself never leave a connection *)
(* in the map that no timer looks at.                                         *)
THEOREM Watched == Spec => []PooledIsWatched
<1>1. Init => PooledIsWatched
  BY DEF Init, PooledIsWatched
<1>. QED  BY <1>1, NextWatched, PTL DEF Spec

----------------------------------------------------------------------------
(* A step that closes a session under the call c that holds it.               *)
ClosesHeld(c) ==
  held[c] # None /\ held'[c] = held[c] /\ to[held[c]] # None /\ to'[held[c]] = None

(* Such a step is the drain of another call.                                  *)
LEMMA NextCloses ==
  ASSUME Inv, [Next]_vars, NEW c \in Callers, ClosesHeld(c)
  PROVE  \E d \in Callers \ {c} : doing[d] = "holding" /\ doing'[d] = "idle"
<1>1. to' # to
  BY DEF ClosesHeld
<1>2. held[c] \in Sessions /\ held[c] \in inUse
  BY DEF ClosesHeld, Inv, TypeOK, HeldIsMarked
<1>3. ASSUME NEW d \in Callers, Connected(d) PROVE FALSE
  <2>1. PICK s \in FreshSessions : to' = [to EXCEPT ![s] = host[d]]
    <3>1. (CHOOSE x \in FreshSessions : TRUE) \in FreshSessions
      BY <1>3 DEF Connected
    <3>. QED  BY <1>3, <3>1 DEF Connected
  <2>2. held[c] # s
    BY <2>1 DEF FreshSessions
  <2>. QED  BY <1>2, <2>1, <2>2 DEF ClosesHeld, Inv, TypeOK
<1>4. ASSUME NEW d \in Callers, ReleaseAndDrain(d)
      PROVE  d # c /\ doing[d] = "holding" /\ doing'[d] = "idle"
  BY <1>4 DEF ReleaseAndDrain, LetGo, ClosesHeld, Inv, TypeOK
<1>5. CASE Cleanup
  <2>1. to'[held[c]] = IF held[c] \in Pooled /\ Evicts(held[c]) THEN None ELSE to[held[c]]
    BY <1>2, <1>5 DEF Cleanup
  <2>. QED  BY <1>2, <2>1 DEF Evicts, ClosesHeld
<1>. QED
  BY <1>1, <1>3, <1>4, <1>5
     DEF Next, Reuse, StartConnect, ConnectFails, Release, Ages, vars

(* The timer never closes a connection in use: whoever has one and finds it   *)
(* closed has been drained by another call.                                   *)
THEOREM ClosedByDrain == Spec => OnlyDrainClosesHeld
<1>1. Inv /\ [Next]_vars =>
        [\A c \in Callers :
           held[c] # None /\ held'[c] = held[c] /\ to[held[c]] # None /\ to'[held[c]] = None
             => \E d \in Callers \ {c} : doing[d] = "holding" /\ doing'[d] = "idle"]_vars
  BY NextCloses DEF ClosesHeld
<1>. QED  BY <1>1, Invariance, PTL DEF Spec, OnlyDrainClosesHeld

----------------------------------------------------------------------------
(* Every step of the pool lends a session nobody has, takes one back, or      *)
(* leaves the leases as they are.                                             *)
LEMMA StepRefines == Inv /\ [Next]_vars => [Lease!LeaseNext]_held
<1>. SUFFICES ASSUME Inv, [Next]_vars PROVE Lease!LeaseNext \/ UNCHANGED held
  OBVIOUS
<1>1. ASSUME NEW c \in Callers, NEW h \in Hosts, Reuse(c, h) PROVE Lease!LeaseNext
  <2>1. PICK s \in Idle(h) : held' = [held EXCEPT ![c] = s]
    BY <1>1 DEF Reuse
  <2>2. s \in Sessions /\ s \notin inUse /\ s # None
    BY <2>1, PoolAssumption DEF Inv, TypeOK, Idle, Entries
  <2>3. held[c] = None /\ \A d \in Callers : held[d] # s
    BY <1>1, <2>2 DEF Reuse, Inv, TypeOK, HeldIsMarked
  <2>. QED  BY <2>1, <2>2, <2>3 DEF Lease!LeaseNext, Lease!Lend
<1>2. ASSUME NEW c \in Callers, Connected(c) PROVE Lease!LeaseNext
  <2>1. PICK s \in FreshSessions : held' = [held EXCEPT ![c] = s]
    <3>1. (CHOOSE x \in FreshSessions : TRUE) \in FreshSessions
      BY <1>2 DEF Connected
    <3>. QED  BY <1>2, <3>1 DEF Connected
  <2>2. s \in Sessions /\ \A d \in Callers : held[d] # s
    BY <2>1 DEF FreshSessions
  <2>3. held[c] = None
    BY <1>2 DEF Connected, Inv, TypeOK
  <2>. QED  BY <2>1, <2>2, <2>3 DEF Lease!LeaseNext, Lease!Lend
<1>3. ASSUME NEW c \in Callers, LetGo(c) PROVE Lease!LeaseNext
  <2>1. held[c] # None /\ held' = [held EXCEPT ![c] = None]
    BY <1>3 DEF LetGo, Inv, TypeOK
  <2>. QED  BY <2>1 DEF Lease!LeaseNext, Lease!GiveBack
<1>. QED
  BY <1>1, <1>2, <1>3
     DEF Next, StartConnect, ConnectFails, Release, ReleaseAndDrain, Ages, Cleanup, vars

(* The pool implements the lease of sessions: connections that finish in any  *)
(* order, drains and evictions are invisible to the callers.                  *)
THEOREM Refinement == Spec => ImplementsLeases
<1>1. Init => Lease!LeaseInit
  BY DEF Init, Lease!LeaseInit
<1>. QED
  BY <1>1, StepRefines, Invariance, PTL DEF Spec, ImplementsLeases, Lease!LeaseSpec

-----------------------------------------------------------------------------
(* Home: the config, the passphrase and the stacks. *)

HomePcs == {"idle", "init", "account", "policy", "name", "limits", "save", "register", "registered",
            "bootstrap", "context", "passphrase", "generate", "store", "open", "up", "sure", "destroy",
            "check", "outputs", "confirm", "forget"}

(* The steps of a command that writes what it read next; of one that has a    *)
(* Pulumi stack; of one that registers a stack; of one that forgets one; and  *)
(* of one that makes the passphrase.                                          *)
Writing     == {"account", "save", "registered", "forget"}
OnStack     == {"passphrase", "generate", "store", "open", "up", "sure", "destroy", "outputs"}
Registering == {"account", "registered"}
Forgetting  == {"confirm", "forget"}
Making      == {"generate", "store"}

HomeProcess ==
  [pc : HomePcs, cmd : {"none", "init", "wizard", "deploy", "destroy", "delete"},
   name : Names \cup {NoName}, place : Places, force : BOOLEAN, env : BOOLEAN, snap : Configs,
   id : 0..MaxCommands, pass : Passphrases \cup {0}, limits : SUBSET Caps, last : BOOLEAN]

PulumiStack == [pass : Passphrases \cup {0}, resources : BOOLEAN, outputs : BOOLEAN]

(* A config that is not there limits nothing.                                 *)
Sound(c) == c.there \/ c.max = 0

(* What a command knows of itself.                                            *)
Fits(p) ==
  /\ Sound(p.snap)
  /\ p.pc # "idle" => p.name \in Names /\ p.id # 0
  /\ p.pc \in OnStack => p.place \in Urls
  /\ p.pc = "open" => p.pass # 0
  /\ p.pc \in {"save", "forget"} => p.snap.there

HomeType ==
  /\ config \in Configs /\ passFile \in Passphrases \cup {0}
  /\ backend \in [Urls -> [Names -> PulumiStack]]
  /\ localState \subseteq Names /\ commands \in 1..MaxCommands
  /\ raced \in BOOLEAN /\ firstUses \in BOOLEAN /\ lowered \in BOOLEAN
  /\ asked \subseteq Places \X Names /\ overwritten \subseteq Places \X Names
  /\ proc \in [Procs -> HomeProcess]
  /\ Sound(config) /\ \A q \in Procs : Fits(proc[q])

(* What a command read is within its cap, and so is what it registers on it.  *)
InCap(c) == c.max # 0 => Card(c) <= c.max
MayRegister(p) ==
  /\ InCap(p.snap)
  /\ p.pc \in Registering => ~stackCapRefusal(p.snap, p.name)

CapInv == lowered \/ (InCap(config) /\ \A q \in Procs : MayRegister(proc[q]))

(* Of the passphrase f on disk: whoever opens a stack has it, and whoever     *)
(* makes one found none.                                                      *)
HasPass(p, f) ==
  /\ p.pc = "open" => p.pass \in {Operator, f}
  /\ p.pc \in Making => f = 0

PassInv ==
  firstUses \/
    (/\ \A u \in Urls, n \in Names : backend[u][n].pass \in {0, Operator, passFile}
     /\ \A q \in Procs : HasPass(proc[q], passFile)
     /\ \A q, r \in Procs : proc[q].pc \in Making /\ proc[r].pc \in Making => q = r)

(* What a command that runs alone knows of the config c, of the backends b    *)
(* and of A, what was given up.                                               *)
Leads(c, u, n) == Has(c, n) /\ c.stacks[n] = u
UpToDate(p, c, b, A) ==
  /\ p.pc \in Writing => p.snap = c
  /\ p.pc \in OnStack => Leads(c, p.place, p.name)
  /\ p.pc \in Forgetting /\ ~p.force => \A u \in Urls : b[u][p.name].outputs => <<u, p.name>> \in A

Listed(c, b, A) == \A u \in Urls, n \in Names : b[u][n].outputs => Leads(c, u, n) \/ <<u, n>> \in A

ListInv ==
  raced \/
    (/\ \A q, r \in Procs : proc[q].pc # "idle" /\ proc[r].pc # "idle" => q = r
     /\ Listed(config, backend, asked \cup overwritten)
     /\ \A q \in Procs : UpToDate(proc[q], config, backend, asked \cup overwritten))

HomeInv == HomeType /\ CapInv /\ PassInv /\ ListInv

-----------------------------------------------------------------------------
(* A command's record, one step later. *)

(* The model counts stacks as the cardinality theorems do.                   *)
LEMMA SameCard == ASSUME NEW c PROVE Card(c) = Cardinality(DOMAIN c.stacks)
  BY DEF Card

(* What the proofs use of the constants: nobody is called NoName, no place   *)
(* in the cloud is "local".                                                  *)
LEMMA HomeConstants ==
  /\ "local" \notin Urls /\ NoName \notin Names /\ IsFiniteSet(Names)
  /\ Caps \subseteq Nat /\ MaxCommands \in Nat /\ MaxCommands # 0
  /\ NoConfig \in Configs /\ AtRest \in HomeProcess
<1>1. NoConfig.stacks \in [{} -> Places]
  BY DEF NoConfig
<1>2. NoConfig \in Configs
  BY <1>1 DEF Configs, NoConfig
<1>3. "local" \in Places
  BY DEF Places
<1>4. AtRest \in HomeProcess
  BY HomeAssumption, <1>2, <1>3 DEF AtRest, HomeProcess, HomePcs
<1>. QED  BY HomeAssumption, <1>2, <1>4

(* A process that runs nothing fits whatever the files hold, and so does a   *)
(* home with no config.                                                      *)
LEMMA RestFits ==
  /\ AtRest.pc = "idle" /\ AtRest.snap = NoConfig /\ Fits(AtRest)
  /\ NoConfig.max = 0 /\ Sound(NoConfig) /\ InCap(NoConfig)
  BY DEF AtRest, NoConfig, Fits, Sound, InCap, OnStack

(* Moving a command on to its next step changes nothing else it holds.       *)
LEMMA Turned ==
  ASSUME NEW p \in HomeProcess, NEW pc \in HomePcs
  PROVE  /\ [p EXCEPT !.pc = pc] \in HomeProcess
         /\ [p EXCEPT !.pc = pc].pc = pc /\ [p EXCEPT !.pc = pc].name = p.name
         /\ [p EXCEPT !.pc = pc].place = p.place /\ [p EXCEPT !.pc = pc].snap = p.snap
         /\ [p EXCEPT !.pc = pc].force = p.force /\ [p EXCEPT !.pc = pc].id = p.id
         /\ [p EXCEPT !.pc = pc].pass = p.pass
  BY DEF HomeProcess

(* One process moves and the others stay.                                     *)
LEMMA OneMoves ==
  ASSUME HomeType, NEW q \in Procs, NEW p \in HomeProcess, Fits(p),
         proc' = [proc EXCEPT ![q] = p]
  PROVE  /\ proc' \in [Procs -> HomeProcess]
         /\ proc'[q] = p
         /\ \A r \in Procs : r # q => proc'[r] = proc[r]
         /\ \A r \in Procs : Fits(proc'[r])
<1>1. proc \in [Procs -> HomeProcess] /\ \A r \in Procs : Fits(proc[r])
  BY DEF HomeType
<1>2. \A r \in Procs : proc'[r] = IF r = q THEN p ELSE proc[r]
  BY <1>1
<1>3. proc' \in [Procs -> HomeProcess]
  BY <1>1
<1>. HIDE DEF HomeType
<1>4. \A r \in Procs : Fits(proc'[r])
  BY <1>1, <1>2
<1>. QED  BY <1>2, <1>3, <1>4

(* While one command runs alone, the others know nothing that could change.   *)
LEMMA OthersAreIdle ==
  ASSUME HomeInv, ~raced, NEW q \in Procs, proc[q].pc # "idle", NEW r \in Procs, r # q,
         NEW c, NEW b, NEW A
  PROVE  proc[r].pc = "idle" /\ UpToDate(proc[r], c, b, A)
<1>1. proc[r].pc = "idle"
  BY DEF HomeInv, ListInv
<1>. QED  BY <1>1 DEF UpToDate, Writing, OnStack, Forgetting

(* What was given up stays given up.                                          *)
LEMMA MoreGivenUp ==
  ASSUME NEW A, NEW B, A \subseteq B, NEW c, NEW b
  PROVE  /\ Listed(c, b, A) => Listed(c, b, B)
         /\ \A p : UpToDate(p, c, b, A) => UpToDate(p, c, b, B)
  BY DEF Listed, UpToDate

(* A step of a command that runs and that makes no passphrase, by what it may *)
(* leave behind.                                                              *)
Held(q, p) ==
  /\ proc' = [proc EXCEPT ![q] = p]
  /\ UNCHANGED <<passFile, commands, raced, firstUses>>
  /\ localState' \subseteq Names
  /\ asked \subseteq asked' /\ asked' \subseteq Places \X Names
  /\ overwritten \subseteq overwritten' /\ overwritten' \subseteq Places \X Names

(* A step of one command keeps the invariant when what it holds still fits   *)
(* what it has written.                                                      *)
LEMMA CommandStep ==
  ASSUME HomeInv, NEW q \in Procs, NEW p \in HomeProcess, Fits(p), Held(q, p),
         proc[q].pc # "idle", p.pc \notin Making, p.pc # "open",
         config' \in Configs, Sound(config'), backend' \in [Urls -> [Names -> PulumiStack]],
         lowered' \in BOOLEAN, lowered => lowered', lowered' \/ InCap(config'),
         p.snap \in {proc[q].snap, NoConfig, config},
         lowered \/ (p.pc \in Registering => ~stackCapRefusal(p.snap, p.name)),
         firstUses \/ \A u \in Urls, n \in Names : backend'[u][n].pass \in {0, Operator, passFile},
         raced \/ Listed(config', backend', asked' \cup overwritten'),
         raced \/ UpToDate(p, config', backend', asked' \cup overwritten')
  PROVE  HomeInv'
<1>0. HomeType /\ CapInv /\ PassInv /\ ListInv
  BY DEF HomeInv
<1>1. /\ proc' \in [Procs -> HomeProcess]
      /\ proc'[q] = p
      /\ \A r \in Procs : r # q => proc'[r] = proc[r]
      /\ \A r \in Procs : Fits(proc'[r])
  BY <1>0, OneMoves DEF Held
<1>2. HomeType'
  BY <1>0, <1>1 DEF HomeType, Held
<1>3. CapInv'
  <2>1. SUFFICES ASSUME ~lowered' PROVE \A r \in Procs : MayRegister(proc'[r])
    BY DEF CapInv
  <2>2. InCap(config) /\ \A r \in Procs : MayRegister(proc[r])
    BY <1>0, <2>1 DEF CapInv
  <2>3. InCap(p.snap)
    BY <2>2, RestFits DEF MayRegister
  <2>4. MayRegister(p)
    BY <2>1, <2>3 DEF MayRegister
  <2>. QED  BY <1>1, <2>2, <2>4
<1>4. PassInv'
  <2>1. SUFFICES ASSUME ~firstUses PROVE PassInv'
    BY DEF PassInv, Held
  <2>2. HasPass(p, passFile)
    BY DEF HasPass
  <2>3. \A r \in Procs : HasPass(proc'[r], passFile)
    BY <1>0, <1>1, <2>1, <2>2 DEF PassInv
  <2>4. \A r, s \in Procs : proc'[r].pc \in Making /\ proc'[s].pc \in Making => r = s
    BY <1>0, <1>1, <2>1 DEF PassInv
  <2>. QED  BY <1>0, <2>1, <2>3, <2>4 DEF PassInv, Held
<1>5. ListInv'
  <2>1. SUFFICES ASSUME ~raced PROVE ListInv'
    BY DEF ListInv, Held
  <2>2. \A r \in Procs : r # q =>
          proc'[r].pc = "idle" /\ UpToDate(proc'[r], config', backend', asked' \cup overwritten')
    BY <1>1, <2>1, OthersAreIdle
  <2>3. \A r \in Procs : UpToDate(proc'[r], config', backend', asked' \cup overwritten')
    BY <1>1, <2>1, <2>2
  <2>4. \A r, s \in Procs : proc'[r].pc # "idle" /\ proc'[s].pc # "idle" => r = s
    BY <2>2
  <2>. QED  BY <2>1, <2>3, <2>4 DEF ListInv
<1>. QED  BY <1>2, <1>3, <1>4, <1>5 DEF HomeInv

(* One that leaves the config, the passphrase and the backends alone.         *)
LEMMA QuietStep ==
  ASSUME HomeInv, NEW q \in Procs, NEW p \in HomeProcess, Fits(p), Held(q, p),
         proc[q].pc # "idle", p.pc \notin Making, p.pc # "open",
         UNCHANGED <<config, backend, lowered>>,
         p.snap \in {proc[q].snap, NoConfig, config},
         lowered \/ (p.pc \in Registering => ~stackCapRefusal(p.snap, p.name)),
         raced \/ UpToDate(p, config, backend, asked' \cup overwritten')
  PROVE  HomeInv'
<1>0. HomeType /\ CapInv /\ PassInv /\ ListInv
  BY DEF HomeInv
<1>1. config' \in Configs /\ Sound(config') /\ backend' \in [Urls -> [Names -> PulumiStack]] /\ lowered' \in BOOLEAN
  BY <1>0 DEF HomeType
<1>2. lowered' \/ InCap(config')
  BY <1>0 DEF CapInv
<1>3. firstUses \/ \A u \in Urls, n \in Names : backend'[u][n].pass \in {0, Operator, passFile}
  BY <1>0 DEF PassInv
<1>4. raced \/ Listed(config', backend', asked' \cup overwritten')
  <2>1. asked \cup overwritten \subseteq asked' \cup overwritten'
    BY DEF Held
  <2>2. raced \/ Listed(config, backend, asked \cup overwritten)
    BY <1>0 DEF ListInv
  <2>. QED  BY <2>1, <2>2, MoreGivenUp
<1>5. raced \/ UpToDate(p, config', backend', asked' \cup overwritten')
  OBVIOUS
<1>. QED  BY <1>1, <1>2, <1>3, <1>4, <1>5, CommandStep

-----------------------------------------------------------------------------
(* The config, read and written. *)

(* What a config read from the file is made of.                              *)
LEMMA ConfigIs ==
  ASSUME NEW c \in Configs
  PROVE  /\ DOMAIN c.stacks \in SUBSET Names
         /\ \A n \in DOMAIN c.stacks : c.stacks[n] \in Places
         /\ c.default \in Names \cup {NoName} /\ c.max \in Caps \cup {0} /\ c.there \in BOOLEAN
         /\ c.max \in Nat
<1>1. c.stacks \in UNION {[S -> Places] : S \in SUBSET Names}
  BY DEF Configs
<1>2. PICK S \in SUBSET Names : c.stacks \in [S -> Places]
  BY <1>1
<1>3. c.default \in Names \cup {NoName} /\ c.max \in Caps \cup {0}
  BY DEF Configs
<1>4. c.there \in BOOLEAN
  BY DEF Configs
<1>5. \A x \in Caps \cup {0} : x \in Nat
  BY HomeAssumption
<1>6. c.max \in Nat
  BY <1>3, <1>5
<1>. QED  BY <1>2, <1>3, <1>4, <1>6

(* A config one of whose parts is written is a config.                        *)
Rewrites(d, c, f, e) ==
  \/ d = [c EXCEPT !.stacks = f]
  \/ d = [c EXCEPT !.stacks = f, !.default = e]
  \/ d = [c EXCEPT !.there = TRUE, !.default = e, !.stacks = f]

(* Writing a config over the one that was read gives a config, under the     *)
(* same cap.                                                                 *)
LEMMA ConfigWrites ==
  ASSUME NEW c \in Configs, NEW S \in SUBSET Names, NEW f \in [S -> Places],
         NEW e \in Names \cup {NoName}, NEW d, Rewrites(d, c, f, e)
  PROVE  d \in Configs /\ d.stacks = f /\ d.max = c.max /\ (d.there = c.there \/ d.there = TRUE)
<1>1. f \in UNION {[T -> Places] : T \in SUBSET Names}
  OBVIOUS
<1>. DEFINE All == UNION {[T -> Places] : T \in SUBSET Names}
<1>2. c \in [there : BOOLEAN, stacks : All, default : Names \cup {NoName}, max : Caps \cup {0}]
  BY DEF Configs
<1>3. f \in All
  BY <1>1
<1>. HIDE DEF All
<1>4. /\ d \in [there : BOOLEAN, stacks : All, default : Names \cup {NoName}, max : Caps \cup {0}]
      /\ d.stacks = f /\ d.max = c.max /\ (d.there = c.there \/ d.there = TRUE)
  BY <1>2, <1>3 DEF Rewrites
<1>. QED  BY <1>4 DEF All, Configs

(* A config has a finite number of stacks.                                   *)
LEMMA CardIsNat ==
  ASSUME NEW c, DOMAIN c.stacks \in SUBSET Names
  PROVE  Card(c) \in Nat /\ IsFiniteSet(DOMAIN c.stacks) /\ Card(c) = Cardinality(DOMAIN c.stacks)
  BY HomeConstants, SameCard, FS_Subset, FS_CardinalityType

(* Registering a stack adds at most its name.                                 *)
LEMMA MergeIs ==
  ASSUME NEW c \in Configs, NEW n \in Names, NEW u \in Places
  PROVE  /\ merge(c, n, u) \in Configs /\ Sound(merge(c, n, u))
         /\ merge(c, n, u).max = c.max
         /\ \A m : Has(merge(c, n, u), m) <=> Has(c, m) \/ m = n
         /\ merge(c, n, u).stacks[n] = u
         /\ \A m : Has(c, m) /\ m # n => merge(c, n, u).stacks[m] = c.stacks[m]
<1>1. SUFFICES ASSUME NEW d, d = merge(c, n, u)
               PROVE  /\ d \in Configs /\ Sound(d) /\ d.max = c.max
                      /\ \A m : Has(d, m) <=> Has(c, m) \/ m = n
                      /\ d.stacks[n] = u
                      /\ \A m : Has(c, m) /\ m # n => d.stacks[m] = c.stacks[m]
  OBVIOUS
<1>2. PICK f : f = [m \in DOMAIN c.stacks \cup {n} |-> IF m = n THEN u ELSE c.stacks[m]]
  OBVIOUS
<1>3. DOMAIN c.stacks \cup {n} \in SUBSET Names /\ f \in [DOMAIN c.stacks \cup {n} -> Places]
  BY <1>2, ConfigIs
<1>4. DOMAIN f = DOMAIN c.stacks \cup {n} /\ f[n] = u /\ \A m \in DOMAIN c.stacks : m # n => f[m] = c.stacks[m]
  BY <1>2
<1>5. d.there = TRUE
  BY <1>1 DEF merge, Configs
<1>6. d = [c EXCEPT !.there = TRUE, !.default = n, !.stacks = f]
  BY <1>1, <1>2 DEF merge
<1>7. Rewrites(d, c, f, n)
  BY <1>6 DEF Rewrites
<1>8. d \in Configs /\ d.stacks = f /\ d.max = c.max /\ (d.there = c.there \/ d.there = TRUE)
  BY <1>3, <1>7, ConfigWrites
<1>. QED  BY <1>4, <1>5, <1>8 DEF Sound, Has

(* The cap that allows the registration holds after it.                       *)
LEMMA MergeInCap ==
  ASSUME NEW c \in Configs, NEW n \in Names, NEW u \in Places,
         Sound(c), InCap(c), ~stackCapRefusal(c, n)
  PROVE  InCap(merge(c, n, u))
<1>. DEFINE d == merge(c, n, u)
<1>1. d \in Configs /\ d.max = c.max /\ DOMAIN d.stacks = DOMAIN c.stacks \cup {n}
  BY MergeIs DEF Has
<1>. HIDE DEF d
<1>2. /\ Card(c) \in Nat /\ Card(c) = Cardinality(DOMAIN c.stacks) /\ IsFiniteSet(DOMAIN c.stacks)
      /\ Card(d) \in Nat /\ Card(d) = Cardinality(DOMAIN d.stacks)
  BY <1>1, CardIsNat, ConfigIs
<1>3. CASE n \in DOMAIN c.stacks
  <2>1. DOMAIN d.stacks = DOMAIN c.stacks
    BY <1>1, <1>3
  <2>. QED  BY <1>1, <1>2, <2>1 DEF InCap, d
<1>4. CASE n \notin DOMAIN c.stacks
  <2>1. Cardinality(DOMAIN d.stacks) = Cardinality(DOMAIN c.stacks) + 1
    BY <1>1, <1>2, <1>4, FS_AddElement
  <2>2. c.max # 0 => Card(c) < c.max
    <3>1. c.max \in Nat
      BY ConfigIs
    <3>. QED  BY <1>2, <1>4, <3>1 DEF stackCapRefusal, Has, Sound
  <2>3. c.max \in Nat
    BY ConfigIs
  <2>4. d.max # 0 => Card(d) <= d.max
    BY <1>1, <1>2, <2>1, <2>2, <2>3
  <2>. QED  BY <2>4 DEF InCap, d
<1>. QED  BY <1>3, <1>4

(* Forgetting a stack removes it and nothing else.                            *)
LEMMA ForgottenIs ==
  ASSUME NEW c \in Configs, NEW n \in Names, c.there, NEW d \in Forgotten(c, n)
  PROVE  /\ d \in Configs /\ Sound(d) /\ d.max = c.max
         /\ DOMAIN d.stacks = DOMAIN c.stacks \ {n}
         /\ \A m \in DOMAIN c.stacks \ {n} : d.stacks[m] = c.stacks[m]
<1>. DEFINE f == Without(c, n)
<1>1. DOMAIN c.stacks \ {n} \in SUBSET Names /\ f \in [DOMAIN c.stacks \ {n} -> Places]
  BY ConfigIs DEF Without
<1>2. DOMAIN f = DOMAIN c.stacks \ {n} /\ \A m \in DOMAIN c.stacks \ {n} : f[m] = c.stacks[m]
  BY DEF Without
<1>3. PICK e \in Names \cup {NoName} : Rewrites(d, c, f, e)
  <2>1. CASE c.default # n
    BY <2>1, ConfigIs DEF Forgotten, Rewrites
  <2>2. CASE c.default = n
    <3>1. PICK e \in IF DOMAIN c.stacks \ {n} = {} THEN {NoName} ELSE DOMAIN c.stacks \ {n} :
            d = [c EXCEPT !.stacks = f, !.default = e]
      BY <2>2 DEF Forgotten
    <3>2. e \in Names \cup {NoName}
      BY <3>1, ConfigIs
    <3>. QED  BY <3>1, <3>2 DEF Rewrites
  <2>. QED  BY <2>1, <2>2
<1>. HIDE DEF f
<1>4. d \in Configs /\ d.stacks = f /\ d.max = c.max /\ (d.there = c.there \/ d.there = TRUE)
  BY <1>1, <1>3, ConfigWrites
<1>. QED  BY <1>2, <1>4 DEF Sound

(* A delete leaves no more stacks than there were.                           *)
LEMMA ForgottenInCap ==
  ASSUME NEW c \in Configs, NEW n \in Names, c.there, NEW d \in Forgotten(c, n),
         InCap(c)
  PROVE  InCap(d)
<1>1. d.max = c.max /\ DOMAIN d.stacks \in SUBSET (DOMAIN c.stacks) /\ d \in Configs
  BY ForgottenIs
<1>2. IsFiniteSet(DOMAIN c.stacks) /\ Card(c) = Cardinality(DOMAIN c.stacks) /\ Card(c) \in Nat
  BY CardIsNat, ConfigIs
<1>3. Cardinality(DOMAIN d.stacks) <= Cardinality(DOMAIN c.stacks)
  BY <1>1, <1>2, FS_Subset
<1>4. Card(d) = Cardinality(DOMAIN d.stacks) /\ Card(d) \in Nat
  BY <1>1, CardIsNat, ConfigIs
<1>5. c.max \in Nat
  BY ConfigIs
<1>. QED  BY <1>1, <1>2, <1>3, <1>4, <1>5 DEF InCap

(* Answering a cap changes the cap.                                           *)
LEMMA CapIs ==
  ASSUME NEW c \in Configs, NEW m \in Caps, NEW d, d = [c EXCEPT !.max = m]
  PROVE  /\ d \in Configs /\ d.there = c.there /\ d.stacks = c.stacks /\ d.max = m
         /\ c.there => Sound(d)
         /\ m = 0 \/ Card(c) <= m => InCap(d)
<1>1. d \in Configs /\ d.there = c.there /\ d.stacks = c.stacks /\ d.max = m
  BY DEF Configs
<1>2. Card(d) = Card(c)
  BY <1>1 DEF Card
<1>. QED  BY <1>1, <1>2 DEF Sound, InCap

-----------------------------------------------------------------------------
(* The steps of a command. *)

HomeFrame ==
  /\ UNCHANGED <<config, passFile, backend, commands, raced, firstUses, lowered>>
  /\ localState' \subseteq Names
  /\ asked \subseteq asked' /\ asked' \subseteq Places \X Names
  /\ overwritten \subseteq overwritten' /\ overwritten' \subseteq Places \X Names

(* What is known of a command that runs.                                      *)
LEMMA AtWork ==
  ASSUME HomeInv, NEW q \in Procs
  PROVE  /\ proc[q] \in HomeProcess /\ Fits(proc[q])
         /\ proc[q].name \in Names \cup {NoName} /\ proc[q].place \in Places
         /\ proc[q].snap \in Configs /\ proc[q].limits \in SUBSET Caps
         /\ proc[q].pass \in Passphrases \cup {0} /\ proc[q].id \in 0..MaxCommands
         /\ proc[q].pc # "idle" => proc[q].name \in Names
         /\ config \in Configs /\ Sound(config)
         /\ raced \/ UpToDate(proc[q], config, backend, asked \cup overwritten)
<1>1. HomeType /\ ListInv
  BY DEF HomeInv
<1>2. proc[q] \in HomeProcess /\ Fits(proc[q]) /\ config \in Configs /\ Sound(config)
  BY <1>1 DEF HomeType
<1>3. proc[q].pc # "idle" => proc[q].name \in Names
  BY <1>2 DEF Fits
<1>4. raced \/ UpToDate(proc[q], config, backend, asked \cup overwritten)
  BY <1>1 DEF ListInv
<1>. QED  BY <1>2, <1>3, <1>4 DEF HomeProcess

(* A command that ends and writes nothing keeps the invariant.               *)
LEMMA EndsQuietly ==
  ASSUME HomeInv, NEW q \in Procs, proc[q].pc # "idle", End(q), HomeFrame
  PROVE  HomeInv'
<1>1. AtRest \in HomeProcess /\ Fits(AtRest)
  BY HomeConstants, RestFits
<1>2. Held(q, AtRest)
  BY DEF End, HomeFrame, Held
<1>3. UpToDate(AtRest, config, backend, asked' \cup overwritten')
  BY RestFits DEF UpToDate, Writing, OnStack, Forgetting
<1>. HIDE DEF HomeInv
<1>. QED  BY <1>1, <1>2, <1>3, RestFits, QuietStep DEF HomeFrame, Making, Registering

(* From one step to the next, with nothing read or written.                   *)
LEMMA GoesOn ==
  ASSUME HomeInv, NEW q \in Procs, proc[q].pc # "idle", HomeFrame,
         NEW pc \in HomePcs \ (Writing \cup Making \cup {"open"}), Goto(q, pc),
         pc \in OnStack => proc[q].pc \in OnStack,
         pc = "confirm" /\ ~proc[q].force => raced \/
           \A u \in Urls : backend[u][proc[q].name].outputs => <<u, proc[q].name>> \in asked' \cup overwritten'
  PROVE  HomeInv'
<1>. DEFINE p == proc[q]
            r == [p EXCEPT !.pc = pc]
<1>1. /\ p \in HomeProcess /\ Fits(p)
      /\ raced \/ UpToDate(p, config, backend, asked \cup overwritten)
  BY AtWork
<1>2. Held(q, r)
  BY DEF Goto, HomeFrame, Held
<1>. HIDE DEF p
<1>3. /\ r \in HomeProcess /\ r.pc = pc /\ r.name = p.name /\ r.place = p.place /\ r.snap = p.snap
      /\ r.force = p.force /\ r.id = p.id /\ r.pass = p.pass
  BY <1>1, Turned
<1>. HIDE DEF r
<1>4. Fits(r)
  BY <1>1, <1>3 DEF Fits, Writing, Making, p
<1>5. raced \/ UpToDate(r, config, backend, asked' \cup overwritten')
  <2>1. SUFFICES ASSUME ~raced PROVE UpToDate(r, config, backend, asked' \cup overwritten')
    OBVIOUS
  <2>2. r.pc \notin Writing
    BY <1>3
  <2>3. r.pc \in OnStack => Leads(config, r.place, r.name)
    BY <1>1, <1>3, <2>1 DEF UpToDate, p
  <2>4. r.pc \in Forgetting => r.pc = "confirm"
    BY <1>3 DEF Forgetting, Writing
  <2>5. r.pc \in Forgetting /\ ~r.force => \A u \in Urls : backend[u][r.name].outputs => <<u, r.name>> \in asked' \cup overwritten'
    BY <1>3, <2>1, <2>4 DEF p
  <2>. QED  BY <2>2, <2>3, <2>5 DEF UpToDate
<1>6. r.pc \notin Making /\ r.pc # "open" /\ r.pc \notin Registering
  BY <1>3 DEF Registering, Writing
<1>. QED  BY <1>2, <1>3, <1>4, <1>5, <1>6, QuietStep DEF p, HomeFrame

(* And with the config read, to write it or to register on it.                *)
LEMMA Reads ==
  ASSUME HomeInv, NEW q \in Procs, proc[q].pc # "idle", HomeFrame,
         NEW pc \in Writing,
         proc' = [proc EXCEPT ![q].pc = pc, ![q].snap = config],
         pc \in {"save", "forget"} => config.there,
         pc \in Registering => ~stackCapRefusal(config, proc[q].name),
         pc = "forget" => proc[q].pc = "confirm"
  PROVE  HomeInv'
<1>. DEFINE p == proc[q]
<1>0. PICK r : r = [p EXCEPT !.pc = pc, !.snap = config]
  OBVIOUS
<1>1. /\ p \in HomeProcess /\ Fits(p) /\ config \in Configs /\ Sound(config)
      /\ raced \/ UpToDate(p, config, backend, asked \cup overwritten)
  BY AtWork
<1>2. Held(q, r)
  BY <1>0 DEF HomeFrame, Held
<1>3. pc \in HomePcs /\ pc \notin OnStack /\ pc \notin Making /\ pc # "open" /\ pc # "idle"
  BY DEF Writing, HomePcs, OnStack, Making
<1>. HIDE DEF p
<1>4. /\ r \in HomeProcess /\ r.pc = pc /\ r.snap = config
      /\ r.name = p.name /\ r.place = p.place /\ r.force = p.force /\ r.id = p.id /\ r.pass = p.pass
  BY <1>0, <1>1, <1>3 DEF HomeProcess
<1>5. Fits(r)
  BY <1>1, <1>3, <1>4 DEF Fits, p
<1>6. raced \/ UpToDate(r, config, backend, asked' \cup overwritten')
  <2>1. SUFFICES ASSUME ~raced PROVE UpToDate(r, config, backend, asked' \cup overwritten')
    OBVIOUS
  <2>2. UpToDate(p, config, backend, asked' \cup overwritten')
    <3>1. asked \cup overwritten \subseteq asked' \cup overwritten'
      BY DEF HomeFrame
    <3>. QED  BY <1>1, <2>1, <3>1, MoreGivenUp
  <2>3. r.pc \in Forgetting /\ ~r.force => p.pc \in Forgetting /\ ~p.force
    BY <1>4 DEF Writing, Forgetting, p
  <2>. QED  BY <1>3, <1>4, <2>2, <2>3 DEF UpToDate
<1>. QED  BY <1>1, <1>2, <1>3, <1>4, <1>5, <1>6, QuietStep DEF p, HomeFrame

HomeStill == UNCHANGED <<config, passFile, backend, commands, raced, firstUses, lowered, overwritten>>

(* A step that touches none of the files leaves the frame as it was.         *)
LEMMA StillIsFrame ==
  ASSUME HomeInv, HomeStill, UNCHANGED <<localState, asked>>
  PROVE  HomeFrame
  BY DEF HomeInv, HomeType, HomeStill, HomeFrame

(* `init` reads the config.                                                  *)
LEMMA InitReadKeeps ==
  ASSUME HomeInv, NEW q \in Procs, InitRead(q)
  PROVE  HomeInv'
<1>1. proc[q].pc = "init" /\ HomeFrame
  BY StillIsFrame DEF InitRead, At, Steps, HomeStill
<1>2. CASE End(q)
  BY <1>1, <1>2, EndsQuietly
<1>3. CASE /\ ~stackCapRefusal(config, proc[q].name)
           /\ proc' = [proc EXCEPT ![q].pc = "account", ![q].snap = config]
  BY <1>1, <1>3, Reads DEF Writing
<1>. QED  BY <1>2, <1>3 DEF InitRead

(* A wizard that holds limits, or goes on to save them, has written nothing. *)
LEMMA LimitsKept ==
  ASSUME HomeInv, NEW q \in Procs, proc[q].pc # "idle", HomeFrame,
         \/ \E cap \in Caps : proc' = [proc EXCEPT ![q].limits = {cap}, ![q].pc = "limits"]
         \/ proc' = [proc EXCEPT ![q].pc = "limits", ![q].last = TRUE]
  PROVE  HomeInv'
<1>. DEFINE p == proc[q]
<1>0. PICK r : /\ proc' = [proc EXCEPT ![q] = r]
               /\ \/ \E cap \in Caps : r = [p EXCEPT !.limits = {cap}, !.pc = "limits"]
                  \/ r = [p EXCEPT !.pc = "limits", !.last = TRUE]
  <2>1. CASE \E cap \in Caps : proc' = [proc EXCEPT ![q].limits = {cap}, ![q].pc = "limits"]
    <3>1. PICK cap \in Caps : proc' = [proc EXCEPT ![q].limits = {cap}, ![q].pc = "limits"]
      BY <2>1
    <3>2. proc' = [proc EXCEPT ![q] = [p EXCEPT !.limits = {cap}, !.pc = "limits"]]
      BY <3>1
    <3>. QED  BY <3>2
  <2>2. CASE proc' = [proc EXCEPT ![q].pc = "limits", ![q].last = TRUE]
    <3>1. proc' = [proc EXCEPT ![q] = [p EXCEPT !.pc = "limits", !.last = TRUE]]
      BY <2>2
    <3>. QED  BY <3>1
  <2>. QED  BY <2>1, <2>2
<1>1. p \in HomeProcess /\ Fits(p)
  BY AtWork
<1>2. Held(q, r)
  BY <1>0 DEF HomeFrame, Held
<1>. HIDE DEF p
<1>3. "limits" \in HomePcs
  BY DEF HomePcs
<1>4. /\ r \in HomeProcess /\ r.pc = "limits" /\ r.snap = p.snap
      /\ r.name = p.name /\ r.id = p.id
  <2>1. CASE \E cap \in Caps : r = [p EXCEPT !.limits = {cap}, !.pc = "limits"]
    <3>1. PICK L \in SUBSET Caps : r = [p EXCEPT !.limits = L, !.pc = "limits"]
      BY <2>1
    <3>. QED  BY <1>1, <1>3, <3>1 DEF HomeProcess
  <2>2. CASE r = [p EXCEPT !.pc = "limits", !.last = TRUE]
    BY <1>1, <1>3, <2>2 DEF HomeProcess
  <2>. QED  BY <1>0, <2>1, <2>2
<1>5. Fits(r)
  BY <1>1, <1>4 DEF Fits, OnStack, p
<1>6. UpToDate(r, config, backend, asked' \cup overwritten')
  BY <1>4 DEF UpToDate, Writing, OnStack, Forgetting
<1>. QED  BY <1>2, <1>4, <1>5, <1>6, QuietStep DEF p, HomeFrame, Making, Registering

(* The steps a command may take to with nothing to know.                      *)
LEMMA PlainSteps ==
  /\ {"name", "limits", "register", "bootstrap", "context", "policy", "confirm"} \subseteq
       HomePcs \ (Writing \cup Making \cup OnStack \cup {"open"})
  /\ {"up", "sure", "destroy", "outputs"} \subseteq OnStack \cap (HomePcs \ (Writing \cup Making \cup {"open"}))
  BY DEF HomePcs, Writing, Making, OnStack

(* The prompt for a spending policy.                                         *)
LEMMA PromptKeeps ==
  ASSUME HomeInv, NEW q \in Procs, promptSpendingPolicy(q)
  PROVE  HomeInv'
<1>1. proc[q].pc = "policy" /\ HomeFrame
  BY StillIsFrame DEF promptSpendingPolicy, At, Steps, HomeStill
<1>2. CASE Goto(q, "name")
  BY <1>1, <1>2, GoesOn, PlainSteps
<1>3. CASE \E cap \in Caps : proc' = [proc EXCEPT ![q].limits = {cap}, ![q].pc = "limits"]
  BY <1>1, <1>3, LimitsKept
<1>. QED  BY <1>2, <1>3 DEF promptSpendingPolicy

(* The config is read before limits are saved, or there is none yet.         *)
LEMMA ReadForPolicyKeeps ==
  ASSUME HomeInv, NEW q \in Procs, ReadForPolicy(q)
  PROVE  HomeInv'
<1>1. proc[q].pc = "limits" /\ HomeFrame
  BY StillIsFrame DEF ReadForPolicy, At, Steps, HomeStill
<1>2. CASE requireConfig
  <2>1. proc' = [proc EXCEPT ![q].pc = "save", ![q].snap = config]
    BY <1>2 DEF ReadForPolicy
  <2>2. config.there
    BY <1>2 DEF requireConfig
  <2>. QED  BY <1>1, <2>1, <2>2, Reads DEF Writing, Registering
<1>3. CASE ~requireConfig
  <2>1. End(q) \/ Goto(q, "name")
    BY <1>3 DEF ReadForPolicy, After
  <2>2. CASE End(q)
    BY <1>1, <2>2, EndsQuietly
  <2>3. CASE Goto(q, "name")
    BY <1>1, <2>3, GoesOn, PlainSteps
  <2>. QED  BY <2>1, <2>2, <2>3
<1>. QED  BY <1>2, <1>3

(* A command that is done; the wizard then saves limits it still holds.      *)
LEMMA FinishKeeps ==
  ASSUME HomeInv, NEW q \in Procs, proc[q].pc # "idle", HomeFrame, Finish(q)
  PROVE  HomeInv'
<1>1. End(q) \/ proc' = [proc EXCEPT ![q].pc = "limits", ![q].last = TRUE]
  BY DEF Finish
<1>2. CASE End(q)
  BY <1>2, EndsQuietly
<1>3. CASE proc' = [proc EXCEPT ![q].pc = "limits", ![q].last = TRUE]
  BY <1>3, LimitsKept
<1>. QED  BY <1>1, <1>2, <1>3

(* The wizard takes a name, which is refused beyond the cap.                 *)
LEMMA WizardNameKeeps ==
  ASSUME HomeInv, NEW q \in Procs, WizardName(q)
  PROVE  HomeInv'
<1>1. proc[q].pc = "name" /\ HomeFrame
  BY StillIsFrame DEF WizardName, At, Steps, HomeStill
<1>2. End(q) \/ Finish(q) \/ Goto(q, "context") \/ Goto(q, "register")
  BY DEF WizardName
<1>3. CASE End(q)
  BY <1>1, <1>3, EndsQuietly
<1>4. CASE Finish(q)
  BY <1>1, <1>4, FinishKeeps
<1>5. CASE Goto(q, "context")
  BY <1>1, <1>5, GoesOn, PlainSteps
<1>6. CASE Goto(q, "register")
  BY <1>1, <1>6, GoesOn, PlainSteps
<1>. QED  BY <1>2, <1>3, <1>4, <1>5, <1>6

(* A local deployment reads the config again, and is refused beyond the cap. *)
LEMMA WizardReadKeeps ==
  ASSUME HomeInv, NEW q \in Procs, WizardRead(q)
  PROVE  HomeInv'
<1>1. proc[q].pc = "register" /\ HomeFrame
  BY StillIsFrame DEF WizardRead, At, Steps, HomeStill
<1>2. CASE End(q)
  BY <1>1, <1>2, EndsQuietly
<1>3. CASE /\ ~stackCapRefusal(config, proc[q].name)
           /\ proc' = [proc EXCEPT ![q].pc = "registered", ![q].snap = config]
  BY <1>1, <1>3, Reads DEF Writing
<1>. QED  BY <1>2, <1>3 DEF WizardRead

(* `destroy` asks, having looked the stack up.                               *)
LEMMA SureKeeps ==
  ASSUME HomeInv, NEW q \in Procs, Sure(q)
  PROVE  HomeInv'
<1>1. proc[q].pc = "sure" /\ HomeFrame
  BY StillIsFrame DEF Sure, At, Steps, HomeStill
<1>2. CASE End(q)
  BY <1>1, <1>2, EndsQuietly
<1>3. CASE Goto(q, "destroy")
  <2>1. proc[q].pc \in OnStack
    BY <1>1, PlainSteps
  <2>. QED  BY <1>1, <1>3, <2>1, GoesOn, PlainSteps
<1>. QED  BY <1>2, <1>3 DEF Sure

(* A local bootstrap, which writes its state file last.                      *)
LEMMA BootstrapKeeps ==
  ASSUME HomeInv, NEW q \in Procs, Bootstrap(q)
  PROVE  HomeInv'
<1>1. proc[q].pc = "bootstrap"
  BY DEF Bootstrap, At
<1>2. proc[q].name \in Names
  BY <1>1, AtWork
<1>3. localState' \in {localState, localState \cup {proc[q].name}}
  BY DEF Bootstrap
<1>4. HomeFrame
  BY <1>2, <1>3 DEF Bootstrap, ghosts, HomeFrame, HomeInv, HomeType
<1>5. End(q) \/ Finish(q)
  BY DEF Bootstrap
<1>. QED  BY <1>1, <1>4, <1>5, EndsQuietly, FinishKeeps

(* A command that is killed, at any step.                                    *)
LEMMA KilledKeeps ==
  ASSUME HomeInv, NEW q \in Procs, Killed(q)
  PROVE  HomeInv'
<1>1. proc[q].pc # "idle" /\ End(q) /\ HomeFrame
  BY StillIsFrame DEF Killed, Free, ghosts, HomeStill
<1>. QED  BY <1>1, EndsQuietly

(* A deletion refuses a stack that is not there, the only one, or the        *)
(* default.                                                                  *)
LEMMA CheckKeeps ==
  ASSUME HomeInv, NEW q \in Procs, checkStackDelete(q)
  PROVE  HomeInv'
<1>1. proc[q].pc = "check" /\ HomeFrame
  BY StillIsFrame DEF checkStackDelete, At, Steps, HomeStill
<1>2. \/ End(q) \/ Goto(q, "context")
      \/ proc[q].force /\ Goto(q, "confirm")
  BY DEF checkStackDelete
<1>3. CASE End(q)
  BY <1>1, <1>3, EndsQuietly
<1>4. CASE Goto(q, "context")
  BY <1>1, <1>4, GoesOn, PlainSteps
<1>5. CASE proc[q].force /\ Goto(q, "confirm")
  BY <1>1, <1>5, GoesOn, PlainSteps
<1>. QED  BY <1>2, <1>3, <1>4, <1>5

(* A deletion is confirmed, and reads the config afresh.                     *)
LEMMA ConfirmKeeps ==
  ASSUME HomeInv, NEW q \in Procs, ConfirmDelete(q)
  PROVE  HomeInv'
<1>1. proc[q].pc = "confirm" /\ HomeFrame
  BY StillIsFrame DEF ConfirmDelete, At, Steps, HomeStill
<1>2. CASE End(q)
  BY <1>1, <1>2, EndsQuietly
<1>3. CASE requireConfig /\ proc' = [proc EXCEPT ![q].pc = "forget", ![q].snap = config]
  BY <1>1, <1>3, Reads DEF Writing, Registering, requireConfig
<1>. QED  BY <1>2, <1>3 DEF ConfirmDelete

(* What a warning gives up is what the config leads to, and a deletion that   *)
(* runs alone knows of nothing else.                                          *)
LEMMA GivenUp ==
  ASSUME HomeInv, NEW n \in Names, ~raced,
         NEW A, asked \cup overwritten \subseteq A,
         \A m \in {n} \cap DOMAIN config.stacks : <<config.stacks[m], m>> \in A
  PROVE  \A u \in Urls : backend[u][n].outputs => <<u, n>> \in A
<1>1. Listed(config, backend, asked \cup overwritten)
  BY DEF HomeInv, ListInv
<1>2. SUFFICES ASSUME NEW u \in Urls, backend[u][n].outputs PROVE <<u, n>> \in A
  OBVIOUS
<1>3. Leads(config, u, n) \/ <<u, n>> \in asked \cup overwritten
  BY <1>1, <1>2 DEF Listed
<1>. QED  BY <1>3 DEF Leads, Has

(* A command that fails: a deletion warns and goes on, any other ends.       *)
LEMMA FailsKeeps ==
  ASSUME HomeInv, NEW q \in Procs, proc[q].pc # "idle", HomeStill,
         UNCHANGED localState, Fails(q)
  PROVE  HomeInv'
<1>. DEFINE n == proc[q].name
            given == {<<config.stacks[m], m>> : m \in {n} \cap DOMAIN config.stacks}
<1>1. n \in Names
  BY AtWork
<1>2. CASE Goto(q, "confirm") /\ asked' = asked \cup given
  <2>1. given \subseteq Places \X Names
    BY <1>1, AtWork, ConfigIs
  <2>2. HomeFrame
    BY <1>2, <2>1 DEF HomeStill, HomeFrame, HomeInv, HomeType
  <2>3. \A m \in {n} \cap DOMAIN config.stacks : <<config.stacks[m], m>> \in asked' \cup overwritten'
    BY <1>2
  <2>4. asked \cup overwritten \subseteq asked' \cup overwritten'
    BY <2>2 DEF HomeFrame
  <2>. HIDE DEF n, given
  <2>5. raced \/ \A u \in Urls : backend[u][n].outputs => <<u, n>> \in asked' \cup overwritten'
    BY <1>1, <2>3, <2>4, GivenUp
  <2>. QED  BY <1>2, <2>2, <2>5, GoesOn, PlainSteps DEF n
<1>3. CASE End(q) /\ UNCHANGED asked
  BY <1>3, EndsQuietly, StillIsFrame
<1>. QED  BY <1>2, <1>3 DEF Fails

(* The context of a command finds the stack the config leads to.              *)
LEMMA BuildContextKeeps ==
  ASSUME HomeInv, NEW q \in Procs, buildContext(q)
  PROVE  HomeInv'
<1>. DEFINE p == proc[q]
            n == proc[q].name
<1>1. p.pc = "context" /\ HomeStill /\ UNCHANGED localState
  BY DEF buildContext, At, Steps, HomeStill
<1>2. /\ p \in HomeProcess /\ Fits(p) /\ n \in Names /\ config \in Configs
      /\ raced \/ UpToDate(p, config, backend, asked \cup overwritten)
  BY <1>1, AtWork
<1>3. CASE Fails(q)
  BY <1>1, <1>3, FailsKeeps
<1>4. CASE Has(config, n) /\ config.stacks[n] = "local" /\ UNCHANGED asked /\ LocalContext(q)
  <2>1. HomeFrame
    BY <1>1, <1>4, StillIsFrame
  <2>2. End(q) \/ Goto(q, "confirm") \/ Goto(q, "bootstrap")
    BY <1>4 DEF LocalContext
  <2>3. CASE End(q)
    BY <1>1, <2>1, <2>3, EndsQuietly
  <2>4. CASE Goto(q, "bootstrap")
    BY <1>1, <2>1, <2>4, GoesOn, PlainSteps
  <2>5. CASE Goto(q, "confirm")
    <3>1. ASSUME ~raced, NEW u \in Urls, backend[u][n].outputs
          PROVE  <<u, n>> \in asked' \cup overwritten'
      <4>1. Listed(config, backend, asked \cup overwritten)
        BY <3>1 DEF HomeInv, ListInv
      <4>2. u # "local"
        BY HomeConstants
      <4>3. ~Leads(config, u, n)
        BY <1>4, <4>2 DEF Leads
      <4>. QED  BY <1>1, <1>2, <1>4, <3>1, <4>1, <4>3 DEF Listed, HomeStill
    <3>. QED  BY <1>1, <2>1, <2>5, <3>1, GoesOn, PlainSteps
  <2>. QED  BY <2>2, <2>3, <2>4, <2>5
<1>5. CASE /\ Has(config, n) /\ config.stacks[n] # "local" /\ UNCHANGED asked
           /\ proc' = [proc EXCEPT ![q].pc = "passphrase", ![q].place = config.stacks[n]]
  <2>1. PICK r : r = [p EXCEPT !.pc = "passphrase", !.place = config.stacks[n]]
    OBVIOUS
  <2>2. HomeFrame
    BY <1>1, <1>5, StillIsFrame
  <2>3. Held(q, r)
    BY <1>5, <2>1, <2>2 DEF HomeFrame, Held
  <2>4. config.stacks[n] \in Urls /\ config.stacks[n] \in Places
    BY <1>2, <1>5, ConfigIs DEF Has, Places
  <2>5. "passphrase" \in HomePcs
    BY DEF HomePcs
  <2>. HIDE DEF p
  <2>6. /\ r \in HomeProcess /\ r.pc = "passphrase" /\ r.place = config.stacks[n]
        /\ r.name = p.name /\ r.snap = p.snap /\ r.id = p.id
    BY <1>2, <2>1, <2>4, <2>5 DEF HomeProcess
  <2>7. Fits(r)
    BY <1>1, <1>2, <2>4, <2>6 DEF Fits, OnStack, p
  <2>8. UpToDate(r, config, backend, asked' \cup overwritten')
    BY <1>5, <2>6 DEF UpToDate, Writing, Forgetting, Leads, p
  <2>. QED  BY <1>1, <2>2, <2>3, <2>6, <2>7, <2>8, QuietStep DEF p, HomeFrame, Making, Registering
<1>. QED  BY <1>3, <1>4, <1>5 DEF buildContext

(* The check of the Pulumi CLI, which may fail.                              *)
LEMMA PulumiCliKeeps ==
  ASSUME HomeInv, NEW q \in Procs, ensurePulumiCli(q)
  PROVE  HomeInv'
<1>1. proc[q].pc = "passphrase" /\ HomeStill /\ UNCHANGED localState /\ Fails(q)
  BY DEF ensurePulumiCli, At, Steps, HomeStill
<1>. QED  BY <1>1, FailsKeeps

(* A stack without outputs where the config leads is not deployed there.      *)
LEMMA DeployedKeeps ==
  ASSUME HomeInv, NEW q \in Procs, isStackDeployed(q)
  PROVE  HomeInv'
<1>. DEFINE p == proc[q]
<1>1. p.pc = "outputs" /\ HomeStill /\ UNCHANGED localState
  BY DEF isStackDeployed, At, Steps, HomeStill
<1>2. CASE Fails(q)
  BY <1>1, <1>2, FailsKeeps
<1>3. CASE UNCHANGED asked /\ End(q)
  BY <1>1, <1>3, EndsQuietly, StillIsFrame
<1>4. CASE UNCHANGED asked /\ ~backend[p.place][p.name].outputs /\ Goto(q, "confirm")
  <2>1. HomeFrame
    BY <1>1, <1>4, StillIsFrame
  <2>2. p.name \in Names /\ (raced \/ UpToDate(p, config, backend, asked \cup overwritten))
    BY <1>1, AtWork
  <2>3. ASSUME ~raced, NEW u \in Urls, backend[u][p.name].outputs
        PROVE  <<u, p.name>> \in asked' \cup overwritten'
    <3>1. Listed(config, backend, asked \cup overwritten)
      BY <2>3 DEF HomeInv, ListInv
    <3>2. Leads(config, p.place, p.name)
      BY <1>1, <2>2, <2>3 DEF UpToDate, OnStack
    <3>3. u # p.place
      BY <1>4, <2>3
    <3>4. ~Leads(config, u, p.name)
      BY <3>2, <3>3 DEF Leads
    <3>. QED  BY <1>1, <1>4, <2>2, <2>3, <3>1, <3>4 DEF Listed, HomeStill
  <2>. QED  BY <1>1, <2>1, <1>4, <2>3, GoesOn, PlainSteps
<1>. QED  BY <1>2, <1>3, <1>4 DEF isStackDeployed

-----------------------------------------------------------------------------
(* The steps that write the config. *)

(* What a registration replaces is given up, and nothing else changes place.  *)
LEMMA MergeLists ==
  ASSUME NEW c \in Configs, NEW n \in Names, NEW u \in Places,
         NEW b, NEW A, NEW B, Listed(c, b, A), A \subseteq B, Replaced(c, n, u) \subseteq B
  PROVE  Listed(merge(c, n, u), b, B)
<1>1. PICK d : d = merge(c, n, u)
  OBVIOUS
<1>2. /\ \A m : Has(d, m) <=> Has(c, m) \/ m = n
      /\ d.stacks[n] = u
      /\ \A m : Has(c, m) /\ m # n => d.stacks[m] = c.stacks[m]
  BY <1>1, MergeIs
<1>3. SUFFICES ASSUME NEW w \in Urls, NEW m \in Names, b[w][m].outputs, <<w, m>> \notin B
               PROVE  Leads(d, w, m)
  BY <1>1 DEF Listed
<1>4. Leads(c, w, m)
  BY <1>3 DEF Listed
<1>5. CASE m # n
  BY <1>2, <1>4, <1>5 DEF Leads
<1>6. CASE m = n
  <2>1. c.stacks[n] = w /\ Has(c, n)
    BY <1>4, <1>6 DEF Leads
  <2>2. w = u
    BY <1>3, <1>6, <2>1 DEF Replaced
  <2>. QED  BY <1>2, <1>6, <2>2 DEF Leads
<1>. QED  BY <1>5, <1>6

(* What a registration replaces is stacks at their places.                   *)
LEMMA ReplacedIs ==
  ASSUME NEW c \in Configs, NEW n \in Names, NEW u \in Places
  PROVE  Replaced(c, n, u) \subseteq Places \X Names
  BY ConfigIs DEF Replaced, Has

(* A registration writes what was read with the one stack added: within the  *)
(* cap, and losing none when it runs alone.                                  *)
LEMMA RegisterKeeps ==
  ASSUME HomeInv, NEW q \in Procs, proc[q].pc \in Registering,
         NEW r \in HomeProcess, Held(q, r), Fits(r), r.pc \in {"idle", "bootstrap"},
         r.snap \in {proc[q].snap, NoConfig},
         UNCHANGED <<backend, lowered>>,
         config' = merge(proc[q].snap, proc[q].name, proc[q].place),
         Replaced(proc[q].snap, proc[q].name, proc[q].place) \subseteq asked' \cup overwritten'
  PROVE  HomeInv'
<1>. DEFINE p == proc[q]
<1>1. /\ p \in HomeProcess /\ Fits(p) /\ p.snap \in Configs /\ p.place \in Places /\ p.pc # "idle"
      /\ p.name \in Names
      /\ raced \/ UpToDate(p, config, backend, asked \cup overwritten)
  BY AtWork DEF Registering
<1>2. HomeType /\ CapInv /\ PassInv /\ ListInv
  BY DEF HomeInv
<1>3. config' \in Configs /\ Sound(config')
  BY <1>1, MergeIs
<1>4. lowered' \/ InCap(config')
  <2>1. SUFFICES ASSUME ~lowered PROVE InCap(config')
    OBVIOUS
  <2>2. MayRegister(p)
    BY <1>2, <2>1 DEF CapInv
  <2>3. Sound(p.snap) /\ InCap(p.snap) /\ ~stackCapRefusal(p.snap, p.name)
    BY <1>1, <2>2 DEF MayRegister, Fits
  <2>. QED  BY <1>1, <2>3, MergeInCap
<1>5. raced \/ Listed(config', backend', asked' \cup overwritten')
  <2>1. SUFFICES ASSUME ~raced PROVE Listed(config', backend, asked' \cup overwritten')
    OBVIOUS
  <2>2. p.snap = config
    BY <1>1, <2>1 DEF UpToDate, Writing, Registering
  <2>3. Listed(config, backend, asked \cup overwritten)
    BY <1>2, <2>1 DEF ListInv
  <2>4. asked \cup overwritten \subseteq asked' \cup overwritten'
    BY DEF Held
  <2>. HIDE DEF p
  <2>5. Listed(p.snap, backend, asked \cup overwritten)
    BY <2>2, <2>3
  <2>6. config' = merge(p.snap, p.name, p.place) /\ Replaced(p.snap, p.name, p.place) \subseteq asked' \cup overwritten'
    BY DEF p
  <2>. QED  BY <1>1, <2>4, <2>5, <2>6, MergeLists
<1>6. UpToDate(r, config', backend', asked' \cup overwritten')
  BY DEF UpToDate, Writing, OnStack, Forgetting
<1>7. /\ backend' \in [Urls -> [Names -> PulumiStack]] /\ lowered' \in BOOLEAN
      /\ firstUses \/ \A u \in Urls, n \in Names : backend'[u][n].pass \in {0, Operator, passFile}
  BY <1>2 DEF HomeType, PassInv
<1>. QED  BY <1>1, <1>3, <1>4, <1>5, <1>6, <1>7, CommandStep DEF p, Making, Registering

(* `init` merges its stack into the config it read.                          *)
LEMMA InitWriteKeeps ==
  ASSUME HomeInv, NEW q \in Procs, InitWrite(q)
  PROVE  HomeInv'
<1>. DEFINE p == proc[q]
<1>1. p.pc = "account" /\ End(q)
      /\ UNCHANGED <<passFile, backend, localState, commands, raced, firstUses, lowered, overwritten>>
  BY DEF InitWrite, At, Steps
<1>2. CASE UNCHANGED <<config, asked>>
  BY <1>1, <1>2, EndsQuietly, StillIsFrame DEF HomeStill
<1>3. CASE /\ config' = merge(p.snap, p.name, p.place)
           /\ asked' = asked \cup Replaced(p.snap, p.name, p.place)
  <2>1. Replaced(p.snap, p.name, p.place) \subseteq Places \X Names
    BY <1>1, AtWork, ReplacedIs
  <2>2. Held(q, AtRest)
    BY <1>1, <1>3, <2>1 DEF End, Held, HomeInv, HomeType
  <2>3. p.pc \in Registering /\ Replaced(p.snap, p.name, p.place) \subseteq asked' \cup overwritten'
    BY <1>1, <1>3 DEF Registering
  <2>. QED  BY <1>1, <1>3, <2>2, <2>3, RestFits, HomeConstants, RegisterKeeps
<1>. QED  BY <1>2, <1>3 DEF InitWrite, setConfig

(* The wizard registers a local stack before its bootstrap.                  *)
LEMMA LocalDeployKeeps ==
  ASSUME HomeInv, NEW q \in Procs, runLocalDeploy(q)
  PROVE  HomeInv'
<1>. DEFINE p == proc[q]
<1>1. /\ p.pc = "registered" /\ Goto(q, "bootstrap")
      /\ UNCHANGED <<passFile, backend, localState, commands, raced, firstUses, lowered, asked>>
      /\ config' = merge(p.snap, p.name, p.place)
      /\ overwritten' = overwritten \cup Replaced(p.snap, p.name, p.place)
  BY DEF runLocalDeploy, At, Steps, setConfig
<1>2. p \in HomeProcess /\ Fits(p)
  BY AtWork
<1>3. PICK r : r = [p EXCEPT !.pc = "bootstrap"]
  OBVIOUS
<1>4. proc' = [proc EXCEPT ![q] = r]
  BY <1>1, <1>3 DEF Goto
<1>5. Replaced(p.snap, p.name, p.place) \subseteq Places \X Names
  BY <1>1, AtWork, ReplacedIs
<1>6. Held(q, r)
  BY <1>1, <1>4, <1>5 DEF Held, HomeInv, HomeType
<1>7. p.pc \in Registering /\ Replaced(p.snap, p.name, p.place) \subseteq asked' \cup overwritten'
  BY <1>1 DEF Registering
<1>. HIDE DEF p
<1>8. "bootstrap" \in HomePcs
  BY DEF HomePcs
<1>9. r \in HomeProcess /\ r.pc = "bootstrap" /\ r.snap = p.snap /\ r.name = p.name /\ r.id = p.id
  BY <1>2, <1>3, <1>8 DEF HomeProcess
<1>10. Fits(r)
  BY <1>1, <1>2, <1>9 DEF Fits, OnStack
<1>. QED  BY <1>1, <1>6, <1>7, <1>9, <1>10, RegisterKeeps DEF p

(* The limits are written over what was read, whatever its cap.              *)
LEMMA SavePolicyKeeps ==
  ASSUME HomeInv, NEW q \in Procs, savePolicy(q)
  PROVE  HomeInv'
<1>. DEFINE p == proc[q]
<1>1. /\ p.pc = "save"
      /\ UNCHANGED <<passFile, backend, localState, commands, raced, firstUses, asked, overwritten>>
  BY DEF savePolicy, At, Steps
<1>2. PICK cap \in p.limits : /\ config' = [p.snap EXCEPT !.max = cap]
                              /\ lowered' = (lowered \/ (cap # 0 /\ Card(p.snap) > cap))
  BY DEF savePolicy, setConfig
<1>3. /\ p \in HomeProcess /\ Fits(p) /\ p.snap \in Configs /\ p.name \in Names /\ cap \in Caps
      /\ raced \/ UpToDate(p, config, backend, asked \cup overwritten)
  BY <1>1, AtWork
<1>4. p.snap.there
  BY <1>1, <1>3 DEF Fits
<1>5. HomeType /\ CapInv /\ PassInv /\ ListInv
  BY DEF HomeInv
<1>6. /\ config' \in Configs /\ config'.stacks = p.snap.stacks /\ Sound(config')
      /\ cap = 0 \/ Card(p.snap) <= cap => InCap(config')
  BY <1>2, <1>3, <1>4, CapIs
<1>7. lowered' \in BOOLEAN /\ (lowered => lowered')
  BY <1>2, <1>5 DEF HomeType
<1>8. lowered' \/ InCap(config')
  <2>1. Card(p.snap) \in Nat /\ cap \in Nat
    BY <1>3, CardIsNat, ConfigIs, HomeConstants
  <2>2. cap = 0 \/ Card(p.snap) <= cap \/ Card(p.snap) > cap
    BY <2>1
  <2>. QED  BY <1>2, <1>6, <2>2
<1>9. raced \/ Listed(config', backend', asked' \cup overwritten')
  <2>1. SUFFICES ASSUME ~raced PROVE Listed(config', backend, asked \cup overwritten)
    BY <1>1
  <2>2. p.snap = config /\ Listed(config, backend, asked \cup overwritten)
    BY <1>1, <1>3, <1>5, <2>1 DEF UpToDate, Writing, ListInv
  <2>. QED  BY <1>6, <2>2 DEF Listed, Leads, Has
<1>10. PICK r \in HomeProcess : /\ proc' = [proc EXCEPT ![q] = r] /\ Fits(r)
                                /\ r.pc \in {"idle", "name"} /\ r.snap \in {p.snap, NoConfig}
  <2>1. CASE End(q)
    BY <2>1, HomeConstants, RestFits DEF End
  <2>2. CASE proc' = [proc EXCEPT ![q].pc = "name", ![q].limits = {}]
    <3>1. PICK r : r = [p EXCEPT !.pc = "name", !.limits = {}]
      OBVIOUS
    <3>2. proc' = [proc EXCEPT ![q] = r]
      BY <2>2, <3>1
    <3>. HIDE DEF p
    <3>3. "name" \in HomePcs
      BY DEF HomePcs
    <3>4. r \in HomeProcess /\ r.pc = "name" /\ r.snap = p.snap /\ r.name = p.name /\ r.id = p.id
      BY <1>3, <3>1, <3>3 DEF HomeProcess
    <3>5. Fits(r)
      BY <1>1, <1>3, <3>4 DEF Fits, OnStack
    <3>. QED  BY <3>2, <3>4, <3>5
  <2>. QED  BY <2>1, <2>2 DEF savePolicy
<1>11. UpToDate(r, config', backend', asked' \cup overwritten')
  BY <1>10 DEF UpToDate, Writing, OnStack, Forgetting
<1>12. /\ backend' \in [Urls -> [Names -> PulumiStack]]
       /\ firstUses \/ \A u \in Urls, n \in Names : backend'[u][n].pass \in {0, Operator, passFile}
  BY <1>1, <1>5 DEF HomeType, PassInv
<1>13. Held(q, r)
  BY <1>1, <1>5, <1>10 DEF Held, HomeType
<1>. QED  BY <1>1, <1>6, <1>7, <1>8, <1>9, <1>10, <1>11, <1>12, <1>13, CommandStep DEF Making, Registering

(* A deletion writes what it read, without the entry.                        *)
LEMMA ForgetKeeps ==
  ASSUME HomeInv, NEW q \in Procs, deleteStackFromConfig(q)
  PROVE  HomeInv'
<1>. DEFINE p == proc[q]
<1>1. /\ p.pc = "forget" /\ End(q)
      /\ UNCHANGED <<passFile, backend, localState, commands, raced, firstUses, lowered, overwritten>>
  BY DEF deleteStackFromConfig, At, Steps
<1>2. config' \in Forgotten(p.snap, p.name)
  BY DEF deleteStackFromConfig, setConfig
<1>3. /\ p \in HomeProcess /\ Fits(p) /\ p.snap \in Configs /\ p.name \in Names
      /\ raced \/ UpToDate(p, config, backend, asked \cup overwritten)
  BY <1>1, AtWork
<1>4. p.snap.there
  BY <1>1, <1>3 DEF Fits
<1>5. HomeType /\ CapInv /\ PassInv /\ ListInv
  BY DEF HomeInv
<1>6. /\ config' \in Configs /\ Sound(config')
      /\ DOMAIN config'.stacks = DOMAIN p.snap.stacks \ {p.name}
      /\ \A m \in DOMAIN p.snap.stacks \ {p.name} : config'.stacks[m] = p.snap.stacks[m]
  BY <1>2, <1>3, <1>4, ForgottenIs
<1>7. lowered' \/ InCap(config')
  <2>1. SUFFICES ASSUME ~lowered PROVE InCap(config')
    BY <1>1
  <2>2. InCap(p.snap)
    BY <1>5, <2>1 DEF CapInv, MayRegister
  <2>. QED  BY <1>2, <1>3, <1>4, <2>2, ForgottenInCap
<1>8. asked' = IF p.force THEN asked \cup {<<p.snap.stacks[m], m>> : m \in {p.name} \cap DOMAIN p.snap.stacks} ELSE asked
  BY DEF deleteStackFromConfig
<1>9. asked \subseteq asked' /\ asked' \subseteq Places \X Names
  <2>1. {<<p.snap.stacks[m], m>> : m \in {p.name} \cap DOMAIN p.snap.stacks} \subseteq Places \X Names
    BY <1>3, ConfigIs
  <2>2. asked \subseteq Places \X Names
    BY <1>5 DEF HomeType
  <2>. QED  BY <1>8, <2>1, <2>2
<1>10. raced \/ Listed(config', backend', asked' \cup overwritten')
  <2>1. SUFFICES ASSUME ~raced, NEW u \in Urls, NEW n \in Names, backend[u][n].outputs,
                        <<u, n>> \notin asked' \cup overwritten'
                 PROVE  Leads(config', u, n)
    BY <1>1 DEF Listed
  <2>2. UpToDate(p, config, backend, asked \cup overwritten) /\ Listed(config, backend, asked \cup overwritten)
    BY <1>3, <1>5, <2>1 DEF ListInv
  <2>3. p.snap = config
    BY <1>1, <2>2 DEF UpToDate, Writing
  <2>4. <<u, n>> \notin asked \cup overwritten
    BY <1>1, <1>9, <2>1
  <2>5. n \in DOMAIN p.snap.stacks /\ p.snap.stacks[n] = u
    BY <2>1, <2>2, <2>3, <2>4 DEF Listed, Leads, Has
  <2>6. n # p.name
    <3>1. CASE p.force
      BY <1>8, <2>1, <2>5, <3>1
    <3>2. CASE ~p.force
      BY <1>1, <2>1, <2>2, <2>4, <3>2 DEF UpToDate, Forgetting
    <3>. QED  BY <3>1, <3>2
  <2>. QED  BY <1>6, <2>5, <2>6 DEF Leads, Has
<1>11. UpToDate(AtRest, config', backend', asked' \cup overwritten')
  BY RestFits DEF UpToDate, Writing, OnStack, Forgetting
<1>12. /\ backend' \in [Urls -> [Names -> PulumiStack]] /\ lowered' \in BOOLEAN
       /\ firstUses \/ \A u \in Urls, n \in Names : backend'[u][n].pass \in {0, Operator, passFile}
  BY <1>1, <1>5 DEF HomeType, PassInv
<1>13. Held(q, AtRest)
  BY <1>1, <1>5, <1>9 DEF Held, HomeType, End
<1>. QED  BY <1>1, <1>6, <1>7, <1>10, <1>11, <1>12, <1>13, RestFits, HomeConstants, CommandStep DEF Making, Registering

-----------------------------------------------------------------------------
(* The steps that write a Pulumi stack. *)

Backends == [Urls -> [Names -> PulumiStack]]

(* What Pulumi may leave of a stack, and under which passphrase.             *)
LEMMA StackTurned ==
  ASSUME NEW s \in PulumiStack, NEW w \in Passphrases \cup {0}
  PROVE  /\ [s EXCEPT !.pass = w] \in PulumiStack /\ [s EXCEPT !.pass = w].pass = w
         /\ [s EXCEPT !.resources = TRUE, !.outputs = TRUE] \in PulumiStack
         /\ [s EXCEPT !.resources = TRUE, !.outputs = TRUE].pass = s.pass
         /\ [s EXCEPT !.resources = FALSE, !.outputs = FALSE] \in PulumiStack
         /\ [s EXCEPT !.resources = FALSE, !.outputs = FALSE].pass = s.pass
         /\ [s EXCEPT !.resources = TRUE] \in PulumiStack
         /\ [s EXCEPT !.resources = TRUE].pass = s.pass
  BY DEF PulumiStack

(* Only an update gives a stack its outputs, and only a destroy takes them.  *)
LEMMA StackOutputs ==
  ASSUME NEW s \in PulumiStack, NEW w \in Passphrases \cup {0}
  PROVE  /\ [s EXCEPT !.pass = w].outputs = s.outputs
         /\ [s EXCEPT !.resources = FALSE, !.outputs = FALSE].outputs = FALSE
         /\ [s EXCEPT !.resources = TRUE].outputs = s.outputs
  BY DEF PulumiStack

(* Only where the command's stack is may there be outputs there were not.     *)
LEMMA StackStep ==
  ASSUME HomeInv, NEW q \in Procs, proc[q].pc \in OnStack,
         NEW r \in HomeProcess, Fits(r), Held(q, r), r.pc \notin Making, r.pc # "open", r.pc \notin Writing \cup Forgetting,
         r.pc \in OnStack => r.name = proc[q].name /\ r.place = proc[q].place,
         r.snap \in {proc[q].snap, NoConfig},
         UNCHANGED <<config, lowered>>, backend' \in Backends,
         \A u \in Urls, n \in Names :
           backend'[u][n].outputs => backend[u][n].outputs \/ (u = proc[q].place /\ n = proc[q].name),
         firstUses \/ \A u \in Urls, n \in Names : backend'[u][n].pass \in {0, Operator, passFile}
  PROVE  HomeInv'
<1>. DEFINE p == proc[q]
<1>1. p.pc # "idle" /\ (raced \/ UpToDate(p, config, backend, asked \cup overwritten))
  BY AtWork DEF OnStack
<1>2. HomeType /\ CapInv /\ ListInv
  BY DEF HomeInv
<1>3. raced \/ Listed(config', backend', asked' \cup overwritten')
  <2>1. SUFFICES ASSUME ~raced, NEW u \in Urls, NEW n \in Names, backend'[u][n].outputs
                 PROVE  Leads(config, u, n) \/ <<u, n>> \in asked \cup overwritten
    BY DEF Listed, Held
  <2>2. Listed(config, backend, asked \cup overwritten) /\ Leads(config, p.place, p.name)
    BY <1>1, <1>2, <2>1 DEF ListInv, UpToDate
  <2>. QED  BY <2>1, <2>2 DEF Listed
<1>4. raced \/ UpToDate(r, config', backend', asked' \cup overwritten')
  BY <1>1 DEF UpToDate
<1>5. /\ config' \in Configs /\ Sound(config') /\ lowered' \in BOOLEAN /\ (lowered' \/ InCap(config'))
      /\ backend' \in [Urls -> [Names -> PulumiStack]]
  BY <1>2 DEF HomeType, CapInv, Backends
<1>6. r.pc \notin Registering
  BY DEF Writing, Registering
<1>. QED  BY <1>1, <1>3, <1>4, <1>5, <1>6, CommandStep DEF p

(* The end of a deploy leaves its process at rest or at the limits.          *)
LEMMA FinishIs ==
  ASSUME HomeInv, NEW q \in Procs, proc[q].pc # "idle", Finish(q)
  PROVE  \E r \in HomeProcess : /\ proc' = [proc EXCEPT ![q] = r] /\ Fits(r)
                                /\ r.pc \in {"idle", "limits"} /\ r.snap \in {proc[q].snap, NoConfig}
<1>1. CASE End(q)
  BY <1>1, HomeConstants, RestFits DEF End
<1>2. CASE proc' = [proc EXCEPT ![q].pc = "limits", ![q].last = TRUE]
  <2>. DEFINE p == proc[q]
  <2>1. PICK r : r = [p EXCEPT !.pc = "limits", !.last = TRUE]
    OBVIOUS
  <2>2. proc' = [proc EXCEPT ![q] = r]
    BY <1>2, <2>1
  <2>3. p \in HomeProcess /\ Fits(p) /\ "limits" \in HomePcs
    BY AtWork DEF HomePcs
  <2>. HIDE DEF p
  <2>4. r \in HomeProcess /\ r.pc = "limits" /\ r.snap = p.snap /\ r.name = p.name /\ r.id = p.id
    BY <2>1, <2>3 DEF HomeProcess
  <2>5. Fits(r)
    BY <2>3, <2>4 DEF Fits, OnStack, p
  <2>. QED  BY <2>2, <2>4, <2>5 DEF p
<1>. QED  BY <1>1, <1>2 DEF Finish

(* The end of a command leaves its process at rest or at the limits.         *)
LEMMA EndIs ==
  ASSUME NEW q \in Procs, End(q)
  PROVE  \E r \in HomeProcess : /\ proc' = [proc EXCEPT ![q] = r] /\ Fits(r)
                                /\ r.pc \in {"idle", "limits"} /\ r.snap \in {proc[q].snap, NoConfig}
  BY HomeConstants, RestFits DEF End

(* A command that ends with its stack updated or destroyed, under the        *)
(* passphrase it had.                                                        *)
LEMMA StackEnds ==
  ASSUME HomeInv, NEW q \in Procs, proc[q].pc \in OnStack,
         End(q) \/ Finish(q),
         UNCHANGED <<config, passFile, localState, commands, raced, firstUses, lowered, asked, overwritten>>,
         NEW s \in PulumiStack, s.pass = backend[proc[q].place][proc[q].name].pass,
         backend' = [backend EXCEPT ![proc[q].place] =
                       [backend[proc[q].place] EXCEPT ![proc[q].name] = s]]
  PROVE  HomeInv'
<1>. DEFINE p == proc[q]
<1>1. p.pc # "idle" /\ p.place \in Urls /\ p.name \in Names
  BY AtWork DEF OnStack, Fits
<1>2. HomeType /\ PassInv
  BY DEF HomeInv
<1>3. PICK r \in HomeProcess : /\ proc' = [proc EXCEPT ![q] = r] /\ Fits(r)
                               /\ r.pc \in {"idle", "limits"} /\ r.snap \in {p.snap, NoConfig}
  BY <1>1, FinishIs, EndIs
<1>4. backend \in Backends
  BY <1>2 DEF HomeType, Backends
<1>. HIDE DEF p
<1>5. /\ backend' \in Backends
      /\ \A w \in Urls, m \in Names : backend'[w][m] = IF w = p.place /\ m = p.name THEN s ELSE backend[w][m]
  BY <1>1, <1>4 DEF Backends, p
<1>6. \A w \in Urls, m \in Names : backend'[w][m].pass = backend[w][m].pass
  BY <1>5 DEF p
<1>7. firstUses \/ \A u \in Urls, n \in Names : backend'[u][n].pass \in {0, Operator, passFile}
  BY <1>2, <1>6 DEF PassInv
<1>8. \A u \in Urls, n \in Names : backend'[u][n].outputs => backend[u][n].outputs \/ (u = p.place /\ n = p.name)
  BY <1>5
<1>9. Held(q, r)
  BY <1>2, <1>3 DEF Held, HomeType
<1>10. r.pc \notin Making /\ r.pc # "open" /\ r.pc \notin Writing \cup Forgetting /\ r.pc \notin OnStack
  BY <1>3 DEF Making, Writing, Forgetting, OnStack
<1>. QED  BY <1>3, <1>5, <1>7, <1>8, <1>9, <1>10, StackStep DEF p

(* `pulumi up`, whichever way it ends.                                       *)
LEMMA UpKeeps ==
  ASSUME HomeInv, NEW q \in Procs, Up(q)
  PROVE  HomeInv'
<1>. DEFINE p == proc[q]
            s == backend[p.place][p.name]
<1>1. p.pc = "up"
      /\ UNCHANGED <<config, passFile, localState, commands, raced, firstUses, lowered, asked, overwritten>>
  BY DEF Up, At, ghosts
<1>2. p.pc \in OnStack
  BY <1>1 DEF OnStack
<1>3. p.place \in Urls /\ p.name \in Names
  BY <1>1, <1>2, AtWork DEF Fits
<1>4. s \in PulumiStack /\ backend \in Backends
  BY <1>3 DEF HomeInv, HomeType, Backends
<1>5. s.pass \in Passphrases \cup {0}
  BY <1>4 DEF PulumiStack
<1>6. CASE End(q) /\ UNCHANGED backend
  BY <1>1, <1>6, EndsQuietly, StillIsFrame DEF HomeStill
<1>7. CASE /\ End(q)
           /\ backend' = [backend EXCEPT ![p.place][p.name].resources = TRUE]
  <2>1. PICK t : t = [s EXCEPT !.resources = TRUE]
    OBVIOUS
  <2>2. backend' = [backend EXCEPT ![p.place] = [backend[p.place] EXCEPT ![p.name] = t]]
    BY <1>7, <2>1
  <2>3. t \in PulumiStack /\ t.pass = s.pass
    BY <1>4, <1>5, <2>1, StackTurned
  <2>. QED  BY <1>1, <1>2, <1>7, <2>2, <2>3, StackEnds
<1>8. CASE /\ Finish(q)
           /\ backend' = [backend EXCEPT ![p.place][p.name].resources = TRUE, ![p.place][p.name].outputs = TRUE]
  <2>1. PICK t : t = [s EXCEPT !.resources = TRUE, !.outputs = TRUE]
    OBVIOUS
  <2>2. backend' = [backend EXCEPT ![p.place] = [backend[p.place] EXCEPT ![p.name] = t]]
    BY <1>3, <1>4, <1>8, <2>1 DEF Backends
  <2>3. t \in PulumiStack /\ t.pass = s.pass
    BY <1>4, <1>5, <2>1, StackTurned
  <2>. QED  BY <1>1, <1>2, <1>8, <2>2, <2>3, StackEnds
<1>. QED  BY <1>6, <1>7, <1>8 DEF Up

(* `pulumi destroy`, whichever way it ends.                                  *)
LEMMA DestroyKeeps ==
  ASSUME HomeInv, NEW q \in Procs, DestroyStack(q)
  PROVE  HomeInv'
<1>. DEFINE p == proc[q]
            s == backend[p.place][p.name]
<1>1. p.pc = "destroy" /\ End(q)
      /\ UNCHANGED <<config, passFile, localState, commands, raced, firstUses, lowered, asked, overwritten>>
  BY DEF DestroyStack, At, ghosts
<1>2. p.pc \in OnStack
  BY <1>1 DEF OnStack
<1>3. p.place \in Urls /\ p.name \in Names
  BY <1>1, <1>2, AtWork DEF Fits
<1>4. s \in PulumiStack /\ backend \in Backends
  BY <1>3 DEF HomeInv, HomeType, Backends
<1>5. s.pass \in Passphrases \cup {0}
  BY <1>4 DEF PulumiStack
<1>6. CASE UNCHANGED backend
  BY <1>1, <1>6, EndsQuietly, StillIsFrame DEF HomeStill
<1>7. CASE backend' = [backend EXCEPT ![p.place][p.name].resources = FALSE, ![p.place][p.name].outputs = FALSE]
  <2>1. PICK t : t = [s EXCEPT !.resources = FALSE, !.outputs = FALSE]
    OBVIOUS
  <2>2. backend' = [backend EXCEPT ![p.place] = [backend[p.place] EXCEPT ![p.name] = t]]
    BY <1>3, <1>4, <1>7, <2>1 DEF Backends
  <2>3. t \in PulumiStack /\ t.pass = s.pass
    BY <1>4, <1>5, <2>1, StackTurned
  <2>. QED  BY <1>1, <1>2, <2>2, <2>3, StackEnds
<1>. QED  BY <1>6, <1>7 DEF DestroyStack

(* A stack is created with a passphrase that is kept.                         *)
LEMMA OpenKeeps ==
  ASSUME HomeInv, NEW q \in Procs, getOrCreateStack(q)
  PROVE  HomeInv'
<1>. DEFINE p == proc[q]
            s == backend[p.place][p.name]
<1>1. p.pc = "open"
      /\ UNCHANGED <<config, passFile, localState, commands, raced, firstUses, lowered, overwritten>>
  BY DEF getOrCreateStack, At
<1>2. p.pc \in OnStack
  BY <1>1 DEF OnStack
<1>3. p \in HomeProcess /\ Fits(p) /\ p.place \in Urls /\ p.name \in Names /\ p.pass \in Passphrases \cup {0}
  BY <1>1, <1>2, AtWork DEF Fits
<1>4. s \in PulumiStack /\ backend \in Backends /\ PassInv /\ HomeType
  BY <1>3 DEF HomeInv, HomeType, Backends
<1>5. s.pass \in Passphrases \cup {0}
  BY <1>4 DEF PulumiStack
<1>6. CASE Fails(q) /\ UNCHANGED backend
  BY <1>1, <1>6, FailsKeeps DEF HomeStill
<1>7. CASE /\ Goto(q, Then(q)) /\ UNCHANGED asked
           /\ backend' = [backend EXCEPT ![p.place][p.name].pass = IF @ = 0 THEN p.pass ELSE @]
  <2>1. PICK w : w = IF s.pass = 0 THEN p.pass ELSE s.pass
    OBVIOUS
  <2>2. PICK t : t = [s EXCEPT !.pass = w]
    OBVIOUS
  <2>3. backend' = [backend EXCEPT ![p.place] = [backend[p.place] EXCEPT ![p.name] = t]]
    BY <1>7, <2>1, <2>2
  <2>4. w \in Passphrases \cup {0}
    BY <1>3, <1>5, <2>1
  <2>5. t \in PulumiStack /\ t.pass = w
    BY <1>4, <2>2, <2>4, StackTurned
  <2>6. t.outputs = s.outputs
    BY <1>4, <2>2, <2>4, StackOutputs
  <2>7. PICK pc \in {"outputs", "destroy", "sure", "up"} : pc = Then(q)
    BY DEF Then
  <2>8. PICK r : r = [p EXCEPT !.pc = pc]
    OBVIOUS
  <2>9. proc' = [proc EXCEPT ![q] = r]
    BY <1>7, <2>7, <2>8 DEF Goto
  <2>. HIDE DEF p, s
  <2>10. /\ backend' \in Backends
         /\ \A u \in Urls, m \in Names : backend'[u][m] = IF u = p.place /\ m = p.name THEN t ELSE backend[u][m]
    BY <1>3, <1>4, <2>3, <2>5 DEF Backends
  <2>11. firstUses \/ \A u \in Urls, n \in Names : backend'[u][n].pass \in {0, Operator, passFile}
    <3>1. SUFFICES ASSUME ~firstUses PROVE \A u \in Urls, n \in Names : backend'[u][n].pass \in {0, Operator, passFile}
      OBVIOUS
    <3>2. HasPass(p, passFile) /\ \A u \in Urls, n \in Names : backend[u][n].pass \in {0, Operator, passFile}
      BY <1>4, <3>1 DEF PassInv, p
    <3>3. p.pass \in {Operator, passFile} /\ s.pass \in {0, Operator, passFile}
      BY <1>1, <1>3, <3>2 DEF HasPass, s
    <3>. QED  BY <2>1, <2>5, <2>10, <3>2, <3>3
  <2>12. \A u \in Urls, n \in Names : backend'[u][n].outputs => backend[u][n].outputs \/ (u = p.place /\ n = p.name)
    BY <2>10
  <2>13. pc \in HomePcs /\ pc \notin Making /\ pc # "open" /\ pc \notin Writing \cup Forgetting /\ pc # "idle"
    BY DEF HomePcs, Making, Writing, Forgetting
  <2>14. r \in HomeProcess /\ r.pc = pc /\ r.snap = p.snap /\ r.name = p.name /\ r.place = p.place /\ r.id = p.id
    BY <1>3, <2>8, <2>13 DEF HomeProcess
  <2>15. Fits(r)
    BY <1>1, <1>3, <2>13, <2>14 DEF Fits, Writing
  <2>16. Held(q, r)
    BY <1>1, <1>4, <1>7, <2>9 DEF Held, HomeType
  <2>17. p.pc \in OnStack
    BY <1>2
  <2>. QED  BY <1>1, <2>10, <2>11, <2>12, <2>13, <2>14, <2>15, <2>16, <2>17, StackStep DEF p
<1>. QED  BY <1>6, <1>7 DEF getOrCreateStack

-----------------------------------------------------------------------------
(* The steps that make the passphrase. *)

(* A step of a command at its passphrase or its stack.                       *)
LEMMA PassStep ==
  ASSUME HomeInv, NEW q \in Procs, proc[q].pc \in OnStack,
         NEW r \in HomeProcess, Fits(r), r.pc \in OnStack,
         proc' = [proc EXCEPT ![q] = r],
         r.name = proc[q].name, r.place = proc[q].place, r.snap = proc[q].snap,
         UNCHANGED <<config, backend, localState, commands, raced, lowered, asked, overwritten>>,
         passFile' \in Passphrases \cup {0}, firstUses' \in BOOLEAN,
         PassInv'
  PROVE  HomeInv'
<1>0. HomeType /\ CapInv /\ ListInv
  BY DEF HomeInv
<1>1. /\ proc' \in [Procs -> HomeProcess]
      /\ proc'[q] = r
      /\ \A o \in Procs : o # q => proc'[o] = proc[o]
      /\ \A o \in Procs : Fits(proc'[o])
  BY <1>0, OneMoves
<1>2. HomeType'
  BY <1>0, <1>1 DEF HomeType
<1>3. r.pc \notin Writing /\ r.pc \notin Registering /\ r.pc \notin Forgetting /\ proc[q].pc # "idle"
  BY DEF OnStack, Writing, Registering, Forgetting
<1>4. CapInv'
  <2>1. MayRegister(proc[q]) => MayRegister(r)
    BY <1>3 DEF MayRegister
  <2>. QED  BY <1>0, <1>1, <2>1 DEF CapInv
<1>5. ListInv'
  <2>1. SUFFICES ASSUME ~raced PROVE ListInv'
    BY DEF ListInv
  <2>2. UpToDate(proc[q], config, backend, asked \cup overwritten) /\ Listed(config, backend, asked \cup overwritten)
    BY <1>0, <2>1 DEF ListInv
  <2>3. UpToDate(r, config, backend, asked \cup overwritten)
    BY <1>3, <2>2 DEF UpToDate
  <2>4. \A o \in Procs : o # q =>
          proc'[o].pc = "idle" /\ UpToDate(proc'[o], config, backend, asked \cup overwritten)
    BY <1>1, <1>3, <2>1, OthersAreIdle
  <2>. QED  BY <1>1, <2>2, <2>3, <2>4 DEF ListInv
<1>. QED  BY <1>2, <1>4, <1>5 DEF HomeInv

(* The passphrase is taken from the environment or the file, or made and     *)
(* written.                                                                  *)
LEMMA PassphraseKeeps ==
  ASSUME HomeInv, NEW q \in Procs, ensurePassphrase(q)
  PROVE  HomeInv'
<1>. DEFINE p == proc[q]
<1>1. /\ p.pc = "passphrase"
      /\ firstUses' = (firstUses \/ (~p.env /\ passFile = 0 /\ \E r \in Procs : Generating(r)))
      /\ UNCHANGED <<config, passFile, backend, localState, commands, raced, lowered, asked, overwritten>>
  BY DEF ensurePassphrase, At
<1>2. p.pc \in OnStack
  BY <1>1 DEF OnStack
<1>3. p \in HomeProcess /\ Fits(p)
  BY AtWork
<1>4. HomeType /\ PassInv
  BY DEF HomeInv
<1>5. Operator \in Passphrases /\ Operator # 0 /\ passFile \in Passphrases \cup {0}
  <2>1. MaxCommands \in Nat /\ passFile \in Passphrases \cup {0}
    BY <1>4, HomeConstants DEF HomeType
  <2>. QED  BY <2>1 DEF Operator, Passphrases
<1>6. PICK w \in Passphrases \cup {0}, pc \in {"open", "generate"} :
        /\ proc' = [proc EXCEPT ![q] = [p EXCEPT !.pc = pc, !.pass = w]]
        /\ pc = "open" => w # 0 /\ w \in {Operator, passFile}
        /\ pc = "generate" => passFile = 0 /\ ~p.env
  <2>1. CASE proc' = [proc EXCEPT ![q].pc = "open", ![q].pass = Operator]
    <3>1. proc' = [proc EXCEPT ![q] = [p EXCEPT !.pc = "open", !.pass = Operator]]
      BY <2>1
    <3>. QED  BY <1>5, <3>1
  <2>2. CASE passFile # 0 /\ proc' = [proc EXCEPT ![q].pc = "open", ![q].pass = passFile]
    <3>1. proc' = [proc EXCEPT ![q] = [p EXCEPT !.pc = "open", !.pass = passFile]]
      BY <2>2
    <3>. QED  BY <1>5, <2>2, <3>1
  <2>3. CASE passFile = 0 /\ ~p.env /\ proc' = [proc EXCEPT ![q].pc = "generate"]
    <3>1. p.pass \in Passphrases \cup {0}
      BY AtWork
    <3>. HIDE DEF p
    <3>2. [p EXCEPT !.pc = "generate", !.pass = p.pass] = [p EXCEPT !.pc = "generate"]
      BY <1>3 DEF HomeProcess
    <3>3. proc' = [proc EXCEPT ![q] = [p EXCEPT !.pc = "generate"]]
      BY <2>3 DEF p
    <3>. QED  BY <2>3, <3>1, <3>2, <3>3
  <2>4. CASE p.env
    BY <2>1, <2>4 DEF ensurePassphrase
  <2>5. CASE ~p.env /\ passFile # 0
    BY <2>2, <2>5 DEF ensurePassphrase
  <2>6. CASE ~p.env /\ passFile = 0
    BY <2>3, <2>6 DEF ensurePassphrase, Goto
  <2>. QED  BY <2>4, <2>5, <2>6
<1>7. PICK r : r = [p EXCEPT !.pc = pc, !.pass = w]
  OBVIOUS
<1>8. proc' = [proc EXCEPT ![q] = r]
  BY <1>6, <1>7
<1>. HIDE DEF p
<1>9. pc \in HomePcs /\ pc \in OnStack /\ pc # "idle" /\ pc \notin {"save", "forget"}
  BY DEF HomePcs, OnStack
<1>10. r \in HomeProcess /\ r.pc = pc /\ r.pass = w /\ r.name = p.name /\ r.place = p.place /\ r.snap = p.snap /\ r.id = p.id
  BY <1>3, <1>7, <1>9 DEF HomeProcess
<1>11. Fits(r)
  BY <1>1, <1>2, <1>3, <1>6, <1>9, <1>10 DEF Fits
<1>12. firstUses' \in BOOLEAN
  BY <1>1, <1>4 DEF HomeType
<1>13. PassInv'
  <2>1. SUFFICES ASSUME ~firstUses' PROVE PassInv'
    BY DEF PassInv
  <2>2. ~firstUses /\ (pc = "generate" => \A o \in Procs : proc[o].pc \notin Making)
    BY <1>1, <1>6, <2>1 DEF Generating, Making
  <2>3. /\ \A u \in Urls, n \in Names : backend[u][n].pass \in {0, Operator, passFile}
        /\ \A o \in Procs : HasPass(proc[o], passFile)
        /\ \A o, m \in Procs : proc[o].pc \in Making /\ proc[m].pc \in Making => o = m
    BY <1>4, <2>2 DEF PassInv
  <2>4. HasPass(r, passFile)
    BY <1>6, <1>10 DEF HasPass, Making
  <2>5. \A o \in Procs : proc'[o] = IF o = q THEN r ELSE proc[o]
    BY <1>4, <1>8 DEF HomeType
  <2>6. \A o \in Procs : HasPass(proc'[o], passFile)
    BY <2>3, <2>4, <2>5
  <2>7. pc = "open" => pc \notin Making
    BY DEF Making
  <2>8. \A o, m \in Procs : proc'[o].pc \in Making /\ proc'[m].pc \in Making => o = m
    BY <1>10, <2>2, <2>3, <2>5, <2>7
  <2>. QED  BY <1>1, <2>3, <2>6, <2>8 DEF PassInv
<1>. QED  BY <1>1, <1>2, <1>5, <1>8, <1>9, <1>10, <1>11, <1>12, <1>13, PassStep DEF p

(* The file is emptied, and then filled, by the one that makes it.            *)
LEMMA MakingKeeps ==
  ASSUME HomeInv, NEW q \in Procs, GeneratePassphrase(q) \/ StorePassphrase(q)
  PROVE  HomeInv'
<1>. DEFINE p == proc[q]
<1>1. /\ p.pc \in Making
      /\ UNCHANGED <<config, backend, localState, commands, raced, firstUses, lowered, asked, overwritten>>
  BY DEF GeneratePassphrase, StorePassphrase, At, ghosts, Making
<1>2. p.pc \in OnStack /\ p.pc # "idle"
  BY <1>1 DEF OnStack, Making
<1>3. p \in HomeProcess /\ Fits(p)
  BY AtWork
<1>4. HomeType /\ PassInv
  BY DEF HomeInv
<1>5. p.id \in Passphrases /\ p.id # 0
  <2>1. p.id \in 0..MaxCommands /\ p.id # 0 /\ MaxCommands \in Nat
    BY <1>2, <1>3, HomeConstants DEF Fits, HomeProcess
  <2>. QED  BY <2>1 DEF Passphrases
<1>6. PICK r : /\ proc' = [proc EXCEPT ![q] = r]
               /\ \/ r = [p EXCEPT !.pc = "store"] /\ passFile' = 0
                  \/ r = [p EXCEPT !.pc = "open", !.pass = p.id] /\ passFile' = p.id
  <2>1. CASE GeneratePassphrase(q)
    BY <2>1 DEF GeneratePassphrase, Goto
  <2>2. CASE StorePassphrase(q)
    <3>1. proc' = [proc EXCEPT ![q] = [p EXCEPT !.pc = "open", !.pass = p.id]] /\ passFile' = p.id
      BY <2>2 DEF StorePassphrase
    <3>. QED  BY <3>1
  <2>. QED  BY <2>1, <2>2
<1>7. "store" \in HomePcs /\ "open" \in HomePcs /\ "store" \in OnStack /\ "open" \in OnStack
      /\ "store" \in Making /\ "open" \notin Making
  BY DEF HomePcs, OnStack, Making
<1>. HIDE DEF p
<1>8. /\ r \in HomeProcess /\ r.name = p.name /\ r.place = p.place /\ r.snap = p.snap /\ r.id = p.id
      /\ (r.pc = "store" /\ passFile' = 0) \/ (r.pc = "open" /\ r.pass = p.id /\ passFile' = p.id)
  BY <1>3, <1>5, <1>6, <1>7 DEF HomeProcess
<1>9. r.pc \in OnStack /\ Fits(r)
  BY <1>2, <1>3, <1>5, <1>7, <1>8 DEF Fits
<1>10. passFile' \in Passphrases \cup {0} /\ firstUses' \in BOOLEAN
  BY <1>1, <1>4, <1>5, <1>8 DEF HomeType
<1>11. PassInv'
  <2>1. SUFFICES ASSUME ~firstUses PROVE PassInv'
    BY <1>1 DEF PassInv
  <2>2. /\ \A u \in Urls, n \in Names : backend[u][n].pass \in {0, Operator, passFile}
        /\ \A o \in Procs : HasPass(proc[o], passFile)
        /\ \A o, m \in Procs : proc[o].pc \in Making /\ proc[m].pc \in Making => o = m
    BY <1>4, <2>1 DEF PassInv
  <2>3. passFile = 0
    BY <1>1, <2>2 DEF HasPass, p
  <2>4. \A o \in Procs : proc'[o] = IF o = q THEN r ELSE proc[o]
    BY <1>4, <1>6 DEF HomeType
  <2>5. HasPass(r, passFile')
    BY <1>7, <1>8 DEF HasPass, Making
  <2>6. ASSUME NEW o \in Procs, o # q PROVE HasPass(proc[o], passFile')
    <3>1. proc[o].pc \notin Making
      BY <1>1, <2>2, <2>6 DEF p
    <3>2. proc[o].pc = "open" => proc[o].pass # 0
      BY <1>4 DEF HomeType, Fits
    <3>3. proc[o].pc = "open" => proc[o].pass = Operator
      BY <2>2, <2>3, <3>2 DEF HasPass
    <3>. QED  BY <3>1, <3>3 DEF HasPass
  <2>7. \A o \in Procs : HasPass(proc'[o], passFile')
    BY <2>4, <2>5, <2>6
  <2>8. \A o, m \in Procs : proc'[o].pc \in Making /\ proc'[m].pc \in Making => o = m
    BY <1>1, <2>2, <2>4 DEF p
  <2>9. \A u \in Urls, n \in Names : backend'[u][n].pass \in {0, Operator, passFile'}
    BY <1>1, <2>2, <2>3
  <2>. QED  BY <2>7, <2>8, <2>9 DEF PassInv
<1>. QED  BY <1>1, <1>2, <1>6, <1>8, <1>9, <1>10, <1>11, PassStep DEF p

-----------------------------------------------------------------------------
(* Commands are given, and the whole. *)

StartPcs == {"init", "policy", "context", "check"}

(* A command starts with nothing read.                                       *)
LEMMA StartKeeps ==
  ASSUME HomeInv, NEW q \in Procs,
         NEW cmd \in {"init", "wizard", "deploy", "destroy", "delete"}, NEW n \in Names,
         NEW place \in Places, NEW force \in BOOLEAN, NEW env \in BOOLEAN, NEW pc \in StartPcs,
         Start(q, cmd, n, place, force, env, pc)
  PROVE  HomeInv'
<1>0. HomeType /\ CapInv /\ PassInv /\ ListInv
  BY DEF HomeInv
<1>1. PICK r : r = [AtRest EXCEPT !.pc = pc, !.cmd = cmd, !.name = n, !.place = place,
                                    !.force = force, !.env = env, !.id = commands + 1]
  OBVIOUS
<1>2. /\ proc' = [proc EXCEPT ![q] = r] /\ proc[q].pc = "idle"
      /\ commands < MaxCommands /\ commands' = commands + 1
      /\ raced' = (raced \/ \E o \in Procs : proc[o].pc # "idle")
      /\ UNCHANGED <<config, passFile, backend, localState, firstUses, lowered, asked, overwritten>>
  BY <1>1 DEF Start, Free
<1>3. commands + 1 \in 0..MaxCommands /\ commands + 1 \in 1..MaxCommands /\ commands + 1 # 0
  <2>1. commands \in 1..MaxCommands /\ MaxCommands \in Nat
    BY <1>0, HomeConstants DEF HomeType
  <2>. QED  BY <1>2, <2>1
<1>4. pc \in HomePcs /\ pc # "idle" /\ pc \notin Writing /\ pc \notin OnStack /\ pc \notin Forgetting
      /\ pc \notin Making /\ pc \notin Registering /\ pc # "open" /\ pc \notin {"save", "forget"}
  BY DEF StartPcs, HomePcs, Writing, OnStack, Forgetting, Making, Registering
<1>5. AtRest \in HomeProcess /\ AtRest.snap = NoConfig
  BY HomeConstants, RestFits
<1>6. r \in HomeProcess /\ r.pc = pc /\ r.name = n /\ r.id = commands + 1 /\ r.snap = NoConfig
  BY <1>1, <1>3, <1>4, <1>5 DEF HomeProcess
<1>7. Fits(r)
  BY <1>3, <1>4, <1>6, RestFits DEF Fits
<1>8. /\ proc' \in [Procs -> HomeProcess]
      /\ proc'[q] = r
      /\ \A o \in Procs : o # q => proc'[o] = proc[o]
      /\ \A o \in Procs : Fits(proc'[o])
  BY <1>0, <1>2, <1>6, <1>7, OneMoves
<1>9. raced' \in BOOLEAN
  BY <1>0, <1>2 DEF HomeType
<1>10. HomeType'
  BY <1>0, <1>2, <1>3, <1>8, <1>9 DEF HomeType
<1>11. CapInv'
  <2>1. MayRegister(r)
    BY <1>4, <1>6, RestFits DEF MayRegister
  <2>. QED  BY <1>0, <1>2, <1>8, <2>1 DEF CapInv
<1>12. PassInv'
  <2>1. HasPass(r, passFile)
    BY <1>4, <1>6 DEF HasPass
  <2>2. SUFFICES ASSUME ~firstUses PROVE PassInv'
    BY <1>2 DEF PassInv
  <2>3. \A o \in Procs : HasPass(proc'[o], passFile)
    BY <1>0, <1>8, <2>1, <2>2 DEF PassInv
  <2>4. \A o, m \in Procs : proc'[o].pc \in Making /\ proc'[m].pc \in Making => o = m
    BY <1>0, <1>4, <1>6, <1>8, <2>2 DEF PassInv
  <2>. QED  BY <1>0, <1>2, <2>2, <2>3, <2>4 DEF PassInv
<1>13. ListInv'
  <2>1. SUFFICES ASSUME ~raced' PROVE ListInv'
    BY DEF ListInv
  <2>2. ~raced /\ \A o \in Procs : proc[o].pc = "idle"
    BY <1>2, <2>1
  <2>3. UpToDate(r, config, backend, asked \cup overwritten)
    BY <1>4, <1>6 DEF UpToDate
  <2>. QED  BY <1>0, <1>2, <1>8, <2>2, <2>3 DEF ListInv
<1>. QED  BY <1>10, <1>11, <1>12, <1>13 DEF HomeInv

(* The command lines an operator may enter.                                  *)
LEMMA CommandKeeps ==
  ASSUME HomeInv, NEW q \in Procs, NEW n \in Names, Command(q, n)
  PROVE  HomeInv'
<1>1. "local" \in Places
  BY DEF Places
<1>2. CASE \E place \in Places, force \in BOOLEAN : Init_(q, n, place, force)
  <2>1. PICK place \in Places, force \in BOOLEAN : Start(q, "init", n, place, force, FALSE, "init")
    BY <1>2 DEF Init_
  <2>2. PICK env \in BOOLEAN : Start(q, "init", n, place, force, env, "init")
    BY <2>1
  <2>. QED  BY <2>2, StartKeeps DEF StartPcs
<1>3. CASE \E local \in BOOLEAN : Wizard(q, n, local)
  <2>1. PICK local \in BOOLEAN : Start(q, "wizard", n, "local", ~local, FALSE, "policy")
    BY <1>3 DEF Wizard
  <2>2. (~local) \in BOOLEAN
    OBVIOUS
  <2>. QED  BY <1>1, <2>1, <2>2, StartKeeps DEF StartPcs
<1>4. CASE \E env \in BOOLEAN : Deploy(q, n, env) \/ Destroy(q, n, env) \/ Down(q, n, env)
  <2>1. PICK cmd \in {"deploy", "destroy"}, force \in BOOLEAN, env \in BOOLEAN :
          Start(q, cmd, n, "local", force, env, "context")
    <3>1. PICK env \in BOOLEAN : \/ Start(q, "deploy", n, "local", FALSE, env, "context")
                                  \/ Start(q, "destroy", n, "local", FALSE, env, "context")
                                  \/ Start(q, "destroy", n, "local", TRUE, env, "context")
      BY <1>4 DEF Deploy, Destroy, Down
    <3>. QED  BY <3>1
  <2>. QED  BY <1>1, <2>1, StartKeeps DEF StartPcs
<1>5. CASE \E force, env \in BOOLEAN : Delete(q, n, force, env)
  <2>1. PICK force \in BOOLEAN, env \in BOOLEAN : Start(q, "delete", n, "local", force, env, "check")
    BY <1>5 DEF Delete
  <2>. QED  BY <1>1, <2>1, StartKeeps DEF StartPcs
<1>. QED  BY <1>2, <1>3, <1>4, <1>5 DEF Command

(* A machine that never ran clawops, or one with a few stacks in one backend. *)
LEMMA HomeBegins ==
  ASSUME HomeInit
  PROVE  HomeInv
<1>1. /\ localState = {} /\ proc = [q \in Procs |-> AtRest] /\ commands = 1
      /\ raced = FALSE /\ firstUses = FALSE /\ lowered = FALSE /\ asked = {} /\ overwritten = {}
  BY DEF HomeInit
<1>2. MaxCommands \in Nat /\ MaxCommands # 0 /\ Caps \subseteq Nat /\ "local" \notin Urls
  BY HomeConstants
<1>3. 1 \in Passphrases /\ Operator \in Passphrases /\ commands \in 1..MaxCommands
  BY <1>1, <1>2 DEF Passphrases, Operator
<1>4. /\ config \in Configs /\ Sound(config) /\ InCap(config)
      /\ passFile \in Passphrases \cup {0}
      /\ backend \in Backends
      /\ \A u \in Urls, n \in Names : /\ backend[u][n].pass \in {0, Operator, passFile}
                                      /\ backend[u][n].outputs => Leads(config, u, n)
  <2>. DEFINE none == [pass |-> 0, resources |-> FALSE, outputs |-> FALSE]
  <2>1. NoStack = none /\ none \in PulumiStack
    BY DEF NoStack, PulumiStack
  <2>2. CASE config = NoConfig /\ passFile = 0 /\ backend = [u \in Urls |-> [n \in Names |-> NoStack]]
    BY <2>1, <2>2, HomeConstants, RestFits DEF Backends
  <2>3. CASE \E S \in SUBSET Names \ {{}}, d \in Names, u \in Urls, up \in SUBSET Names, own \in BOOLEAN, max \in Caps :
          /\ d \in S /\ up \subseteq S /\ Cardinality(S) <= 2 /\ (max = 0 \/ Cardinality(S) <= max)
          /\ config = [there |-> TRUE, stacks |-> [n \in S |-> u], default |-> d, max |-> max]
          /\ passFile = IF up = {} \/ own THEN 0 ELSE 1
          /\ backend = [w \in Urls |-> [n \in Names |->
               IF w = u /\ n \in up
                 THEN [pass |-> IF own THEN Operator ELSE 1, resources |-> TRUE, outputs |-> TRUE]
                 ELSE NoStack]]
    <3>1. PICK S \in SUBSET Names \ {{}}, d \in Names, u \in Urls, up \in SUBSET Names, own \in BOOLEAN, max \in Caps :
          /\ d \in S /\ up \subseteq S /\ Cardinality(S) <= 2 /\ (max = 0 \/ Cardinality(S) <= max)
          /\ config = [there |-> TRUE, stacks |-> [n \in S |-> u], default |-> d, max |-> max]
          /\ passFile = IF up = {} \/ own THEN 0 ELSE 1
          /\ backend = [w \in Urls |-> [n \in Names |->
               IF w = u /\ n \in up
                 THEN [pass |-> IF own THEN Operator ELSE 1, resources |-> TRUE, outputs |-> TRUE]
                 ELSE NoStack]]
      BY <2>3
    <3>0. S \in SUBSET Names
      OBVIOUS
    <3>2. PICK w0 \in Passphrases : w0 = IF own THEN Operator ELSE 1
      BY <1>3
    <3>3. [pass |-> w0, resources |-> TRUE, outputs |-> TRUE] \in PulumiStack
      BY DEF PulumiStack
    <3>4. backend = [w \in Urls |-> [n \in Names |->
               IF w = u /\ n \in up THEN [pass |-> w0, resources |-> TRUE, outputs |-> TRUE] ELSE none]]
      BY <2>1, <3>1, <3>2
    <3>5. PICK f : f = [n \in S |-> u]
      OBVIOUS
    <3>6. f \in [S -> Places] /\ DOMAIN f = S /\ \A n \in S : f[n] = u
      BY <3>5 DEF Places
    <3>7. config = [there |-> TRUE, stacks |-> f, default |-> d, max |-> max]
      BY <3>1, <3>5
    <3>8. config \in Configs /\ config.there = TRUE /\ config.stacks = f /\ config.max = max
      <4>1. f \in UNION {[T -> Places] : T \in SUBSET Names}
        BY <3>0, <3>6
      <4>. QED  BY <3>7, <4>1 DEF Configs
    <3>9. Sound(config) /\ InCap(config)
      BY <3>1, <3>6, <3>8 DEF Sound, InCap, Card
    <3>10. backend \in Backends
      BY <2>1, <3>3, <3>4 DEF Backends
    <3>11. ASSUME NEW w \in Urls, NEW n \in Names
           PROVE  /\ backend[w][n].pass \in {0, Operator, passFile}
                  /\ backend[w][n].outputs => Leads(config, w, n)
      <4>1. CASE w = u /\ n \in up
        <5>1. backend[w][n].pass = w0
          BY <3>4, <4>1
        <5>2. n \in S /\ f[n] = w
          BY <3>1, <3>6, <4>1
        <5>3. up # {}
          BY <4>1
        <5>4. w0 \in {Operator, passFile}
          BY <3>1, <3>2, <5>3
        <5>. QED  BY <3>6, <3>8, <5>1, <5>2, <5>4 DEF Leads, Has
      <4>2. CASE ~(w = u /\ n \in up)
        <5>1. backend[w][n] = none
          BY <3>4, <4>2
        <5>. QED  BY <5>1
      <4>. QED  BY <4>1, <4>2
    <3>12. passFile \in Passphrases \cup {0}
      BY <1>3, <3>1
    <3>. QED  BY <3>8, <3>9, <3>10, <3>11, <3>12
  <2>. HIDE DEF none
  <2>. QED  BY <2>2, <2>3 DEF HomeInit
<1>5. AtRest \in HomeProcess /\ Fits(AtRest) /\ AtRest.pc = "idle" /\ AtRest.snap = NoConfig
  BY HomeConstants, RestFits
<1>6. \A q \in Procs : proc[q] = AtRest
  BY <1>1
<1>7. HomeType
  <2>1. proc \in [Procs -> HomeProcess]
    BY <1>1, <1>5
  <2>2. \A q \in Procs : Fits(proc[q])
    BY <1>5, <1>6
  <2>. QED  BY <1>1, <1>3, <1>4, <2>1, <2>2 DEF HomeType, Backends
<1>8. CapInv
  <2>1. MayRegister(AtRest)
    BY <1>5, RestFits DEF MayRegister, Registering
  <2>. QED  BY <1>4, <1>6, <2>1 DEF CapInv
<1>9. PassInv
  <2>1. HasPass(AtRest, passFile) /\ AtRest.pc \notin Making
    BY <1>5 DEF HasPass, Making
  <2>. QED  BY <1>4, <1>6, <2>1 DEF PassInv
<1>10. ListInv
  <2>1. UpToDate(AtRest, config, backend, asked \cup overwritten)
    BY <1>5 DEF UpToDate, Writing, OnStack, Forgetting
  <2>. QED  BY <1>4, <1>5, <1>6, <2>1 DEF ListInv, Listed
<1>. QED  BY <1>7, <1>8, <1>9, <1>10 DEF HomeInv

(* Every step keeps the invariant.                                           *)
LEMMA HomeGoesOn ==
  ASSUME HomeInv, [HomeNext]_(homeVars)
  PROVE  HomeInv'
<1>1. CASE UNCHANGED homeVars
  <2>1. /\ UNCHANGED <<config, passFile, backend, localState, proc, commands>>
        /\ UNCHANGED <<raced, firstUses, lowered, asked, overwritten>>
    BY <1>1 DEF homeVars, ghosts
  <2>. QED  BY <2>1 DEF HomeInv, HomeType, CapInv, PassInv, ListInv
<1>2. ASSUME NEW q \in Procs, Step(q)
      PROVE  HomeInv'
  <2>1. CASE InitRead(q) \/ InitWrite(q) \/ promptSpendingPolicy(q) \/ ReadForPolicy(q)
    BY <2>1, InitReadKeeps, InitWriteKeeps, PromptKeeps, ReadForPolicyKeeps
  <2>2. CASE savePolicy(q) \/ WizardName(q) \/ WizardRead(q) \/ runLocalDeploy(q)
    BY <2>2, SavePolicyKeeps, WizardNameKeeps, WizardReadKeeps, LocalDeployKeeps
  <2>3. CASE buildContext(q) \/ ensurePulumiCli(q) \/ ensurePassphrase(q)
    BY <2>3, BuildContextKeeps, PulumiCliKeeps, PassphraseKeeps
  <2>4. CASE GeneratePassphrase(q) \/ StorePassphrase(q) \/ getOrCreateStack(q)
    BY <2>4, MakingKeeps, OpenKeeps
  <2>5. CASE Up(q) \/ Bootstrap(q) \/ Sure(q) \/ DestroyStack(q)
    BY <2>5, UpKeeps, BootstrapKeeps, SureKeeps, DestroyKeeps
  <2>6. CASE checkStackDelete(q) \/ isStackDeployed(q) \/ ConfirmDelete(q) \/ deleteStackFromConfig(q)
    BY <2>6, CheckKeeps, DeployedKeeps, ConfirmKeeps, ForgetKeeps
  <2>. QED  BY <1>2, <2>1, <2>2, <2>3, <2>4, <2>5, <2>6 DEF Step
<1>. QED  BY <1>1, <1>2, KilledKeeps, CommandKeeps DEF HomeNext

(* The inductive invariant of the operator's machine.                         *)
THEOREM HomeInvariant ==
  HomeSpec => []HomeInv
<1>1. HomeInit => HomeInv
  BY HomeBegins
<1>2. HomeInv /\ [HomeNext]_(homeVars) => HomeInv'
  BY HomeGoesOn
<1>. QED  BY <1>1, <1>2, PTL DEF HomeSpec

(* The types of the config, the passphrase file, the backends and the rest.   *)
THEOREM HomeTypesHold ==
  HomeSpec => []HomeTypeOK
<1>1. HomeInv => HomeTypeOK
  <2>1. SUFFICES ASSUME HomeInv PROVE HomeTypeOK
    OBVIOUS
  <2>2. commands \in 0..MaxCommands
    BY <2>1, HomeConstants DEF HomeInv, HomeType
  <2>. QED  BY <2>1, <2>2 DEF HomeInv, HomeType, HomeTypeOK, PulumiStack
<1>. QED  BY <1>1, HomeInvariant, PTL

(* config/policy.ts: no registration, from any surface and at the same time   *)
(* as any other, leaves more stacks than the cap it is written with.          *)
THEOREM CapAlwaysHolds ==
  HomeSpec => []CapHolds
<1>1. HomeInv => CapHolds
  BY DEF HomeInv, CapInv, InCap, CapHolds
<1>. QED  BY <1>1, HomeInvariant, PTL

(* pulumi/passphrase.ts: what encrypted a stack is the operator's own or is   *)
(* on disk, whatever was killed and when.                                     *)
THEOREM PassphraseIsKeptHolds ==
  HomeSpec => []PassphraseIsKept
<1>1. HomeInv => PassphraseIsKept
  BY DEF HomeInv, PassInv, PassphraseIsKept
<1>. QED  BY <1>1, HomeInvariant, PTL

(* config/stack-delete.ts: commands that run one at a time forget no stack    *)
(* that is deployed, unless they were asked to.                               *)
THEOREM DeployedIsListedHolds ==
  HomeSpec => []DeployedIsListed
<1>1. HomeInv => DeployedIsListed
  BY DEF HomeInv, ListInv, Listed, Leads, DeployedIsListed
<1>. QED  BY <1>1, HomeInvariant, PTL
=============================================================================
