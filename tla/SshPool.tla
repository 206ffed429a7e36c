------------------------------ MODULE SshPool ------------------------------
(* The SSH connection pool of transport/pool.ts, shared by every tool call of *)
(* one process: acquireSession, release, drainPool and the cleanup timer.     *)
(*                                                                            *)
(* JavaScript runs one of these at a time, but acquireSession awaits connect  *)
(* and keeps, across the await, the array it read from the map before it.     *)
(* Arrays are therefore objects of their own here: `pool` says which array    *)
(* the map holds for a host, `seen` which one a waiting call holds.           *)
EXTENDS Integers, FiniteSets

CONSTANTS
  Callers,      \* calls that may be under way at once
  Hosts,        \* keys of the map (user@host:port)
  Sessions,     \* session objects
  Arrays,       \* array objects
  MaxPerHost,   \* MAX_PER_HOST
  None

ASSUME PoolAssumption ==
  /\ MaxPerHost \in Nat \ {0}
  /\ None \notin Hosts /\ None \notin Sessions /\ None \notin Arrays

VARIABLES
  pool,       \* the map: host to array, or None
  entries,    \* what is in each array
  inUse,      \* sessions whose entry has inUse = true
  stale,      \* sessions whose lastUsed is more than IDLE_TTL_MS ago
  to,         \* the host an open session is connected to; None: closed
  timer,      \* cleanupTimer is set
  doing,      \* what each call is doing
  host,       \* the host it wants or has
  seen,       \* the array it read before it awaited connect
  held        \* the session it was given

vars == <<pool, entries, inUse, stale, to, timer, doing, host, seen, held>>

TypeOK ==
  /\ pool \in [Hosts -> Arrays \union {None}]
  /\ entries \in [Arrays -> SUBSET Sessions]
  /\ inUse \subseteq Sessions
  /\ stale \subseteq Sessions
  /\ to \in [Sessions -> Hosts \union {None}]
  /\ timer \in BOOLEAN
  /\ doing \in [Callers -> {"idle", "connecting", "holding"}]
  /\ host \in [Callers -> Hosts \union {None}]
  /\ seen \in [Callers -> Arrays \union {None}]
  /\ held \in [Callers -> Sessions \union {None}]
  /\ \A c \in Callers : /\ doing[c] = "holding" <=> held[c] # None
                        /\ doing[c] = "connecting" <=> seen[c] # None
                        /\ doing[c] = "idle" <=> host[c] = None

Init ==
  /\ pool = [h \in Hosts |-> None]
  /\ entries = [a \in Arrays |-> {}]
  /\ inUse = {} /\ stale = {}
  /\ to = [s \in Sessions |-> None]
  /\ timer = FALSE
  /\ doing = [c \in Callers |-> "idle"]
  /\ host = [c \in Callers |-> None]
  /\ seen = [c \in Callers |-> None]
  /\ held = [c \in Callers |-> None]

----------------------------------------------------------------------------
(* An array nobody refers to is garbage, and its object free for a new one.   *)
FreeArrays == Arrays \ ({pool[h] : h \in Hosts} \union {seen[c] : c \in Callers})

(* The new arrays a sweep of the timer makes, one for each host.              *)
NewArrays == {f \in [Hosts -> FreeArrays] :
                \A g, h \in Hosts : f[g] = f[h] => g = h}

(* e without the arrays that neither the map p nor a waiting call s refers to.*)
Swept(e, p, s) ==
  [a \in Arrays |->
     IF (\E h \in Hosts : p[h] = a) \/ (\E c \in Callers : s[c] = a)
       THEN e[a] ELSE {}]

(* What connect() may return: an object nobody has.                           *)
FreshSessions ==
  {s \in Sessions : /\ to[s] = None
                    /\ \A a \in Arrays : s \notin entries[a]
                    /\ \A c \in Callers : held[c] # s}

(* `pool.get(key) ?? []`.                                                     *)
Entries(h) == IF pool[h] = None THEN {} ELSE entries[pool[h]]
Idle(h)    == Entries(h) \ inUse

Pooled == UNION {Entries(h) : h \in Hosts}

----------------------------------------------------------------------------
(* acquireSession with an idle entry.                                         *)
ReuseAny(c, h) ==                    \* a variant: inUse is not looked at
  /\ doing[c] = "idle"
  /\ \E s \in Entries(h) :
       /\ inUse' = inUse \union {s} /\ stale' = stale \ {s}
       /\ held' = [held EXCEPT ![c] = s]
  /\ doing' = [doing EXCEPT ![c] = "holding"]
  /\ host' = [host EXCEPT ![c] = h]
  /\ UNCHANGED <<pool, entries, to, timer, seen>>

Reuse(c, h) ==
  /\ doing[c] = "idle"
  /\ \E s \in Idle(h) :
       /\ inUse' = inUse \union {s} /\ stale' = stale \ {s}
       /\ held' = [held EXCEPT ![c] = s]
  /\ doing' = [doing EXCEPT ![c] = "holding"]
  /\ host' = [host EXCEPT ![c] = h]
  /\ UNCHANGED <<pool, entries, to, timer, seen>>

(* The limit: the call throws, and nothing has changed.                       *)
HasRoom(h) == Cardinality(Entries(h)) < MaxPerHost

(* acquireSession as far as its `await connect`.                              *)
StartConnect(c, h) ==
  /\ doing[c] = "idle"
  /\ Idle(h) = {} /\ HasRoom(h)
  /\ doing' = [doing EXCEPT ![c] = "connecting"]
  /\ host' = [host EXCEPT ![c] = h]
  /\ IF pool[h] # None
       THEN seen' = [seen EXCEPT ![c] = pool[h]] /\ UNCHANGED entries
       ELSE /\ FreeArrays # {}
            /\ LET a == CHOOSE x \in FreeArrays : TRUE
               IN  /\ seen' = [seen EXCEPT ![c] = a]
                   /\ entries' = [entries EXCEPT ![a] = {}]
  /\ UNCHANGED <<pool, inUse, stale, to, timer, held>>

(* The rest of it: the array it read goes back into the map, whatever the map *)
(* holds by now.                                                              *)
Connected(c) ==
  /\ doing[c] = "connecting" /\ FreshSessions # {}
  /\ LET s == CHOOSE x \in FreshSessions : TRUE
         p == [pool EXCEPT ![host[c]] = seen[c]]
     IN  /\ to' = [to EXCEPT ![s] = host[c]]
         /\ pool' = p
         /\ entries' = Swept([entries EXCEPT ![seen[c]] = @ \union {s}], p,
                             [seen EXCEPT ![c] = None])
         /\ inUse' = inUse \union {s} /\ stale' = stale \ {s}
         /\ held' = [held EXCEPT ![c] = s]
  /\ doing' = [doing EXCEPT ![c] = "holding"]
  /\ seen' = [seen EXCEPT ![c] = None]
  /\ timer' = TRUE
  /\ UNCHANGED host

ConnectFails(c) ==
  /\ doing[c] = "connecting"
  /\ doing' = [doing EXCEPT ![c] = "idle"]
  /\ host' = [host EXCEPT ![c] = None]
  /\ seen' = [seen EXCEPT ![c] = None]
  /\ entries' = Swept(entries, pool, seen')
  /\ UNCHANGED <<pool, inUse, stale, to, timer, held>>

----------------------------------------------------------------------------
(* release(): a batch (fleet-status, the hardening runner's one-off checks)   *)
(* only releases; it is the tool that drains.                                 *)
LetGo(c) ==
  /\ doing[c] = "holding"
  /\ inUse' = inUse \ {held[c]}
  /\ doing' = [doing EXCEPT ![c] = "idle"]
  /\ host' = [host EXCEPT ![c] = None]
  /\ held' = [held EXCEPT ![c] = None]
  /\ UNCHANGED seen

Release(c) ==
  /\ LetGo(c)
  /\ stale' = stale \ {held[c]}
  /\ UNCHANGED <<pool, entries, to, timer>>

(* `release(); drainPool()`, the finally block of every tool: one step.       *)
ReleaseAndDrain(c) ==
  /\ LetGo(c)
  /\ to' = [s \in Sessions |-> IF s \in Pooled THEN None ELSE to[s]]
  /\ pool' = [h \in Hosts |-> None]
  /\ entries' = Swept(entries, pool', seen)
  /\ timer' = FALSE
  /\ stale' = stale \ (Pooled \union {held[c]})

----------------------------------------------------------------------------
(* Five minutes pass since lastUsed, which a call that holds the session does *)
(* not renew.  They do not pass over an IDLE entry while a call that found it *)
(* in use still waits for its connection: connect gives up after 30 seconds   *)
(* (readyTimeout).                                                            *)
Ages(s) ==
  /\ s \in Pooled \ stale
  /\ \A c \in Callers : seen[c] # None /\ s \in entries[seen[c]] => s \in inUse
  /\ stale' = stale \union {s}
  /\ UNCHANGED <<pool, entries, inUse, to, timer, doing, host, seen, held>>

(* The timer: each array is replaced by a NEW one without the stale entries,  *)
(* a key with none left is deleted, and an empty map stops the timer.         *)
EvictsAny(s)    == s \in stale       \* a variant: inUse is not looked at
Evicts(s)       == s \in stale /\ s \notin inUse
Active(h)       == {s \in Entries(h) : ~Evicts(s)}

CleanupStopsItself ==                \* a variant: the timer is cleared too soon
  /\ timer
  /\ to' = [s \in Sessions |-> IF s \in Pooled /\ Evicts(s) THEN None ELSE to[s]]
  /\ stale' = stale \ {s \in Pooled : Evicts(s)}
  /\ timer' = FALSE
  /\ UNCHANGED <<pool, entries, inUse, doing, host, seen, held>>

Cleanup ==
  /\ timer
  /\ to' = [s \in Sessions |-> IF s \in Pooled /\ Evicts(s) THEN None ELSE to[s]]
  /\ stale' = stale \ {s \in Pooled : Evicts(s)}
  /\ NewArrays # {}
  /\ LET new == CHOOSE f \in NewArrays : TRUE
         p == [h \in Hosts |-> IF Active(h) = {} THEN None ELSE new[h]]
     IN  /\ pool' = p
         /\ entries' = Swept([a \in Arrays |->
                                IF \E h \in Hosts : p[h] = a
                                  THEN Active(CHOOSE h \in Hosts : p[h] = a)
                                  ELSE entries[a]], p, seen)
         /\ timer' = (\E h \in Hosts : p[h] # None)
  /\ UNCHANGED <<inUse, doing, host, seen, held>>

----------------------------------------------------------------------------
Next ==
  \/ \E c \in Callers :
       \/ \E h \in Hosts : Reuse(c, h) \/ StartConnect(c, h)
       \/ Connected(c) \/ ConnectFails(c) \/ Release(c) \/ ReleaseAndDrain(c)
  \/ \E s \in Sessions : Ages(s)
  \/ Cleanup

Spec == Init /\ [][Next]_vars

(* connect ends, time passes, and setInterval fires.                          *)
FairSpec ==
  /\ Spec
  /\ \A c \in Callers : WF_vars(Connected(c) \/ ConnectFails(c))
  /\ \A s \in Sessions : WF_vars(Ages(s))
  /\ WF_vars(Cleanup)

----------------------------------------------------------------------------
(* What must hold.                                                            *)

(* No session is held by two calls: reuse, connections that finish out of     *)
(* order, drains and evictions notwithstanding.                               *)
ExclusiveUse ==
  \A c, d \in Callers : held[c] = held[d] /\ held[c] # None => c = d

(* The pool implements the abstract lease of sessions.                        *)
Lease == INSTANCE Leases WITH lent <- held
ImplementsLeases == Lease!LeaseSpec

(* A session is closed under the call that holds it only by the drain of      *)
(* another call: never by the eviction of idle entries.                       *)
OnlyDrainClosesHeld ==
  [][\A c \in Callers :
       held[c] # None /\ held'[c] = held[c] /\ to[held[c]] # None /\ to'[held[c]] = None
         => \E d \in Callers \ {c} : doing[d] = "holding" /\ doing'[d] = "idle"]_vars

(* The timer runs while the map holds anything, so that an idle connection    *)
(* that is pooled is seen by it.                                              *)
PooledIsWatched == (\E h \in Hosts : pool[h] # None) => timer

(* An idle entry does not stay in the map: it is used again, or evicted and   *)
(* closed (a call that puts the array it read before its await back over the  *)
(* map's can still take the entry out of the map, unclosed).                  *)
IdleIsEvicted ==
  \A s \in Sessions :
    s \in Pooled \ inUse ~> s \in inUse \/ s \notin Pooled

----------------------------------------------------------------------------
(* What the code or its documents say, and the code does not do.              *)

(* "Return an idle connection if available": what it returns is connected.    *)
ReusedIsOpen ==
  [][\A c \in Callers :
       doing[c] = "idle" /\ doing'[c] = "holding" => to[held'[c]] # None]_vars
=============================================================================
