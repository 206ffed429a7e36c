---------------------------- MODULE FleetPeers ----------------------------
(***************************************************************************)
(* Two fleet members.  HERE queries: its host agent checks the firewall    *)
(* table that keeps everybody else on the host off the peer port, and a    *)
(* child process asks THERE, at most PEER_ATTEMPTS times.  THERE serves:   *)
(* its peer listener asks tailscaled, for every request and in two reads   *)
(* at once, who is calling and who it is itself, and answers a node that   *)
(* is not itself and carries the tag.                                      *)
(*                                                                         *)
(* Around them: a watch that puts HERE's table back, `clawops fleet        *)
(* status` reading one host after the other, strangers on the network, and *)
(* a tailnet whose tags and identities change.                             *)
(***************************************************************************)
EXTENDS Naturals, FiniteSets

CONSTANTS
  Requests,         \* connections the listener can have open
  MAX_PEER_LOOKUPS,
  PEER_ATTEMPTS,
  MaxChanges        \* bound: changes of the world

ASSUME FleetAssumption ==
  /\ IsFiniteSet(Requests)
  /\ MAX_PEER_LOOKUPS \in Nat \ {0} /\ PEER_ATTEMPTS \in Nat \ {0} /\ MaxChanges \in Nat

VARIABLES
  world,      \* what the machines and the tailnet are like now
  changes,    \* how often it changed (bound)
  request,    \* [Requests -> a request of the listener, THERE]
  inFlight,   \* createPeerHandler's counter
  query,      \* the query, HERE
  watch,      \* watchPeerTable, HERE
  status      \* fleet status, on the operator's machine

vars == <<world, changes, request, inFlight, query, watch, status>>

(***************************************************************************)
(* table: HERE's table is the one install loaded.  nft: it can be loaded.  *)
(* tagged: HERE carries the tag THERE serves.  running: THERE is on the    *)
(* tailnet.  self: THERE's StableID.  listener: THERE's.                   *)
(***************************************************************************)
World == [table : BOOLEAN, nft : BOOLEAN, tagged : BOOLEAN, running : BOOLEAN,
          self : {1, 2}, listener : {"down", "waiting", "bound"}]

\* Who is at the other end of a connection: HERE's child or anything else speaking for that
\* node, anybody without the tag (another node, or no node at all), or a process on THERE itself.
Callers == {"here", "stranger", "self"}

None == [stage |-> "none", from |-> "here", asked |-> 0,
         who |-> "pending", me |-> "pending", raced |-> FALSE]

Request == [stage : {"none", "lookup", "served"},
            from  : Callers,
            asked : 0..PEER_ATTEMPTS,    \* the attempt of the query it is; 0: not the query's
            who   : {"pending", "error", "tagged", "untagged", "self1", "self2"},
            me    : {"pending", "error", "self1", "self2"},
            raced : BOOLEAN]       \* THERE registered again while it was looked up

\* What `fleet status` has read: of each host whether it was found in order; of HERE also its tag,
\* of THERE also whether ss was there to say what listens.  A report that finds a problem in a host,
\* or does not reach one, is not ok whatever it says of the other, and is let go of at once.  Not in
\* the code: whether anything that was found in order has changed since.
Unread == [here |-> "unread", there |-> "unread", tagged |-> FALSE, listening |-> FALSE,
           overtaken |-> FALSE]

Stages == {"idle", "checked", "asking", "answered", "refused", "failed"}

TypeOK ==
  /\ world \in World /\ changes \in 0..MaxChanges
  /\ request \in [Requests -> Request] /\ inFlight \in 0..Cardinality(Requests)
  /\ query \in [stage : Stages, attempt : 0..PEER_ATTEMPTS]
  /\ watch \in [stage : {"read", "load", "verify"}, last : {"none", "load", "after"},
                said : {"none", "load", "after", "repaired"}]
  /\ status \in [here : {"unread", "ok"}, there : {"unread", "ok"}, tagged : BOOLEAN,
                 listening : BOOLEAN, overtaken : BOOLEAN]

Init ==
  /\ world = [table |-> TRUE, nft |-> TRUE, tagged |-> TRUE, running |-> TRUE,
              self |-> 1, listener |-> "waiting"]
  /\ changes = 0
  /\ request = [r \in Requests |-> None] /\ inFlight = 0
  /\ query = [stage |-> "idle", attempt |-> 0]
  /\ watch = [stage |-> "read", last |-> "none", said |-> "none"]
  /\ status = Unread

-----------------------------------------------------------------------------
(* The world. *)

\* The change is of something that `fleet status` has found in order.
Overtakes ==
  \/ status.here = "ok" /\ (world'.table # world.table \/ world'.tagged # world.tagged)
  \/ status.there = "ok" /\ (world'.running # world.running \/ world'.listener # world.listener)

\* A flush of the firewall, a tag given or taken, the tailnet lost or joined (under a new
\* identity or the old one), the service stopped or started.
Change ==
  /\ changes < MaxChanges /\ changes' = changes + 1
  /\ \/ \E b \in BOOLEAN :
          world' \in {[world EXCEPT !.nft = b], [world EXCEPT !.tagged = b],
                      [world EXCEPT !.running = b]}
     \/ world' = [world EXCEPT !.table = FALSE]
     \/ \E s \in {1, 2} : world' = [world EXCEPT !.self = s]
     \/ \E l \in {"down", "waiting"} : world' = [world EXCEPT !.listener = l]
  /\ world' # world
  /\ request' = [r \in Requests |->
       IF world'.listener # world.listener THEN None
       ELSE [request[r] EXCEPT !.raced = @ \/ (request[r].stage = "lookup" /\ world'.self # world.self)]]
  /\ inFlight' = IF world'.listener # world.listener THEN 0 ELSE inFlight
  /\ status' = [status EXCEPT !.overtaken = @ \/ Overtakes]
  /\ UNCHANGED <<query, watch>>

-----------------------------------------------------------------------------
(* THERE: the listener. *)

\* startPeerListener looks every few seconds whether there is an address to bind.
startPeerListener ==
  /\ world.listener = "waiting" /\ world.running
  /\ world' = [world EXCEPT !.listener = "bound"]
  /\ UNCHANGED <<changes, request, inFlight, query, watch, status>>

Reachable == world.listener = "bound" /\ world.running

\* A connection that is not the query's.  One more than the limit is refused at once.
Connect(r, from) ==
  /\ request[r].stage = "none" /\ Reachable
  /\ inFlight < MAX_PEER_LOOKUPS
  /\ inFlight' = inFlight + 1
  /\ request' = [request EXCEPT ![r] = [None EXCEPT !.stage = "lookup", !.from = from]]
  /\ UNCHANGED <<world, changes, query, watch, status>>

\* tailscaled's answer to whois, for the connection's exact address and port.
Whois(from) ==
  CASE from = "here"     -> IF world.tagged THEN "tagged" ELSE "untagged"
    [] from = "stranger" -> "untagged"
    [] from = "self"     -> IF world.self = 1 THEN "self1" ELSE "self2"

\* The two reads of authorizePeer run at once and end in either order; each may fail.
whois(r) ==
  /\ request[r].stage = "lookup" /\ request[r].who = "pending"
  /\ \E a \in {Whois(request[r].from), "error"} : request' = [request EXCEPT ![r].who = a]
  /\ UNCHANGED <<world, changes, inFlight, query, watch, status>>

MySelf == IF world.self = 1 THEN "self1" ELSE "self2"

selfStatus(r) ==
  /\ request[r].stage = "lookup" /\ request[r].me = "pending"
  /\ \E a \in {MySelf, "error"} : request' = [request EXCEPT ![r].me = a]
  /\ UNCHANGED <<world, changes, inFlight, query, watch, status>>

\* A process on THERE is named as THERE, tags and all.
Carries(who) == who \in {"tagged", "self1", "self2"}

\* For comparison: this host's identity read once, when the listener started.
AuthorizedCached(q) == q.me \in {"self1", "self2"} /\ q.who # "self1" /\ Carries(q.who)

authorized(q) == q.me \in {"self1", "self2"} /\ q.who # q.me /\ Carries(q.who)

\* The query waits for the answer to this request.
Waiting(r) == query.stage = "asking" /\ request[r].asked = query.attempt

\* For comparison: a refused lookup keeps its slot.
AuthorizeLeaks(r) ==
  /\ request[r].stage = "lookup"
  /\ request[r].who # "pending" /\ request[r].me # "pending"
  /\ ~authorized(request[r])
  /\ request' = [request EXCEPT ![r] = None]
  /\ query' = IF Waiting(r) THEN [query EXCEPT !.stage = "refused"] ELSE query
  /\ UNCHANGED <<world, changes, inFlight, watch, status>>

\* Both reads are in.  The slot is given back whatever they said; a refusal is the answer.  A request
\* whose caller has gone meanwhile may run its tool all the same.
authorizePeer(r) ==
  /\ request[r].stage = "lookup"
  /\ request[r].who # "pending" /\ request[r].me # "pending"
  /\ inFlight' = inFlight - 1
  /\ \/ /\ authorized(request[r])
        /\ request' = [request EXCEPT ![r].stage = "served"]
        /\ UNCHANGED query
     \/ /\ ~authorized(request[r]) \/ ~Waiting(r)
        /\ request' = [request EXCEPT ![r] = None]
        /\ query' = IF Waiting(r) THEN [query EXCEPT !.stage = "refused"] ELSE query
  /\ UNCHANGED <<world, changes, watch, status>>

\* The response is written, or the connection is cut at its cap, or the caller has gone.
Close(r) ==
  /\ request[r].stage = "served"
  /\ request' = [request EXCEPT ![r] = None]
  /\ query' = IF Waiting(r) THEN [query EXCEPT !.stage = "answered"] ELSE query
  /\ UNCHANGED <<world, changes, inFlight, watch, status>>

-----------------------------------------------------------------------------
(* HERE: a query. *)

\* peerQueryBlocked: the table is read back before every query.
peerQueryBlocked ==
  /\ query.stage = "idle"
  /\ query' = [query EXCEPT !.stage = IF world.table THEN "checked" ELSE "refused"]
  /\ UNCHANGED <<world, changes, request, inFlight, watch, status>>

AttemptsLeft == query.attempt < PEER_ATTEMPTS

\* One attempt: a connection that the listener takes, or refuses for its limit, or none.
callPeer(r) ==
  /\ query.stage = "checked" /\ AttemptsLeft
  /\ request[r].stage = "none"
  /\ \/ /\ Reachable /\ inFlight < MAX_PEER_LOOKUPS
        /\ inFlight' = inFlight + 1
        /\ request' = [request EXCEPT ![r] =
                         [None EXCEPT !.stage = "lookup", !.from = "here", !.asked = query.attempt + 1]]
        /\ query' = [stage |-> "asking", attempt |-> query.attempt + 1]
     \/ /\ Reachable /\ inFlight >= MAX_PEER_LOOKUPS
        /\ query' = [stage |-> "refused", attempt |-> query.attempt + 1]
        /\ UNCHANGED <<inFlight, request>>
     \/ /\ ~Reachable
        /\ query' = [query EXCEPT !.attempt = @ + 1]
        /\ UNCHANGED <<inFlight, request>>
  /\ UNCHANGED <<world, changes, watch, status>>

\* The deadline of an attempt passes.  THERE does not know, and may still run the tool.
Stall ==
  /\ query.stage = "asking"
  /\ query' = [query EXCEPT !.stage = "checked"]
  /\ UNCHANGED <<world, changes, request, inFlight, watch, status>>

\* No attempt is left.
GiveUp ==
  /\ query.stage = "checked" /\ ~AttemptsLeft
  /\ query' = [query EXCEPT !.stage = "failed"]
  /\ UNCHANGED <<world, changes, request, inFlight, watch, status>>

\* For comparison: the child's limit counts only while it waits for a peer.
LimitWhileAsking == query.stage = "asking"

UnderLimit == query.stage \in {"checked", "asking"}

\* runPeerCall without an answer of its child: the user or the node is not there, or the child
\* ran past its limit and was killed.
runPeerCall ==
  /\ UnderLimit
  /\ query' = [query EXCEPT !.stage = "failed"]
  /\ UNCHANGED <<world, changes, request, inFlight, watch, status>>

\* The next query; what is left of this one's requests is nobody's.
NextQuery ==
  /\ query.stage \in {"answered", "refused", "failed"}
  /\ query' = [stage |-> "idle", attempt |-> 0]
  /\ request' = [r \in Requests |-> [request[r] EXCEPT !.asked = 0]]
  /\ UNCHANGED <<world, changes, inFlight, watch, status>>

-----------------------------------------------------------------------------
(* HERE: the watch on the table. *)

\* What watchPeerTable remembers and records of a failed repair: the record is skipped when the
\* failure is the one it remembers.
Failed(w, why) == [stage |-> "read", last |-> why, said |-> IF w.last = why THEN w.said ELSE why]

\* For comparison: a repair that worked does not forget the failure before it.
RepairedRemembers(w) == [w EXCEPT !.stage = "read", !.said = "repaired"]

Repaired(w) == [stage |-> "read", last |-> "none", said |-> "repaired"]

\* For comparison: the watch stops when a load fails.
RepairGivesUp ==
  /\ watch.last = "none"
  /\ \/ /\ watch.stage = "read"
        /\ watch' = IF world.table THEN [watch EXCEPT !.last = "none"] ELSE [watch EXCEPT !.stage = "load"]
        /\ UNCHANGED world
     \/ /\ watch.stage = "load"
        /\ world' = [world EXCEPT !.table = @ \/ world.nft]
        /\ watch' = IF world.nft THEN [watch EXCEPT !.stage = "verify"] ELSE Failed(watch, "load")
  /\ UNCHANGED <<changes, request, inFlight, query, status>>

\* repairPeerTable: read the table; load it when it is not as installed; read it again.
repairPeerTable ==
  /\ \/ /\ watch.stage = "read"
        /\ watch' = IF world.table THEN [watch EXCEPT !.last = "none"] ELSE [watch EXCEPT !.stage = "load"]
        /\ UNCHANGED world
     \/ /\ watch.stage = "load"
        /\ world' = [world EXCEPT !.table = @ \/ world.nft]
        /\ watch' = IF world.nft THEN [watch EXCEPT !.stage = "verify"] ELSE Failed(watch, "load")
     \/ /\ watch.stage = "verify"
        /\ watch' = IF world.table THEN Repaired(watch) ELSE Failed(watch, "after")
        /\ UNCHANGED world
  /\ UNCHANGED <<changes, request, inFlight, query, status>>

-----------------------------------------------------------------------------
(* The operator's machine: fleet status, one host after the other. *)

\* assessHost of THERE.  A listener that still waits for its address is a problem only if ss said so:
\* ss may be missing, and the report may have been cut before its last section.
ServesWell(listening) ==
  world.running /\ world.listener # "down" /\ (listening => world.listener = "bound")

\* readHost, in either order of the hosts: what one host says of itself.
readHost ==
  /\ \/ /\ status.here = "unread" /\ world.table
        /\ status' = [status EXCEPT !.here = "ok", !.tagged = world.tagged]
     \/ /\ status.there = "unread"
        /\ \E l \in BOOLEAN : /\ ServesWell(l)
                             /\ status' = [status EXCEPT !.there = "ok", !.listening = l]
     \/ status' = Unread
  /\ UNCHANGED <<world, changes, request, inFlight, query, watch>>

\* For comparison: the hosts are judged one by one.
NoCrossCheck == TRUE

\* What is wrong between the hosts: HERE lacks the tag THERE answers.
crossCheck == status.there = "ok" => status.tagged

StatusOk == status.here = "ok" /\ status.there = "ok" /\ crossCheck

-----------------------------------------------------------------------------
Next ==
  \/ Change \/ startPeerListener
  \/ \E r \in Requests :
       \/ \E from \in Callers : Connect(r, from)
       \/ whois(r) \/ selfStatus(r) \/ authorizePeer(r) \/ Close(r) \/ callPeer(r)
  \/ peerQueryBlocked \/ Stall \/ GiveUp \/ runPeerCall \/ NextQuery
  \/ repairPeerTable \/ readHost

\* The child's deadlines and its limit, and the watch's timer, are real timers.
Fairness ==
  /\ WF_vars(Stall) /\ WF_vars(GiveUp) /\ WF_vars(runPeerCall)
  /\ WF_vars(repairPeerTable)

Spec == Init /\ [][Next]_vars /\ Fairness

-----------------------------------------------------------------------------
(* The listener runs a tool only for another node that carried the tag     *)
(* when it was asked about, or while THERE itself registered anew during   *)
(* the lookup (authorizePeer: identity is read for every request).         *)
ServesOnlyTaggedPeers ==
  \A r \in Requests : request[r].stage = "served" =>
    (request[r].from = "here" /\ request[r].who = "tagged") \/ request[r].raced

(* The counter of lookups in flight is their number, whatever each of them *)
(* ended with, and never more than the limit (createPeerHandler).          *)
SlotsAreGivenBack ==
  /\ inFlight = Cardinality({r \in Requests : request[r].stage = "lookup"})
  /\ inFlight <= MAX_PEER_LOOKUPS

(* When `fleet status` finds nothing wrong, and nothing that it read of a   *)
(* host has changed since, though the hosts were read apart, THERE          *)
(* authorises a query from HERE; and if it could see what listens, the      *)
(* query reaches THERE (assessHost, crossCheck).                            *)
StatusOkMeansServed ==
  StatusOk /\ ~status.overtaken =>
    /\ world.table /\ world.running /\ world.listener # "down"
    /\ status.listening => Reachable
    /\ authorized([None EXCEPT !.who = Whois("here"), !.me = MySelf])

(* A failure to restore the table that still stands is the last thing the  *)
(* audit log says of it (watchPeerTable).                                  *)
FailureOnRecord == watch.last # "none" => watch.said = watch.last

(* A query ends, whatever THERE and the tailnet do.                        *)
QueryEnds == query.stage = "checked" ~> query.stage \in {"answered", "refused", "failed"}

(* A table that was flushed is put back, as long as nft can load it.       *)
TableIsPutBack == ~world.table ~> world.table \/ ~world.nft
=============================================================================
