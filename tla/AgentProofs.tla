----------------------------- MODULE AgentProofs -----------------------------
(* What the servers beside the gateway promise.                               *)
(*                                                                            *)
(* FleetPeers: for any number of connections, any limit on the lookups and on *)
(* the attempts, and any number of changes of the world.                      *)
(*                                                                            *)
(* HostAgent: for any number of calls, agents, operators and clocks, and any  *)
(* edits of openclaw.json.                                                    *)
(*                                                                            *)
(* HostSetup: for any number of installs, removals, runs of `clawops harden`  *)
(* and reboots, with any settings of sshd and any tokens.                     *)
EXTENDS FleetPeers, HostAgent, HostSetup, FiniteSetTheorems, TLAPS

(* The requests that hold a slot.                                             *)
LookedUp == {r \in Requests : request[r].stage = "lookup"}

(* Whether a caller is served is decided on two reads that were made at two   *)
(* moments.  What makes them one answer is that each still holds, unless      *)
(* THERE registered again since the connection was made.                      *)
ReadsAgree ==
  \A r \in Requests : request[r].stage = "lookup" /\ ~request[r].raced =>
    /\ request[r].who = "tagged" => request[r].from = "here"
    /\ request[r].who \in {"self1", "self2"} => request[r].who = MySelf
    /\ request[r].me \in {"self1", "self2"} => request[r].me = MySelf

(* What `fleet status` has read of a host still holds, unless a change was of  *)
(* that: the repair and the listener only mend.                               *)
ReadIsCurrent ==
  ~status.overtaken =>
    /\ status.here = "ok" => world.table /\ status.tagged = world.tagged
    /\ status.there = "ok" => ServesWell(status.listening)

Inv ==
  /\ TypeOK /\ SlotsAreGivenBack /\ ReadsAgree /\ ServesOnlyTaggedPeers
  /\ ReadIsCurrent /\ FailureOnRecord

-----------------------------------------------------------------------------
(* Slots. *)

(* The slots in use are finitely many, so that their number counts.           *)
LEMMA LookedUpFinite ==
  /\ IsFiniteSet(LookedUp)
  /\ Cardinality(LookedUp) \in Nat
  /\ Cardinality(LookedUp) <= Cardinality(Requests)
  /\ Cardinality(Requests) \in Nat
<1>1. IsFiniteSet(Requests)
  BY FleetAssumption
<1>2. LookedUp \in SUBSET Requests
  BY DEF LookedUp
<1>3. IsFiniteSet(LookedUp) /\ Cardinality(LookedUp) <= Cardinality(Requests)
  BY <1>1, <1>2, FS_Subset
<1>. QED  BY <1>1, <1>3, FS_CardinalityType

(* A connection that is taken holds one slot more, and there are at most as   *)
(* many as connections.                                                       *)
LEMMA SlotTaken ==
  ASSUME TypeOK, SlotsAreGivenBack, NEW r \in Requests, NEW q,
         request[r].stage # "lookup", q.stage = "lookup", q \in Request,
         inFlight < MAX_PEER_LOOKUPS, inFlight' = inFlight + 1,
         request' = [request EXCEPT ![r] = q]
  PROVE  SlotsAreGivenBack' /\ inFlight' \in 0..Cardinality(Requests)
<1>1. LookedUp' = LookedUp \cup {r} /\ r \notin LookedUp
  BY DEF LookedUp, TypeOK
<1>2. Cardinality(LookedUp') = Cardinality(LookedUp) + 1
  BY <1>1, LookedUpFinite, FS_AddElement
<1>3. IsFiniteSet(Requests) /\ LookedUp' \in SUBSET Requests
  BY <1>1, FleetAssumption DEF LookedUp
<1>4. Cardinality(LookedUp') <= Cardinality(Requests)
  BY <1>3, FS_Subset
<1>5. MAX_PEER_LOOKUPS \in Nat
  BY FleetAssumption
<1>. QED  BY <1>2, <1>4, <1>5, LookedUpFinite DEF SlotsAreGivenBack, LookedUp

(* A lookup that ends gives its slot back.                                    *)
LEMMA SlotGiven ==
  ASSUME TypeOK, SlotsAreGivenBack, NEW r \in Requests, NEW q,
         request[r].stage = "lookup", q.stage # "lookup", q \in Request,
         inFlight' = inFlight - 1,
         request' = [request EXCEPT ![r] = q]
  PROVE  SlotsAreGivenBack' /\ inFlight' \in 0..Cardinality(Requests)
<1>1. LookedUp' = LookedUp \ {r} /\ r \in LookedUp
  BY DEF LookedUp, TypeOK
<1>2. Cardinality(LookedUp') = Cardinality(LookedUp) - 1
  BY <1>1, LookedUpFinite, FS_RemoveElement
<1>3. IsFiniteSet(LookedUp')
  BY <1>1, LookedUpFinite, FS_RemoveElement
<1>4. Cardinality(LookedUp') \in Nat
  BY <1>3, FS_CardinalityType
<1>5. MAX_PEER_LOOKUPS \in Nat
  BY FleetAssumption
<1>. QED  BY <1>2, <1>4, <1>5, LookedUpFinite DEF SlotsAreGivenBack, LookedUp

(* A step that neither takes nor ends a lookup leaves the count as it is.     *)
LEMMA SlotsSame ==
  ASSUME TypeOK, SlotsAreGivenBack, inFlight' = inFlight,
         \A r \in Requests : request'[r].stage = "lookup" <=> request[r].stage = "lookup"
  PROVE  SlotsAreGivenBack' /\ inFlight' \in 0..Cardinality(Requests)
<1>1. LookedUp' = LookedUp
  BY DEF LookedUp
<1>. QED  BY <1>1 DEF SlotsAreGivenBack, LookedUp, TypeOK

-----------------------------------------------------------------------------
(* One step after the other. *)

(* In the initial state nothing is looked up, read or recorded.               *)
LEMMA InitInv == Init => Inv
<1>. SUFFICES ASSUME Init PROVE Inv
  OBVIOUS
<1>1. LookedUp = {}
  BY DEF Init, None, LookedUp
<1>2. Cardinality(LookedUp) = 0
  BY <1>1, FS_EmptySet
<1>3. SlotsAreGivenBack
  BY <1>2, FleetAssumption DEF Init, LookedUp, SlotsAreGivenBack
<1>4. TypeOK
  BY LookedUpFinite, FleetAssumption
     DEF Init, TypeOK, World, Request, Callers, None, Stages, Unread
<1>5. ReadsAgree /\ ServesOnlyTaggedPeers /\ ReadIsCurrent /\ FailureOnRecord
  BY DEF Init, ReadsAgree, ServesOnlyTaggedPeers, ReadIsCurrent, FailureOnRecord, None, Unread
<1>. QED  BY <1>3, <1>4, <1>5 DEF Inv

(* What a change of the world undoes: a listener that goes takes its requests *)
(* with it, and a new identity and what `fleet status` had read are on record. *)
LEMMA ChangeInv == ASSUME Inv, Change PROVE Inv'
<1>1. world' \in World
  BY DEF Inv, TypeOK, Change, World
<1>10. None \in Request /\ None.stage = "none"
  BY FleetAssumption DEF None, Request, Callers
<1>2. ASSUME NEW r \in Requests
      PROVE  /\ request'[r] \in Request
             /\ world'.listener # world.listener => request'[r].stage = "none"
             /\ world'.listener = world.listener =>
                  /\ request'[r].stage = request[r].stage /\ request'[r].from = request[r].from
                  /\ request'[r].who = request[r].who /\ request'[r].me = request[r].me
                  /\ request[r].raced => request'[r].raced
                  /\ request[r].stage = "lookup" /\ world'.self # world.self => request'[r].raced
  <2>1. CASE world'.listener # world.listener
    <3>1. request'[r] = None
      BY <2>1 DEF Change
    <3>. QED  BY <1>10, <2>1, <3>1
  <2>2. CASE world'.listener = world.listener
    <3> DEFINE b == request[r].raced \/ (request[r].stage = "lookup" /\ world'.self # world.self)
    <3>1. b \in BOOLEAN
      OBVIOUS
    <3>2. request'[r] = [request[r] EXCEPT !.raced = b]
      BY <2>2 DEF Change
    <3>3. (request[r].raced => b) /\ (request[r].stage = "lookup" /\ world'.self # world.self => b)
      OBVIOUS
    <3>. HIDE DEF b
    <3>4. request[r] \in Request
      BY DEF Inv, TypeOK
    <3>5. request'[r].raced = b
      BY <3>2, <3>4 DEF Request
    <3>6. /\ request'[r].stage = request[r].stage /\ request'[r].from = request[r].from
          /\ request'[r].who = request[r].who /\ request'[r].me = request[r].me
      BY <3>2, <3>4 DEF Request
    <3>7. request'[r] \in Request
      BY <3>1, <3>2, <3>4 DEF Request
    <3>. QED  BY <2>2, <3>3, <3>5, <3>6, <3>7
  <2>. QED  BY <2>1, <2>2
<1>11. request' \in [Requests -> Request]
  <2>1. request' = [r \in Requests |-> request'[r]]
    BY DEF Change
  <2>. QED  BY <1>2, <2>1
<1>3. SlotsAreGivenBack' /\ inFlight' \in 0..Cardinality(Requests)
  <2>1. CASE world'.listener = world.listener
    <3>1. \A r \in Requests : request'[r].stage = request[r].stage
      BY <1>2, <2>1
    <3>. QED  BY <2>1, <3>1, SlotsSame DEF Inv, Change
  <2>2. CASE world'.listener # world.listener
    <3>1. LookedUp' = {}
      BY <2>2 DEF Change, LookedUp, None
    <3>2. Cardinality(LookedUp') = 0
      BY <3>1, FS_EmptySet
    <3>. QED  BY <2>2, <3>2, LookedUpFinite, FleetAssumption DEF Change, LookedUp, SlotsAreGivenBack
  <2>. QED  BY <2>1, <2>2
<1>. DEFINE over == status.overtaken \/ Overtakes
<1>7. /\ over \in BOOLEAN /\ status' = [status EXCEPT !.overtaken = over]
      /\ ~over => ~status.overtaken /\ ~Overtakes
  BY DEF Change
<1>8. /\ status' \in [here : {"unread", "ok"}, there : {"unread", "ok"}, tagged : BOOLEAN,
                     listening : BOOLEAN, overtaken : BOOLEAN]
      /\ status'.here = status.here /\ status'.there = status.there
      /\ status'.tagged = status.tagged /\ status'.listening = status.listening
      /\ status'.overtaken = over
  <2>. HIDE DEF over
  <2>. QED  BY <1>7 DEF Inv, TypeOK
<1>4. TypeOK'
  BY <1>1, <1>11, <1>3, <1>8, FleetAssumption DEF Inv, TypeOK, Change
<1>5. ReadsAgree'
  BY <1>2 DEF Inv, ReadsAgree, MySelf
<1>6. ServesOnlyTaggedPeers'
  BY <1>2 DEF Inv, ServesOnlyTaggedPeers
<1>9. ReadIsCurrent'
  <2>. SUFFICES ASSUME ~status'.overtaken PROVE ReadIsCurrent'
    BY DEF ReadIsCurrent
  <2>1. ~status.overtaken /\ ~Overtakes
    BY <1>7, <1>8
  <2>2. /\ status.here = "ok" => world'.table = world.table /\ world'.tagged = world.tagged
        /\ status.there = "ok" => world'.running = world.running /\ world'.listener = world.listener
    BY <2>1 DEF Overtakes
  <2>. QED  BY <1>8, <2>1, <2>2 DEF Inv, ReadIsCurrent, ServesWell
<1>12. FailureOnRecord'
  BY DEF Inv, Change, FailureOnRecord
<1>. QED  BY <1>3, <1>4, <1>5, <1>6, <1>9, <1>12 DEF Inv

(* A connection that is taken has read nothing yet.                           *)
LEMMA TakenInv ==
  ASSUME Inv, NEW r \in Requests, NEW q \in Request,
         request[r].stage # "lookup", inFlight < MAX_PEER_LOOKUPS, inFlight' = inFlight + 1,
         q.stage = "lookup", q.who = "pending", q.me = "pending",
         request' = [request EXCEPT ![r] = q],
         query' \in [stage : Stages, attempt : 0..PEER_ATTEMPTS],
         UNCHANGED <<world, changes, watch, status>>
  PROVE  Inv'
<1>1. SlotsAreGivenBack' /\ inFlight' \in 0..Cardinality(Requests)
  BY SlotTaken DEF Inv
<1>2. TypeOK'
  BY <1>1 DEF Inv, TypeOK
<1>3. ReadsAgree' /\ ServesOnlyTaggedPeers'
  BY DEF Inv, TypeOK, ReadsAgree, ServesOnlyTaggedPeers, MySelf
<1>4. ReadIsCurrent' /\ FailureOnRecord'
  BY DEF Inv, ReadIsCurrent, FailureOnRecord, ServesWell
<1>. QED  BY <1>1, <1>2, <1>3, <1>4 DEF Inv

(* Each read of a lookup is an error or what holds at that moment.            *)
LEMMA WhoisInv == ASSUME Inv, NEW r \in Requests, whois(r) PROVE Inv'
<1>1. PICK a \in {Whois(request[r].from), "error"} : request' = [request EXCEPT ![r].who = a]
  BY DEF whois
<1>2. a \in {"error", "tagged", "untagged", "self1", "self2"}
      /\ (a = "tagged" => request[r].from = "here")
      /\ (a \in {"self1", "self2"} => a = MySelf)
  BY <1>1 DEF Whois, MySelf, Inv, TypeOK, Request, Callers
<1>3. request' \in [Requests -> Request]
  BY <1>1, <1>2 DEF Inv, TypeOK, Request
<1>4. SlotsAreGivenBack' /\ inFlight' \in 0..Cardinality(Requests)
  <2>1. \A x \in Requests : request'[x].stage = request[x].stage
    BY <1>1 DEF Inv, TypeOK, Request
  <2>. QED  BY <2>1, SlotsSame DEF Inv, whois
<1>5. TypeOK'
  BY <1>3, <1>4 DEF Inv, TypeOK, whois
<1>6. ReadsAgree'
  BY <1>1, <1>2 DEF Inv, TypeOK, Request, whois, ReadsAgree, MySelf
<1>7. ServesOnlyTaggedPeers'
  BY <1>1 DEF Inv, TypeOK, Request, whois, ServesOnlyTaggedPeers
<1>8. ReadIsCurrent' /\ FailureOnRecord'
  BY DEF Inv, whois, ReadIsCurrent, FailureOnRecord, ServesWell
<1>. QED  BY <1>4, <1>5, <1>6, <1>7, <1>8 DEF Inv

(* The host asks tailscaled about itself, which takes and gives back no      *)
(* slot.                                                                     *)
LEMMA SelfStatusInv == ASSUME Inv, NEW r \in Requests, selfStatus(r) PROVE Inv'
<1>1. PICK a \in {MySelf, "error"} : request' = [request EXCEPT ![r].me = a]
  BY DEF selfStatus
<1>2. a \in {"error", "self1", "self2"}
  BY <1>1 DEF MySelf
<1>3. request' \in [Requests -> Request]
  BY <1>1, <1>2 DEF Inv, TypeOK, Request
<1>4. SlotsAreGivenBack' /\ inFlight' \in 0..Cardinality(Requests)
  <2>1. \A x \in Requests : request'[x].stage = request[x].stage
    BY <1>1 DEF Inv, TypeOK, Request
  <2>. QED  BY <2>1, SlotsSame DEF Inv, selfStatus
<1>5. TypeOK'
  BY <1>3, <1>4 DEF Inv, TypeOK, selfStatus
<1>6. ReadsAgree'
  BY <1>1 DEF Inv, TypeOK, Request, selfStatus, ReadsAgree, MySelf
<1>7. ServesOnlyTaggedPeers'
  BY <1>1 DEF Inv, TypeOK, Request, selfStatus, ServesOnlyTaggedPeers
<1>8. ReadIsCurrent' /\ FailureOnRecord'
  BY DEF Inv, selfStatus, ReadIsCurrent, FailureOnRecord, ServesWell
<1>. QED  BY <1>4, <1>5, <1>6, <1>7, <1>8 DEF Inv

(* The decision: a node that is not THERE and carries the tag is HERE.        *)
LEMMA AuthorizeInv == ASSUME Inv, NEW r \in Requests, authorizePeer(r) PROVE Inv'
<1>1. PICK q \in Request :
        /\ request' = [request EXCEPT ![r] = q] /\ q.stage # "lookup"
        /\ q.stage = "served" =>
             /\ authorized(request[r])
             /\ q = [request[r] EXCEPT !.stage = "served"]
  <2>1. None \in Request
    BY FleetAssumption DEF None, Request, Callers
  <2>2. [request[r] EXCEPT !.stage = "served"] \in Request
    BY DEF Inv, TypeOK, Request
  <2>3. CASE request' = [request EXCEPT ![r] = None]
    BY <2>1, <2>3 DEF None
  <2>4. CASE authorized(request[r]) /\ request' = [request EXCEPT ![r].stage = "served"]
    BY <2>2, <2>4 DEF Inv, TypeOK, Request
  <2>. QED  BY <2>3, <2>4 DEF authorizePeer
<1>2. SlotsAreGivenBack' /\ inFlight' \in 0..Cardinality(Requests)
  BY <1>1, SlotGiven DEF Inv, authorizePeer
<1>3. TypeOK'
  BY <1>1, <1>2 DEF Inv, TypeOK, authorizePeer, Stages
<1>4. ReadsAgree'
  BY <1>1 DEF Inv, TypeOK, authorizePeer, ReadsAgree, MySelf
<1>5. ServesOnlyTaggedPeers'
  <2>1. authorized(request[r]) /\ ~request[r].raced =>
          request[r].from = "here" /\ request[r].who = "tagged"
    BY DEF Inv, TypeOK, Request, authorizePeer, authorized, Carries, ReadsAgree
  <2>2. request[r] \in Request
    BY DEF Inv, TypeOK
  <2>. QED  BY <1>1, <2>1, <2>2 DEF Inv, TypeOK, Request, ServesOnlyTaggedPeers
<1>6. ReadIsCurrent' /\ FailureOnRecord'
  BY DEF Inv, authorizePeer, ReadIsCurrent, FailureOnRecord, ServesWell
<1>. QED  BY <1>2, <1>3, <1>4, <1>5, <1>6 DEF Inv

(* A step of the query, or the end of a request, that leaves the world, the   *)
(* watch, the status, the slots and what each lookup has read as they are.    *)
LEMMA AsideInv ==
  ASSUME Inv, request' \in [Requests -> Request],
         \A r \in Requests :
           \/ request[r].stage # "lookup" /\ request'[r].stage = "none"
           \/ /\ request'[r].stage = request[r].stage /\ request'[r].from = request[r].from
              /\ request'[r].who = request[r].who /\ request'[r].me = request[r].me
              /\ request'[r].raced = request[r].raced,
         query' \in [stage : Stages, attempt : 0..PEER_ATTEMPTS],
         UNCHANGED <<world, changes, inFlight, watch, status>>
  PROVE  Inv'
<1>1. SlotsAreGivenBack' /\ inFlight' \in 0..Cardinality(Requests)
  BY SlotsSame DEF Inv
<1>2. TypeOK'
  BY <1>1 DEF Inv, TypeOK
<1>3. ReadsAgree'
  BY DEF Inv, ReadsAgree, MySelf
<1>4. ServesOnlyTaggedPeers'
  BY DEF Inv, ServesOnlyTaggedPeers
<1>5. ReadIsCurrent' /\ FailureOnRecord'
  BY DEF Inv, ReadIsCurrent, FailureOnRecord, ServesWell
<1>. QED  BY <1>1, <1>2, <1>3, <1>4, <1>5 DEF Inv

(* An attempt is taken, refused for the limit, or finds nobody.               *)
LEMMA CallInv == ASSUME Inv, NEW r \in Requests, callPeer(r) PROVE Inv'
<1>1. query.attempt + 1 \in 0..PEER_ATTEMPTS
  BY FleetAssumption DEF Inv, TypeOK, callPeer, AttemptsLeft
<1>2. CASE inFlight < MAX_PEER_LOOKUPS /\ inFlight' = inFlight + 1
  <2> DEFINE q == [None EXCEPT !.stage = "lookup", !.from = "here", !.asked = query.attempt + 1]
  <2>1. request' = [request EXCEPT ![r] = q]
        /\ query' = [stage |-> "asking", attempt |-> query.attempt + 1]
    BY <1>2 DEF callPeer, Inv, TypeOK
  <2>2. q \in Request /\ q.stage = "lookup" /\ q.who = "pending" /\ q.me = "pending"
    BY <1>1 DEF None, Request, Callers
  <2>3. query' \in [stage : Stages, attempt : 0..PEER_ATTEMPTS]
    BY <1>1, <2>1 DEF Stages
  <2>4. request[r].stage # "lookup" /\ UNCHANGED <<world, changes, watch, status>>
    BY DEF callPeer
  <2>. HIDE DEF q
  <2>. QED  BY <1>2, <2>1, <2>2, <2>3, <2>4, TakenInv
<1>3. CASE UNCHANGED <<inFlight, request>>
  <2>1. query' \in [stage : Stages, attempt : 0..PEER_ATTEMPTS]
    BY <1>1 DEF callPeer, Inv, TypeOK, Stages
  <2>. QED  BY <1>3, <2>1, AsideInv DEF callPeer, Inv, TypeOK
<1>. QED  BY <1>2, <1>3 DEF callPeer

(* The watch and the listener only mend what `fleet status` has read, and the *)
(* watch records a failure it had not recorded.                               *)
LEMMA MendInv == ASSUME Inv, repairPeerTable \/ startPeerListener PROVE Inv'
<1>1. SlotsAreGivenBack' /\ inFlight' \in 0..Cardinality(Requests)
  BY SlotsSame DEF Inv, repairPeerTable, startPeerListener
<1>2. world' \in World /\ world'.self = world.self
      /\ world'.tagged = world.tagged /\ (world.table => world'.table)
      /\ \A l : ServesWell(l) => ServesWell(l)'
  BY DEF Inv, TypeOK, World, repairPeerTable, startPeerListener, ServesWell
<1>3. TypeOK'
  BY <1>1, <1>2 DEF Inv, TypeOK, repairPeerTable, startPeerListener, Failed, Repaired
<1>4. ReadsAgree' /\ ServesOnlyTaggedPeers'
  BY <1>2 DEF Inv, repairPeerTable, startPeerListener, ReadsAgree, ServesOnlyTaggedPeers, MySelf
<1>5. ReadIsCurrent'
  BY <1>2 DEF Inv, repairPeerTable, startPeerListener, ReadIsCurrent
<1>6. FailureOnRecord'
  BY DEF Inv, TypeOK, repairPeerTable, startPeerListener, FailureOnRecord, Failed, Repaired
<1>. QED  BY <1>1, <1>3, <1>4, <1>5, <1>6 DEF Inv

(* `fleet status` reads what holds.                                           *)
LEMMA ReadHostInv == ASSUME Inv, readHost PROVE Inv'
<1>7. UNCHANGED <<world, changes, request, inFlight, query, watch>>
  BY Zenon DEF readHost
<1>1. SlotsAreGivenBack' /\ inFlight' \in 0..Cardinality(Requests)
  BY <1>7, SlotsSame DEF Inv
<1>2. status \in [here : {"unread", "ok"}, there : {"unread", "ok"}, tagged : BOOLEAN,
                  listening : BOOLEAN, overtaken : BOOLEAN] /\ world.tagged \in BOOLEAN
  BY DEF Inv, TypeOK, World
<1>. DEFINE ReadCurrent ==
       /\ status' \in [here : {"unread", "ok"}, there : {"unread", "ok"}, tagged : BOOLEAN,
                       listening : BOOLEAN, overtaken : BOOLEAN]
       /\ ~status'.overtaken =>
            /\ status'.here = "ok" => world.table /\ status'.tagged = world.tagged
            /\ status'.there = "ok" => ServesWell(status'.listening)
<1>6. ReadCurrent
  <2>1. CASE world.table /\ status' = [status EXCEPT !.here = "ok", !.tagged = world.tagged]
    BY <1>2, <2>1 DEF Inv, ReadIsCurrent
  <2>2. ASSUME NEW l \in BOOLEAN, ServesWell(l),
               status' = [status EXCEPT !.there = "ok", !.listening = l]
        PROVE  ReadCurrent
    BY <1>2, <2>2 DEF Inv, ReadIsCurrent
  <2>3. CASE status' = Unread
    BY <2>3 DEF Unread
  <2>. HIDE DEF ReadCurrent
  <2>. QED  BY <2>1, <2>2, <2>3, Zenon DEF readHost
<1>3. TypeOK'
  BY <1>1, <1>6, <1>7 DEF Inv, TypeOK
<1>4. ReadsAgree' /\ ServesOnlyTaggedPeers' /\ FailureOnRecord'
  BY <1>7 DEF Inv, ReadsAgree, ServesOnlyTaggedPeers, FailureOnRecord, MySelf
<1>5. ReadIsCurrent'
  BY <1>6, <1>7 DEF ReadIsCurrent, ServesWell
<1>. QED  BY <1>1, <1>3, <1>4, <1>5 DEF Inv

(* Every step of the host and of its peers keeps the invariant.              *)
LEMMA NextInv == Inv /\ [Next]_vars => Inv'
<1>. SUFFICES ASSUME Inv, [Next]_vars PROVE Inv'
  OBVIOUS
<1>1. CASE Change
  BY <1>1, ChangeInv
<1>2. ASSUME NEW r \in Requests, NEW f \in Callers, Connect(r, f) PROVE Inv'
  <2> DEFINE q == [None EXCEPT !.stage = "lookup", !.from = f]
  <2>1. q \in Request /\ q.stage = "lookup" /\ q.who = "pending" /\ q.me = "pending"
    <3>1. q.stage = "lookup" /\ q.who = "pending" /\ q.me = "pending"
      BY DEF None
    <3>2. f \in Callers /\ 0 \in 0..PEER_ATTEMPTS
      BY <1>2, FleetAssumption
    <3>3. q \in Request
      BY <3>2 DEF None, Request
    <3>. QED  BY <3>1, <3>3
  <2>2. /\ request[r].stage # "lookup" /\ inFlight < MAX_PEER_LOOKUPS /\ inFlight' = inFlight + 1
        /\ request' = [request EXCEPT ![r] = q] /\ UNCHANGED <<world, changes, query, watch, status>>
    BY <1>2 DEF Connect
  <2>3. query' \in [stage : Stages, attempt : 0..PEER_ATTEMPTS]
    BY <2>2 DEF Inv, TypeOK
  <2>. HIDE DEF q
  <2>. QED  BY <2>1, <2>2, <2>3, TakenInv
<1>3. ASSUME NEW r \in Requests, whois(r) \/ selfStatus(r) \/ authorizePeer(r) \/ callPeer(r) PROVE Inv'
  BY <1>3, WhoisInv, SelfStatusInv, AuthorizeInv, CallInv
<1>4. ASSUME NEW r \in Requests, Close(r) PROVE Inv'
  <2>1. None \in Request /\ None.stage = "none"
    BY FleetAssumption DEF None, Request, Callers
  <2>2. request' = [request EXCEPT ![r] = None] /\ request[r].stage = "served"
        /\ UNCHANGED <<world, changes, inFlight, watch, status>>
    BY <1>4 DEF Close
  <2>3. request' \in [Requests -> Request]
    BY <2>1, <2>2 DEF Inv, TypeOK
  <2>4. query' \in [stage : Stages, attempt : 0..PEER_ATTEMPTS]
    BY <1>4 DEF Close, Inv, TypeOK, Stages
  <2>. QED  BY <2>1, <2>2, <2>3, <2>4, AsideInv DEF Inv, TypeOK
<1>5. CASE peerQueryBlocked \/ Stall \/ GiveUp \/ runPeerCall
  <2>1. UNCHANGED <<world, changes, request, inFlight, watch, status>>
    BY <1>5 DEF peerQueryBlocked, Stall, GiveUp, runPeerCall
  <2>2. query' \in [stage : Stages, attempt : 0..PEER_ATTEMPTS]
    BY <1>5 DEF peerQueryBlocked, Stall, GiveUp, runPeerCall, Inv, TypeOK, Stages
  <2>. QED  BY <2>1, <2>2, AsideInv DEF Inv, TypeOK
<1>6. CASE NextQuery
  <2>1. request' \in [Requests -> Request]
        /\ \A r \in Requests :
             /\ request'[r].stage = request[r].stage /\ request'[r].from = request[r].from
             /\ request'[r].who = request[r].who /\ request'[r].me = request[r].me
             /\ request'[r].raced = request[r].raced
    BY <1>6, FleetAssumption DEF NextQuery, Inv, TypeOK, Request
  <2>2. query' \in [stage : Stages, attempt : 0..PEER_ATTEMPTS]
    BY <1>6, FleetAssumption DEF NextQuery, Stages
  <2>3. UNCHANGED <<world, changes, inFlight, watch, status>>
    BY <1>6 DEF NextQuery
  <2>. QED  BY <2>1, <2>2, <2>3, AsideInv
<1>7. CASE repairPeerTable \/ startPeerListener
  BY <1>7, MendInv
<1>8. CASE readHost
  BY <1>8, ReadHostInv
<1>9. CASE UNCHANGED vars
  <2>1. SlotsAreGivenBack'
    BY <1>9 DEF Inv, vars, SlotsAreGivenBack
  <2>. QED
    BY <1>9, <2>1 DEF Inv, vars, TypeOK, ReadsAgree, ServesOnlyTaggedPeers, ReadIsCurrent,
                      FailureOnRecord, MySelf, ServesWell
<1>. QED  BY <1>1, <1>2, <1>3, <1>4, <1>5, <1>6, <1>7, <1>8, <1>9 DEF Next

-----------------------------------------------------------------------------
(* The invariant holds in every reachable state.                              *)
THEOREM Invariance == Spec => []Inv
  BY InitInv, NextInv, PTL DEF Spec

(* The variables of FleetPeers stay in their ranges.                          *)
THEOREM TypeCorrect == Spec => []TypeOK
<1>1. Inv => TypeOK
  BY DEF Inv
<1>. QED  BY <1>1, Invariance, PTL

(* peer-listener.ts: whoever runs a tool here is another node and carried the *)
(* tag, for any number of connections and in any order of the two reads.      *)
THEOREM OnlyTagged == Spec => []ServesOnlyTaggedPeers
<1>1. Inv => ServesOnlyTaggedPeers
  BY DEF Inv
<1>. QED  BY <1>1, Invariance, PTL

(* createPeerHandler: the counter is the number of lookups, and within the    *)
(* limit, for any limit: no error or refusal closes the listener for good.    *)
THEOREM SlotsReturn == Spec => []SlotsAreGivenBack
<1>1. Inv => SlotsAreGivenBack
  BY DEF Inv
<1>. QED  BY <1>1, Invariance, PTL

(* fleet-status.ts: the report put together from one reading of each host     *)
(* holds of both at once, as far as what was read has not changed; of what    *)
(* listens it is true only where ss could say.                                *)
THEOREM StatusIsTrue == Spec => []StatusOkMeansServed
<1>1. Inv => StatusOkMeansServed
  BY DEF Inv, TypeOK, World, ReadIsCurrent, ServesWell, Reachable, StatusOkMeansServed, StatusOk,
         crossCheck, authorized, Carries, Whois, MySelf, None
<1>. QED  BY <1>1, Invariance, PTL

(* peer-repair.ts: the watch never believes a failure recorded that is not,   *)
(* nor that a repair undid one that stands.                                   *)
THEOREM FailureRecorded == Spec => []FailureOnRecord
<1>1. Inv => FailureOnRecord
  BY DEF Inv
<1>. QED  BY <1>1, Invariance, PTL

-----------------------------------------------------------------------------
(* HostAgent *)

(* A call that has not been judged, on a configuration nobody edited since it *)
(* was let through, is one that configuration lets through.                   *)
LetThrough ==
  \A c \in Calls :
    call[c].stage = "asked" /\ ~call[c].raced =>
      Reaches(config, call[c].by) /\ call[c].through = InsideOnly(config, call[c].by)

(* A machine that clears a request, with a line stamped `at` by its own clock,  *)
(* has run the command since it was asked, or one of the two races is lost.   *)
Settled(r, o, succeeded, at) ==
  r.at <= succeeded \/ o \in r.overtook \/ r.at >= at - skew[o]

(* What is asked, run and stamped is so by now; a request for a command that  *)
(* has been run and not stamped was there before or has been overtaken; and   *)
(* every line, on its way or in the file, settles the requests it is for.     *)
StampsFollowRuns ==
  /\ \A r \in Asked(file) : r.at <= now
  /\ \A o \in Operators :
       /\ op[o].ran <= now
       /\ op[o].stage = "ran" =>
            \A r \in Asked(file) : r.command = op[o].command =>
              r.at <= op[o].ran \/ o \in r.overtook
       /\ op[o].stage = "clears" =>
            /\ op[o].at - skew[o] <= now
            /\ \A r \in Asked(file) : r.command = op[o].command =>
                 Settled(r, o, op[o].ran, op[o].at)
  /\ \A c \in Commands : \A l \in Clears(file, c) :
       /\ l.at - skew[l.by] <= now
       /\ \A r \in Asked(file) : r.command = c => Settled(r, l.by, l.ran, l.at)

AgentInv == AgentTypeOK /\ LetThrough /\ OutsidersAreRefused /\ StampsFollowRuns

(* The conditions of the guardrail are what the gateway lets through: where   *)
(* they hold, only the operator comes, or one who is inside.                  *)
LEMMA GuardrailSuffices ==
  ASSUME NEW c \in Config, NEW who \in {"operator", "stranger"} \cup Others,
         checkGuardrail(c), Reaches(c, who)
  PROVE  who = "operator" \/ (InsideOnly(c, who) /\ ~strict)
<1>1. CASE who = "stranger"
  BY HostAgentAssumption, DriftAssumption, <1>1 DEF checkGuardrail, Reaches
<1>2. CASE who \in Others
  <2>1. who # "operator" /\ who # "stranger"
    BY HostAgentAssumption, DriftAssumption, <1>2
  <2>2. c.roster[who] = "inside" /\ ~c.shared
    BY <1>2, <2>1 DEF checkGuardrail, Reaches
  <2>. QED  BY <1>2, <2>2 DEF checkGuardrail, InsideOnly
<1>. QED  BY <1>1, <1>2

(* A file with a line appended holds the lines it held, and that one.        *)
LEMMA ToSetAppend ==
  ASSUME NEW S, NEW s \in Seq(S), NEW e \in S
  PROVE  ToSet(Append(s, e)) = ToSet(s) \cup {e}
<1>1. \A i \in 1..Len(s) : Append(s, e)[i] = s[i]
  OBVIOUS
<1>2. Append(s, e)[Len(s) + 1] = e /\ DOMAIN Append(s, e) = 1..Len(s) + 1 /\ DOMAIN s = 1..Len(s) /\ Len(s) \in Nat
  OBVIOUS
<1>. QED  BY <1>1, <1>2 DEF ToSet

(* A line is appended where there is room for one.                            *)
LEMMA AppendFits ==
  ASSUME NEW S, NEW s \in Seq(S), NEW e \in S, NEW max \in Nat, Len(s) < max
  PROVE  Append(s, e) \in Seq(S) /\ Len(Append(s, e)) <= max
<1>1. Len(s) \in Nat /\ Append(s, e) \in Seq(S) /\ Len(Append(s, e)) = Len(s) + 1
  OBVIOUS
<1>. QED  BY <1>1

(* No call has come in and no command has been run.                          *)
LEMMA AgentInitInv ==
  ASSUME AgentInit
  PROVE  AgentInv
<1>1. (CHOOSE c \in Commands : TRUE) \in Commands
  BY HostAgentAssumption, DriftAssumption
<1>2. NoCall \in Call /\ NoCall.stage = "none"
  BY <1>1 DEF NoCall, Call
<1>3. Idle \in Machine /\ Idle.stage = "idle" /\ Idle.ran = 0
  BY <1>1, HostAgentAssumption DEF Idle, Machine
<1>4. AgentTypeOK
  BY HostAgentAssumption, DriftAssumption, <1>2, <1>3 DEF AgentInit, AgentTypeOK
<1>5. LetThrough /\ OutsidersAreRefused
  BY <1>2 DEF AgentInit, LetThrough, OutsidersAreRefused
<1>6. StampsFollowRuns
  <2>1. ToSet(file) = {}
    BY DEF AgentInit, ToSet
  <2>. QED  BY <1>3, <2>1 DEF AgentInit, StampsFollowRuns, Asked, Clears
<1>. QED  BY <1>4, <1>5, <1>6 DEF AgentInv

(* The types of the constants, in the form in which the steps need them.      *)
LEMMA AgentTypes ==
  ASSUME AgentTypeOK
  PROVE  /\ now \in Nat /\ MaxTime \in Nat /\ TTL \in Int
         /\ skew \in [Operators -> Int]
         /\ \A o \in Operators : /\ op[o] \in Machine /\ op[o].command \in Commands
                                 /\ op[o].ran \in Nat /\ op[o].at \in Int
         /\ \A l \in ToSet(file) : l \in Line
         /\ \A r \in Asked(file) : r \in Handoff
         /\ \A c \in Commands : \A l \in Clears(file, c) : l \in HandoffCleared
         /\ (CHOOSE c \in Commands : TRUE) \in Commands
<1>1. now \in Nat /\ MaxTime \in Nat /\ TTL \in Int /\ skew \in [Operators -> Int]
  BY HostAgentAssumption, DriftAssumption DEF AgentTypeOK
<1>2. \A o \in Operators : /\ op[o] \in Machine /\ op[o].command \in Commands
                          /\ op[o].ran \in Nat /\ op[o].at \in Int
  BY <1>1 DEF AgentTypeOK, Machine
<1>3. \A l \in ToSet(file) : l \in Line
  BY DEF AgentTypeOK, ToSet
<1>4. \A r \in Asked(file) : r \in Handoff
  BY <1>3 DEF Asked, Line, HandoffCleared
<1>5. \A c \in Commands : \A l \in Clears(file, c) : l \in HandoffCleared
  BY <1>3 DEF Clears, Line, Handoff
<1>6. (CHOOSE c \in Commands : TRUE) \in Commands
  BY HostAgentAssumption, DriftAssumption
<1>. QED  BY <1>1, <1>2, <1>3, <1>4, <1>5, <1>6

(* What stands for no call, and for an operator who clears nothing.          *)
LEMMA CallsAtRest ==
  /\ NoCall \in Call /\ NoCall.stage = "none"
  /\ Idle \in Machine
  /\ Idle.stage = "idle" /\ Idle.ran = 0
<1>1. (CHOOSE c \in Commands : TRUE) \in Commands
  BY HostAgentAssumption, DriftAssumption
<1>2. NoCall \in Call /\ NoCall.stage = "none"
  BY <1>1 DEF NoCall, Call
<1>3. Idle \in Machine /\ Idle.stage = "idle" /\ Idle.ran = 0
  BY <1>1, HostAgentAssumption DEF Idle, Machine
<1>. QED  BY <1>2, <1>3

(* A step that touches no line of the file and no machine leaves what the     *)
(* stamps say as it was; time passing does no harm to it.                     *)
LEMMA StampsKept ==
  ASSUME AgentTypeOK, StampsFollowRuns,
         now' \in Int, now <= now', UNCHANGED <<skew, file, op>>
  PROVE  StampsFollowRuns'
<1>1. \A r \in Asked(file) : r.at <= now'
  BY AgentTypes DEF StampsFollowRuns, Handoff
<1>2. \A o \in Operators : op[o].ran <= now' /\ (op[o].stage = "clears" => op[o].at - skew[o] <= now')
  BY AgentTypes DEF StampsFollowRuns
<1>3. \A c \in Commands : \A l \in Clears(file, c) : l.at - skew[l.by] <= now'
  BY AgentTypes DEF StampsFollowRuns, HandoffCleared
<1>4. \A q, o, succeeded, at : Settled(q, o, succeeded, at) => Settled(q, o, succeeded, at)'
  BY DEF Settled
<1>. QED  BY <1>1, <1>2, <1>3, <1>4 DEF StampsFollowRuns

(* A request is appended now: after every run, and after every stamp.         *)
LEMMA RequestAppended ==
  ASSUME AgentTypeOK, StampsFollowRuns,
         NEW q \in Handoff, q.at = now, q.overtook = Unstamped(q.command),
         file' = Append(file, q), UNCHANGED <<now, skew, op>>
  PROVE  StampsFollowRuns'
<1>1. q \in Line /\ q.kind = "request" /\ file \in Seq(Line)
  BY DEF Line, Handoff, AgentTypeOK
<1>2. ToSet(file') = ToSet(file) \cup {q}
  BY <1>1, ToSetAppend
<1>3. Asked(file') = Asked(file) \cup {q} /\ (\A c \in Commands : Clears(file', c) = Clears(file, c))
  BY <1>1, <1>2 DEF Asked, Clears
<1>4. \A o \in Operators :
        /\ op[o].stage = "ran" /\ q.command = op[o].command => q.at <= op[o].ran \/ o \in q.overtook
        /\ op[o].stage = "clears" => q.at >= op[o].at - skew[o]
  BY AgentTypes DEF StampsFollowRuns, Unstamped
<1>5. \A c \in Commands : \A l \in Clears(file, c) : q.at >= l.at - skew[l.by]
  BY AgentTypes DEF StampsFollowRuns, HandoffCleared
<1>6. \A r, o, succeeded, at : Settled(r, o, succeeded, at) => Settled(r, o, succeeded, at)'
  BY DEF Settled
<1>7. \A o, succeeded, at : q.at >= at - skew[o] => Settled(q, o, succeeded, at)'
  BY DEF Settled
<1>8. /\ \A r \in Asked(file') : r.at <= now
      /\ \A o \in Operators : op[o].ran <= now
  BY <1>3, AgentTypes DEF StampsFollowRuns
<1>9. \A o \in Operators : op[o].stage = "ran" =>
        \A r \in Asked(file') : r.command = op[o].command => r.at <= op[o].ran \/ o \in r.overtook
  BY <1>3, <1>4 DEF StampsFollowRuns
<1>10. \A o \in Operators : op[o].stage = "clears" =>
         /\ op[o].at - skew[o] <= now
         /\ \A r \in Asked(file') : r.command = op[o].command =>
              Settled(r, o, op[o].ran, op[o].at)'
  BY <1>3, <1>4, <1>6, <1>7 DEF StampsFollowRuns
<1>11. \A c \in Commands : \A l \in Clears(file', c) :
         /\ l.at - skew[l.by] <= now
         /\ \A r \in Asked(file') : r.command = c => Settled(r, l.by, l.ran, l.at)'
  BY <1>3, <1>5, <1>6, <1>7 DEF StampsFollowRuns
<1>. QED  BY <1>8, <1>9, <1>10, <1>11 DEF StampsFollowRuns

(* A machine goes on to something that settles what is asked, and a line that *)
(* settles what is asked may be appended.                                     *)
LEMMA MachineGoesOn ==
  ASSUME AgentTypeOK, StampsFollowRuns, NEW o \in Operators, NEW m \in Machine,
         op' = [op EXCEPT ![o] = m], m.ran <= now,
         m.stage = "ran" => \A r \in Asked(file) : r.command = m.command =>
                              r.at <= m.ran \/ o \in r.overtook,
         m.stage = "clears" => /\ m.at - skew[o] <= now
                               /\ \A r \in Asked(file) : r.command = m.command =>
                                    Settled(r, o, m.ran, m.at),
         UNCHANGED <<now, skew>>,
         \/ file' = file
         \/ \E l \in HandoffCleared :
              /\ file' = Append(file, l) /\ l.at - skew[l.by] <= now
              /\ \A r \in Asked(file) : r.command = l.command => Settled(r, l.by, l.ran, l.at)
  PROVE  StampsFollowRuns'
<1>1. op'[o] = m /\ (\A p \in Operators \ {o} : op'[p] = op[p])
  BY DEF AgentTypeOK
<1>2. \A r, p, succeeded, at : Settled(r, p, succeeded, at) => Settled(r, p, succeeded, at)'
  BY DEF Settled
<1>. DEFINE Lines == \A c \in Commands : \A l \in Clears(file', c) :
                       /\ l.at - skew[l.by] <= now
                       /\ \A r \in Asked(file) : r.command = c => Settled(r, l.by, l.ran, l.at)
<1>3. Asked(file') = Asked(file) /\ Lines
  <2>1. CASE file' = file
    BY <2>1 DEF StampsFollowRuns
  <2>2. ASSUME NEW l \in HandoffCleared, file' = Append(file, l), l.at - skew[l.by] <= now,
               \A r \in Asked(file) : r.command = l.command => Settled(r, l.by, l.ran, l.at)
        PROVE  Asked(file') = Asked(file) /\ Lines
    <3>1. l \in Line /\ l.kind = "cleared" /\ file \in Seq(Line)
      BY DEF Line, HandoffCleared, AgentTypeOK
    <3>2. ToSet(file') = ToSet(file) \cup {l}
      BY <3>1, <2>2, ToSetAppend
    <3>3. Asked(file') = Asked(file)
      BY <3>1, <3>2 DEF Asked
    <3>4. \A c \in Commands : \A k \in Clears(file', c) : k \in Clears(file, c) \/ (k = l /\ c = l.command)
      BY <3>2 DEF Clears
    <3>. QED  BY <3>3, <3>4, <2>2 DEF StampsFollowRuns
  <2>. QED  BY <2>1, <2>2
<1>. DEFINE Settles(p) ==
       /\ op'[p].ran <= now
       /\ op'[p].stage = "ran" =>
            \A r \in Asked(file) : r.command = op'[p].command =>
              r.at <= op'[p].ran \/ p \in r.overtook
       /\ op'[p].stage = "clears" =>
            /\ op'[p].at - skew[p] <= now
            /\ \A r \in Asked(file) : r.command = op'[p].command =>
                 Settled(r, p, op'[p].ran, op'[p].at)
<1>4. \A p \in Operators : Settles(p)
  <2>. SUFFICES ASSUME NEW p \in Operators
                PROVE  Settles(p)
    OBVIOUS
  <2>1. CASE p = o
    BY <2>1, <1>1, <1>2
  <2>2. CASE p # o
    BY <2>2, <1>1, <1>2 DEF StampsFollowRuns
  <2>. QED  BY <2>1, <2>2
<1>. QED  BY <1>2, <1>3, <1>4 DEF StampsFollowRuns

(* The hand-off file is only appended to, and time only passes.              *)
LEMMA FileGrows ==
  ASSUME AgentTypeOK, AgentTypeOK', [AgentNext]_agentVars
  PROVE  ToSet(file) \subseteq ToSet(file') /\ now <= now'
<1>1. now \in Nat /\ file \in Seq(Line) /\ file' \in Seq(Line)
  BY AgentTypes DEF AgentTypeOK
<1>a. ASSUME NEW c \in Calls, hostAgentDispatch(c)
      PROVE  ((\E l : file' = Append(file, l)) \/ file' = file) /\ now' = now
  BY <1>a DEF hostAgentDispatch
<1>b. ASSUME NEW o \in Operators, clearHostHandoffs(o)
      PROVE  ((\E l : file' = Append(file, l)) \/ file' = file) /\ now' = now
  BY <1>b DEF clearHostHandoffs
<1>c. ASSUME NEW c \in Calls, NEW who \in {"operator", "stranger"} \cup Others,
             NEW command \in Commands, Arrive(c, who, command)
      PROVE  file' = file /\ now' = now
  BY <1>c DEF Arrive
<1>d. ASSUME NEW c \in Calls, currentGuardrail(c)
      PROVE  file' = file /\ now' = now
  BY <1>d DEF currentGuardrail
<1>e. ASSUME NEW o \in Operators, NEW command \in Commands, OperatorRan(o, command)
      PROVE  file' = file /\ now' = now
  BY <1>e DEF OperatorRan
<1>f. ASSUME NEW o \in Operators, clearedLine(o)
      PROVE  file' = file /\ now' = now
  BY <1>f DEF clearedLine
<1>g. Tick \/ Edit \/ UNCHANGED agentVars =>
        file' = file /\ (now' = now \/ now' = now + 1)
  BY DEF Tick, Edit, agentVars
<1>2. (\E l : file' = Append(file, l)) \/ file' = file
  BY <1>a, <1>b, <1>c, <1>d, <1>e, <1>f, <1>g DEF AgentNext
<1>3. now' = now \/ now' = now + 1
  BY <1>a, <1>b, <1>c, <1>d, <1>e, <1>f, <1>g DEF AgentNext
<1>4. ToSet(file) \subseteq ToSet(file')
  <2>1. CASE file' = file
    BY <2>1
  <2>2. CASE \E l : file' = Append(file, l)
    <3>1. PICK l : file' = Append(file, l)
      BY <2>2
    <3>2. \A i \in 1..Len(file) : file'[i] = file[i]
      BY <3>1, <1>1
    <3>3. DOMAIN file = 1..Len(file) /\ DOMAIN file' = 1..Len(file) + 1 /\ Len(file) \in Nat
      BY <3>1, <1>1
    <3>. QED  BY <3>2, <3>3 DEF ToSet
  <2>. QED  BY <1>2, <2>1, <2>2
<1>. QED  BY <1>1, <1>3, <1>4

-----------------------------------------------------------------------------
(* The steps. *)

(* Time passes.                                                              *)
LEMMA AgentTick ==
  ASSUME AgentInv, Tick
  PROVE  AgentInv'
<1>1. now' \in 0..MaxTime /\ now' \in Int /\ now <= now'
  BY AgentTypes DEF AgentInv, Tick, AgentTypeOK
<1>2. AgentTypeOK'
  BY <1>1 DEF AgentInv, Tick, AgentTypeOK
<1>3. LetThrough' /\ OutsidersAreRefused'
  BY DEF AgentInv, Tick, LetThrough, OutsidersAreRefused, Reaches,
         IsDefaultAgent, InsideOnly
<1>4. StampsFollowRuns'
  BY <1>1, StampsKept DEF AgentInv, Tick
<1>. QED  BY <1>2, <1>3, <1>4 DEF AgentInv

(* An edit marks every call it overtakes.                                     *)
LEMMA AgentEdit ==
  ASSUME AgentInv, Edit
  PROVE  AgentInv'
<1>1. \A r \in Call : \A b \in BOOLEAN : [r EXCEPT !.raced = b] \in Call
  BY DEF Call
<1>2. call' \in [Calls -> Call]
  BY <1>1 DEF AgentInv, Edit, AgentTypeOK, Call
<1>3. AgentTypeOK'
  BY HostAgentAssumption, DriftAssumption, <1>2 DEF AgentInv, Edit, AgentTypeOK
<1>4. \A c \in Calls : /\ call'[c].stage = call[c].stage /\ call'[c].by = call[c].by
                       /\ call'[c].through = call[c].through
                       /\ call[c].raced => call'[c].raced
                       /\ call[c].stage = "asked" => call'[c].raced
  BY DEF AgentInv, Edit, AgentTypeOK, Call
<1>5. LetThrough'
  BY <1>4 DEF LetThrough
<1>6. OutsidersAreRefused'
  BY <1>4 DEF AgentInv, Edit, OutsidersAreRefused
<1>7. StampsFollowRuns'
  BY StampsKept, AgentTypes DEF AgentInv, Edit
<1>. QED  BY <1>3, <1>5, <1>6, <1>7 DEF AgentInv

(* A call arrives, from whoever can reach the socket.                        *)
LEMMA AgentArrive ==
  ASSUME AgentInv,
         NEW c \in Calls, NEW who \in {"operator", "stranger"} \cup Others,
         NEW command \in Commands, Arrive(c, who, command)
  PROVE  AgentInv'
<1>1. PICK in \in BOOLEAN : in = InsideOnly(config, who)
  BY DEF InsideOnly
<1>. DEFINE asked == [stage |-> "asked", by |-> who, command |-> command,
                      through |-> in, raced |-> FALSE]
<1>2. call' = [call EXCEPT ![c] = asked]
  BY <1>1 DEF Arrive
<1>3. asked \in Call
  BY DEF Call
<1>4. /\ call' \in [Calls -> Call] /\ call'[c] = asked
      /\ \A d \in Calls \ {c} : call'[d] = call[d]
  BY <1>2, <1>3 DEF AgentInv, AgentTypeOK
<1>5. AgentTypeOK'
  BY <1>4 DEF AgentInv, Arrive, AgentTypeOK
<1>6. LetThrough'
  <2>. SUFFICES ASSUME NEW d \in Calls, call'[d].stage = "asked", ~call'[d].raced
                PROVE  Reaches(config, call'[d].by)
                       /\ call'[d].through = InsideOnly(config, call'[d].by)
    BY DEF Arrive, LetThrough, Reaches, InsideOnly, IsDefaultAgent
  <2>1. CASE d = c
    BY <2>1, <1>1, <1>4 DEF Arrive
  <2>2. CASE d # c
    BY <2>2, <1>4 DEF AgentInv, LetThrough
  <2>. QED  BY <2>1, <2>2
<1>7. OutsidersAreRefused'
  <2>1. asked.stage # "allowed"
    OBVIOUS
  <2>. QED  BY <2>1, <1>4 DEF AgentInv, Arrive, OutsidersAreRefused
<1>8. StampsFollowRuns'
  BY StampsKept, AgentTypes DEF AgentInv, Arrive
<1>. QED  BY <1>5, <1>6, <1>7, <1>8 DEF AgentInv

(* The guardrail holds of the configuration it reads; a call that no edit     *)
(* overtook was let through on that same configuration.                       *)
LEMMA AgentGuardrail ==
  ASSUME AgentInv, NEW c \in Calls, currentGuardrail(c)
  PROVE  AgentInv'
<1>1. \A r \in Call : [r EXCEPT !.stage = "allowed"] \in Call
  BY DEF Call
<1>2. PICK ok \in BOOLEAN :
        call' = [call EXCEPT ![c] = IF ok /\ checkGuardrail(config)
                                    THEN [call[c] EXCEPT !.stage = "allowed"] ELSE NoCall]
  BY DEF currentGuardrail
<1>3. call[c] \in Call
  BY DEF AgentInv, AgentTypeOK
<1>4. /\ call' \in [Calls -> Call]
      /\ \A d \in Calls \ {c} : call'[d] = call[d]
      /\ \/ call'[c] = NoCall
         \/ checkGuardrail(config) /\ call'[c] = [call[c] EXCEPT !.stage = "allowed"]
  BY <1>1, <1>2, <1>3, CallsAtRest DEF AgentInv, AgentTypeOK
<1>5. AgentTypeOK'
  BY <1>4 DEF AgentInv, currentGuardrail, AgentTypeOK
<1>6. call'[c].stage # "asked"
  BY <1>3, <1>4, CallsAtRest DEF Call
<1>7. LetThrough'
  <2>. SUFFICES ASSUME NEW d \in Calls, call'[d].stage = "asked", ~call'[d].raced
                PROVE  Reaches(config, call'[d].by)
                       /\ call'[d].through = InsideOnly(config, call'[d].by)
    BY DEF currentGuardrail, LetThrough, Reaches, InsideOnly, IsDefaultAgent
  <2>. QED  BY <1>4, <1>6 DEF AgentInv, LetThrough
<1>8. OutsidersAreRefused'
  <2>. SUFFICES ASSUME NEW d \in Calls, call'[d].stage = "allowed"
                PROVE  call'[d].by = "operator" \/ call'[d].raced \/ (call'[d].through /\ ~strict)
    BY DEF OutsidersAreRefused, currentGuardrail
  <2>1. CASE d # c
    BY <2>1, <1>4 DEF AgentInv, OutsidersAreRefused
  <2>2. CASE d = c
    <3>1. checkGuardrail(config) /\ call'[c] = [call[c] EXCEPT !.stage = "allowed"]
      BY <2>2, <1>4, CallsAtRest
    <3>2. /\ call'[c].by = call[c].by /\ call'[c].raced = call[c].raced
          /\ call'[c].through = call[c].through
          /\ call[c].by \in {"operator", "stranger"} \cup Others
      BY <3>1, <1>3 DEF Call
    <3>3. ~call[c].raced => Reaches(config, call[c].by)
                            /\ call[c].through = InsideOnly(config, call[c].by)
      BY DEF AgentInv, LetThrough, currentGuardrail
    <3>4. config \in Config
      BY DEF AgentInv, AgentTypeOK
    <3>5. ~call[c].raced => call[c].by = "operator" \/ (InsideOnly(config, call[c].by) /\ ~strict)
      BY <3>1, <3>2, <3>3, <3>4, GuardrailSuffices
    <3>. QED  BY <2>2, <3>2, <3>3, <3>5
  <2>. QED  BY <2>1, <2>2
<1>9. StampsFollowRuns'
  BY StampsKept, AgentTypes DEF AgentInv, currentGuardrail
<1>. QED  BY <1>5, <1>7, <1>8, <1>9 DEF AgentInv

(* A call that was allowed is answered, or records a hand-off.               *)
LEMMA AgentDispatch ==
  ASSUME AgentInv, NEW c \in Calls, hostAgentDispatch(c)
  PROVE  AgentInv'
<1>1. /\ call' \in [Calls -> Call] /\ call'[c] = NoCall
      /\ \A d \in Calls \ {c} : call'[d] = call[d]
  BY CallsAtRest DEF AgentInv, hostAgentDispatch, AgentTypeOK
<1>. DEFINE asked == [kind |-> "request", command |-> call[c].command, at |-> now,
                      overtook |-> Unstamped(call[c].command)]
<1>2. asked \in Handoff /\ asked \in Line
  BY AgentTypes DEF AgentInv, AgentTypeOK, Call, Line, Handoff, Unstamped
<1>3. file' = file \/ (Len(file) < MaxLines /\ file' = Append(file, asked))
  BY DEF hostAgentDispatch
<1>4. file' \in Seq(Line) /\ Len(file') <= MaxLines
  <2>. HIDE DEF asked
  <2>1. file \in Seq(Line) /\ Len(file) <= MaxLines /\ MaxLines \in Nat
    BY HostAgentAssumption, DriftAssumption DEF AgentInv, AgentTypeOK
  <2>. QED  BY <1>2, <1>3, <2>1, AppendFits
<1>5. AgentTypeOK'
  BY <1>1, <1>4 DEF AgentInv, hostAgentDispatch, AgentTypeOK
<1>6. LetThrough'
  BY <1>1, CallsAtRest DEF AgentInv, hostAgentDispatch, LetThrough, Reaches,
                           InsideOnly, IsDefaultAgent
<1>7. OutsidersAreRefused'
  BY <1>1, CallsAtRest DEF AgentInv, hostAgentDispatch, OutsidersAreRefused
<1>8. StampsFollowRuns'
  <2>1. CASE file' = file
    BY <2>1, StampsKept, AgentTypes DEF AgentInv, hostAgentDispatch
  <2>2. CASE file' = Append(file, asked)
    BY <2>2, <1>2, RequestAppended DEF AgentInv, hostAgentDispatch
  <2>. QED  BY <1>3, <2>1, <2>2
<1>. QED  BY <1>5, <1>6, <1>7, <1>8 DEF AgentInv

(* The command succeeds after everything that has been asked.                 *)
LEMMA AgentOperatorRan ==
  ASSUME AgentInv, NEW o \in Operators, NEW command \in Commands,
         OperatorRan(o, command)
  PROVE  AgentInv'
<1>. DEFINE m == [stage |-> "ran", command |-> command, ran |-> now, at |-> 0]
<1>1. m \in Machine /\ m.ran = now /\ m.stage = "ran"
  BY DEF AgentInv, AgentTypeOK, Machine
<1>2. op' = [op EXCEPT ![o] = m] /\ UNCHANGED <<strict, config, call, now, skew, file>>
  BY DEF OperatorRan
<1>3. AgentTypeOK'
  BY <1>1, <1>2 DEF AgentInv, AgentTypeOK
<1>4. LetThrough' /\ OutsidersAreRefused'
  BY <1>2 DEF AgentInv, LetThrough, OutsidersAreRefused, Reaches, IsDefaultAgent, InsideOnly
<1>5. (\A r \in Asked(file) : r.at <= m.ran) /\ m.ran <= now /\ m.stage # "clears"
  BY <1>1, AgentTypes DEF AgentInv, StampsFollowRuns
<1>6. StampsFollowRuns'
  <2>1. AgentTypeOK /\ StampsFollowRuns
    BY DEF AgentInv
  <2>. HIDE DEF m
  <2>. QED  BY <1>1, <1>2, <1>5, <2>1, MachineGoesOn
<1>. QED  BY <1>3, <1>4, <1>6 DEF AgentInv

(* The stamp is now, by the machine's clock: what was asked before the run is  *)
(* settled by it, and what was asked since has been overtaken.                *)
LEMMA AgentClearedLine ==
  ASSUME AgentInv, NEW o \in Operators, clearedLine(o)
  PROVE  AgentInv'
<1>1. op[o] \in Machine /\ now \in Nat /\ skew[o] \in Int
  BY AgentTypes DEF AgentInv
<1>. DEFINE m == [stage |-> "clears", command |-> op[o].command, ran |-> op[o].ran,
                  at |-> now + skew[o]]
<1>2. /\ m \in Machine /\ m.ran = op[o].ran /\ m.command = op[o].command
      /\ m.stage = "clears" /\ m.at = now + skew[o]
  BY <1>1 DEF Machine
<1>3. PICK n \in Machine : op' = [op EXCEPT ![o] = n] /\ (n = m \/ n = Idle)
  BY <1>2, CallsAtRest DEF clearedLine
<1>4. UNCHANGED <<strict, config, call, now, skew, file>>
  BY DEF clearedLine
<1>5. AgentTypeOK'
  BY <1>3, <1>4 DEF AgentInv, AgentTypeOK
<1>6. LetThrough' /\ OutsidersAreRefused'
  BY <1>4 DEF AgentInv, LetThrough, OutsidersAreRefused, Reaches, IsDefaultAgent, InsideOnly
<1>7. /\ op[o].ran <= now
      /\ m.at - skew[o] <= now
      /\ \A r \in Asked(file) : r.command = m.command => Settled(r, o, m.ran, m.at)
  BY <1>1, <1>2 DEF AgentInv, StampsFollowRuns, clearedLine, Settled
<1>8. StampsFollowRuns'
  <2>. HIDE DEF m
  <2>1. AgentTypeOK /\ StampsFollowRuns /\ op' = [op EXCEPT ![o] = n] /\ UNCHANGED <<now, skew, file>>
    BY <1>3, <1>4 DEF AgentInv
  <2>2. n.ran <= now /\ n.stage # "ran"
    BY <1>1, <1>2, <1>3, <1>7, CallsAtRest
  <2>3. n.stage = "clears" =>
          n.at - skew[o] <= now
            /\ (\A r \in Asked(file) : r.command = n.command => Settled(r, o, n.ran, n.at))
    BY <1>3, <1>7, CallsAtRest
  <2>. QED  BY <2>1, <2>2, <2>3, MachineGoesOn
<1>. QED  BY <1>5, <1>6, <1>8 DEF AgentInv

(* The line that is appended is the one that was stamped.                     *)
LEMMA AgentClear ==
  ASSUME AgentInv, NEW o \in Operators, clearHostHandoffs(o)
  PROVE  AgentInv'
<1>1. /\ op' \in [Operators -> Machine]
      /\ op' = [op EXCEPT ![o] = Idle]
  BY CallsAtRest DEF AgentInv, clearHostHandoffs, AgentTypeOK
<1>. DEFINE line == [kind |-> "cleared", command |-> op[o].command, at |-> op[o].at,
                     by |-> o, ran |-> op[o].ran]
<1>2. line \in HandoffCleared /\ line \in Line /\ op[o].stage = "clears"
  BY AgentTypes DEF AgentInv, Line, HandoffCleared, clearHostHandoffs
<1>3. file' = file \/ (Len(file) < MaxLines /\ file' = Append(file, line))
  BY DEF clearHostHandoffs
<1>4. file' \in Seq(Line) /\ Len(file') <= MaxLines
  <2>. HIDE DEF line
  <2>1. file \in Seq(Line) /\ Len(file) <= MaxLines /\ MaxLines \in Nat
    BY HostAgentAssumption, DriftAssumption DEF AgentInv, AgentTypeOK
  <2>. QED  BY <1>2, <1>3, <2>1, AppendFits
<1>5. AgentTypeOK'
  BY <1>1, <1>4 DEF AgentInv, clearHostHandoffs, AgentTypeOK
<1>6. LetThrough' /\ OutsidersAreRefused'
  BY DEF AgentInv, clearHostHandoffs, LetThrough, OutsidersAreRefused, Reaches,
         IsDefaultAgent, InsideOnly
<1>7. /\ line.at - skew[line.by] <= now
      /\ \A r \in Asked(file) : r.command = line.command => Settled(r, line.by, line.ran, line.at)
  BY <1>2 DEF AgentInv, StampsFollowRuns
<1>8. now \in Nat /\ Idle.ran <= now /\ UNCHANGED <<now, skew>>
  BY CallsAtRest, AgentTypes DEF AgentInv, clearHostHandoffs
<1>9. StampsFollowRuns'
  <2>. HIDE DEF line
  <2>. QED  BY <1>1, <1>2, <1>3, <1>7, <1>8, CallsAtRest, MachineGoesOn DEF AgentInv
<1>. QED  BY <1>5, <1>6, <1>9 DEF AgentInv

(* Nothing happens.                                                          *)
LEMMA AgentStutter ==
  ASSUME AgentInv, UNCHANGED agentVars
  PROVE  AgentInv'
BY DEF agentVars, AgentInv, AgentTypeOK, LetThrough, OutsidersAreRefused, StampsFollowRuns,
       Settled, Reaches, IsDefaultAgent, InsideOnly

(* Every step of the host agent keeps the invariant.                          *)
LEMMA AgentStepInv ==
  ASSUME AgentInv, [AgentNext]_agentVars
  PROVE  AgentInv'
<1>1. CASE Tick
  BY <1>1, AgentTick
<1>2. CASE Edit
  BY <1>2, AgentEdit
<1>3. ASSUME NEW c \in Calls, NEW who \in {"operator", "stranger"} \cup Others,
             NEW command \in Commands, Arrive(c, who, command)
      PROVE  AgentInv'
  BY <1>3, AgentArrive
<1>4. ASSUME NEW o \in Operators, clearedLine(o)
      PROVE  AgentInv'
  BY <1>4, AgentClearedLine
<1>5. ASSUME NEW c \in Calls, currentGuardrail(c)
      PROVE  AgentInv'
  BY <1>5, AgentGuardrail
<1>6. ASSUME NEW c \in Calls, hostAgentDispatch(c)
      PROVE  AgentInv'
  BY <1>6, AgentDispatch
<1>7. ASSUME NEW o \in Operators, NEW command \in Commands, OperatorRan(o, command)
      PROVE  AgentInv'
  BY <1>7, AgentOperatorRan
<1>8. ASSUME NEW o \in Operators, clearHostHandoffs(o)
      PROVE  AgentInv'
  BY <1>8, AgentClear
<1>9. CASE UNCHANGED agentVars
  BY <1>9, AgentStutter
<1>. QED  BY <1>1, <1>2, <1>3, <1>4, <1>5, <1>6, <1>7, <1>8, <1>9 DEF AgentNext

(* The invariant holds of every behaviour.                                   *)
LEMMA AgentInvariance ==
  AgentSpec => []AgentInv
<1>1. AgentInit => AgentInv
  BY AgentInitInv
<1>2. AgentInv /\ [AgentNext]_agentVars => AgentInv'
  BY AgentStepInv
<1>. QED  BY <1>1, <1>2, PTL DEF AgentSpec

-----------------------------------------------------------------------------
(* Calls, requests and the lines that clear them are what their types say.    *)
THEOREM AgentTypeHolds ==
  AgentSpec => []AgentTypeOK
<1>1. AgentInv => AgentTypeOK
  BY DEF AgentInv
<1>. QED  BY <1>1, AgentInvariance, PTL

(* guardrail.ts: whatever the configuration is edited to, and whenever, a     *)
(* call gets past the guardrail only if it is the operator's, if the edit     *)
(* came between the call and its check, or if it comes from inside the        *)
(* container of a host installed without --strict.                            *)
THEOREM OutsidersRefused ==
  AgentSpec => []OutsidersAreRefused
<1>1. AgentInv => OutsidersAreRefused
  BY DEF AgentInv
<1>. QED  BY <1>1, AgentInvariance, PTL

(* handoff.ts: for any number of machines and any difference between their    *)
(* clocks, a request stays on every reader's list until it lapses or a        *)
(* machine clears it that ran the command since it was asked; the two races,  *)
(* in which it is cleared by a run from before, are named.                    *)
THEOREM AskedUntilRunHolds ==
  AgentSpec => []AskedUntilRun
<1>1. ASSUME AgentInv
      PROVE  AskedUntilRun
  <2>. SUFFICES ASSUME NEW r \in Asked(file),
                       NEW t \in {now} \cup {now + skew[o] : o \in Operators},
                       ~(r \in parseHandoffs(file, t)), ~(t - r.at > TTL)
                PROVE  \E l \in Clears(file, r.command) :
                         l.at >= r.at /\ Settled(r, l.by, l.ran, l.at)
    BY DEF AskedUntilRun, Settled
  <2>1. ClearedSince(file, r)
    BY DEF parseHandoffs
  <2>2. PICK l \in Clears(file, r.command) : l.at >= r.at
    BY <2>1 DEF ClearedSince, ClearedAt
  <2>3. r.command \in Commands
    BY <1>1, AgentTypes DEF AgentInv, Handoff
  <2>4. Settled(r, l.by, l.ran, l.at)
    BY <1>1, <2>2, <2>3 DEF AgentInv, StampsFollowRuns
  <2>. QED  BY <2>2, <2>4
<1>. QED  BY <1>1, AgentInvariance, PTL

(* handoff.ts: in whatever order the lines arrive, a request that has left    *)
(* the host's list does not come back, since the file only grows and the      *)
(* host's clock only goes forward.                                            *)
THEOREM NeverComesBackHolds ==
  AgentSpec => NeverComesBack
<1>1. ASSUME AgentInv, AgentInv', [AgentNext]_agentVars
      PROVE  [\A r \in Asked(file) :
                r \notin parseHandoffs(file, now) => r \notin parseHandoffs(file', now')]_agentVars
  <2>. SUFFICES ASSUME NEW r \in Asked(file), r \notin parseHandoffs(file, now)
                PROVE  r \notin parseHandoffs(file', now')
    OBVIOUS
  <2>1. ToSet(file) \subseteq ToSet(file') /\ now <= now'
    BY <1>1, FileGrows DEF AgentInv
  <2>2. CASE now - r.at > TTL
    <3>1. r \in Handoff /\ now \in Nat /\ TTL \in Int
      BY <1>1, AgentTypes DEF AgentInv
    <3>2. r.at \in Int /\ now' \in Int
      BY <1>1, <3>1 DEF Handoff, AgentInv, AgentTypeOK
    <3>3. now' - r.at > TTL
      BY <2>1, <2>2, <3>1, <3>2
    <3>. QED  BY <3>3 DEF parseHandoffs
  <2>3. CASE ClearedSince(file, r)
    <3>1. ClearedSince(file', r)
      BY <2>1, <2>3 DEF ClearedSince, ClearedAt, Clears
    <3>. QED  BY <3>1 DEF parseHandoffs
  <2>. QED  BY <2>2, <2>3 DEF parseHandoffs
<1>. QED  BY <1>1, AgentInvariance, PTL DEF AgentSpec, NeverComesBack
-----------------------------------------------------------------------------
(* HostSetup, and the runner of the hardening modules that it starts. *)

(* The steps of a script that read or change the firewall: only those of the  *)
(* module that is second in the catalog.                                      *)
OfTheFirewall == {"read", "reset", "rules", "enable"}
InUfw == harden.pc = "apply" /\ harden.at = 2

LeavesFirewall(m) == \A k \in 1..Len(m.script) : m.script[k].what \notin OfTheFirewall

(* Which of the generic modules leave the firewall alone.                    *)
LEMMA CatalogOne ==
  /\ LeavesFirewall(sshModule) /\ LeavesFirewall(fail2banModule)
  /\ LeavesFirewall(unattendedUpgradesModule) /\ LeavesFirewall(dockerSocketModule)
  /\ LeavesFirewall(auditdModule) /\ LeavesFirewall(lynisModule)
  /\ LeavesFirewall(sysctlModule) /\ LeavesFirewall(tailscaleModule)
<1>1. \A w : And(w).what = w /\ Or(w).what = w
  BY DEF And, Or
<1>. USE <1>1 DEF LeavesFirewall, OfTheFirewall, Common
<1>3. LeavesFirewall(sshModule)
  <2>. DEFINE s == sshModule.script
  <2>1. Len(s) = 6 /\ s[1].what = "keys" /\ s[2].what = "settings" /\ s[3].what = "sshd -t"
    BY DEF sshModule
  <2>2. s[4].what = "restart" /\ s[5].what = "restart" /\ s[6].what = "mark"
    BY DEF sshModule
  <2>. HIDE DEF s
  <2>3. \A k \in 1..Len(s) : s[k].what \notin OfTheFirewall
    <3>1. \A k \in 1..6 : k = 1 \/ k = 2 \/ k = 3 \/ k = 4 \/ k = 5 \/ k = 6
      OBVIOUS
    <3>. QED  BY <2>1, <2>2, <3>1
  <2>. QED  BY <2>3 DEF s
<1>4. LeavesFirewall(fail2banModule)
  BY DEF fail2banModule
<1>5. LeavesFirewall(unattendedUpgradesModule)
  BY DEF unattendedUpgradesModule
<1>6. LeavesFirewall(dockerSocketModule)
  BY DEF dockerSocketModule
<1>7. LeavesFirewall(auditdModule)
  BY DEF auditdModule
<1>8. LeavesFirewall(lynisModule)
  BY DEF lynisModule
<1>9. LeavesFirewall(sysctlModule)
  BY DEF sysctlModule
<1>10. LeavesFirewall(tailscaleModule)
  BY DEF tailscaleModule
<1>. QED  BY <1>3, <1>4, <1>5, <1>6, <1>7, <1>8, <1>9, <1>10

(* The modules of the clouds leave the firewall alone.                       *)
LEMMA CatalogTwo ==
  /\ LeavesFirewall(awsSgAuditModule) /\ LeavesFirewall(awsSsmCheckModule)
  /\ LeavesFirewall(awsFlowLogsModule) /\ LeavesFirewall(awsGuardDutyModule)
  /\ LeavesFirewall(gcpFirewallAuditModule) /\ LeavesFirewall(gcpShieldedVmModule)
  /\ LeavesFirewall(gcpOsLoginModule) /\ LeavesFirewall(azureNsgAuditModule)
  /\ LeavesFirewall(azureDiskEncryptionModule) /\ LeavesFirewall(azureDefenderModule)
  /\ LeavesFirewall(azureJitModule)
<1>1. \A w : And(w).what = w /\ Or(w).what = w
  BY DEF And, Or
<1>2. \A id, on, provider, other : LeavesFirewall(Audit(id, on, provider, other))
  BY DEF Audit, LeavesFirewall
<1>3. \A id, on, provider, other, s : [Audit(id, on, provider, other) EXCEPT !.script = s].script = s
  BY DEF Audit
<1>4. LeavesFirewall(awsFlowLogsModule)
  BY <1>1, <1>3 DEF awsFlowLogsModule, LeavesFirewall, OfTheFirewall
<1>5. LeavesFirewall(awsGuardDutyModule)
  BY <1>1, <1>3 DEF awsGuardDutyModule, LeavesFirewall, OfTheFirewall
<1>. QED  BY <1>2, <1>4, <1>5 DEF awsSgAuditModule, awsSsmCheckModule,
       gcpFirewallAuditModule, gcpShieldedVmModule, gcpOsLoginModule,
       azureNsgAuditModule, azureDiskEncryptionModule, azureDefenderModule,
       azureJitModule

(* The ufw module is the second of the catalog and the only one that touches *)
(* the firewall.                                                             *)
LEMMA Catalog ==
  /\ DOMAIN MODULE_CATALOG = 1..20
  /\ MODULE_CATALOG[2] = makeUfwModule
  /\ \A i \in 1..20 : i # 2 => LeavesFirewall(MODULE_CATALOG[i])
<1>1. DOMAIN MODULE_CATALOG = 1..20 /\ MODULE_CATALOG[2] = makeUfwModule
  BY DEF MODULE_CATALOG
<1>2. ASSUME NEW i \in 1..20, i # 2
      PROVE  LeavesFirewall(MODULE_CATALOG[i])
  BY <1>2, CatalogOne, CatalogTwo DEF MODULE_CATALOG
<1>. QED  BY <1>1, <1>2

(* The six parts of its script, each run only when the last succeeded.       *)
LEMMA UfwScript ==
  LET s == makeUfwModule.script IN
  /\ Len(s) = 6
  /\ s[1].what = "read" /\ s[2].what = "prepare" /\ s[3].what = "reset"
  /\ s[4].what = "rules" /\ s[5].what = "enable" /\ s[6].what = "mark"
  /\ \A k \in 1..6 : s[k].if = "and"
<1>1. \A w : And(w).what = w /\ And(w).if = "and"
  BY DEF And
<1>. QED  BY <1>1 DEF makeUfwModule, Common

-----------------------------------------------------------------------------
(* harden *)

Harden == [pc : {"idle", "check", "apply"}, dryRun : BOOLEAN, at : 1..20, todo : SUBSET (1..20),
           step : Nat \ {0}, ok : BOOLEAN, rules : SUBSET Rules]

Firewall == [on : BOOLEAN, rules : SUBSET Rules]

(* Where the chain of the ufw module is, and what the firewall is by then: it *)
(* holds what it read from its second step on; the reset is the third step,   *)
(* and the firewall is off until the fifth, before which the rules are in.    *)
UfwChain ==
  /\ harden.rules # {} => InUfw
  /\ harden.pc = "check" => harden.step = 1
  /\ InUfw /\ harden.step > 1 => "ssh" \in harden.rules
  /\ InUfw /\ harden.ok /\ harden.step \in {4, 5} => ~fw.on
  /\ InUfw /\ harden.ok /\ harden.step = 5 => harden.rules \subseteq fw.rules

HardenInv ==
  /\ fw \in Firewall /\ ssh \in Sshd /\ harden \in Harden
  /\ UfwChain /\ SshIsLetIn

(* The rules install asked for, as agent.json says.                           *)
Wanted == (IF agentJson = "none" THEN {} ELSE {"agent"})
            \cup (IF agentJson = "serves" THEN {"peers"} ELSE {})

(* What the firewall is after a step of harden: no less open than it was to   *)
(* those it let in, unless it is the rules harden has read that it now has.   *)
FirewallKept ==
  fw'.on => \/ fw.on /\ fw.rules \subseteq fw'.rules
            \/ harden.rules # {} /\ harden.rules \subseteq fw'.rules

(* What harden holds after a step was read before it, or just now.            *)
RulesRead == harden'.rules = {} \/ harden'.rules = harden.rules \/ Wanted \subseteq harden'.rules

HardenStep == HardenInv' /\ FirewallKept /\ RulesRead

(* A hardening run that moves on is one.                                     *)
LEMMA HardenFields ==
  ASSUME NEW h \in Harden
  PROVE  /\ [h EXCEPT !.pc = "apply"] \in Harden
         /\ \A b \in BOOLEAN : [h EXCEPT !.step = h.step + 1, !.ok = b] \in Harden
         /\ \A r \in SUBSET Rules : [h EXCEPT !.step = h.step + 1, !.rules = r] \in Harden
<1>1. h.step + 1 \in Nat \ {0}
  BY DEF Harden
<1>2. [h EXCEPT !.pc = "apply"] \in Harden
  BY DEF Harden
<1>3. \A n \in Nat \ {0}, b \in BOOLEAN : [h EXCEPT !.step = n, !.ok = b] \in Harden
  BY DEF Harden
<1>4. \A n \in Nat \ {0}, r \in SUBSET Rules : [h EXCEPT !.step = n, !.rules = r] \in Harden
  BY DEF Harden
<1>. QED  BY <1>1, <1>2, <1>3, <1>4

(* A host on which no hardening runs.                                        *)
LEMMA RestingFits ==
  /\ Resting \in Harden /\ Resting.pc = "idle" /\ Resting.rules = {}
  /\ Resting.step = 1
<1>1. Resting \in Harden
  BY DEF Resting, Harden
<1>. QED  BY <1>1 DEF Resting

(* A step that leaves the firewall alone, and whose module is not at its      *)
(* script, or starts it.                                                      *)
LEMMA HardenTurns ==
  ASSUME HardenInv, UNCHANGED fw, ssh' \in Sshd,
         harden' \in Harden, harden'.rules = {},
         harden'.pc = "check" => harden'.step = 1, harden'.pc = "apply" => harden'.step = 1
  PROVE  HardenStep
<1>1. UfwChain'
  BY DEF UfwChain, InUfw, Harden
<1>2. SshIsLetIn'
  BY DEF HardenInv, SshIsLetIn
<1>. QED  BY <1>1, <1>2 DEF HardenInv, HardenStep, FirewallKept, RulesRead

(* The runner takes the next module it was asked for.                        *)
LEMMA HardenTakes ==
  ASSUME HardenInv, UNCHANGED fw, ssh' \in Sshd,
         NEW left \in SUBSET (1..20), NEW dry \in BOOLEAN, Take(left, dry)
  PROVE  HardenStep
<1>1. PICK i \in left :
        harden' = [Resting EXCEPT !.pc = "check", !.dryRun = dry, !.at = i, !.todo = left \ {i}]
  BY DEF Take
<1>2. \A h \in Harden : [h EXCEPT !.pc = "check", !.dryRun = dry, !.at = i, !.todo = left \ {i}] \in Harden
  BY DEF Harden
<1>3. harden' \in Harden
  BY <1>1, <1>2, RestingFits
<1>4. harden'.pc = "check" /\ harden'.step = 1 /\ harden'.rules = {}
  BY <1>1, RestingFits DEF Harden
<1>. QED  BY <1>3, <1>4, HardenTurns

(* The runner goes on to the modules that are left.                          *)
LEMMA HardenNextModule ==
  ASSUME HardenInv, UNCHANGED fw, ssh' \in Sshd, NextModule
  PROVE  HardenStep
<1>1. CASE harden' = Resting
  <2>1. harden' \in Harden /\ harden'.pc = "idle" /\ harden'.rules = {} /\ harden'.step = 1
    BY <1>1, RestingFits
  <2>. QED  BY <2>1, HardenTurns
<1>2. CASE Take(harden.todo, harden.dryRun)
  <2>1. harden.todo \in SUBSET (1..20) /\ harden.dryRun \in BOOLEAN
    BY DEF HardenInv, Harden
  <2>. QED  BY <1>2, <2>1, HardenTakes
<1>. QED  BY <1>1, <1>2 DEF NextModule

(* A run of the hardening starts.                                            *)
LEMMA HardenStarts ==
  ASSUME HardenInv, NEW options, NEW provider, HardenStart(options, provider)
  PROVE  HardenStep
<1>1. PICK dryRun \in BOOLEAN : Take(resolveModules(options, provider), dryRun)
  BY DEF HardenStart
<1>2. resolveModules(options, provider) \in SUBSET (1..20)
  BY Catalog DEF resolveModules
<1>3. UNCHANGED fw /\ ssh' \in Sshd
  BY DEF HardenStart, HardenInv
<1>. QED  BY <1>1, <1>2, <1>3, HardenTakes

(* The check of a module, which decides whether it is applied.               *)
LEMMA HardenChecks ==
  ASSUME HardenInv, HardenCheck
  PROVE  HardenStep
<1>1. UNCHANGED fw /\ ssh' \in Sshd
  BY DEF HardenCheck, HardenInv
<1>2. CASE NextModule
  BY <1>1, <1>2, HardenNextModule
<1>3. CASE harden' = [harden EXCEPT !.pc = "apply"]
  <2>1. harden.pc = "check" /\ harden.rules = {} /\ harden.step = 1 /\ harden \in Harden
    BY DEF HardenInv, UfwChain, InUfw, HardenCheck
  <2>2. harden' \in Harden
    BY <1>3, <2>1, HardenFields
  <2>3. harden'.rules = {} /\ harden'.step = 1
    BY <1>3, <2>1 DEF Harden
  <2>. QED  BY <1>1, <2>2, <2>3, HardenTurns
<1>. QED  BY <1>2, <1>3 DEF HardenCheck

(* A module that is not the firewall's leaves it alone.                       *)
LEMMA OthersApply ==
  ASSUME HardenInv, HardenApply, harden.at # 2
  PROVE  HardenStep
<1>. DEFINE m == MODULE_CATALOG[harden.at]
            s == m.script[harden.step]
<1>1. harden \in Harden /\ harden.pc = "apply" /\ harden.step \in 1..Len(m.script) /\ harden.at \in 1..20
  BY DEF HardenInv, Harden, HardenApply, Current
<1>2. s.what \notin OfTheFirewall
  BY <1>1, Catalog DEF LeavesFirewall
<1>3. ssh \in Sshd
  BY DEF HardenInv
<1>4. \/ NextModule /\ UNCHANGED <<fw, ssh, marks, done>>
      \/ \E ok \in BOOLEAN : Advance(ok) /\ (Effect(s.what, m.id) \/ Fails(s.what) \/ UNCHANGED <<fw, ssh, marks, done>>)
  <2>1. s.what # "read"
    BY <1>2 DEF OfTheFirewall
  <2>2. harden.ok \in BOOLEAN
    BY <1>1 DEF Harden
  <2>3. \/ NextModule /\ UNCHANGED <<fw, ssh, marks, done>>
        \/ Effect(s.what, m.id) /\ Advance(TRUE)
        \/ Fails(s.what) /\ Advance(FALSE)
        \/ Advance(harden.ok) /\ UNCHANGED <<fw, ssh, marks, done>>
    BY <2>1 DEF HardenApply, Current
  <2>. QED  BY <2>2, <2>3
<1>5. CASE NextModule /\ UNCHANGED <<fw, ssh, marks, done>>
  BY <1>3, <1>5, HardenNextModule
<1>6. ASSUME NEW ok \in BOOLEAN, Advance(ok),
             Effect(s.what, m.id) \/ Fails(s.what) \/ UNCHANGED <<fw, ssh, marks, done>>
      PROVE  HardenStep
  <2>1. UNCHANGED fw
    BY <1>2, <1>6 DEF Effect, Fails, OfTheFirewall
  <2>2. ssh' \in Sshd
    <3>1. [ssh EXCEPT !.file = "hardened"] \in Sshd /\ [ssh EXCEPT !.up = TRUE] \in Sshd
          /\ [ssh EXCEPT !.up = FALSE] \in Sshd
      BY <1>3 DEF Sshd
    <3>. QED  BY <1>3, <1>6, <3>1 DEF Effect, Fails
  <2>3. harden' = [harden EXCEPT !.step = harden.step + 1, !.ok = ok]
    BY <1>6 DEF Advance
  <2>4. harden' \in Harden
    BY <1>1, <2>3, HardenFields
  <2>5. harden'.pc = "apply" /\ harden'.at # 2 /\ harden'.rules = {}
    BY <1>1, <2>3 DEF Harden, HardenInv, UfwChain, InUfw
  <2>6. UfwChain' /\ SshIsLetIn'
    BY <2>1, <2>5 DEF UfwChain, InUfw, HardenInv, SshIsLetIn
  <2>. QED  BY <2>1, <2>2, <2>4, <2>5, <2>6 DEF HardenInv, HardenStep, FirewallKept, RulesRead
<1>. QED  BY <1>4, <1>5, <1>6

(* The chain of the ufw module: each of its steps is taken if those before it *)
(* succeeded.                                                                 *)
LEMMA UfwApplies ==
  ASSUME HardenInv, HardenApply, harden.at = 2
  PROVE  HardenStep
<1>. DEFINE m == MODULE_CATALOG[harden.at]
            s == m.script[harden.step]
<1>1. harden \in Harden /\ harden.pc = "apply" /\ InUfw /\ m = makeUfwModule
  BY Catalog DEF HardenInv, HardenApply, InUfw
<1>2. harden.step \in 1..6 /\ s.if = "and"
  BY <1>1, UfwScript DEF HardenApply, Current, Harden
<1>3. /\ harden.step = 1 => s.what = "read"
      /\ harden.step = 2 => s.what = "prepare"
      /\ harden.step = 3 => s.what = "reset"
      /\ harden.step = 4 => s.what = "rules"
      /\ harden.step = 5 => s.what = "enable"
      /\ harden.step = 6 => s.what = "mark"
  BY <1>1, UfwScript
<1>. HIDE DEF m, s
<1>7. \/ harden.step = 1 \/ harden.step = 2 \/ harden.step = 3
      \/ harden.step = 4 \/ harden.step = 5 \/ harden.step = 6
  BY <1>2
<1>8. /\ (harden.step = 1 <=> s.what = "read") /\ (harden.step = 3 <=> s.what = "reset")
      /\ (harden.step = 4 <=> s.what = "rules") /\ (harden.step = 5 <=> s.what = "enable")
      /\ s.what # "keys"
  BY <1>3, <1>7
<1>4. ssh \in Sshd /\ fw \in Firewall /\ harden.ok \in BOOLEAN
  BY <1>1 DEF HardenInv, Harden
<1>5. CASE s.what = "read"
  <2>1. harden.step = 1
    BY <1>5, <1>8
  <2>2. publishedGateway /\ UNCHANGED <<fw, ssh, marks, done>>
    BY <1>5 DEF HardenApply, Current, m, s
  <2>3. PICK r \in SUBSET Rules :
          /\ harden' = [harden EXCEPT !.step = harden.step + 1, !.rules = r]
          /\ "ssh" \in r /\ Wanted \subseteq r
    <3>1. PICK exposed \in BOOLEAN :
            harden' = [harden EXCEPT !.step = harden.step + 1,
                         !.rules = {"ssh"} \cup (IF exposed THEN {"gateway"} ELSE {})
                                     \cup (IF agentJson # "none" THEN {"agent"} ELSE {})
                                     \cup (IF agentJson = "serves" THEN {"peers"} ELSE {})]
      BY <2>2 DEF publishedGateway
    <3>. DEFINE r == {"ssh"} \cup (IF exposed THEN {"gateway"} ELSE {})
                       \cup (IF agentJson # "none" THEN {"agent"} ELSE {})
                       \cup (IF agentJson = "serves" THEN {"peers"} ELSE {})
    <3>2. r \in SUBSET Rules /\ "ssh" \in r /\ Wanted \subseteq r
      BY DEF Wanted, Rules
    <3>3. harden' = [harden EXCEPT !.step = harden.step + 1, !.rules = r]
      BY <3>1
    <3>. HIDE DEF r
    <3>. QED  BY <3>2, <3>3
  <2>4. harden' \in Harden
    BY <1>1, <2>3, HardenFields
  <2>5. harden'.pc = "apply" /\ harden'.at = 2 /\ harden'.step = 2 /\ harden'.rules = r
    BY <1>1, <2>1, <2>3 DEF Harden, InUfw
  <2>6. UfwChain' /\ SshIsLetIn' /\ RulesRead /\ FirewallKept
    BY <2>2, <2>3, <2>5 DEF UfwChain, InUfw, HardenInv, SshIsLetIn, RulesRead, FirewallKept
  <2>. QED  BY <1>4, <2>2, <2>4, <2>6 DEF HardenInv, HardenStep
<1>6. CASE s.what # "read"
  <2>1. "ssh" \in harden.rules /\ harden.step > 1 /\ harden.step \in Nat
    <3>1. harden.step \in Nat /\ harden.step > 1
      BY <1>6, <1>7, <1>8
    <3>. QED  BY <1>1, <3>1 DEF HardenInv, UfwChain
  <2>2. s.what # "keys"
    BY <1>8
  <2>3. \/ harden.ok /\ Effect(s.what, m.id) /\ Advance(TRUE)
        \/ harden.ok /\ Fails(s.what) /\ Advance(FALSE)
        \/ ~harden.ok /\ Advance(FALSE) /\ UNCHANGED <<fw, ssh, marks, done>>
    <3>1. CASE harden.ok
      BY <1>2, <1>6, <2>2, <3>1 DEF HardenApply, Current, m, s
    <3>2. CASE ~harden.ok
      <4>1. harden.ok = FALSE
        BY <1>4, <3>2
      <4>. QED  BY <1>2, <1>6, <2>2, <4>1 DEF HardenApply, Current, m, s
    <3>. QED  BY <3>1, <3>2
  <2>4. ASSUME NEW ok \in BOOLEAN, Advance(ok)
        PROVE  /\ harden' \in Harden /\ harden'.pc = "apply" /\ harden'.at = 2 /\ harden'.ok = ok
               /\ harden'.step = harden.step + 1 /\ harden'.rules = harden.rules
    <3>1. harden' = [harden EXCEPT !.step = harden.step + 1, !.ok = ok]
      BY <2>4 DEF Advance
    <3>2. harden' \in Harden
      BY <1>1, <3>1, HardenFields
    <3>. QED  BY <1>1, <3>1, <3>2 DEF Harden, InUfw
  <2>5. ssh' \in Sshd
    <3>1. [ssh EXCEPT !.file = "hardened"] \in Sshd /\ [ssh EXCEPT !.up = TRUE] \in Sshd
          /\ [ssh EXCEPT !.up = FALSE] \in Sshd
      BY <1>4 DEF Sshd
    <3>. QED  BY <1>4, <2>3, <3>1 DEF Effect, Fails
  <2>6. CASE Advance(FALSE) /\ UNCHANGED fw
    <3>1. /\ harden' \in Harden /\ harden'.pc = "apply" /\ harden'.at = 2 /\ harden'.ok = FALSE
          /\ harden'.rules = harden.rules
      BY <2>4, <2>6
    <3>2. UfwChain' /\ SshIsLetIn' /\ RulesRead /\ FirewallKept
      BY <2>1, <2>6, <3>1 DEF UfwChain, InUfw, HardenInv, SshIsLetIn, RulesRead, FirewallKept
    <3>. QED  BY <1>4, <2>5, <2>6, <3>1, <3>2 DEF HardenInv, HardenStep
  <2>7. CASE harden.ok /\ Effect(s.what, m.id) /\ Advance(TRUE)
    <3>1. /\ harden' \in Harden /\ harden'.pc = "apply" /\ harden'.at = 2 /\ harden'.ok = TRUE
          /\ harden'.step = harden.step + 1 /\ harden'.rules = harden.rules
      BY <2>4, <2>7
    <3>2. /\ harden.step = 3 => fw' = [on |-> FALSE, rules |-> {}]
          /\ harden.step = 4 => fw' = [fw EXCEPT !.rules = fw.rules \cup harden.rules]
          /\ harden.step = 5 => fw' = [fw EXCEPT !.on = TRUE]
          /\ harden.step \notin {3, 4, 5} => fw' = fw
      <4>1. Effect(s.what, m.id)
        BY <2>7
      <4>2. fw' = CASE s.what = "reset"  -> [on |-> FALSE, rules |-> {}]
                    [] s.what = "rules"  -> [fw EXCEPT !.rules = fw.rules \cup harden.rules]
                    [] s.what = "enable" -> [fw EXCEPT !.on = TRUE]
                    [] OTHER             -> fw
        BY <4>1 DEF Effect
      <4>3. (harden.step = 3 <=> s.what = "reset") /\ (harden.step = 4 <=> s.what = "rules")
            /\ (harden.step = 5 <=> s.what = "enable")
        BY <1>8
      <4>4. s.what = "reset" => fw' = [on |-> FALSE, rules |-> {}]
        BY <4>2
      <4>5. s.what = "rules" => fw' = [fw EXCEPT !.rules = fw.rules \cup harden.rules]
        BY <4>2
      <4>6. s.what = "enable" => fw' = [fw EXCEPT !.on = TRUE]
        BY <4>2
      <4>7. s.what \notin {"reset", "rules", "enable"} => fw' = fw
        BY <4>2
      <4>. QED  BY <4>3, <4>4, <4>5, <4>6, <4>7
    <3>3. harden.rules \subseteq Rules
      BY <1>1 DEF Harden
    <3>4. fw' \in Firewall
      <4>1. [on |-> FALSE, rules |-> {}] \in Firewall /\ [fw EXCEPT !.on = TRUE] \in Firewall
        BY <1>4 DEF Firewall
      <4>2. [fw EXCEPT !.rules = fw.rules \cup harden.rules] \in Firewall
        BY <1>4, <3>3 DEF Firewall
      <4>. QED  BY <1>4, <1>7, <3>2, <4>1, <4>2
    <3>5. harden.step = 4 => ~fw.on /\ ~fw'.on /\ harden.rules \subseteq fw'.rules
      BY <1>1, <1>4, <2>7, <3>2 DEF HardenInv, UfwChain, Firewall
    <3>6. harden.step = 5 => harden.rules \subseteq fw.rules /\ fw'.rules = fw.rules
      BY <1>1, <1>4, <2>7, <3>2 DEF HardenInv, UfwChain, Firewall
    <3>7. harden.step = 3 => ~fw'.on
      BY <3>2
    <3>8. UfwChain'
      BY <2>1, <3>1, <3>5, <3>7 DEF UfwChain, InUfw
    <3>9. FirewallKept
      BY <2>1, <3>2, <3>5, <3>6, <3>7 DEF FirewallKept
    <3>10. SshIsLetIn'
      BY <2>1, <3>9 DEF FirewallKept, HardenInv, SshIsLetIn
    <3>11. RulesRead
      BY <3>1 DEF RulesRead
    <3>. QED  BY <2>5, <3>1, <3>4, <3>8, <3>9, <3>10, <3>11 DEF HardenInv, HardenStep
  <2>. QED  BY <2>3, <2>6, <2>7 DEF Fails
<1>. QED  BY <1>5, <1>6

(* A run ends, or dies with its connection.                                  *)
LEMMA HardenEnds ==
  ASSUME HardenInv, HardenNext \/ HardenDies
  PROVE  HardenStep
<1>1. UNCHANGED fw /\ ssh' \in Sshd
  BY DEF HardenNext, HardenDies, HardenInv
<1>2. CASE NextModule
  BY <1>1, <1>2, HardenNextModule
<1>3. CASE harden' = Resting
  <2>1. harden' \in Harden /\ harden'.pc = "idle" /\ harden'.rules = {} /\ harden'.step = 1
    BY <1>3, RestingFits
  <2>. QED  BY <1>1, <2>1, HardenTurns
<1>4. CASE harden' = [harden EXCEPT !.todo = {}]
  <2>1. harden \in Harden
    BY DEF HardenInv
  <2>2. harden' \in Harden
    BY <1>4, <2>1 DEF Harden
  <2>3. /\ harden'.pc = harden.pc /\ harden'.at = harden.at /\ harden'.step = harden.step
        /\ harden'.ok = harden.ok /\ harden'.rules = harden.rules
    BY <1>4, <2>1 DEF Harden
  <2>4. UfwChain' /\ SshIsLetIn'
    BY <1>1, <2>3 DEF HardenInv, UfwChain, InUfw, SshIsLetIn
  <2>. QED  BY <1>1, <2>2, <2>3, <2>4 DEF HardenInv, HardenStep, FirewallKept, RulesRead
<1>. QED  BY <1>2, <1>3, <1>4 DEF HardenNext, HardenDies

(* Every step of the hardening keeps its invariant.                          *)
LEMMA HardensStep ==
  ASSUME HardenInv, Hardens
  PROVE  HardenStep
<1>1. ASSUME NEW options \in Selections, NEW provider \in Providers, HardenStart(options, provider)
      PROVE  HardenStep
  BY <1>1, HardenStarts
<1>2. CASE HardenApply
  BY <1>2, OthersApply, UfwApplies
<1>. QED  BY <1>1, <1>2, HardenChecks, HardenEnds DEF Hardens

(* Where no hardening ran yet.                                               *)
LEMMA HardenInitInv ==
  ASSUME HardenInit
  PROVE  HardenInv
<1>1. fw \in Firewall /\ SshIsLetIn
  <2>1. CASE fw = [on |-> FALSE, rules |-> {}]
    BY <2>1 DEF Firewall, SshIsLetIn
  <2>2. CASE fw = [on |-> TRUE, rules |-> {"ssh"}]
    BY <2>2 DEF Firewall, SshIsLetIn, Rules
  <2>. QED  BY <2>1, <2>2 DEF HardenInit
<1>2. ssh \in Sshd
  BY DEF HardenInit
<1>3. harden \in Harden /\ harden.pc = "idle" /\ harden.rules = {}
  BY RestingFits DEF HardenInit
<1>. QED  BY <1>1, <1>2, <1>3 DEF HardenInv, UfwChain, InUfw

-----------------------------------------------------------------------------
(* install and uninstall *)

(* The steps of an install, from the last of them back.                       *)
Wiring == {"show", "add", "done"}
AfterStart == Wiring \cup {"answers"}
AfterRules == AfterStart \cup {"start"}
AddingRules == {"env", "ufw status", "ufw allow"}
AfterEnv == AfterRules \cup {"ufw status", "ufw allow"}
AfterJson == AfterRules \cup AddingRules
AfterTable == AfterJson \cup {"json"}
BeforeTable == {"guardrail", "deny", "verify", "table"}
Removing == {"ufw delete", "peer table", "rm"}
Pcs == {"idle", "unwire", "stop"} \cup Removing \cup BeforeTable \cup AfterTable

Setup == [pc : Pcs, kind : Kinds, token : 0..Tokens, tries : 0..3,
          rules : SUBSET {"agent", "peers"}, failed : BOOLEAN]

SetupType ==
  /\ agentJson \in {"none", "plain", "serves"} /\ agent \in Agent /\ entry \in 0..Tokens
  /\ denied \in BOOLEAN /\ overlap \in BOOLEAN /\ setup \in Setup
  /\ missed \subseteq Passed
  /\ flows \in 0..MaxFlows /\ reboots \in 0..MaxReboots

(* An agent that runs, or would after a reboot, has its table then, unless it *)
(* was told to stop, or the table's unit failed.                              *)
AgentFenced(a, m) ==
  /\ a.boot /\ a.fleet => a.tableBoot \/ "stop" \in m
  /\ a.run # 0 /\ a.runFleet => a.table \/ m \cap {"stop", "table"} # {}

Stopped(a, m) == "stop" \in m \/ (a.run = 0 /\ a.boot = FALSE)

(* An install knows the table is there before it writes what makes the agent  *)
(* a fleet member; an uninstall stops the agent before it takes the table.    *)
Fenced ==
  /\ AgentFenced(agent, missed)
  /\ setup.pc \in AfterTable /\ setup.kind # "plain" => agent.table /\ agent.tableBoot
  /\ setup.pc \in AfterJson => agent.fleet = (setup.kind # "plain")
  /\ setup.pc \in Removing => Stopped(agent, missed)

(* How far the token has come.                                                *)
Wired ==
  /\ setup.pc # "idle" => last = "none"
  /\ setup.pc \in AfterTable \cup {"table"} => denied
  /\ setup.pc \in AfterTable \cup BeforeTable => setup.token # 0
  /\ setup.pc \in AfterEnv => agent.env = setup.token
  /\ setup.pc \in AfterStart => agent.boot
  /\ setup.pc \in Wiring => agent.run = setup.token
  /\ setup.pc = "add" /\ "show" \notin missed => entry \in {0, setup.token}
  /\ setup.pc = "done" => entry # 0 /\ ("show" \notin missed => entry = setup.token)
  /\ last = "installed" => agent.boot /\ agent.env = agent.run

(* Who has agent.json read, and when.  Until install has looked at the        *)
(* firewall harden holds no rules, or the two overlapped; what harden reads   *)
(* from then on is what install wrote.                                        *)
LetIn ==
  /\ setup.pc \in AfterJson => agentJson = JsonOf(setup.kind)
  /\ last = "installed" => agentJson # "none"
  /\ setup.pc \in AddingRules /\ ~overlap => harden.rules = {}
  /\ (setup.pc \in AfterRules \/ last = "installed") /\ ~overlap =>
       /\ fw.on => Wanted \subseteq fw.rules
       /\ harden.rules # {} => Wanted \subseteq harden.rules

SetupInv ==
  SetupType /\ HardenInv /\ Fenced /\ Wired /\ WiredTokenIsServed /\ LetIn

(* A setup that moves on is one.                                             *)
LEMMA SetupFields ==
  ASSUME NEW s \in Setup
  PROVE  /\ \A p \in Pcs : [s EXCEPT !.pc = p] \in Setup
         /\ \A p \in Pcs, n \in 0..3 : [s EXCEPT !.tries = n, !.pc = p] \in Setup
         /\ \A p \in Pcs, b \in BOOLEAN : [s EXCEPT !.pc = p, !.failed = b] \in Setup
         /\ \A p \in Pcs, b \in BOOLEAN, r \in SUBSET {"agent", "peers"} :
              [s EXCEPT !.pc = p, !.failed = b, !.rules = r] \in Setup
         /\ \A p \in Pcs, k \in Kinds, t \in 0..Tokens :
              [s EXCEPT !.pc = p, !.kind = k, !.token = t] \in Setup
<1>. USE DEF Setup
<1>1. \A p \in Pcs : [s EXCEPT !.pc = p] \in Setup
  OBVIOUS
<1>2. \A p \in Pcs, n \in 0..3 : [s EXCEPT !.tries = n, !.pc = p] \in Setup
  OBVIOUS
<1>3. \A p \in Pcs, b \in BOOLEAN : [s EXCEPT !.pc = p, !.failed = b] \in Setup
  OBVIOUS
<1>4. \A p \in Pcs, b \in BOOLEAN, r \in SUBSET {"agent", "peers"} :
        [s EXCEPT !.pc = p, !.failed = b, !.rules = r] \in Setup
  OBVIOUS
<1>5. \A p \in Pcs, k \in Kinds, t \in 0..Tokens :
        [s EXCEPT !.pc = p, !.kind = k, !.token = t] \in Setup
  OBVIOUS
<1>. QED  BY <1>1, <1>2, <1>3, <1>4, <1>5

(* A host on which nothing is being installed.                               *)
LEMMA NoSetupFits ==
  NoSetup \in Setup /\ NoSetup.pc = "idle" /\ NoSetup.kind = "plain"
<1>1. "idle" \in Pcs /\ "plain" \in Kinds /\ 0 \in 0..Tokens
  BY HostSetupAssumption DEF Pcs, Kinds
<1>. QED  BY <1>1 DEF NoSetup, Setup

(* The agent's record, one field at a time.                                   *)
LEMMA AgentFields ==
  ASSUME NEW a \in Agent
  PROVE  /\ \A b \in BOOLEAN : [a EXCEPT !.boot = b] \in Agent
         /\ \A b \in BOOLEAN : [a EXCEPT !.fleet = b] \in Agent
         /\ \A b \in BOOLEAN : [a EXCEPT !.table = b] \in Agent
         /\ \A t \in 0..Tokens : [a EXCEPT !.env = t] \in Agent
         /\ \A t \in 0..Tokens : [a EXCEPT !.run = t] \in Agent
         /\ \A t \in 0..Tokens, b \in BOOLEAN : [a EXCEPT !.run = t, !.boot = b] \in Agent
         /\ \A t \in 0..Tokens, b \in BOOLEAN : [a EXCEPT !.boot = b, !.run = t] \in Agent
         /\ \A t \in 0..Tokens, b \in BOOLEAN : [a EXCEPT !.run = t, !.runFleet = b] \in Agent
         /\ \A b, c \in BOOLEAN : [a EXCEPT !.table = b, !.tableBoot = c] \in Agent
         /\ \A b, c \in BOOLEAN : [a EXCEPT !.tableBoot = c, !.table = b] \in Agent
<1>. USE DEF Agent
<1>1. \A b \in BOOLEAN : [a EXCEPT !.boot = b] \in Agent
  OBVIOUS
<1>2. \A b \in BOOLEAN : [a EXCEPT !.fleet = b] \in Agent
  OBVIOUS
<1>3. \A b \in BOOLEAN : [a EXCEPT !.table = b] \in Agent
  OBVIOUS
<1>4. \A t \in 0..Tokens : [a EXCEPT !.env = t] \in Agent
  OBVIOUS
<1>10. \A t \in 0..Tokens : [a EXCEPT !.run = t] \in Agent
  OBVIOUS
<1>5. \A t \in 0..Tokens, b \in BOOLEAN : [a EXCEPT !.run = t, !.boot = b] \in Agent
  OBVIOUS
<1>6. \A t \in 0..Tokens, b \in BOOLEAN : [a EXCEPT !.boot = b, !.run = t] \in Agent
  OBVIOUS
<1>7. \A t \in 0..Tokens, b \in BOOLEAN : [a EXCEPT !.run = t, !.runFleet = b] \in Agent
  OBVIOUS
<1>8. \A b, c \in BOOLEAN : [a EXCEPT !.table = b, !.tableBoot = c] \in Agent
  OBVIOUS
<1>9. \A b, c \in BOOLEAN : [a EXCEPT !.tableBoot = c, !.table = b] \in Agent
  OBVIOUS
<1>. HIDE DEF Agent
<1>. QED  BY <1>1, <1>2, <1>3, <1>4, <1>5, <1>6, <1>7, <1>8, <1>9, <1>10, Zenon

(* The firewall and harden as they were.                                      *)
LEMMA HardenQuiet ==
  ASSUME HardenInv, UNCHANGED hardenVars
  PROVE  HardenInv' /\ fw' = fw /\ harden' = harden
BY DEF HardenInv, UfwChain, InUfw, SshIsLetIn, hardenVars

(* An install or uninstall that ends, other than well, leaves nothing to say  *)
(* but that the agent is fenced.                                              *)
LEMMA SetupEnds ==
  ASSUME SetupType', HardenInv', AgentFenced(agent', missed'),
         setup' = NoSetup, last' # "installed"
  PROVE  SetupInv'
<1>1. setup'.pc = "idle"
  BY NoSetupFits
<1>2. setup'.pc \notin AfterTable \cup BeforeTable \cup Removing
  BY <1>1 DEF AfterTable, AfterJson, AddingRules, AfterRules, AfterStart, Wiring, BeforeTable, Removing
<1>3. Fenced'
  BY <1>2 DEF Fenced, AgentFenced, AfterTable, Removing
<1>4. Wired' /\ WiredTokenIsServed'
  BY <1>1, <1>2 DEF Wired, WiredTokenIsServed, AfterTable, AfterJson, AfterEnv, AfterRules, AfterStart, AddingRules
<1>5. LetIn'
  BY <1>2 DEF LetIn, AfterTable, AfterJson
<1>. QED  BY <1>3, <1>4, <1>5 DEF SetupInv

(* Going on to the next step changes nothing else the script holds.          *)
LEMMA SetupGoes ==
  ASSUME SetupType, NEW p \in Pcs, Goto(p)
  PROVE  /\ setup' \in Setup /\ setup'.pc = p
         /\ setup'.kind = setup.kind /\ setup'.token = setup.token
<1>1. setup \in Setup /\ setup' = [setup EXCEPT !.pc = p]
  BY DEF SetupType, Goto
<1>2. setup' \in Setup
  BY <1>1, SetupFields
<1>. QED  BY <1>1, <1>2 DEF Setup

(* A command that starts.                                                     *)
LEMMA SetupStarts ==
  ASSUME SetupInv, UNCHANGED hardenVars,
         UNCHANGED <<agentJson, agent, entry, denied, overlap>>,
         missed' \in {missed, missed \ {"show"}},
         flows' \in 0..MaxFlows, reboots' \in 0..MaxReboots,
         setup' \in Setup, last' = "none",
         \/ setup'.pc = "guardrail" /\ setup'.token # 0
         \/ setup'.pc = "unwire"
  PROVE  SetupInv'
<1>1. HardenInv'
  BY HardenQuiet DEF SetupInv
<1>2. SetupType'
  BY DEF SetupInv, SetupType
<1>3. setup'.pc \notin AfterTable /\ setup'.pc \notin Removing
      /\ (setup'.pc \in BeforeTable => setup'.token # 0)
  BY DEF AfterTable, AfterJson, AddingRules, AfterRules, AfterStart, Wiring, BeforeTable, Removing
<1>4. Fenced'
  <2>1. AgentFenced(agent', missed')
    BY DEF SetupInv, Fenced, AgentFenced
  <2>. QED  BY <1>3, <2>1 DEF Fenced, AfterTable
<1>5. Wired' /\ WiredTokenIsServed'
  BY <1>3 DEF Wired, WiredTokenIsServed, AfterTable, AfterJson, AfterEnv, AfterRules, AfterStart
<1>6. LetIn'
  BY <1>3 DEF LetIn, AfterTable, AfterJson
<1>. QED  BY <1>1, <1>2, <1>4, <1>5, <1>6 DEF SetupInv

(* An install starts, with a token of its own.                               *)
LEMMA InstallStep ==
  ASSUME SetupInv, NEW kind \in Kinds, Install(kind)
  PROVE  SetupInv'
<1>1. agent.env + 1 \in 0..Tokens /\ agent.env + 1 # 0
  BY HostSetupAssumption DEF SetupInv, SetupType, Agent, Install
<1>2. setup' = [NoSetup EXCEPT !.pc = "guardrail", !.kind = kind, !.token = agent.env + 1]
  BY DEF Install
<1>3. "guardrail" \in Pcs
  BY DEF Pcs, BeforeTable
<1>4. setup' \in Setup
  BY <1>1, <1>2, <1>3, NoSetupFits, SetupFields
<1>5. setup'.pc = "guardrail" /\ setup'.token # 0
  BY <1>1, <1>2, NoSetupFits DEF Setup
<1>6. flows' \in 0..MaxFlows /\ reboots' \in 0..MaxReboots /\ last' = "none"
  BY HostSetupAssumption DEF Install, SetupInv, SetupType
<1>. QED  BY <1>4, <1>5, <1>6, SetupStarts DEF Install

(* An uninstall starts.                                                      *)
LEMMA UninstallStep ==
  ASSUME SetupInv, Uninstall
  PROVE  SetupInv'
<1>1. setup' = [NoSetup EXCEPT !.pc = "unwire"] /\ "unwire" \in Pcs
  BY DEF Uninstall, Pcs
<1>2. setup' \in Setup
  BY <1>1, NoSetupFits, SetupFields
<1>3. setup'.pc = "unwire"
  BY <1>1, NoSetupFits DEF Setup
<1>4. flows' \in 0..MaxFlows /\ reboots' \in 0..MaxReboots /\ last' = "none"
  BY HostSetupAssumption DEF Uninstall, SetupInv, SetupType
<1>. QED  BY <1>2, <1>3, <1>4, SetupStarts DEF Uninstall

(* A step that changes nothing of what install leaves on the host.            *)
LEMMA EndsThere ==
  ASSUME SetupInv, UNCHANGED <<hardenVars, flows, reboots>>,
         agentJson' \in {"none", "plain", "serves"}, agent' \in Agent, entry' \in 0..Tokens,
         denied' \in BOOLEAN, overlap' \in BOOLEAN, missed' \subseteq Passed,
         AgentFenced(agent', missed'),
         setup' = NoSetup, last' # "installed"
  PROVE  SetupInv'
<1>1. HardenInv'
  BY HardenQuiet DEF SetupInv
<1>2. SetupType'
  BY NoSetupFits DEF SetupInv, SetupType
<1>. QED  BY <1>1, <1>2, SetupEnds

(* The steps before the table: nothing is known but the token.                *)
LEMMA StillBefore ==
  ASSUME SetupInv, UNCHANGED <<hardenVars, flows, reboots>>,
         UNCHANGED <<agentJson, agent, entry, overlap, missed, last>>, denied' \in BOOLEAN,
         setup.pc \in BeforeTable, setup' \in Setup, setup'.pc \in BeforeTable,
         setup'.token = setup.token, setup'.pc = "table" => denied'
  PROVE  SetupInv'
<1>1. HardenInv'
  BY HardenQuiet DEF SetupInv
<1>2. SetupType'
  BY DEF SetupInv, SetupType
<1>3. setup'.pc \notin AfterTable /\ setup'.pc \notin Removing /\ setup'.pc # "idle"
      /\ setup.pc # "idle"
  BY DEF AfterTable, AfterJson, AddingRules, AfterRules, AfterStart, Wiring, BeforeTable, Removing
<1>4. last' = "none" /\ last' # "installed" /\ setup.token # 0
  BY <1>3 DEF SetupInv, Wired
<1>5. Fenced'
  BY <1>3 DEF SetupInv, Fenced, AgentFenced, AfterTable
<1>6. Wired' /\ WiredTokenIsServed'
  <2>1. setup'.pc \notin AfterEnv /\ setup'.pc \notin AfterStart /\ setup'.pc \notin Wiring /\ setup'.pc \notin {"add", "done"}
    BY <1>3 DEF AfterTable, AfterJson, AddingRules, AfterEnv, AfterRules, AfterStart, Wiring
  <2>2. setup'.token # 0
    BY <1>4
  <2>. QED  BY <1>3, <1>4, <2>1, <2>2 DEF Wired, WiredTokenIsServed
<1>7. LetIn'
  BY <1>3, <1>4 DEF LetIn, AfterTable, AfterJson
<1>. QED  BY <1>1, <1>2, <1>5, <1>6, <1>7 DEF SetupInv

(* The preconditions of an install.                                          *)
LEMMA PreconditionsStep ==
  ASSUME SetupInv, Preconditions
  PROVE  SetupInv'
<1>1. /\ UNCHANGED <<hardenVars, flows, reboots>>
      /\ UNCHANGED <<missed, agentJson, agent, entry, denied, overlap>>
      /\ setup.pc = "guardrail"
  BY DEF Preconditions, Keep, At
<1>2. CASE End("refused")
  BY <1>1, <1>2, EndsThere DEF End, SetupInv, SetupType, Fenced
<1>3. CASE UNCHANGED last /\ \E p \in {"verify", "deny"} : Goto(p)
  <2>1. PICK p \in {"verify", "deny"} : Goto(p)
    BY <1>3
  <2>2. p \in Pcs /\ p \in BeforeTable /\ setup.pc \in BeforeTable
    BY <1>1 DEF Pcs, BeforeTable
  <2>3. setup' \in Setup /\ setup'.pc = p /\ setup'.token = setup.token
    BY <2>1, <2>2, SetupGoes DEF SetupInv
  <2>. QED  BY <1>1, <1>3, <2>2, <2>3, StillBefore DEF SetupInv, SetupType
<1>. QED  BY <1>2, <1>3 DEF Preconditions

(* The other agents are denied the tools, in a gateway that may be           *)
(* restarting.                                                               *)
LEMMA GatewayWriteStep ==
  ASSUME SetupInv, gatewayWrite
  PROVE  SetupInv'
<1>1. /\ UNCHANGED <<hardenVars, flows, reboots>>
      /\ UNCHANGED <<missed, agentJson, agent, entry, overlap>>
      /\ setup.pc = "deny" /\ denied' \in BOOLEAN
  BY DEF gatewayWrite, Keep, At, SetupInv, SetupType
<1>2. CASE End("verify")
  BY <1>1, <1>2, EndsThere DEF End, SetupInv, SetupType, Fenced
<1>3. CASE Goto("verify") /\ UNCHANGED last
  <2>1. "verify" \in Pcs /\ "verify" \in BeforeTable /\ setup.pc \in BeforeTable
    BY <1>1 DEF Pcs, BeforeTable
  <2>2. setup' \in Setup /\ setup'.pc = "verify" /\ setup'.token = setup.token
    BY <1>3, <2>1, SetupGoes DEF SetupInv
  <2>. QED  BY <1>1, <1>3, <2>1, <2>2, StillBefore
<1>4. CASE UNCHANGED last /\ setup.tries < 3 /\ setup' = [setup EXCEPT !.tries = setup.tries + 1]
  <2>1. setup \in Setup /\ setup.pc \in BeforeTable
    BY <1>1 DEF SetupInv, SetupType, BeforeTable
  <2>2. setup.tries + 1 \in 0..3
    BY <1>4, <2>1 DEF Setup
  <2>3. setup' \in Setup /\ setup'.pc = setup.pc /\ setup'.token = setup.token
    BY <1>4, <2>1, <2>2 DEF Setup
  <2>. QED  BY <1>1, <1>4, <2>1, <2>3, StillBefore
<1>. QED  BY <1>2, <1>3, <1>4 DEF gatewayWrite

(* What the steps from the table on have in common.                           *)
LEMMA VerifyStep ==
  ASSUME SetupInv, VerifyAndCopy
  PROVE  SetupInv'
<1>1. /\ UNCHANGED <<hardenVars, flows, reboots>>
      /\ UNCHANGED <<missed, agentJson, agent, entry, denied, overlap>>
      /\ setup.pc = "verify"
  BY DEF VerifyAndCopy, Keep, At
<1>2. CASE End("install")
  BY <1>1, <1>2, EndsThere DEF End, SetupInv, SetupType, Fenced
<1>3. CASE denied /\ Goto("table") /\ UNCHANGED last
  <2>1. "table" \in Pcs /\ "table" \in BeforeTable /\ setup.pc \in BeforeTable
    BY <1>1 DEF Pcs, BeforeTable
  <2>2. setup' \in Setup /\ setup'.pc = "table" /\ setup'.token = setup.token
    BY <1>3, <2>1, SetupGoes DEF SetupInv
  <2>. QED  BY <1>1, <1>3, <2>1, <2>2, StillBefore DEF SetupInv, SetupType
<1>4. CASE denied /\ setup.kind = "plain" /\ Goto("json") /\ UNCHANGED last
  <2>1. "json" \in Pcs
    BY DEF Pcs, AfterTable
  <2>2. setup' \in Setup /\ setup'.pc = "json" /\ setup'.token = setup.token /\ setup'.kind = "plain"
    BY <1>4, <2>1, SetupGoes DEF SetupInv
  <2>3. HardenInv' /\ SetupType'
    BY <1>1, <2>2, HardenQuiet DEF SetupInv, SetupType
  <2>4. setup.token # 0 /\ last = "none"
    BY <1>1 DEF SetupInv, Wired, BeforeTable
  <2>5. setup'.pc \notin AfterJson /\ setup'.pc \notin Removing
    BY <2>2 DEF AfterJson, AddingRules, AfterRules, AfterStart, Wiring, Removing
  <2>6. Fenced'
    BY <1>1, <2>2, <2>5 DEF SetupInv, Fenced, AgentFenced
  <2>7. Wired' /\ WiredTokenIsServed'
    BY <1>1, <1>4, <2>2, <2>4, <2>5
       DEF Wired, WiredTokenIsServed, AfterJson, AddingRules, AfterEnv, AfterRules, AfterStart
  <2>8. LetIn'
    BY <1>1, <1>4, <2>4, <2>5 DEF LetIn, AfterJson
  <2>. QED  BY <2>3, <2>6, <2>7, <2>8 DEF SetupInv
<1>. QED  BY <1>2, <1>3, <1>4 DEF VerifyAndCopy

(* The fleet's firewall table and its unit, before the agent is started.     *)
LEMMA TableStep ==
  ASSUME SetupInv, installPeerFirewall
  PROVE  SetupInv'
<1>1. /\ UNCHANGED <<hardenVars, flows, reboots>>
      /\ UNCHANGED <<agentJson, entry, denied, overlap>>
      /\ setup.pc = "table"
  BY DEF installPeerFirewall, Keep, At
<1>2. agent \in Agent /\ AgentFenced(agent, missed)
  BY DEF SetupInv, SetupType, Fenced
<1>3. ASSUME NEW on \in BOOLEAN, NEW up \in BOOLEAN, End("install"),
             agent' = [agent EXCEPT !.tableBoot = on, !.table = up],
             agent.tableBoot => on, agent.table => up,
             missed' = (IF up THEN missed \ {"table"} ELSE missed)
      PROVE  SetupInv'
  <2>1. agent' \in Agent /\ AgentFenced(agent', missed')
    <3>1. agent' \in Agent
      BY <1>2, <1>3, AgentFields
    <3>2. /\ agent'.boot = agent.boot /\ agent'.fleet = agent.fleet /\ agent'.run = agent.run
          /\ agent'.runFleet = agent.runFleet
          /\ agent'.table = up /\ agent'.tableBoot = on
      BY <1>2, <1>3 DEF Agent
    <3>. QED  BY <1>2, <1>3, <3>1, <3>2 DEF AgentFenced
  <2>2. missed' \subseteq Passed
    BY <1>3 DEF SetupInv, SetupType
  <2>. QED  BY <1>1, <1>3, <2>1, <2>2, EndsThere DEF End, SetupInv, SetupType
<1>4. CASE agent' = [agent EXCEPT !.table = TRUE, !.tableBoot = TRUE] /\ Goto("json") /\ UNCHANGED last
  <2>1. "json" \in Pcs
    BY DEF Pcs, AfterTable
  <2>2. setup' \in Setup /\ setup'.pc = "json" /\ setup'.token = setup.token
    BY <1>4, <2>1, SetupGoes DEF SetupInv
  <2>3. agent' \in Agent /\ agent'.table = TRUE /\ agent'.tableBoot = TRUE
    <3>1. \A a \in Agent : [a EXCEPT !.table = TRUE, !.tableBoot = TRUE] \in Agent
      BY DEF Agent
    <3>2. agent' \in Agent
      BY <1>2, <1>4, <3>1
    <3>. QED  BY <1>2, <1>4, <3>2 DEF Agent
  <2>4. HardenInv' /\ SetupType'
    <3>1. missed' \subseteq Passed
      BY DEF installPeerFirewall, SetupInv, SetupType
    <3>. QED  BY <1>1, <2>2, <2>3, <3>1, HardenQuiet DEF SetupInv, SetupType
  <2>5. setup.token # 0 /\ last = "none" /\ denied
    BY <1>1 DEF SetupInv, Wired, BeforeTable
  <2>6. setup'.pc \notin AfterJson /\ setup'.pc \notin Removing
    BY <2>2 DEF AfterJson, AddingRules, AfterRules, AfterStart, Wiring, Removing
  <2>7. Fenced'
    BY <2>3, <2>6 DEF Fenced, AgentFenced
  <2>8. Wired' /\ WiredTokenIsServed'
    BY <1>1, <1>4, <2>2, <2>5, <2>6
       DEF Wired, WiredTokenIsServed, AfterJson, AddingRules, AfterEnv, AfterRules, AfterStart
  <2>9. LetIn'
    BY <1>1, <1>4, <2>5, <2>6 DEF LetIn, AfterJson
  <2>. QED  BY <2>4, <2>7, <2>8, <2>9 DEF SetupInv
<1>5. ASSUME NEW boot \in BOOLEAN, NEW table \in BOOLEAN, End("install"),
             agent' = [agent EXCEPT !.tableBoot = agent.tableBoot \/ boot,
                                    !.table = agent.table \/ (boot /\ table)]
      PROVE  SetupInv'
  <2>1. PICK on \in BOOLEAN, up \in BOOLEAN :
          (on <=> (agent.tableBoot \/ boot)) /\ (up <=> (agent.table \/ (boot /\ table)))
    OBVIOUS
  <2>2. agent' = [agent EXCEPT !.tableBoot = on, !.table = up]
    BY <1>5, <2>1
  <2>3. agent'.table <=> up
    BY <1>2, <2>2 DEF Agent
  <2>4. missed' = (IF up THEN missed \ {"table"} ELSE missed)
    BY <2>3 DEF installPeerFirewall
  <2>. QED  BY <1>3, <1>5, <2>1, <2>2, <2>4
<1>. QED  BY <1>4, <1>5 DEF installPeerFirewall

(* Writing agent.json is where an install and harden's reading may overlap.   *)
LEMMA JsonStep ==
  ASSUME SetupInv, WriteJson
  PROVE  SetupInv'
<1>1. /\ UNCHANGED <<hardenVars, flows, reboots>> /\ UNCHANGED <<entry, denied, missed>>
      /\ setup.pc = "json" /\ overlap' = Overlaps
  BY DEF WriteJson, Keep, At
<1>2. agent \in Agent /\ AgentFenced(agent, missed) /\ setup \in Setup
  BY DEF SetupInv, SetupType, Fenced
<1>3. overlap' \in BOOLEAN /\ (overlap => overlap') /\ (~overlap' => harden.rules = {})
  BY <1>1 DEF Overlaps, SetupInv, SetupType
<1>4. CASE UNCHANGED <<agentJson, agent>> /\ End("install")
  BY <1>1, <1>2, <1>3, <1>4, EndsThere DEF End, SetupInv, SetupType
<1>5. CASE /\ agentJson' = JsonOf(setup.kind) /\ agent' = [agent EXCEPT !.fleet = (setup.kind # "plain")]
           /\ Goto("env") /\ UNCHANGED last
  <2>1. "env" \in Pcs
    BY DEF Pcs, AfterTable, AfterJson, AddingRules
  <2>2. setup' \in Setup /\ setup'.pc = "env" /\ setup'.token = setup.token /\ setup'.kind = setup.kind
    BY <1>5, <2>1, SetupGoes DEF SetupInv
  <2>3. agent' \in Agent
    <3>1. PICK b \in BOOLEAN : b <=> setup.kind # "plain"
      OBVIOUS
    <3>2. agent' = [agent EXCEPT !.fleet = b]
      BY <1>5, <3>1
    <3>. QED  BY <1>2, <3>2, AgentFields
  <2>4. /\ agent'.fleet = (setup.kind # "plain") /\ agent'.boot = agent.boot
        /\ agent'.run = agent.run /\ agent'.runFleet = agent.runFleet
        /\ agent'.table = agent.table /\ agent'.tableBoot = agent.tableBoot
    BY <1>2, <1>5 DEF Agent
  <2>5. agentJson' \in {"none", "plain", "serves"}
    BY <1>5 DEF JsonOf
  <2>6. HardenInv' /\ SetupType'
    BY <1>1, <1>3, <2>2, <2>3, <2>5, HardenQuiet DEF SetupInv, SetupType
  <2>7. /\ setup.token # 0 /\ last = "none" /\ denied
        /\ setup.kind # "plain" => agent.table /\ agent.tableBoot
    BY <1>1 DEF SetupInv, Wired, Fenced, AfterTable
  <2>8. /\ setup'.pc \notin AfterEnv /\ setup'.pc \notin AfterRules /\ setup'.pc \notin AfterStart
        /\ setup'.pc \notin Wiring /\ setup'.pc \notin Removing
    BY <2>2 DEF AfterEnv, AfterRules, AfterStart, Wiring, Removing
  <2>9. Fenced'
    <3>1. AgentFenced(agent', missed')
      BY <1>1, <1>2, <2>4, <2>7 DEF AgentFenced
    <3>. QED  BY <2>2, <2>4, <2>7, <2>8, <3>1 DEF Fenced
  <2>10. Wired' /\ WiredTokenIsServed'
    BY <1>1, <1>5, <2>2, <2>7, <2>8 DEF Wired, WiredTokenIsServed
  <2>11. LetIn'
    <3>1. harden' = harden
      BY <1>1 DEF hardenVars
    <3>2. last' # "installed"
      BY <1>5, <2>7
    <3>. QED  BY <1>3, <1>5, <2>2, <2>8, <3>1, <3>2 DEF LetIn
  <2>. QED  BY <2>6, <2>9, <2>10, <2>11 DEF SetupInv
<1>. QED  BY <1>4, <1>5 DEF WriteJson

(* The agent's environment file is written.                                  *)
LEMMA EnvStep ==
  ASSUME SetupInv, WriteEnv
  PROVE  SetupInv'
<1>1. /\ UNCHANGED <<hardenVars, flows, reboots>> /\ UNCHANGED <<missed, agentJson, entry, denied>>
      /\ setup.pc = "env" /\ overlap' = Overlaps
  BY DEF WriteEnv, Keep, At
<1>2. agent \in Agent /\ AgentFenced(agent, missed) /\ setup \in Setup /\ setup.token \in 0..Tokens
  BY DEF SetupInv, SetupType, Fenced, Setup
<1>3. overlap' \in BOOLEAN /\ (overlap => overlap') /\ (~overlap' => harden.rules = {})
  BY <1>1 DEF Overlaps, SetupInv, SetupType
<1>4. ASSUME agent' = [agent EXCEPT !.env = setup.token]
      PROVE  /\ agent' \in Agent /\ AgentFenced(agent', missed') /\ agent'.env = setup.token
             /\ agent'.fleet = agent.fleet
             /\ agent'.table = agent.table /\ agent'.tableBoot = agent.tableBoot
  <2>1. agent' \in Agent
    BY <1>2, <1>4, AgentFields
  <2>2. /\ agent'.env = setup.token /\ agent'.boot = agent.boot /\ agent'.fleet = agent.fleet
        /\ agent'.run = agent.run /\ agent'.runFleet = agent.runFleet
        /\ agent'.table = agent.table /\ agent'.tableBoot = agent.tableBoot
    BY <1>2, <1>4 DEF Agent
  <2>. QED  BY <1>1, <1>2, <2>1, <2>2 DEF AgentFenced
<1>5. CASE agent' \in {agent, [agent EXCEPT !.env = setup.token]} /\ End("install")
  BY <1>1, <1>2, <1>3, <1>4, <1>5, EndsThere DEF End, SetupInv, SetupType
<1>6. CASE agent' = [agent EXCEPT !.env = setup.token] /\ Goto("ufw status") /\ UNCHANGED last
  <2>1. "ufw status" \in Pcs
    BY DEF Pcs, AfterTable, AfterJson, AddingRules
  <2>2. setup' \in Setup /\ setup'.pc = "ufw status" /\ setup'.token = setup.token /\ setup'.kind = setup.kind
    BY <1>6, <2>1, SetupGoes DEF SetupInv
  <2>3. HardenInv' /\ SetupType'
    BY <1>1, <1>3, <1>4, <1>6, <2>2, HardenQuiet DEF SetupInv, SetupType
  <2>4. /\ setup.token # 0 /\ last = "none" /\ denied
        /\ setup.kind # "plain" => agent.table /\ agent.tableBoot
        /\ agent.fleet = (setup.kind # "plain") /\ agentJson = JsonOf(setup.kind)
    BY <1>1 DEF SetupInv, Wired, Fenced, LetIn, AfterTable, AfterJson, AddingRules
  <2>5. /\ setup'.pc \notin AfterRules /\ setup'.pc \notin AfterStart
        /\ setup'.pc \notin Wiring /\ setup'.pc \notin Removing
    BY <2>2 DEF AfterRules, AfterStart, Wiring, Removing
  <2>6. Fenced'
    BY <1>4, <1>6, <2>2, <2>4, <2>5 DEF Fenced
  <2>7. Wired' /\ WiredTokenIsServed'
    BY <1>1, <1>4, <1>6, <2>2, <2>4, <2>5 DEF Wired, WiredTokenIsServed
  <2>8. LetIn'
    <3>1. harden' = harden
      BY <1>1 DEF hardenVars
    <3>. QED  BY <1>1, <1>3, <1>6, <2>2, <2>4, <2>5, <3>1 DEF LetIn
  <2>. QED  BY <2>3, <2>6, <2>7, <2>8 DEF SetupInv
<1>. QED  BY <1>5, <1>6 DEF WriteEnv

(* A firewall that is on is given the rules next.                             *)
LEMMA UfwRulesStep ==
  ASSUME SetupInv, UfwRules
  PROVE  SetupInv'
<1>1. /\ UNCHANGED <<hardenVars, flows, reboots>> /\ UNCHANGED <<missed, agentJson, agent, entry, denied, last>>
      /\ setup.pc = "ufw status" /\ overlap' = Overlaps
  BY DEF UfwRules, Keep, At
<1>2. overlap' \in BOOLEAN /\ (~overlap' => harden.rules = {})
  BY <1>1 DEF Overlaps, SetupInv, SetupType
<1>3. PICK p \in {"ufw allow", "start"} : Goto(p) /\ (p = "start" => ~fw.on)
  BY DEF UfwRules
<1>4. p \in Pcs
  BY DEF Pcs, AfterTable, AfterJson, AddingRules, AfterRules
<1>5. setup' \in Setup /\ setup'.pc = p /\ setup'.token = setup.token /\ setup'.kind = setup.kind
  BY <1>3, <1>4, SetupGoes DEF SetupInv
<1>6. HardenInv' /\ SetupType' /\ harden' = harden /\ fw' = fw
  BY <1>1, <1>2, <1>5, HardenQuiet DEF SetupInv, SetupType
<1>7. /\ setup.token # 0 /\ last = "none" /\ denied /\ agent.env = setup.token
      /\ setup.kind # "plain" => agent.table /\ agent.tableBoot
      /\ agent.fleet = (setup.kind # "plain") /\ agentJson = JsonOf(setup.kind)
  BY <1>1 DEF SetupInv, Wired, Fenced, LetIn, AfterTable, AfterJson, AfterEnv, AddingRules
<1>8. setup'.pc \notin AfterStart /\ setup'.pc \notin Wiring /\ setup'.pc \notin Removing
  BY <1>5 DEF AfterStart, Wiring, Removing
<1>9. Fenced'
  BY <1>1, <1>5, <1>7, <1>8 DEF SetupInv, Fenced
<1>10. Wired' /\ WiredTokenIsServed'
  BY <1>1, <1>5, <1>7, <1>8 DEF Wired, WiredTokenIsServed
<1>11. LetIn'
  BY <1>1, <1>2, <1>3, <1>5, <1>6, <1>7 DEF LetIn, AfterRules, AfterStart, Wiring
<1>. QED  BY <1>6, <1>9, <1>10, <1>11 DEF SetupInv

(* What the wanted rules are, once agent.json is written.                     *)
LEMMA WantedIsAsked ==
  ASSUME NEW kind \in Kinds, agentJson = JsonOf(kind)
  PROVE  Wanted = WantedRules(kind) /\ agentJson # "none"
BY DEF Kinds, JsonOf, WantedRules, Wanted

(* The rules are added to the firewall.                                      *)
LEMMA UfwAllowStep ==
  ASSUME SetupInv, UfwAllow
  PROVE  SetupInv'
<1>1. /\ UNCHANGED <<missed, agentJson, agent, entry, denied, flows, reboots, ssh, harden>>
      /\ setup.pc = "ufw allow" /\ overlap' = Overlaps
  BY DEF UfwAllow, At
<1>2. overlap' \in BOOLEAN /\ (~overlap' => harden.rules = {})
  BY <1>1 DEF Overlaps, SetupInv, SetupType
<1>3. fw \in Firewall /\ setup.kind \in Kinds
  BY DEF SetupInv, HardenInv, SetupType, Setup
<1>4. ASSUME NEW more \in SUBSET Rules, fw' = [fw EXCEPT !.rules = fw.rules \cup more]
      PROVE  HardenInv' /\ fw'.rules = fw.rules \cup more /\ fw'.on = fw.on
  <2>1. fw' \in Firewall /\ fw'.on = fw.on /\ fw'.rules = fw.rules \cup more
    BY <1>3, <1>4 DEF Firewall
  <2>. QED  BY <1>1, <2>1 DEF SetupInv, HardenInv, UfwChain, InUfw, SshIsLetIn
<1>5. WantedRules(setup.kind) \in SUBSET Rules /\ {"agent"} \in SUBSET Rules
  BY DEF WantedRules, Rules
<1>6. CASE fw' \in {fw, [fw EXCEPT !.rules = fw.rules \cup {"agent"}]} /\ End("install")
  <2>1. HardenInv'
    <3>1. CASE fw' = fw
      BY <1>1, <3>1 DEF SetupInv, HardenInv, UfwChain, InUfw, SshIsLetIn
    <3>2. CASE fw' = [fw EXCEPT !.rules = fw.rules \cup {"agent"}]
      BY <1>4, <1>5, <3>2
    <3>. QED  BY <1>6, <3>1, <3>2
  <2>2. SetupType' /\ AgentFenced(agent', missed')
    BY <1>1, <1>2, <1>6, NoSetupFits DEF End, SetupInv, SetupType, Fenced
  <2>. QED  BY <1>6, <2>1, <2>2, SetupEnds DEF End
<1>7. CASE /\ fw' = [fw EXCEPT !.rules = fw.rules \cup WantedRules(setup.kind)]
           /\ Goto("start") /\ UNCHANGED last
  <2>1. "start" \in Pcs
    BY DEF Pcs, AfterTable, AfterJson, AfterRules
  <2>2. setup' \in Setup /\ setup'.pc = "start" /\ setup'.token = setup.token /\ setup'.kind = setup.kind
    BY <1>7, <2>1, SetupGoes DEF SetupInv
  <2>3. HardenInv' /\ fw'.rules = fw.rules \cup WantedRules(setup.kind)
    BY <1>4, <1>5, <1>7
  <2>4. SetupType'
    BY <1>1, <1>2, <2>2 DEF SetupInv, SetupType
  <2>5. /\ setup.token # 0 /\ last = "none" /\ denied /\ agent.env = setup.token
        /\ setup.kind # "plain" => agent.table /\ agent.tableBoot
        /\ agent.fleet = (setup.kind # "plain") /\ agentJson = JsonOf(setup.kind)
    BY <1>1 DEF SetupInv, Wired, Fenced, LetIn, AfterTable, AfterJson, AfterEnv, AddingRules
  <2>6. setup'.pc \notin AfterStart /\ setup'.pc \notin Wiring /\ setup'.pc \notin Removing
    BY <2>2 DEF AfterStart, Wiring, Removing
  <2>7. Fenced'
    BY <1>1, <2>2, <2>5, <2>6 DEF SetupInv, Fenced
  <2>8. Wired' /\ WiredTokenIsServed'
    BY <1>1, <1>7, <2>2, <2>5, <2>6 DEF Wired, WiredTokenIsServed
  <2>9. Wanted' = WantedRules(setup.kind)
    BY <1>1, <1>3, <2>5, WantedIsAsked DEF Wanted
  <2>10. LetIn'
    <3>1. setup'.pc \notin AddingRules /\ last' # "installed" /\ harden' = harden
      BY <1>1, <1>7, <2>2, <2>5 DEF AddingRules
    <3>. QED  BY <1>1, <1>2, <2>2, <2>3, <2>5, <2>9, <3>1 DEF LetIn
  <2>. QED  BY <2>3, <2>4, <2>7, <2>8, <2>10 DEF SetupInv
<1>. QED  BY <1>6, <1>7 DEF UfwAllow

(* The steps after the rules leave the firewall and agent.json alone.         *)
LEMMA LetInKept ==
  ASSUME SetupInv, UNCHANGED <<hardenVars, agentJson, overlap>>,
         setup.pc \in AfterRules, setup'.pc \in AfterRules, setup'.kind = setup.kind, last' = "none"
  PROVE  LetIn'
<1>1. harden' = harden /\ fw' = fw /\ Wanted' = Wanted
  BY DEF hardenVars, Wanted
<1>2. setup'.pc \notin AddingRules
  BY DEF AfterRules, AfterStart, Wiring, AddingRules
<1>3. /\ agentJson = JsonOf(setup.kind)
      /\ ~overlap => /\ fw.on => Wanted \subseteq fw.rules
                     /\ harden.rules # {} => Wanted \subseteq harden.rules
  BY DEF SetupInv, LetIn, AfterJson
<1>. QED  BY <1>1, <1>2, <1>3 DEF LetIn

(* A step after the table was written leaves the agent behind it.            *)
LEMMA FencedKept ==
  ASSUME SetupInv, setup.pc \in AfterRules, setup'.pc \in AfterRules, setup'.kind = setup.kind,
         AgentFenced(agent', missed'), agent'.fleet = agent.fleet, agent'.table = agent.table,
         agent'.tableBoot = agent.tableBoot
  PROVE  Fenced'
<1>1. /\ setup.kind # "plain" => agent.table /\ agent.tableBoot
      /\ agent.fleet = (setup.kind # "plain")
  BY DEF SetupInv, Fenced, AfterTable, AfterJson
<1>2. setup'.pc \notin Removing
  BY DEF AfterRules, AfterStart, Wiring, Removing
<1>. QED  BY <1>1, <1>2 DEF Fenced

(* The unit is enabled and started.                                          *)
LEMMA StartStep ==
  ASSUME SetupInv, Start
  PROVE  SetupInv'
<1>1. /\ UNCHANGED <<hardenVars, flows, reboots>> /\ UNCHANGED <<agentJson, entry, denied, overlap>>
      /\ setup.pc = "start" /\ setup.pc \in AfterRules
  BY DEF Start, Keep, At, AfterRules
<1>2. agent \in Agent /\ AgentFenced(agent, missed) /\ overlap \in BOOLEAN
  BY DEF SetupInv, SetupType, Fenced
<1>3. /\ setup.token # 0 /\ last = "none" /\ denied /\ agent.env = setup.token
      /\ setup.kind # "plain" => agent.table /\ agent.tableBoot
      /\ agent.fleet = (setup.kind # "plain")
  BY <1>1 DEF SetupInv, Wired, Fenced, AfterTable, AfterJson, AfterEnv
<1>4. CASE /\ agent' \in {agent, [agent EXCEPT !.boot = TRUE, !.run = 0]} /\ UNCHANGED missed
           /\ End("start")
  <2>1. agent' \in Agent /\ AgentFenced(agent', missed')
    <3>1. CASE agent' = agent
      BY <1>2, <1>4, <3>1
    <3>2. CASE agent' = [agent EXCEPT !.boot = TRUE, !.run = 0]
      <4>1. 0 \in 0..Tokens
        BY HostSetupAssumption
      <4>2. \A a \in Agent, t \in 0..Tokens : [a EXCEPT !.boot = TRUE, !.run = t] \in Agent
        BY DEF Agent
      <4>3. agent' \in Agent
        BY <1>2, <3>2, <4>1, <4>2
      <4>4. /\ agent'.run = 0 /\ agent'.fleet = agent.fleet /\ agent'.tableBoot = agent.tableBoot
        BY <1>2, <3>2 DEF Agent
      <4>. QED  BY <1>3, <4>3, <4>4 DEF AgentFenced
    <3>. QED  BY <1>4, <3>1, <3>2
  <2>. QED  BY <1>1, <1>2, <1>4, <2>1, EndsThere DEF End, SetupInv, SetupType
<1>5. CASE /\ agent' = [Running(agent) EXCEPT !.boot = TRUE] /\ missed' = missed \ {"stop"}
           /\ Goto("answers") /\ UNCHANGED last
  <2>1. "answers" \in Pcs
    BY DEF Pcs, AfterTable, AfterJson, AfterRules, AfterStart
  <2>2. setup' \in Setup /\ setup'.pc = "answers" /\ setup'.token = setup.token /\ setup'.kind = setup.kind
    BY <1>5, <2>1, SetupGoes DEF SetupInv
  <2>3. Running(agent) \in Agent
    <3>1. agent.env \in 0..Tokens /\ agent.fleet \in BOOLEAN
      BY <1>2 DEF Agent
    <3>. QED  BY <1>2, <3>1, AgentFields DEF Running
  <2>4. agent' \in Agent
    <3>1. \A a \in Agent : [a EXCEPT !.boot = TRUE] \in Agent
      BY DEF Agent
    <3>. QED  BY <1>5, <2>3, <3>1
  <2>5. /\ agent'.boot = TRUE /\ agent'.run = agent.env /\ agent'.runFleet = agent.fleet
        /\ agent'.fleet = agent.fleet /\ agent'.table = agent.table
        /\ agent'.tableBoot = agent.tableBoot /\ agent'.env = agent.env
    BY <1>2, <1>5, <2>3 DEF Agent, Running
  <2>6. HardenInv' /\ SetupType'
    BY <1>1, <1>5, <2>2, <2>4, HardenQuiet DEF SetupInv, SetupType
  <2>7. setup'.pc \in AfterRules /\ setup'.pc \notin Wiring
    BY <2>2 DEF AfterRules, AfterStart, Wiring
  <2>8. AgentFenced(agent', missed')
    BY <1>3, <2>5 DEF AgentFenced
  <2>9. Fenced'
    BY <1>1, <2>2, <2>5, <2>7, <2>8, FencedKept
  <2>10. Wired' /\ WiredTokenIsServed'
    BY <1>1, <1>3, <1>5, <2>2, <2>5, <2>7 DEF Wired, WiredTokenIsServed
  <2>11. LetIn'
    BY <1>1, <1>3, <1>5, <2>2, <2>7, LetInKept
  <2>. QED  BY <2>6, <2>9, <2>10, <2>11 DEF SetupInv
<1>. QED  BY <1>4, <1>5 DEF Start

(* An agent that was told to stop is fenced, or it is known that it was not.  *)
LEMMA StoppedFits ==
  ASSUME SetupInv, StopAgent
  PROVE  /\ agent' \in Agent /\ AgentFenced(agent', missed') /\ missed' \subseteq Passed
         /\ Stopped(agent', missed')
<1>1. agent \in Agent /\ 0 \in 0..Tokens /\ missed \subseteq Passed
  BY HostSetupAssumption DEF SetupInv, SetupType
<1>2. PICK running \in BOOLEAN, enabled \in BOOLEAN :
        agent' = [agent EXCEPT !.run = IF running THEN agent.run ELSE 0, !.boot = agent.boot /\ enabled]
  BY DEF StopAgent
<1>3. PICK t \in 0..Tokens, b \in BOOLEAN :
        t = (IF running THEN agent.run ELSE 0) /\ (b <=> (agent.boot /\ enabled))
  BY <1>1 DEF Agent
<1>4. agent' = [agent EXCEPT !.run = t, !.boot = b]
  BY <1>1, <1>2, <1>3 DEF Agent
<1>5. agent' \in Agent
  BY <1>1, <1>4, AgentFields
<1>6. agent'.run = t /\ agent'.boot = b /\ b \in BOOLEAN
  BY <1>1, <1>4 DEF Agent
<1>7. CASE t = 0 /\ b = FALSE
  BY <1>1, <1>5, <1>6, <1>7 DEF StopAgent, AgentFenced, Stopped
<1>8. CASE ~(t = 0 /\ b = FALSE)
  <2>1. missed' = missed \cup {"stop"}
    BY <1>6, <1>8 DEF StopAgent
  <2>. QED  BY <1>1, <1>5, <2>1 DEF AgentFenced, Stopped, Passed
<1>. QED  BY <1>7, <1>8

(* An install that gives up says so, and what it leaves is fenced.            *)
LEMMA GivesUp ==
  ASSUME SetupInv, UNCHANGED <<hardenVars, flows, reboots>>, UNCHANGED <<agentJson, denied, overlap>>,
         entry' \in 0..Tokens, Abandon
  PROVE  SetupInv'
BY StoppedFits, EndsThere DEF Abandon, End, SetupInv, SetupType

(* What holds once the agent has been started.                                *)
LEMMA Started ==
  ASSUME SetupInv, setup.pc \in AfterStart
  PROVE  /\ setup.token # 0 /\ last = "none" /\ denied /\ agent.env = setup.token /\ agent.boot
         /\ setup.pc \in AfterRules /\ agent \in Agent /\ AgentFenced(agent, missed)
<1>1. setup.pc \in AfterRules /\ setup.pc \in AfterEnv /\ setup.pc \in AfterTable /\ setup.pc # "idle"
  BY DEF AfterRules, AfterStart, Wiring, AfterEnv, AfterTable, AfterJson
<1>. QED  BY <1>1 DEF SetupInv, Wired, Fenced, SetupType

(* The steps in which the gateway is wired, as far as they go on.             *)
LEMMA WiringGoesOn ==
  ASSUME SetupInv, UNCHANGED <<hardenVars, flows, reboots>>,
         UNCHANGED <<agentJson, agent, denied, overlap, last>>,
         missed' \in {missed, missed \cup {"show"}},
         setup.pc \in AfterStart, setup' \in Setup, setup'.pc \in Wiring,
         setup'.kind = setup.kind, setup'.token = setup.token,
         agent.run = setup.token, entry' \in 0..Tokens,
         "show" \notin missed' /\ setup'.pc # "show" => entry' \in {0, setup.token},
         setup'.pc = "done" => entry' # 0
  PROVE  SetupInv'
<1>1. /\ setup.token # 0 /\ last = "none" /\ denied /\ agent.env = setup.token /\ agent.boot
      /\ setup.pc \in AfterRules /\ agent \in Agent /\ AgentFenced(agent, missed)
  BY Started
<1>2. setup'.pc \in AfterRules
  BY DEF AfterRules, AfterStart
<1>3. HardenInv' /\ SetupType'
  BY HardenQuiet DEF SetupInv, SetupType, Passed
<1>4. Fenced'
  <2>1. AgentFenced(agent', missed')
    BY <1>1 DEF AgentFenced
  <2>. QED  BY <1>1, <1>2, <2>1, FencedKept
<1>5. LetIn'
  BY <1>1, <1>2, LetInKept
<1>6. Wired' /\ WiredTokenIsServed'
  BY <1>1 DEF Wired, WiredTokenIsServed
<1>. QED  BY <1>3, <1>4, <1>5, <1>6 DEF SetupInv

(* The agent is asked whether it answers, and stopped when it does not.      *)
LEMMA AnswersStep ==
  ASSUME SetupInv, Answers
  PROVE  SetupInv'
<1>1. /\ UNCHANGED <<hardenVars, flows, reboots>> /\ UNCHANGED <<agentJson, entry, denied, overlap>>
      /\ setup.pc = "answers" /\ setup.pc \in AfterStart /\ entry' \in 0..Tokens
  BY DEF Answers, Keep, At, AfterStart, SetupInv, SetupType
<1>2. CASE Abandon
  BY <1>1, <1>2, GivesUp
<1>3. CASE agent.run = setup.token /\ Goto("show") /\ UNCHANGED <<agent, missed, last>>
  <2>1. "show" \in Pcs /\ "show" \in Wiring
    BY DEF Pcs, AfterTable, AfterJson, AfterRules, AfterStart, Wiring
  <2>2. setup' \in Setup /\ setup'.pc = "show" /\ setup'.token = setup.token /\ setup'.kind = setup.kind
    BY <1>3, <2>1, SetupGoes DEF SetupInv
  <2>. QED  BY <1>1, <1>3, <2>1, <2>2, WiringGoesOn
<1>. QED  BY <1>2, <1>3 DEF Answers

(* An entry of an earlier install that `show` names is removed before the new *)
(* one is added.                                                              *)
LEMMA UnsetStep ==
  ASSUME SetupInv, Unset
  PROVE  SetupInv'
<1>1. /\ UNCHANGED <<hardenVars, flows, reboots>> /\ UNCHANGED <<agentJson, denied, overlap>>
      /\ setup.pc = "show" /\ setup.pc \in AfterStart /\ agent.run = setup.token
  BY DEF Unset, Keep, At, AfterStart, Wiring, SetupInv, Wired
<1>2. entry' \in 0..Tokens
  BY HostSetupAssumption DEF Unset, SetupInv, SetupType
<1>3. CASE Abandon
  BY <1>1, <1>2, <1>3, GivesUp
<1>4. CASE GoAdd /\ ((entry' = 0 /\ UNCHANGED missed) \/ missed' = missed \cup {"show"})
  <2>1. "add" \in Pcs /\ "add" \in Wiring
    BY DEF Pcs, AfterTable, AfterJson, AfterRules, AfterStart, Wiring
  <2>2. setup \in Setup /\ setup' = [setup EXCEPT !.tries = 0, !.pc = "add"]
    BY <1>4 DEF GoAdd, SetupInv, SetupType, Setup
  <2>3. setup' \in Setup
    BY 0 \in 0..3, <2>1, <2>2, SetupFields
  <2>4. setup'.pc = "add" /\ setup'.token = setup.token /\ setup'.kind = setup.kind
    BY <2>2 DEF Setup
  <2>5. missed' \in {missed, missed \cup {"show"}} /\ ("show" \notin missed' => entry' = 0)
        /\ UNCHANGED <<agent, last>>
    BY <1>4 DEF GoAdd
  <2>. QED  BY <1>1, <1>2, <2>1, <2>3, <2>4, <2>5, WiringGoesOn
<1>. QED  BY <1>3, <1>4 DEF Unset

(* An install ends, and says that it is installed.                           *)
LEMMA DoneStep ==
  ASSUME SetupInv, Done
  PROVE  SetupInv'
<1>1. /\ UNCHANGED <<hardenVars, flows, reboots>> /\ UNCHANGED <<missed, agentJson, agent, entry, denied, overlap>>
      /\ setup.pc = "done" /\ setup.pc \in AfterStart /\ setup.pc \in AfterRules
      /\ setup' = NoSetup /\ last' = "installed"
  BY DEF Done, Keep, At, End, AfterRules, AfterStart, Wiring
<1>2. /\ setup.token # 0 /\ denied /\ agent.env = setup.token /\ agent.boot
      /\ agent \in Agent /\ AgentFenced(agent, missed)
  BY <1>1, Started
<1>3. /\ agent.run = setup.token /\ agentJson = JsonOf(setup.kind)
      /\ entry # 0 /\ ("show" \notin missed => entry = setup.token)
  BY <1>1 DEF SetupInv, Wired, LetIn, Wiring, AfterJson
<1>4. HardenInv' /\ SetupType' /\ harden' = harden /\ fw' = fw
  BY <1>1, HardenQuiet, NoSetupFits DEF SetupInv, SetupType
<1>5. setup'.pc = "idle"
  BY <1>1, NoSetupFits
<1>6. setup'.pc \notin AfterTable \cup BeforeTable \cup Removing
  BY <1>5 DEF AfterTable, AfterJson, AddingRules, AfterRules, AfterStart, Wiring, BeforeTable, Removing
<1>7. /\ setup'.pc \notin AfterEnv /\ setup'.pc \notin AfterStart /\ setup'.pc \notin Wiring
      /\ setup'.pc \notin AfterJson /\ setup'.pc \notin AfterRules /\ setup'.pc \notin AddingRules
  BY <1>5 DEF AfterJson, AddingRules, AfterEnv, AfterRules, AfterStart, Wiring
<1>8. Fenced'
  BY <1>1, <1>2, <1>6, <1>7 DEF Fenced
<1>9. Wired' /\ WiredTokenIsServed'
  BY <1>1, <1>2, <1>3, <1>5, <1>6, <1>7 DEF Wired, WiredTokenIsServed
<1>10. setup.kind \in Kinds
  BY DEF SetupInv, SetupType, Setup
<1>11. agentJson # "none"
  BY <1>3, <1>10, WantedIsAsked
<1>12. ~overlap => /\ fw.on => Wanted \subseteq fw.rules
                   /\ harden.rules # {} => Wanted \subseteq harden.rules
  BY <1>1 DEF SetupInv, LetIn
<1>13. LetIn'
  BY <1>1, <1>4, <1>7, <1>11, <1>12 DEF LetIn, Wanted
<1>. QED  BY <1>4, <1>8, <1>9, <1>13 DEF SetupInv

(* The gateway probes the agent and saves the entry with its token, where     *)
(* there is none.                                                             *)
LEMMA AddStep ==
  ASSUME SetupInv, Add
  PROVE  SetupInv'
<1>1. /\ UNCHANGED <<hardenVars, flows, reboots>> /\ UNCHANGED <<agentJson, denied, overlap>>
      /\ setup.pc = "add" /\ setup.pc \in AfterStart /\ agent.run = setup.token
  BY DEF Add, Keep, At, AfterStart, Wiring, SetupInv, Wired
<1>2. setup \in Setup /\ setup.token \in 0..Tokens /\ entry \in 0..Tokens /\ setup.token # 0
  BY <1>1, Started DEF SetupInv, SetupType, Setup
<1>3. "add" \in Pcs /\ "done" \in Pcs /\ "add" \in Wiring /\ "done" \in Wiring
  BY DEF Pcs, AfterTable, AfterJson, AfterRules, AfterStart, Wiring
<1>4. Saves \/ UNCHANGED entry
  BY DEF Add
<1>5. entry' \in 0..Tokens /\ ("show" \notin missed => entry' \in {0, setup.token})
  BY <1>1, <1>2, <1>4 DEF Saves, SetupInv, Wired
<1>6. CASE Abandon
  BY <1>1, <1>5, <1>6, GivesUp
<1>7. CASE Saves /\ Goto("done") /\ UNCHANGED <<agent, missed, last>>
  <2>1. setup' \in Setup /\ setup'.pc = "done" /\ setup'.token = setup.token /\ setup'.kind = setup.kind
    BY <1>3, <1>7, SetupGoes DEF SetupInv
  <2>. QED  BY <1>1, <1>2, <1>3, <1>5, <1>7, <2>1, WiringGoesOn DEF Saves
<1>8. ASSUME NEW p \in {"done", "add"}, p = "done" => entry' # 0, setup.tries < 3,
             setup' = [setup EXCEPT !.tries = setup.tries + 1, !.pc = p], UNCHANGED <<agent, missed, last>>
      PROVE  SetupInv'
  <2>1. setup.tries + 1 \in 0..3
    BY <1>2, <1>8 DEF Setup
  <2>2. setup' \in Setup
    BY <1>2, <1>3, <1>8, <2>1, SetupFields
  <2>3. setup'.pc = p /\ setup'.token = setup.token /\ setup'.kind = setup.kind
    BY <1>2, <1>8 DEF Setup
  <2>. QED  BY <1>1, <1>3, <1>5, <1>8, <2>2, <2>3, WiringGoesOn
<1>. QED  BY <1>6, <1>7, <1>8 DEF Add

(* Between unwiring and stopping the unit nothing is known of the agent.      *)
LEMMA UnwireStep ==
  ASSUME SetupInv, Unwire
  PROVE  SetupInv'
<1>1. /\ UNCHANGED <<hardenVars, flows, reboots>>
      /\ UNCHANGED <<missed, agentJson, agent, denied, overlap, last>> /\ setup.pc = "unwire"
  BY DEF Unwire, Keep, At
<1>2. PICK b \in BOOLEAN, r \in SUBSET {"agent", "peers"} :
        setup' = [setup EXCEPT !.pc = "stop", !.failed = b, !.rules = r]
  BY DEF Unwire
<1>3. setup \in Setup /\ "stop" \in Pcs /\ last = "none" /\ AgentFenced(agent, missed)
  BY <1>1 DEF SetupInv, SetupType, Pcs, Wired, Fenced
<1>4. setup' \in Setup
  BY <1>2, <1>3, SetupFields
<1>5. setup'.pc = "stop"
  BY <1>2, <1>3 DEF Setup
<1>6. entry' \in 0..Tokens
  BY HostSetupAssumption DEF Unwire, SetupInv, SetupType
<1>7. HardenInv' /\ SetupType'
  BY <1>1, <1>4, <1>6, HardenQuiet DEF SetupInv, SetupType
<1>8. /\ setup'.pc \notin AfterTable \cup BeforeTable \cup Removing
      /\ setup'.pc \notin AfterEnv /\ setup'.pc \notin AfterStart /\ setup'.pc \notin Wiring
      /\ setup'.pc \notin AfterJson /\ setup'.pc \notin AfterRules /\ setup'.pc \notin AddingRules
      /\ setup'.pc \notin {"idle", "table", "add", "done"}
  BY <1>5 DEF AfterTable, AfterJson, AddingRules, AfterEnv, AfterRules, AfterStart, Wiring, BeforeTable, Removing
<1>9. Fenced' /\ Wired' /\ WiredTokenIsServed' /\ LetIn'
  BY <1>1, <1>3, <1>8 DEF Fenced, Wired, WiredTokenIsServed, LetIn
<1>. QED  BY <1>7, <1>9 DEF SetupInv

(* The steps that follow the stop: what became of the agent remains so.       *)
LEMMA RemovingGoesOn ==
  ASSUME SetupInv, HardenInv', UNCHANGED <<flows, reboots>>,
         UNCHANGED <<agentJson, entry, denied, overlap>>, last = "none", last' = "none",
         setup' \in Setup, setup'.pc \in Removing, missed' \subseteq Passed,
         agent' \in Agent, AgentFenced(agent', missed'), Stopped(agent', missed')
  PROVE  SetupInv'
<1>1. SetupType'
  BY DEF SetupInv, SetupType
<1>2. /\ setup'.pc \notin AfterTable \cup BeforeTable
      /\ setup'.pc \notin AfterEnv /\ setup'.pc \notin AfterStart /\ setup'.pc \notin Wiring
      /\ setup'.pc \notin AfterJson /\ setup'.pc \notin AfterRules /\ setup'.pc \notin AddingRules
      /\ setup'.pc \notin {"idle", "table", "add", "done"}
  BY DEF AfterTable, AfterJson, AddingRules, AfterEnv, AfterRules, AfterStart, Wiring, BeforeTable, Removing
<1>3. Fenced'
  BY <1>2 DEF Fenced, AgentFenced
<1>4. Wired' /\ WiredTokenIsServed' /\ LetIn'
  BY <1>2 DEF Wired, WiredTokenIsServed, LetIn
<1>. QED  BY <1>1, <1>3, <1>4 DEF SetupInv

(* A step of the uninstall leads to the next, failed or not.                 *)
LEMMA NextOne ==
  ASSUME setup \in Setup, NEW p \in Pcs, NEW failed \in BOOLEAN, Next1(p, failed)
  PROVE  setup' \in Setup /\ setup'.pc = p
<1>1. setup' = [setup EXCEPT !.pc = p, !.failed = setup.failed \/ failed]
  BY DEF Next1
<1>2. PICK b \in BOOLEAN : b <=> (setup.failed \/ failed)
  OBVIOUS
<1>3. setup.failed \in BOOLEAN
  BY DEF Setup
<1>4. setup' = [setup EXCEPT !.pc = p, !.failed = b]
  BY <1>1, <1>2, <1>3
<1>5. setup' \in Setup
  BY <1>4, SetupFields
<1>. QED  BY <1>4, <1>5 DEF Setup

(* The unit is stopped and disabled.                                         *)
LEMMA StopStep ==
  ASSUME SetupInv, StopUnit
  PROVE  SetupInv'
<1>1. /\ UNCHANGED <<hardenVars, flows, reboots>>
      /\ UNCHANGED <<agentJson, entry, denied, overlap, last>> /\ setup.pc = "stop"
  BY DEF StopUnit, Keep, At
<1>2. /\ agent' \in Agent /\ AgentFenced(agent', missed') /\ missed' \subseteq Passed
      /\ Stopped(agent', missed')
  BY StoppedFits DEF StopUnit
<1>3. setup \in Setup /\ last = "none"
  BY <1>1 DEF SetupInv, SetupType, Wired
<1>4. "ufw delete" \in Pcs /\ "ufw delete" \in Removing
  BY DEF Pcs, Removing
<1>5. setup' \in Setup /\ setup'.pc = "ufw delete"
  BY <1>3, <1>4, NextOne DEF StopUnit
<1>6. HardenInv'
  BY <1>1, HardenQuiet DEF SetupInv
<1>. QED  BY <1>1, <1>2, <1>3, <1>4, <1>5, <1>6, RemovingGoesOn

(* uninstall takes the rules of install and no other, and only from a         *)
(* firewall that is on: harden is not in the middle of its chain.             *)
LEMMA UfwDeleteStep ==
  ASSUME SetupInv, UfwDelete
  PROVE  SetupInv'
<1>1. /\ UNCHANGED <<missed, agentJson, agent, entry, denied, overlap, last, flows, reboots, ssh, harden>>
      /\ setup.pc = "ufw delete" /\ setup.pc \in Removing
  BY DEF UfwDelete, At, Removing
<1>2. /\ setup \in Setup /\ last = "none" /\ agent \in Agent /\ AgentFenced(agent, missed)
      /\ Stopped(agent, missed) /\ missed \subseteq Passed
      /\ fw \in Firewall /\ setup.rules \subseteq {"agent", "peers"}
  BY <1>1 DEF SetupInv, SetupType, Wired, Setup, Fenced, HardenInv
<1>3. PICK there \in {{}, IF fw.on THEN fw.rules \cap setup.rules ELSE {}} :
      \E gone \in SUBSET there :
        /\ fw' = [fw EXCEPT !.rules = fw.rules \ gone]
        /\ Next1("peer table", gone # there)
  BY DEF UfwDelete
<1>4. PICK gone \in SUBSET there :
        /\ fw' = [fw EXCEPT !.rules = fw.rules \ gone]
        /\ Next1("peer table", gone # there)
  BY <1>3
<1>5. gone \subseteq {"agent", "peers"} /\ (~fw.on => gone = {})
  BY <1>2, <1>3, <1>4
<1>6. PICK failed \in BOOLEAN : failed <=> gone # there
  OBVIOUS
<1>7. Next1("peer table", failed)
  BY <1>4, <1>6 DEF Next1
<1>8. "peer table" \in Pcs /\ "peer table" \in Removing
  BY DEF Pcs, Removing
<1>9. setup' \in Setup /\ setup'.pc = "peer table"
  BY <1>2, <1>7, <1>8, NextOne
<1>10. fw' \in Firewall /\ fw'.on = fw.on /\ fw'.rules = fw.rules \ gone
  BY <1>2, <1>4 DEF Firewall
<1>11. UfwChain'
  BY <1>1, <1>5, <1>10 DEF SetupInv, HardenInv, UfwChain, InUfw
<1>12. SshIsLetIn'
  BY <1>5, <1>10 DEF SetupInv, HardenInv, SshIsLetIn
<1>13. HardenInv'
  BY <1>1, <1>10, <1>11, <1>12 DEF SetupInv, HardenInv
<1>. QED  BY <1>1, <1>2, <1>8, <1>9, <1>13, RemovingGoesOn

(* An uninstall takes the table away, or fails to and goes on.               *)
LEMMA PeerTableStep ==
  ASSUME SetupInv, removePeerFirewall
  PROVE  SetupInv'
<1>1. /\ UNCHANGED <<hardenVars, flows, reboots>>
      /\ UNCHANGED <<missed, agentJson, entry, denied, overlap, last>>
      /\ setup.pc = "peer table" /\ setup.pc \in Removing
  BY DEF removePeerFirewall, Keep, At, Removing
<1>2. /\ setup \in Setup /\ last = "none" /\ agent \in Agent /\ AgentFenced(agent, missed)
      /\ Stopped(agent, missed) /\ missed \subseteq Passed
  BY <1>1 DEF SetupInv, SetupType, Wired, Fenced
<1>3. PICK table \in BOOLEAN, unit \in BOOLEAN, failed \in BOOLEAN :
        /\ agent' = [agent EXCEPT !.table = agent.table /\ table, !.tableBoot = agent.tableBoot /\ unit]
        /\ Next1("rm", failed)
  BY DEF removePeerFirewall
<1>4. PICK t \in BOOLEAN, u \in BOOLEAN : (t <=> (agent.table /\ table)) /\ (u <=> (agent.tableBoot /\ unit))
  OBVIOUS
<1>5. agent' = [agent EXCEPT !.table = t, !.tableBoot = u]
  BY <1>2, <1>3, <1>4 DEF Agent
<1>6. agent' \in Agent
  BY <1>2, <1>5, AgentFields
<1>7. agent'.run = agent.run /\ agent'.boot = agent.boot
  BY <1>2, <1>5 DEF Agent
<1>8. AgentFenced(agent', missed') /\ Stopped(agent', missed')
  BY <1>1, <1>2, <1>7 DEF AgentFenced, Stopped
<1>9. "rm" \in Pcs /\ "rm" \in Removing
  BY DEF Pcs, Removing
<1>10. setup' \in Setup /\ setup'.pc = "rm"
  BY <1>2, <1>3, <1>9, NextOne
<1>11. HardenInv'
  BY <1>1, HardenQuiet DEF SetupInv
<1>. QED  BY <1>1, <1>2, <1>6, <1>8, <1>9, <1>10, <1>11, RemovingGoesOn

(* The files go, last.                                                       *)
LEMMA RemoveFilesStep ==
  ASSUME SetupInv, RemoveFiles
  PROVE  SetupInv'
<1>1. /\ UNCHANGED <<hardenVars, flows, reboots>> /\ UNCHANGED <<missed, entry, denied, overlap>>
      /\ setup.pc = "rm" /\ setup.pc \in Removing /\ setup' = NoSetup /\ last' # "installed"
  BY DEF RemoveFiles, Keep, At, End, Removing
<1>2. agent \in Agent /\ Stopped(agent, missed) /\ missed \subseteq Passed
  BY <1>1 DEF SetupInv, SetupType, Fenced
<1>3. agentJson' \in {"none", "plain", "serves"}
  BY DEF RemoveFiles, SetupInv, SetupType
<1>4. PICK json \in BOOLEAN, lib \in BOOLEAN, rules \in BOOLEAN :
        agent' = [agent EXCEPT !.fleet = agent.fleet /\ json, !.boot = agent.boot /\ lib,
                               !.tableBoot = agent.tableBoot /\ rules]
  BY DEF RemoveFiles
<1>5. PICK f \in BOOLEAN, b \in BOOLEAN, t \in BOOLEAN :
        (f <=> (agent.fleet /\ json)) /\ (b <=> (agent.boot /\ lib)) /\ (t <=> (agent.tableBoot /\ rules))
  OBVIOUS
<1>6. agent' = [agent EXCEPT !.fleet = f, !.boot = b, !.tableBoot = t]
  BY <1>2, <1>4, <1>5 DEF Agent
<1>7. agent' \in Agent /\ agent'.run = agent.run /\ agent'.boot = b
  BY <1>2, <1>6 DEF Agent
<1>8. AgentFenced(agent', missed')
  BY <1>1, <1>2, <1>5, <1>7 DEF AgentFenced, Stopped
<1>. QED  BY <1>1, <1>2, <1>3, <1>7, <1>8, EndsThere DEF SetupInv, SetupType

(* The script dies at any step.                                              *)
LEMMA SetupDiesStep ==
  ASSUME SetupInv, SetupDies
  PROVE  SetupInv'
<1>1. /\ UNCHANGED <<hardenVars, flows, reboots>> /\ UNCHANGED <<missed, agentJson, agent, entry, denied, overlap>>
      /\ setup' = NoSetup /\ last' # "installed"
  BY DEF SetupDies, Keep, End
<1>. QED  BY <1>1, EndsThere DEF SetupInv, SetupType, Fenced

(* A reboot starts what is enabled, the table before the agent.               *)
LEMMA RebootStep ==
  ASSUME SetupInv, Reboot
  PROVE  SetupInv'
<1>1. /\ UNCHANGED <<agentJson, entry, denied, overlap, flows, fw, ssh>>
      /\ setup' = NoSetup /\ harden' = Resting
      /\ last' = (IF setup.pc = "idle" THEN last ELSE "died")
  BY DEF Reboot, At
<1>2. agent \in Agent /\ AgentFenced(agent, missed) /\ fw \in Firewall /\ ssh \in Sshd
  BY DEF SetupInv, SetupType, Fenced, HardenInv
<1>3. PICK loads \in BOOLEAN :
        LET a == [agent EXCEPT !.table = agent.tableBoot /\ loads]
        IN  /\ agent' = IF a.boot THEN Running(a) ELSE [a EXCEPT !.run = 0]
            /\ missed' = (missed \cap (IF a.boot THEN {"show", "stop"} ELSE {"show"}))
                           \cup (IF a.tableBoot /\ ~loads THEN {"table"} ELSE {})
  BY DEF Reboot
<1>4. PICK up \in BOOLEAN : up <=> (agent.tableBoot /\ loads)
  OBVIOUS
<1>. DEFINE a == [agent EXCEPT !.table = up]
<1>5. /\ agent' = (IF a.boot THEN Running(a) ELSE [a EXCEPT !.run = 0])
      /\ missed' = (missed \cap (IF a.boot THEN {"show", "stop"} ELSE {"show"}))
                     \cup (IF a.tableBoot /\ ~loads THEN {"table"} ELSE {})
  <2>1. [agent EXCEPT !.table = agent.tableBoot /\ loads] = a
    BY <1>2, <1>4 DEF Agent
  <2>. QED  BY <1>3, <2>1
<1>6. a \in Agent
  BY <1>2, AgentFields
<1>7. /\ a.boot = agent.boot /\ a.fleet = agent.fleet /\ a.tableBoot = agent.tableBoot
       /\ a.table = up /\ a.env = agent.env
  BY <1>2 DEF Agent
<1>. HIDE DEF a
<1>8. missed' \subseteq Passed /\ ("show" \notin missed' => "show" \notin missed)
  BY <1>5 DEF Passed
<1>9. /\ agent' \in Agent /\ AgentFenced(agent', missed')
      /\ agent.boot => agent'.boot = agent.boot /\ agent'.env = agent.env /\ agent'.run = agent.env
  <2>1. CASE a.boot
    <3>1. agent' = [a EXCEPT !.run = a.env, !.runFleet = a.fleet]
      BY <1>5, <2>1 DEF Running
    <3>2. a.env \in 0..Tokens /\ a.fleet \in BOOLEAN
      BY <1>6 DEF Agent
    <3>3. agent' \in Agent
      BY <1>6, <3>1, <3>2, AgentFields
    <3>4. /\ agent'.boot = a.boot /\ agent'.env = a.env /\ agent'.run = a.env
          /\ agent'.fleet = a.fleet /\ agent'.runFleet = a.fleet
          /\ agent'.table = a.table /\ agent'.tableBoot = a.tableBoot
      BY <1>6, <3>1 DEF Agent
    <3>5. "stop" \in missed => "stop" \in missed'
      BY <1>5, <2>1
    <3>6. a.tableBoot => a.table \/ "table" \in missed'
      BY <1>4, <1>5, <1>7
    <3>7. AgentFenced(agent', missed')
      BY <1>2, <1>7, <2>1, <3>4, <3>5, <3>6 DEF AgentFenced
    <3>. QED  BY <1>7, <3>3, <3>4, <3>7
  <2>2. CASE ~a.boot
    <3>1. agent' = [a EXCEPT !.run = 0] /\ 0 \in 0..Tokens
      BY HostSetupAssumption, <1>5, <2>2
    <3>2. agent' \in Agent
      BY <1>6, <3>1, AgentFields
    <3>3. agent'.run = 0 /\ agent'.boot = a.boot
      BY <1>6, <3>1 DEF Agent
    <3>. QED  BY <1>7, <2>2, <3>2, <3>3 DEF AgentFenced
  <2>. QED  BY <2>1, <2>2
<1>10. HardenInv'
  <2>1. harden' \in Harden /\ harden'.pc = "idle" /\ harden'.rules = {}
    BY <1>1, RestingFits
  <2>. QED  BY <1>1, <1>2, <2>1 DEF SetupInv, HardenInv, UfwChain, InUfw, SshIsLetIn
<1>11. reboots' \in 0..MaxReboots
  BY HostSetupAssumption DEF Reboot, SetupInv, SetupType
<1>12. SetupType'
  BY <1>1, <1>9, <1>11, <1>8, NoSetupFits DEF SetupInv, SetupType
<1>13. CASE last' # "installed"
  BY <1>1, <1>9, <1>10, <1>12, <1>13, SetupEnds
<1>14. CASE last' = "installed"
  <2>1. last = "installed"
    BY <1>1, <1>14
  <2>2. /\ agent.boot /\ agent.env = agent.run /\ entry # 0 /\ denied
        /\ "show" \notin missed => entry = agent.run
    BY <2>1 DEF SetupInv, Wired, WiredTokenIsServed
  <2>3. setup'.pc = "idle"
    BY <1>1, NoSetupFits
  <2>4. /\ setup'.pc \notin AfterTable \cup BeforeTable \cup Removing \cup {"table"}
        /\ setup'.pc \notin AfterEnv /\ setup'.pc \notin AfterStart /\ setup'.pc \notin Wiring
        /\ setup'.pc \notin AfterJson /\ setup'.pc \notin AfterRules /\ setup'.pc \notin AddingRules
        /\ setup'.pc # "done"
    BY <2>3 DEF AfterTable, AfterJson, AddingRules, AfterEnv, AfterRules, AfterStart, Wiring, BeforeTable, Removing
  <2>5. Fenced'
    BY <1>9, <2>4 DEF Fenced
  <2>6. Wired' /\ WiredTokenIsServed'
    BY <1>1, <1>9, <1>8, <2>2, <2>3, <2>4 DEF Wired, WiredTokenIsServed
  <2>7. harden'.rules = {}
    BY <1>1, RestingFits
  <2>8. LetIn'
    BY <1>1, <2>1, <2>4, <2>7 DEF SetupInv, LetIn, Wanted
  <2>. QED  BY <1>10, <1>12, <2>5, <2>6, <2>8 DEF SetupInv
<1>. QED  BY <1>13, <1>14

(* A step of harden beside an install: what it reads and what it makes of the *)
(* firewall.                                                                  *)
LEMMA HardensKeeps ==
  ASSUME SetupInv, Hardens
  PROVE  SetupInv'
<1>1. /\ UNCHANGED <<missed, agentJson, agent, entry, denied, setup, last, reboots>>
      /\ overlap' = (overlap \/ (harden'.rules # {} /\ setup.pc \in AddingRules))
  BY DEF Hardens, AddingRules
<1>2. HardenInv' /\ FirewallKept /\ RulesRead
  BY HardensStep DEF SetupInv, HardenStep
<1>3. overlap' \in BOOLEAN /\ (~overlap' => ~overlap)
  BY <1>1 DEF SetupInv, SetupType
<1>4. flows' \in 0..MaxFlows
  <2>1. flows' = flows \/ (flows < MaxFlows /\ flows' = flows + 1)
    BY DEF Hardens
  <2>2. flows \in 0..MaxFlows /\ MaxFlows \in Nat
    BY HostSetupAssumption DEF SetupInv, SetupType
  <2>. QED  BY <2>1, <2>2
<1>5. SetupType'
  BY <1>1, <1>3, <1>4 DEF SetupInv, SetupType
<1>6. Fenced' /\ Wired' /\ WiredTokenIsServed'
  BY <1>1 DEF SetupInv, Fenced, AgentFenced, Wired, WiredTokenIsServed
<1>7. Wanted' = Wanted
  BY <1>1 DEF Wanted
<1>8. ASSUME (setup.pc \in AfterRules \/ last = "installed"), ~overlap'
      PROVE  /\ fw'.on => Wanted \subseteq fw'.rules
             /\ harden'.rules # {} => Wanted \subseteq harden'.rules
  <2>1. /\ fw.on => Wanted \subseteq fw.rules
        /\ harden.rules # {} => Wanted \subseteq harden.rules
    BY <1>3, <1>8 DEF SetupInv, LetIn
  <2>. QED  BY <1>2, <2>1 DEF FirewallKept, RulesRead
<1>9. LetIn'
  BY <1>1, <1>7, <1>8 DEF SetupInv, LetIn
<1>. QED  BY <1>2, <1>5, <1>6, <1>9 DEF SetupInv

(* Nothing happens.                                                          *)
LEMMA SetupStutter ==
  ASSUME SetupInv, UNCHANGED hostVars
  PROVE  SetupInv'
<1>1. /\ UNCHANGED <<fw, ssh, marks, done, harden, agentJson, agent, entry, denied, setup, last>>
      /\ UNCHANGED <<overlap, missed, flows, reboots>>
  BY DEF hostVars, hardenVars, setupVars
<1>2. HardenInv'
  BY <1>1 DEF SetupInv, HardenInv, UfwChain, InUfw, SshIsLetIn
<1>3. SetupType' /\ Fenced'
  BY <1>1 DEF SetupInv, SetupType, Fenced, AgentFenced
<1>4. Wired' /\ WiredTokenIsServed' /\ LetIn'
  BY <1>1 DEF SetupInv, Wired, WiredTokenIsServed, LetIn, Wanted
<1>. QED  BY <1>2, <1>3, <1>4 DEF SetupInv

(* Every step of the host's setup keeps the invariant.                        *)
LEMMA SetupStepInv ==
  ASSUME SetupInv, [SetupNext]_hostVars
  PROVE  SetupInv'
<1>1. ASSUME NEW kind \in Kinds, Install(kind)
      PROVE  SetupInv'
  BY <1>1, InstallStep
<1>2. CASE installHostAgent
  BY <1>2, PreconditionsStep, GatewayWriteStep, VerifyStep, TableStep, JsonStep, EnvStep,
     UfwRulesStep, UfwAllowStep, StartStep, AnswersStep, UnsetStep, AddStep, DoneStep
     DEF installHostAgent
<1>3. CASE Uninstall \/ uninstallHostAgent
  BY <1>3, UninstallStep, UnwireStep, StopStep, UfwDeleteStep, PeerTableStep, RemoveFilesStep
     DEF uninstallHostAgent
<1>4. CASE SetupDies \/ Reboot \/ Hardens
  BY <1>4, SetupDiesStep, RebootStep, HardensKeeps
<1>5. CASE UNCHANGED hostVars
  BY <1>5, SetupStutter
<1>. QED  BY <1>1, <1>2, <1>3, <1>4, <1>5 DEF SetupNext

(* The invariant holds on a host where nothing was installed.                *)
LEMMA SetupInitInv ==
  ASSUME SetupInit
  PROVE  SetupInv
<1>1. HardenInv
  BY HardenInitInv DEF SetupInit
<1>2. setup \in Setup /\ setup.pc = "idle" /\ last = "none"
  BY NoSetupFits DEF SetupInit
<1>3. 0 \in 0..Tokens /\ 0 \in 0..MaxFlows /\ 0 \in 0..MaxReboots
  BY HostSetupAssumption
<1>4. agent \in Agent /\ AgentFenced(agent, missed)
  BY <1>3 DEF SetupInit, Agent, AgentFenced
<1>5. SetupType
  BY <1>2, <1>3, <1>4 DEF SetupInit, SetupType
<1>6. setup.pc \notin AfterTable \cup BeforeTable \cup Removing
  BY <1>2 DEF AfterTable, AfterJson, AddingRules, AfterRules, AfterStart, Wiring, BeforeTable, Removing
<1>7. /\ setup.pc \notin AfterEnv /\ setup.pc \notin AfterStart /\ setup.pc \notin Wiring
      /\ setup.pc \notin AfterJson /\ setup.pc \notin AfterRules /\ setup.pc \notin AddingRules
      /\ setup.pc \notin {"table", "done"}
  BY <1>2 DEF AfterJson, AddingRules, AfterEnv, AfterRules, AfterStart, Wiring
<1>8. Fenced /\ Wired /\ WiredTokenIsServed /\ LetIn
  BY <1>2, <1>4, <1>6, <1>7 DEF Fenced, Wired, WiredTokenIsServed, LetIn
<1>. QED  BY <1>1, <1>5, <1>8 DEF SetupInv

(* The invariant holds of every behaviour.                                   *)
LEMMA SetupInvariance ==
  SetupSpec => []SetupInv
<1>1. SetupInit => SetupInv
  BY SetupInitInv
<1>2. SetupInv /\ [SetupNext]_hostVars => SetupInv'
  BY SetupStepInv
<1>. QED  BY <1>1, <1>2, PTL DEF SetupSpec

-----------------------------------------------------------------------------
(* The host, its agent, the firewall and the install under way are what their *)
(* types say.                                                                 *)
THEOREM SetupTypeHolds ==
  SetupSpec => []SetupTypeOK
<1>1. SetupInv => SetupTypeOK
  BY DEF SetupInv, SetupType, HardenInv, Firewall, Setup, SetupTypeOK
<1>. QED  BY <1>1, SetupInvariance, PTL

(* harden/modules/ufw.ts: wherever the chain that resets the firewall is cut  *)
(* off, and whatever install or uninstall does beside it, a firewall that is  *)
(* on lets SSH in.                                                            *)
THEOREM SshStaysLetIn ==
  SetupSpec => []SshIsLetIn
<1>1. SetupInv => SshIsLetIn
  BY DEF SetupInv, HardenInv
<1>. QED  BY <1>1, SetupInvariance, PTL

(* hostagent/install.ts: for any number of installs, uninstalls, runs of      *)
(* harden and reboots, an agent that was installed is let in by a firewall    *)
(* that is on, unless harden's reading and install's writing overlapped.      *)
THEOREM AgentStaysLetIn ==
  SetupSpec => []AgentIsLetIn
<1>1. ASSUME SetupInv
      PROVE  AgentIsLetIn
  <2>. SUFFICES ASSUME last = "installed", fw.on, ~overlap
                PROVE  "agent" \in fw.rules /\ (agentJson = "serves" => "peers" \in fw.rules)
    BY DEF AgentIsLetIn
  <2>1. agentJson # "none" /\ Wanted \subseteq fw.rules
    BY <1>1 DEF SetupInv, LetIn
  <2>. QED  BY <2>1 DEF Wanted
<1>. QED  BY <1>1, SetupInvariance, PTL

(* hostagent/install.ts, cli/mcp-wire.ts: through reinstalls, a gateway that  *)
(* restarts and reboots, what the gateway sends is the token the agent that   *)
(* runs asks for, unless `show` failed to name the entry that was there.      *)
THEOREM WiredTokenServed ==
  SetupSpec => []WiredTokenIsServed
<1>1. SetupInv => WiredTokenIsServed
  BY DEF SetupInv
<1>. QED  BY <1>1, SetupInvariance, PTL

(* hostagent/install.ts: no step of an install or an uninstall, wherever it   *)
(* fails, and no reboot leaves a fleet member's agent running without its     *)
(* table, other than one that did not stop when it was told to, or whose      *)
(* table's unit failed at boot.                                               *)
THEOREM TableBeforeAgentHolds ==
  SetupSpec => []TableBeforeAgent
<1>1. SetupInv => TableBeforeAgent
  BY DEF SetupInv, Fenced, AgentFenced, TableBeforeAgent
<1>. QED  BY <1>1, SetupInvariance, PTL

=============================================================================
