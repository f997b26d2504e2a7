------------------------------ MODULE Registry ------------------------------
(***************************************************************************)
(* The service registry (crates/jinnd-registry): slots, leases, the change *)
(* edge, and the readiness watcher of each consumer.                       *)
(*                                                                         *)
(* A provision is one call of Registry::provide by a fiber.  It stands for *)
(* its generation, which the code only compares for equality, and has its  *)
(* own lease cell.  Each step below is one critical section of the code:   *)
(* between a slot change and the bump that announces it, between two probes*)
(* of a resolution walk, between locating a provider and leasing it, other *)
(* tasks run.  The consumer is what a fiber body does with the registry:   *)
(* launched for the published epoch, it leases every injected service and  *)
(* returns the leases when it unloads.                                     *)
(***************************************************************************)
EXTENDS Naturals, Sequences, FiniteSets, ContextTree

CONSTANTS
    Provision,       \* calls of provide
    Consumer,        \* fibers that inject services
    None,            \* no provision, no epoch, or no realm given
    Provider,        \* Provider[p]: the fiber that makes provision p
    Place,           \* Place[p]: its context and service, and the realm a facade call names
    Seat,            \* Seat[c]: the consumer's context
    Injects,         \* Injects[c]: the services it injects, in declaration order
    MaxActivations,  \* bound: activations of one consumer
    MaxReports       \* bound: vitality reports

ASSUME RegistryConstants ==
    /\ None \notin Provision \union Realm
    /\ Provision \intersect Consumer = {}
    /\ DOMAIN Provider = Provision
    /\ Place \in [Provision -> [context : Context, service : Service,
                                realm : Realm \union {None}]]
    /\ Seat \in [Consumer -> Context]
    /\ Injects \in [Consumer -> Seq(Service) \ {<<>>}]
    /\ MaxActivations \in Nat /\ MaxReports \in Nat

\* The slot of a provision: a providing entry names no realm, a facade call does.
At == [p \in Provision |->
         IF Place[p].realm = None THEN EntrySlot(Place[p].context, Place[p].service)
         ELSE SlotFor(Place[p].context, Place[p].service, Place[p].realm)]

\* Per injected service, the slots its resolution probes, nearest first.
Walks == [c \in Consumer |->
            [i \in DOMAIN Injects[c] |-> Walk(Seat[c], Injects[c][i])]]

\* The addresses anyone provides at or probes.
Probed(c) == UNION {{Walks[c][i][j] : j \in DOMAIN Walks[c][i]} : i \in DOMAIN Walks[c]}

Slot == {At[p] : p \in Provision} \union UNION {Probed(c) : c \in Consumer}

VARIABLES
    slots,       \* SlotMap.slots
    leases,      \* leases[p]: the lease cell of p's generation
    vital,       \* vital[p]: the vitality last reported for p's provider
    reports,     \* vitality reports made so far
    edge,        \* edge[s]: the version moved since subscriber s last looked
    stage,       \* stage[p]: how far p's provision or withdrawal has come
    phase,       \* phase[p]: the disposer withdraw_slot runs for
    watcher,     \* watcher[c]: the readiness task
    published,   \* published[c]: the epoch the readiness signal shows
    missed,      \* history: a change fell before c's watcher subscribed
    body,        \* body[c]: the consumer's activation
    blocked      \* blocked[c]: the epoch an activation failed for (R9)

storeVars    == <<slots, leases, vital, reports>>
providerVars == <<stage, phase>>
watcherVars  == <<watcher, published, missed>>
bodyVars     == <<body, blocked>>
vars == <<slots, leases, vital, reports, edge, stage, phase,
          watcher, published, missed, body, blocked>>

Subscriber == Provision \union Consumer

Stage == {"idle", "refused", "unannounced", "live", "removed",
          "closed", "waiting", "inverses", "gone"}

Epoch == Seq(Provision) \union {None}

WalkState == [service : Nat, frame : Nat, found : Seq(Provision)]

\* A walk's place: the service, the frame, and what was found so far.
Start == [service |-> 1, frame |-> 1, found |-> <<>>]

-----------------------------------------------------------------------------
Init ==
    /\ slots = [a \in Slot |-> None]
    /\ leases = [p \in Provision |-> [active |-> 0, closed |-> FALSE]]
    /\ vital = [p \in Provision |-> TRUE]
    /\ reports = 0
    /\ edge = [s \in Subscriber |-> FALSE]
    /\ stage = [p \in Provision |-> "idle"]
    /\ phase = [p \in Provision |-> "drain"]
    /\ watcher = [c \in Consumer |-> [at |-> "first", walk |-> Start]]
    /\ published = [c \in Consumer |-> None]
    /\ missed = [c \in Consumer |-> FALSE]
    /\ body = [c \in Consumer |-> [at |-> "idle", epoch |-> None, walk |-> Start,
                                   located |-> None, guards |-> <<>>, runs |-> 0]]
    /\ blocked = [c \in Consumer |-> None]

\* Who holds a receiver of the version channel.
Subscribed(s) ==
    \/ s \in Provision /\ stage[s] = "waiting"
    \/ s \in Consumer /\ watcher[s].at \in {"parked", "computing"}

\* Store::bump: every subscriber will re-read the cells.
Bump == edge' = [s \in Subscriber |-> Subscribed(s)]

\* A change no unsubscribed watcher will be told of.
Changed == missed' = [c \in Consumer |->
                        missed[c] \/ watcher[c].at \in {"first", "subscribing"}]

-----------------------------------------------------------------------------
(* Registry::provide and SlotMap::insert *)

\* DuplicateProvision: another fiber's provision occupies the slot.
Refused(p) ==
    /\ stage[p] = "idle"
    /\ slots[At[p]] # None
    /\ Provider[slots[At[p]]] # Provider[p]
    /\ stage' = [stage EXCEPT ![p] = "refused"]
    /\ UNCHANGED <<storeVars, edge, phase, watcherVars, bodyVars>>

\* Mutated form of Insert: the superseded generation stays open to leases.
InsertLeavesOpen(p) ==
    /\ stage[p] = "idle"
    /\ slots[At[p]] # None => Provider[slots[At[p]]] = Provider[p]
    /\ slots' = [slots EXCEPT ![At[p]] = p]
    /\ Changed
    /\ stage' = [stage EXCEPT ![p] = "unannounced"]
    /\ UNCHANGED <<leases, vital, reports, edge, phase, watcher,
                   published, bodyVars>>

\* The same provider's provision is superseded, and its leases closed with it.
Insert(p) ==
    /\ stage[p] = "idle"
    /\ slots[At[p]] # None => Provider[slots[At[p]]] = Provider[p]
    /\ slots' = [slots EXCEPT ![At[p]] = p]
    /\ leases' = [q \in Provision |->
                    IF q = slots[At[p]] THEN [leases[q] EXCEPT !.closed = TRUE]
                    ELSE leases[q]]
    /\ Changed
    /\ stage' = [stage EXCEPT ![p] = "unannounced"]
    /\ UNCHANGED <<vital, reports, edge, phase, watcher, published,
                   bodyVars>>

\* The bump after the insertion, or after a report.
Announce(p) ==
    /\ stage[p] = "unannounced"
    /\ Bump
    /\ stage' = [stage EXCEPT ![p] = "live"]
    /\ UNCHANGED <<storeVars, phase, watcherVars, bodyVars>>

\* Vitality::report writes the cell, then moves the edge.
ReportVitality(p) ==
    /\ reports < MaxReports
    /\ stage[p] = "live"
    /\ reports' = reports + 1
    /\ vital' = [vital EXCEPT ![p] = ~vital[p]]
    /\ Changed
    /\ stage' = [stage EXCEPT ![p] = "unannounced"]
    /\ UNCHANGED <<slots, leases, edge, phase, watcher, published,
                   bodyVars>>

-----------------------------------------------------------------------------
(* withdraw_slot, run by the drain phase and again by the undo *)

\* A full withdrawal drains, runs the other inverses and undoes; a detached
\* provision only undoes.
Begins(p, from) ==
    \/ stage[p] = "live"
    \/ stage[p] = "inverses" /\ from = "undo"

\* remove_if, generation-guarded; the cell is closed either way.
RemoveIf(p, from) ==
    /\ Begins(p, from)
    /\ phase' = [phase EXCEPT ![p] = from]
    /\ leases' = [leases EXCEPT ![p].closed = TRUE]
    /\ IF slots[At[p]] = p
       THEN /\ slots' = [slots EXCEPT ![At[p]] = None]
            /\ Changed
            /\ stage' = [stage EXCEPT ![p] = "removed"]
       ELSE /\ stage' = [stage EXCEPT ![p] = "closed"]
            /\ UNCHANGED <<slots, missed>>
    /\ UNCHANGED <<vital, reports, edge, watcher, published, bodyVars>>

AnnounceRemoval(p) ==
    /\ stage[p] = "removed"
    /\ Bump
    /\ stage' = [stage EXCEPT ![p] = "closed"]
    /\ UNCHANGED <<storeVars, phase, watcherVars, bodyVars>>

IsDrained(p) == leases[p].closed /\ leases[p].active = 0

\* Once drained, a drain phase lets the inverses start and an undo drops the value.
Read(p) ==
    stage' = [stage EXCEPT ![p] = IF ~IsDrained(p) THEN "waiting"
                                  ELSE IF phase[p] = "undo" THEN "gone"
                                  ELSE "inverses"]

\* Store::drained subscribes, then reads the cell, and again on each edge.
Subscribe(p) ==
    /\ stage[p] = "closed"
    /\ Read(p)
    /\ UNCHANGED <<storeVars, edge, phase, watcherVars, bodyVars>>

Woken(p) ==
    /\ stage[p] = "waiting"
    /\ edge[p]
    /\ edge' = [edge EXCEPT ![p] = FALSE]
    /\ Read(p)
    /\ UNCHANGED <<storeVars, phase, watcherVars, bodyVars>>

-----------------------------------------------------------------------------
(* The resolution walk: one probe of one frame *)

InWalk(c, walk) ==
    walk.service \in DOMAIN Walks[c] /\ walk.frame \in DOMAIN Walks[c][walk.service]

Frame(c, walk) == Walks[c][walk.service][walk.frame]

NextFrame(walk) == [walk EXCEPT !.frame = walk.frame + 1]

NextService(walk, p) ==
    [service |-> walk.service + 1, frame |-> 1, found |-> Append(walk.found, p)]

AllFound(c, walk) == walk.service > Len(Injects[c])

-----------------------------------------------------------------------------
(* Registry::readiness: the watcher task, and compute *)

Computing(c) == watcher[c].at \in {"first", "computing"}

Probe(c) ==
    /\ Computing(c) /\ InWalk(c, watcher[c].walk)
    /\ slots[Frame(c, watcher[c].walk)] = None
    /\ watcher' = [watcher EXCEPT ![c].walk = NextFrame(watcher[c].walk)]
    /\ UNCHANGED <<storeVars, edge, providerVars, published, missed, bodyVars>>

Located(c) ==
    /\ Computing(c) /\ InWalk(c, watcher[c].walk)
    /\ LET p == slots[Frame(c, watcher[c].walk)]
       IN  /\ p # None /\ vital[p]
           /\ watcher' = [watcher EXCEPT ![c].walk = NextService(watcher[c].walk, p)]
    /\ UNCHANGED <<storeVars, edge, providerVars, published, missed, bodyVars>>

\* The epoch the finished walk answers with: None when a service is missing or
\* its provider is not vital.
Computed(c) ==
    IF AllFound(c, watcher[c].walk) THEN watcher[c].walk.found ELSE None

WalkEnds(c) ==
    InWalk(c, watcher[c].walk) =>
        LET p == slots[Frame(c, watcher[c].walk)] IN p # None /\ ~vital[p]

\* The first computation fills the channel; only then does the task subscribe.
PublishFirst(c) ==
    /\ watcher[c].at = "first" /\ WalkEnds(c)
    /\ published' = [published EXCEPT ![c] = Computed(c)]
    /\ watcher' = [watcher EXCEPT ![c] = [at |-> "subscribing", walk |-> Start]]
    /\ UNCHANGED <<storeVars, edge, providerVars, missed, bodyVars>>

SubscribeWatcher(c) ==
    /\ watcher[c].at = "subscribing"
    /\ watcher' = [watcher EXCEPT ![c].at = "parked"]
    /\ UNCHANGED <<storeVars, edge, providerVars, published, missed, bodyVars>>

WakeWatcher(c) ==
    /\ watcher[c].at = "parked"
    /\ edge[c]
    /\ edge' = [edge EXCEPT ![c] = FALSE]
    /\ watcher' = [watcher EXCEPT ![c] = [at |-> "computing", walk |-> Start]]
    /\ missed' = [missed EXCEPT ![c] = FALSE]
    /\ UNCHANGED <<storeVars, providerVars, published, bodyVars>>

\* Mutated form of Publish: the edge is marked seen when the result is out.
PublishMarksSeen(c) ==
    /\ watcher[c].at = "computing" /\ WalkEnds(c)
    /\ published' = [published EXCEPT ![c] = Computed(c)]
    /\ edge' = [edge EXCEPT ![c] = FALSE]
    /\ watcher' = [watcher EXCEPT ![c] = [at |-> "parked", walk |-> Start]]
    /\ UNCHANGED <<storeVars, providerVars, missed, bodyVars>>

\* send_if_modified: an equal epoch wakes nobody.
Publish(c) ==
    /\ watcher[c].at = "computing" /\ WalkEnds(c)
    /\ published' = [published EXCEPT ![c] = Computed(c)]
    /\ watcher' = [watcher EXCEPT ![c] = [at |-> "parked", walk |-> Start]]
    /\ UNCHANGED <<storeVars, edge, providerVars, missed, bodyVars>>

-----------------------------------------------------------------------------
(* The consumer's activation: Registry::lease per service, then its unload *)

Launch(c) ==
    /\ body[c].at = "idle"
    /\ watcher[c].at \notin {"first", "subscribing"}
    /\ published[c] # None /\ published[c] # blocked[c]
    /\ body[c].runs < MaxActivations
    /\ body' = [body EXCEPT ![c] = [at |-> "locating", epoch |-> published[c],
                                    walk |-> Start, located |-> None, guards |-> <<>>,
                                    runs |-> body[c].runs + 1]]
    /\ blocked' = [blocked EXCEPT ![c] = None]
    /\ UNCHANGED <<storeVars, edge, providerVars, watcherVars>>

\* locate: one frame; vitality is not asked.
Locate(c) ==
    /\ body[c].at = "locating" /\ InWalk(c, body[c].walk)
    /\ LET p == slots[Frame(c, body[c].walk)]
       IN  body' = IF p = None
                   THEN [body EXCEPT ![c].walk = NextFrame(body[c].walk)]
                   ELSE [body EXCEPT ![c].at = "leasing", ![c].located = p]
    /\ UNCHANGED <<storeVars, edge, providerVars, watcherVars, blocked>>

\* SlotMap::lease: the located generation is still current and open.
CanLease(p) == slots[At[p]] = p /\ ~leases[p].closed

\* Mutated form of Lease: the located generation is leased without a re-check.
LeaseUnchecked(c) ==
    /\ body[c].at = "leasing"
    /\ LET p    == body[c].located
           walk == NextService(body[c].walk, p)
       IN  /\ leases' = [leases EXCEPT ![p].active = leases[p].active + 1]
           /\ body' = [body EXCEPT
                        ![c].at = IF AllFound(c, walk) THEN "active" ELSE "locating",
                        ![c].walk = walk, ![c].located = None,
                        ![c].guards = Append(body[c].guards, p)]
    /\ UNCHANGED <<slots, vital, reports, edge, providerVars,
                   watcherVars, blocked>>

\* The activation stands once every injected service is leased.
Lease(c) ==
    /\ body[c].at = "leasing"
    /\ CanLease(body[c].located)
    /\ LET p    == body[c].located
           walk == NextService(body[c].walk, p)
       IN  /\ leases' = [leases EXCEPT ![p].active = leases[p].active + 1]
           /\ body' = [body EXCEPT
                        ![c].at = IF AllFound(c, walk) THEN "active" ELSE "locating",
                        ![c].walk = walk, ![c].located = None,
                        ![c].guards = Append(body[c].guards, p)]
    /\ UNCHANGED <<slots, vital, reports, edge, providerVars,
                   watcherVars, blocked>>

\* Nothing is left to return.
AtRest(activation) ==
    [activation EXCEPT !.at = "idle", !.epoch = None, !.walk = Start, !.located = None]

\* Mutated form of Missing: the guards taken before the failure are forgotten.
MissingForgetsGuards(c) ==
    /\ \/ body[c].at = "locating" /\ ~InWalk(c, body[c].walk)
       \/ body[c].at = "leasing" /\ ~CanLease(body[c].located)
    /\ body' = [body EXCEPT ![c] = AtRest([body[c] EXCEPT !.guards = <<>>])]
    /\ blocked' = [blocked EXCEPT ![c] = body[c].epoch]
    /\ UNCHANGED <<storeVars, edge, providerVars, watcherVars>>

\* MissingDependency, from the walk or from the lease: the body fails, and is not
\* retried for this epoch; the guards taken so far are dropped.
Missing(c) ==
    /\ \/ body[c].at = "locating" /\ ~InWalk(c, body[c].walk)
       \/ body[c].at = "leasing" /\ ~CanLease(body[c].located)
    /\ body' = [body EXCEPT ![c] = IF body[c].guards = <<>> THEN AtRest(body[c])
                                   ELSE [body[c] EXCEPT !.at = "releasing"]]
    /\ blocked' = [blocked EXCEPT ![c] = body[c].epoch]
    /\ UNCHANGED <<storeVars, edge, providerVars, watcherVars>>

\* The epoch moved: the fiber unloads, its leases going last.
Unload(c) ==
    /\ body[c].at = "active"
    /\ published[c] # body[c].epoch
    /\ body' = [body EXCEPT ![c].at = "releasing"]
    /\ UNCHANGED <<storeVars, edge, providerVars, watcherVars, blocked>>

\* The consumer is restarted while its epoch stands.
Restart(c) ==
    /\ body[c].at = "active"
    /\ published[c] = body[c].epoch
    /\ body' = [body EXCEPT ![c].at = "releasing"]
    /\ UNCHANGED <<storeVars, edge, providerVars, watcherVars, blocked>>

\* LeaseGuard::drop returns the lease, then wakes the store.
Release(c) ==
    /\ body[c].at = "releasing"
    /\ LET p == Head(body[c].guards)
       IN  leases' = [leases EXCEPT ![p].active = IF leases[p].active = 0 THEN 0
                                                   ELSE leases[p].active - 1]
    /\ body' = [body EXCEPT ![c].at = "returned", ![c].guards = Tail(body[c].guards)]
    /\ UNCHANGED <<slots, vital, reports, edge, providerVars,
                   watcherVars, blocked>>

\* Mutated form of AnnounceReturn: the return of a lease moves no edge.
ReturnUnannounced(c) ==
    /\ body[c].at = "returned"
    /\ body' = [body EXCEPT ![c] = IF body[c].guards = <<>> THEN AtRest(body[c])
                                   ELSE [body[c] EXCEPT !.at = "releasing"]]
    /\ UNCHANGED <<storeVars, edge, providerVars, watcherVars, blocked>>

AnnounceReturn(c) ==
    /\ body[c].at = "returned"
    /\ Bump
    /\ body' = [body EXCEPT ![c] = IF body[c].guards = <<>> THEN AtRest(body[c])
                                   ELSE [body[c] EXCEPT !.at = "releasing"]]
    /\ UNCHANGED <<storeVars, providerVars, watcherVars, blocked>>

-----------------------------------------------------------------------------
WithdrawalStep(p) ==
    \/ AnnounceRemoval(p) \/ Subscribe(p) \/ Woken(p)
    \/ stage[p] = "inverses" /\ RemoveIf(p, "undo")

WatcherStep(c) ==
    \/ Probe(c) \/ Located(c) \/ PublishFirst(c) \/ SubscribeWatcher(c)
    \/ WakeWatcher(c) \/ Publish(c)

BodyStep(c) ==
    \/ Locate(c) \/ Lease(c) \/ Missing(c) \/ Unload(c)
    \/ Release(c) \/ AnnounceReturn(c)

Next ==
    \/ \E p \in Provision :
        \/ Refused(p) \/ Insert(p) \/ Announce(p)
        \/ ReportVitality(p)
        \/ \E from \in {"drain", "undo"} : RemoveIf(p, from)
        \/ WithdrawalStep(p)
    \/ \E c \in Consumer :
        \/ WatcherStep(c) \/ Launch(c) \/ BodyStep(c) \/ Restart(c)

Spec == Init /\ [][Next]_vars

(* Tasks of the runtime are polled whenever they can proceed: a withdrawal,  *)
(* a watcher and an activation under way each go on.  Nobody is obliged to   *)
(* provide, to withdraw, to launch or to restart.                            *)
FairSpec ==
    /\ Spec
    /\ \A p \in Provision : WF_vars(Announce(p)) /\ WF_vars(WithdrawalStep(p))
    /\ \A c \in Consumer : WF_vars(WatcherStep(c)) /\ WF_vars(BodyStep(c))

-----------------------------------------------------------------------------
(* The type invariant of the store, the provisions, the watchers and the     *)
(* activations.                                                              *)
TypeOK ==
    /\ slots \in [Slot -> Provision \union {None}]
    /\ leases \in [Provision -> [active : Nat, closed : BOOLEAN]]
    /\ vital \in [Provision -> BOOLEAN]
    /\ reports \in 0..MaxReports
    /\ edge \in [Subscriber -> BOOLEAN]
    /\ stage \in [Provision -> Stage]
    /\ phase \in [Provision -> {"drain", "undo"}]
    /\ watcher \in [Consumer -> [at : {"first", "subscribing", "parked", "computing"},
                                 walk : WalkState]]
    /\ published \in [Consumer -> Epoch]
    /\ missed \in [Consumer -> BOOLEAN]
    /\ body \in [Consumer -> [at : {"idle", "locating", "leasing", "active",
                                    "releasing", "returned"},
                              epoch : Epoch, walk : WalkState,
                              located : Provision \union {None},
                              guards : Seq(Provision), runs : 0..MaxActivations]]
    /\ blocked \in [Consumer -> Epoch]

\* The guards held on p, over all consumers.
Holders(p) ==
    UNION {{<<c, i>> : i \in {j \in DOMAIN body[c].guards : body[c].guards[j] = p}} :
              c \in Consumer}

(* The lease cell counts the guards, exactly: none is lost when an           *)
(* activation fails halfway and none is returned twice (the saturating       *)
(* subtraction of release never hides one).                                  *)
LeasesAreCounted == \A p \in Provision : leases[p].active = Cardinality(Holders(p))

(* I2: once a provider's drain phase is over and its inverses run, and once  *)
(* its value is dropped, no consumer holds a lease on it.                    *)
DependentsFirst ==
    \A p \in Provision : stage[p] \in {"inverses", "gone"} => Holders(p) = {}

(* A provision's cell is open exactly while it is the current one of its     *)
(* slot: no dependent can lease what was superseded or removed, and nothing  *)
(* in the map refuses a lease for good.                                      *)
OpenIffCurrent ==
    \A p \in Provision :
        stage[p] \notin {"idle", "refused"} =>
            (slots[At[p]] = p <=> ~leases[p].closed)

\* p is made where c's service i can be answered from: in the realm c resolves
\* the service in and, in the root realm, at a context on c's chain that no
\* layer in between isolates from c.
Visible ==
    [c \in Consumer |-> [i \in DOMAIN Injects[c] |->
        LET service == Injects[c][i]
            realm   == RealmOf(Seat[c], service)
            chain   == Chain[Seat[c]]
        IN  {p \in Provision :
                /\ At[p].service = service /\ At[p].realm = realm
                /\ realm = RootRealm =>
                      \E k \in DOMAIN chain :
                         /\ chain[k] = At[p].context
                         /\ \A j \in 1..k : RealmOf(chain[j], service) = RootRealm}]]

\* How deep in the tree each provision's slot is anchored.
Depth == [p \in Provision |-> Len(Chain[At[p].context])]

\* p is the deepest provision in place that c's service i can be answered from.
Nearest(p, c, i) ==
    /\ slots[At[p]] = p
    /\ \A q \in Visible[c][i] : slots[At[q]] = q => Depth[q] <= Depth[p]

\* What compute should answer, read all at once.
CurrentEpoch(c) ==
    IF \A i \in DOMAIN Injects[c] :
          \E p \in Visible[c][i] : Nearest(p, c, i) /\ vital[p]
    THEN [i \in DOMAIN Injects[c] |-> CHOOSE p \in Visible[c][i] : Nearest(p, c, i)]
    ELSE None

\* c's watcher waits and nothing is about to wake it.
Settled(c) ==
    /\ watcher[c].at = "parked" /\ ~edge[c]
    /\ \A p \in Provision : stage[p] \notin {"unannounced", "removed"}

(* The readiness signal is current whenever it is settled, unless a change   *)
(* fell before the watcher subscribed: probes that interleave with changes,  *)
(* edges that coalesce and changes during a computation are all made up for. *)
SettledIsCurrent ==
    \A c \in Consumer : Settled(c) /\ ~missed[c] => published[c] = CurrentEpoch(c)

(* GrantsAreCurrent: a settled readiness signal is the one the slots give,   *)
(* and every lease is counted once (SettledIsCurrent, LeasesAreCounted).     *)
GrantsAreCurrent == SettledIsCurrent /\ LeasesAreCounted

(* store.rs: every observable change bumps the channel, and availability     *)
(* watchers wake on that edge and re-read the cells.                         *)
EveryChangeIsSeen ==
    \A c \in Consumer : Settled(c) => published[c] = CurrentEpoch(c)

(* slots.rs: a consumer never leases a generation that is not the one its    *)
(* epoch captured.                                                           *)
LeasesMatchEpoch ==
    \A c \in Consumer : \A i \in DOMAIN body[c].guards :
        body[c].at \in {"locating", "leasing", "active"} =>
            body[c].guards[i] = body[c].epoch[i]

(* I3: a withdrawal that began gets past its wait for dependents, whatever   *)
(* consumers are activating, holding or returning leases.                    *)
DrainEnds ==
    \A p \in Provision : stage[p] = "closed" ~> stage[p] \in {"inverses", "gone"}
=============================================================================
