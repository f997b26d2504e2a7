----------------------------- MODULE Crossings -----------------------------
(***************************************************************************)
(* Guests crossing to one another (crates/jinnd-wasm): event walks           *)
(* (topics.rs), calls of one contract (broker.rs), the wait graph            *)
(* between them (waits.rs), the supervisor that runs one guest entry at a    *)
(* time (instance/serve.rs), and the restart of a listening fiber while      *)
(* walks are in flight (topics/tombstone.rs, lane/state.rs).                 *)
(***************************************************************************)
EXTENDS WaitGraph, Naturals, Sequences, SequencesExt, Selection

CONSTANTS
    Nobody,   \* no fiber
    Topic,    \* the topics guests emit on
    Mode,     \* the dispatch modes explored, a subset of DispatchMode
    Grants,   \* Grants[f]: the topics, the contract and the operation granted to f
    Stories   \* where a behaviour starts, and bounds on what the environment does

\* Collect stands for Parallel, Serial and Waterfall, which walk alike here.
DispatchMode == {"Emit", "Collect", "Bail"}

\* What the bounds count.
Step == {"entries", "walks", "listens", "provides", "resolves", "calls", "owes", "deaths"}

ASSUME CrossingConstants ==
    /\ Nobody \notin Fiber
    /\ IsFiniteSet(Topic)
    /\ Mode \subseteq DispatchMode
    /\ Grants \in [Fiber -> SUBSET (Topic \union {"contract", "operation"})]
    /\ \A s \in Stories :
        /\ s.up \subseteq Fiber /\ s.listening \subseteq s.up \X Topic /\ s.coming \subseteq Fiber \ s.up
        /\ IsFiniteSet(s.listening)
        /\ s.bounds \in [Step -> Nat]

VARIABLES
    table,     \* the listener rows, in registration order
    seat,      \* seat[f]: the incarnation and the state of f's instance
    serving,   \* serving[f]: whose entry the instance runs
    out,       \* out[f]: the crossing the running guest waits on
    owed,      \* owed[f]: the transition the fiber engine has scheduled
    listening, \* history: the subscriptions no one has ended
    provider,  \* the provision of the contract, with its generation
    handle,    \* handle[f]: what f's handle pins
    left       \* what the bounds leave

tableVars == <<table, listening>>
brokerVars == <<provider, handle>>
vars == <<waits, table, seat, serving, out, owed, listening, provider, handle, left>>

Seat == [inc : Nat, state : {"none", "arriving", "staged", "live", "closing", "dead"}]
Row  == [fiber : Fiber, topic : Topic, inc : Nat, tomb : BOOLEAN]

\* A peer is one incarnation of a fiber.
NoPeer == [fiber |-> Nobody, inc |-> 0]
PeerOf(f) == [fiber |-> f, inc |-> seat[f].inc]

NoCrossing == [kind |-> "none"]
NoHandle == [held |-> FALSE]

Spend(k) ==
    /\ left[k] > 0
    /\ left' = [left EXCEPT ![k] = @ - 1]

\* Broker::check_grant: the one check of every granted surface.
CheckGrant(f, name) == name \in Grants[f]

\* Broker::check_op: an operation outside the granted class never crosses.
CheckOp(f) == "operation" \in Grants[f]

-----------------------------------------------------------------------------
Init ==
    /\ NoWait
    /\ \E s \in Stories :
        /\ left = s.bounds
        /\ listening = s.listening
        /\ seat = [f \in Fiber |-> IF f \in s.up THEN [inc |-> 1, state |-> "live"]
                                                ELSE [inc |-> 0, state |-> "none"]]
        /\ owed = [f \in Fiber |-> IF f \in s.coming THEN "Reload" ELSE "Nothing"]
    /\ table = SetToSeq({[fiber |-> l[1], topic |-> l[2], inc |-> 1, tomb |-> FALSE] : l \in listening})
    /\ serving = [f \in Fiber |-> "idle"]
    /\ out = [f \in Fiber |-> NoCrossing]
    /\ provider = [peer |-> NoPeer, gen |-> 0]
    /\ handle = [f \in Fiber |-> NoHandle]

-----------------------------------------------------------------------------
(* One guest entry at a time *)

Running(f) == serving[f] # "idle" /\ out[f] = NoCrossing

\* An entry the kernel makes: an alarm's wake, a vitality check, a first walk.
OwnEntry(f) ==
    /\ seat[f].state = "live" /\ serving[f] = "idle"
    /\ Spend("entries")
    /\ serving' = [serving EXCEPT ![f] = "own"]
    /\ UNCHANGED <<waits, tableVars, seat, out, owed, brokerVars>>

\* Where g's crossing is waiting for an answer.
Awaiting(g) ==
    CASE out[g].kind = "walk" /\ out[g].at = "deliver" /\ out[g].todo # <<>> -> Head(out[g].todo)
      [] out[g].kind = "call" /\ out[g].at = "sent" -> out[g].to
      [] OTHER -> NoPeer

Served(g) == LET p == Awaiting(g) IN p # NoPeer /\ p.inc = seat[p.fiber].inc /\ serving[p.fiber] = g

\* The command reaches the supervisor, which is between two entries.
Serve(g) ==
    LET p == Awaiting(g) IN
    /\ p # NoPeer /\ p.inc = seat[p.fiber].inc
    /\ seat[p.fiber].state = "live" /\ serving[p.fiber] = "idle"
    /\ serving' = [serving EXCEPT ![p.fiber] = g]
    /\ UNCHANGED <<waits, tableVars, seat, out, owed, brokerVars, left>>

\* What an answer does to the crossing that waits for it: a call is over, a
\* walk goes on, and a bailing walk stops at the first answer that says something.
AfterAnswer(x, ok) ==
    CASE x.kind = "call" -> NoCrossing
      [] x.kind = "walk" -> [x EXCEPT !.todo = IF ok /\ x.mode = "Bail" THEN <<>> ELSE Tail(@)]

\* The crossings in G are answered; a call's ticket goes with its future.
Answered(G, ok) ==
    /\ out' = [g \in Fiber |-> IF g \in G THEN AfterAnswer(out[g], ok) ELSE out[g]]
    /\ ReleaseAll({g \in G : out[g].kind = "call"})

\* The guest returns; its caller may be gone.
Return(f) ==
    /\ Running(f) /\ seat[f].state # "arriving" /\ seat[f].state # "staged"
    /\ serving' = [serving EXCEPT ![f] = "idle"]
    /\ Answered({g \in Fiber : Served(g) /\ serving[f] = g}, TRUE)
    /\ UNCHANGED <<tableVars, seat, owed, brokerVars, left>>

\* Mutated form: what is queued at a closing seat is dropped without an answer.
RefuseGone(g) ==
    LET p == Awaiting(g) IN
    /\ p # NoPeer /\ ~Served(g)
    /\ p.inc # seat[p.fiber].inc
    /\ Answered({g}, FALSE)
    /\ UNCHANGED <<tableVars, seat, serving, owed, brokerVars, left>>

\* No instance to answer, or a closing seat: the command is refused.
Refuse(g) ==
    LET p == Awaiting(g) IN
    /\ p # NoPeer /\ ~Served(g)
    /\ \/ p.inc # seat[p.fiber].inc
       \/ seat[p.fiber].state \in {"none", "dead"}
       \/ seat[p.fiber].state = "closing" /\ serving[p.fiber] = "idle"
    /\ Answered({g}, FALSE)
    /\ UNCHANGED <<tableVars, seat, serving, owed, brokerVars, left>>

\* The instance ends: its own crossing is dropped with the guest's future.
\* Whoever waits on it is answered by Refuse.
Kill(f) ==
    /\ seat' = [seat EXCEPT ![f].state = "dead"]
    /\ serving' = [serving EXCEPT ![f] = "idle"]
    /\ out' = [out EXCEPT ![f] = NoCrossing]
    /\ Release(f)

\* A call that is not sent yet: its host function has not reached an await.
Looking(f) == out[f].kind = "call" /\ out[f].at # "sent"

\* A guest's clock is parked while it walks a topic, and read at an await only.
ClockRuns(f) == out[f].kind # "walk" /\ ~Looking(f)

\* The entry traps or exceeds its deadline.
Expire(f) ==
    /\ serving[f] # "idle" /\ ClockRuns(f)
    /\ seat[f].state \in {"live", "closing"}
    /\ Spend("deaths")
    /\ Kill(f)
    /\ UNCHANGED <<tableVars, owed, brokerVars>>

\* A delivery queued behind another entry runs out of the target's time:
\* deliver_within aborts the instance it waits for.
Abort(g) ==
    LET p == Awaiting(g) IN
    /\ out[g].kind = "walk" /\ p # NoPeer /\ p.inc = seat[p.fiber].inc
    /\ seat[p.fiber].state = "live" /\ serving[p.fiber] # g /\ serving[p.fiber] # "idle"
    /\ ClockRuns(p.fiber)
    /\ Spend("deaths")
    /\ Kill(p.fiber)
    /\ UNCHANGED <<tableVars, owed, brokerVars>>

-----------------------------------------------------------------------------
(* A walk: select, park, decide, deliver *)

PeersOf(rows) == [i \in 1..Len(rows) |-> [fiber |-> rows[i].fiber, inc |-> rows[i].inc]]

\* LocalTopics::select, under the table's lock.  Fire-and-forget skips tombstones.
Emit(f, t, m) ==
    LET live  == Select(table, {r \in ToSet(table) : r.topic = t /\ ~r.tomb})
        tombs == {r \in ToSet(table) : r.topic = t /\ r.tomb /\ m # "Emit"}
    IN  /\ Running(f) /\ CheckGrant(f, t)
        /\ Spend("walks")
        /\ out' = [out EXCEPT ![f] =
                [kind |-> "walk", at |-> "park", mode |-> m,
                 park |-> PeersOf(live), todo |-> PeersOf(live),
                 fibers |-> {r.fiber : r \in ToSet(live)},
                 tombs |-> {r.fiber : r \in tombs},
                 due |-> {l[1] : l \in {k \in listening : k[2] = t}}]]
        /\ UNCHANGED <<waits, tableVars, seat, serving, owed, brokerVars>>

\* The walk is over, or was refused before any delivery: its tickets drop.
Drop(f) ==
    /\ Release(f)
    /\ out' = [out EXCEPT ![f] = NoCrossing]

\* One ticket per selected listener, each under the graph's own lock.
Park(f) ==
    /\ out[f].kind = "walk" /\ out[f].at = "park"
    /\ IF out[f].park = <<>>
        THEN out' = [out EXCEPT ![f].at = "decide"] /\ UNCHANGED waits
        ELSE LET to == Head(out[f].park).fiber IN
             IF Refused(f, to) THEN Drop(f)
             ELSE Enter(f, to) /\ out' = [out EXCEPT ![f].park = Tail(@)]
    /\ UNCHANGED <<tableVars, seat, serving, owed, brokerVars, left>>

\* LaneCore::incarnation: a fiber that arrives for the first time has none.
Installed(f) == seat[f].inc > 0 /\ seat[f].state # "arriving"

\* Restarts::unserved: something is owed and an incarnation was installed.
Unserved(f) == owed[f] # "Nothing" /\ Installed(f)

\* One doomed or entombed listener refuses a reply-expecting walk whole.
Decide(f) ==
    /\ out[f].kind = "walk" /\ out[f].at = "decide"
    /\ IF /\ out[f].mode # "Emit"
          /\ out[f].tombs # {} \/ \E g \in out[f].fibers : Unserved(g)
        THEN Drop(f)
        ELSE out' = [out EXCEPT ![f].at = "deliver"] /\ UNCHANGED waits
    /\ UNCHANGED <<tableVars, seat, serving, owed, brokerVars, left>>

Finish(f) ==
    /\ out[f].kind = "walk" /\ out[f].at = "deliver" /\ out[f].todo = <<>>
    /\ Drop(f)
    /\ UNCHANGED <<tableVars, seat, serving, owed, brokerVars, left>>

-----------------------------------------------------------------------------
(* Contract calls *)

\* Mutated form: the next provider of a contract continues the generation.
ProvideSameGeneration(f) ==
    /\ Running(f) /\ seat[f].state \in {"arriving", "live"}
    /\ provider.peer \in {NoPeer, PeerOf(f)}
    /\ Spend("provides")
    /\ provider' = [peer |-> PeerOf(f), gen |-> 1]
    /\ UNCHANGED <<waits, tableVars, seat, serving, out, owed, handle>>

\* Broker::provide: a slot another peer holds is refused, every provision is a
\* new generation.
Provide(f) ==
    /\ Running(f) /\ CheckGrant(f, "contract") /\ seat[f].state \in {"arriving", "live"}
    /\ provider.peer \in {NoPeer, PeerOf(f)}
    /\ Spend("provides")
    /\ provider' = [peer |-> PeerOf(f), gen |-> provider.gen + 1]
    /\ UNCHANGED <<waits, tableVars, seat, serving, out, owed, handle>>

\* Broker::resolve pins the generation, with or without a provider.
Resolve(f) ==
    /\ Running(f) /\ CheckGrant(f, "contract")
    /\ handle' = [handle EXCEPT ![f] = [held |-> TRUE, gen |-> provider.gen, to |-> provider.peer]]
    /\ Spend("resolves")
    /\ UNCHANGED <<waits, tableVars, seat, serving, out, owed, provider>>

\* Broker::call_or_refuse looks the handle up under the broker's lock, which it
\* lets go: without a provider or through a stale handle nothing crosses.  What
\* follows is not one step of the kernel; the provider may restart meanwhile.
Call(f) ==
    /\ Running(f) /\ CheckOp(f)
    /\ handle[f].held /\ provider.peer # NoPeer /\ handle[f].gen = provider.gen
    /\ Spend("calls")
    /\ out' = [out EXCEPT ![f] = [kind |-> "call", at |-> "checked", to |-> provider.peer,
                                  resolved |-> handle[f].to]]
    /\ UNCHANGED <<waits, tableVars, seat, serving, owed, brokerVars>>

\* Broker::park: a call into a cycle is refused before it crosses.
ParkCall(f) ==
    /\ out[f].kind = "call" /\ out[f].at = "checked"
    /\ IF Refused(f, out[f].to.fiber)
        THEN out' = [out EXCEPT ![f] = NoCrossing] /\ UNCHANGED waits
        ELSE Enter(f, out[f].to.fiber) /\ out' = [out EXCEPT ![f].at = "parked"]
    /\ UNCHANGED <<tableVars, seat, serving, owed, brokerVars, left>>

\* SharedSlot::current: the slot of the fiber holds an instance, dead or alive.
Occupied(g) == seat[g].state \in {"live", "closing", "dead"}

\* The call goes to whoever sits in the provider's slot by now; an empty slot
\* answers it with an error.
Cross(f) ==
    LET g == out[f].to.fiber IN
    /\ out[f].kind = "call" /\ out[f].at = "parked"
    /\ IF Occupied(g)
        THEN out' = [out EXCEPT ![f].at = "sent", ![f].to = PeerOf(g)] /\ UNCHANGED waits
        ELSE Drop(f)
    /\ UNCHANGED <<tableVars, seat, serving, owed, brokerVars, left>>

\* Broker::remove_peer: its provision and its handles go.
RemovePeer(f) ==
    /\ provider' = [provider EXCEPT !.peer = IF @ = PeerOf(f) THEN NoPeer ELSE @]
    /\ handle' = [handle EXCEPT ![f] = NoHandle]

-----------------------------------------------------------------------------
(* The restart of a fiber *)

\* The fiber engine schedules a transition; a dead instance faults its fiber,
\* a failed fiber is armed again.
Owe(f, what) ==
    /\ owed[f] = "Nothing" /\ seat[f].inc > 0
    /\ seat[f].state \in {"live", "dead"} \/ (seat[f].state = "none" /\ what = "Reload")
    /\ Spend("owes")
    /\ owed' = [owed EXCEPT ![f] = what]
    /\ UNCHANGED <<waits, tableVars, seat, serving, out, brokerVars>>

\* SharedSlot::close: no new entry starts; the running one drains.
Close(f) ==
    /\ owed[f] \in {"Reload", "Disposal"} /\ seat[f].state = "live"
    /\ seat' = [seat EXCEPT ![f].state = "closing"]
    /\ UNCHANGED <<waits, tableVars, serving, out, owed, brokerVars, left>>

Sealed(f) == seat[f].state = "dead" \/ (seat[f].state = "closing" /\ serving[f] = "idle")

\* LocalTopics::entomb: the row stays selectable and delivers to no one.
Entomb(f) ==
    [i \in 1..Len(table) |->
        IF table[i].fiber = f THEN [table[i] EXCEPT !.tomb = TRUE] ELSE table[i]]

\* Mutated form: a suspension withdraws the listeners, as a disposal does.
SuspendUnlistening(f) ==
    /\ owed[f] = "Reload" /\ Sealed(f)
    /\ table' = Select(table, {r \in ToSet(table) : r.fiber # f})
    /\ seat' = [seat EXCEPT ![f].state = "none"]
    /\ RemovePeer(f)
    /\ UNCHANGED <<waits, listening, serving, out, owed, left>>

\* The seat of a fiber that comes back leaves tombstones.
Suspend(f) ==
    /\ owed[f] = "Reload" /\ Sealed(f)
    /\ table' = Entomb(f)
    /\ seat' = [seat EXCEPT ![f].state = "none"]
    /\ RemovePeer(f)
    /\ UNCHANGED <<waits, listening, serving, out, owed, left>>

Unlisten(f) == Select(table, {r \in ToSet(table) : r.fiber # f})
Others(f) == {l \in listening : l[1] # f}

\* The seat of a fiber that does not come back takes its listeners along.
Retire(f) ==
    /\ owed[f] = "Disposal" /\ Sealed(f)
    /\ table' = Unlisten(f)
    /\ listening' = Others(f)
    /\ seat' = [seat EXCEPT ![f].state = "none"]
    /\ owed' = [owed EXCEPT ![f] = "Nothing"]
    /\ RemovePeer(f)
    /\ UNCHANGED <<waits, serving, out, left>>

\* The next incarnation runs its activation; one that replaces another stages.
Arrive(f) ==
    /\ owed[f] = "Reload" /\ seat[f].state = "none"
    /\ seat' = [seat EXCEPT ![f] = [inc |-> @.inc + 1, state |-> IF @.inc = 0 THEN "arriving" ELSE "staged"]]
    /\ serving' = [serving EXCEPT ![f] = "own"]
    /\ UNCHANGED <<waits, tableVars, out, owed, brokerVars, left>>

NewRow(f, t) == [fiber |-> f, topic |-> t, inc |-> seat[f].inc, tomb |-> FALSE]

\* A listen outside a staging seat is in the table at once.
Listen(f, t) ==
    /\ Running(f) /\ CheckGrant(f, t) /\ seat[f].state \in {"arriving", "live"}
    /\ Spend("listens")
    /\ table' = Append(table, NewRow(f, t))
    /\ listening' = listening \union {<<f, t>>}
    /\ UNCHANGED <<waits, seat, serving, out, owed, brokerVars>>

\* LocalTopics::rebind: under one lock the tombstones go and the staged listens come.
Rebind(f, T) ==
    /\ table' = Unlisten(f) \o SetToSeq({NewRow(f, t) : t \in T})
    /\ listening' = Others(f) \union ({f} \X T)

Land(f, T) ==
    /\ Running(f) /\ owed[f] = "Reload"
    /\ \A t \in T : CheckGrant(f, t)
    /\ \/ seat[f].state = "staged" /\ Rebind(f, T)
       \/ seat[f].state = "arriving" /\ T = {} /\ UNCHANGED tableVars
    /\ seat' = [seat EXCEPT ![f].state = "live"]
    /\ serving' = [serving EXCEPT ![f] = "idle"]
    /\ owed' = [owed EXCEPT ![f] = "Rest"]
    /\ UNCHANGED <<waits, out, brokerVars, left>>

\* The engine commits the rest: nothing is owed any more.
Settle(f) ==
    /\ owed[f] = "Rest"
    /\ owed' = [owed EXCEPT ![f] = "Nothing"]
    /\ UNCHANGED <<waits, tableVars, seat, serving, out, brokerVars, left>>

\* A failing activation rests Failed; its own listens go with its seat, the
\* tombstones stay until the lane's forwarder sees the rest.
Fail(f) ==
    /\ Running(f) /\ seat[f].state \in {"arriving", "staged"}
    /\ seat' = [seat EXCEPT ![f].state = "none"]
    /\ serving' = [serving EXCEPT ![f] = "idle"]
    /\ table' = Select(table, {r \in ToSet(table) : r.fiber # f \/ r.tomb})
    /\ listening' = Others(f)
    /\ owed' = [owed EXCEPT ![f] = "Nothing"]
    /\ RemovePeer(f)
    /\ UNCHANGED <<waits, out, left>>

WithdrawTombstones(f) ==
    Select(table, {r \in ToSet(table) : ~(r.fiber = f /\ r.tomb)})

EndTombstones(f) ==
    /\ owed[f] = "Nothing" /\ seat[f].state = "none"
    /\ WithdrawTombstones(f) # table
    /\ table' = WithdrawTombstones(f)
    /\ UNCHANGED <<waits, listening, seat, serving, out, owed, brokerVars, left>>

-----------------------------------------------------------------------------
Guest(f) ==
    \/ \E t \in Topic, m \in Mode : Emit(f, t, m)
    \/ \E t \in Topic : Listen(f, t)
    \/ Provide(f) \/ Resolve(f) \/ Call(f)

Kernel(f) ==
    \/ Serve(f) \/ Return(f) \/ Refuse(f)
    \/ Park(f) \/ Decide(f) \/ Finish(f) \/ ParkCall(f) \/ Cross(f)
    \/ (\E T \in SUBSET Topic : Land(f, T)) \/ Fail(f)

Life(f) ==
    \/ OwnEntry(f) \/ Expire(f) \/ Abort(f)
    \/ Owe(f, "Reload") \/ Owe(f, "Disposal")
    \/ Close(f) \/ Suspend(f) \/ Retire(f) \/ Arrive(f) \/ Settle(f) \/ EndTombstones(f)

Next == \E f \in Fiber : Guest(f) \/ Kernel(f) \/ Life(f)

Spec == Init /\ [][Next]_vars

\* Tokio runs what is ready; an entry that runs ends, by the guest or by its
\* deadline, which is not parked then.
FairSpec ==
    /\ Spec
    /\ \A f \in Fiber :
        /\ WF_vars(Serve(f)) /\ WF_vars(Refuse(f))
        /\ WF_vars(Return(f)) /\ WF_vars((\E T \in SUBSET Topic : Land(f, T)) \/ Fail(f))
        /\ WF_vars(Park(f)) /\ WF_vars(Decide(f)) /\ WF_vars(Finish(f))
        /\ WF_vars(ParkCall(f)) /\ WF_vars(Cross(f))

-----------------------------------------------------------------------------
(* Properties *)

\* A reply-expecting walk that is delivered reaches every listener that was
\* subscribed when it selected: across a restart it is refused instead, and
\* never answered by nobody (topics.rs: "tombstones before the lock and live
\* listeners after, never neither").
NeverToNobody ==
    \A f \in Fiber :
        out[f].kind = "walk" /\ out[f].at = "deliver" /\ out[f].mode # "Emit"
            => out[f].due \subseteq out[f].fibers

\* A call is checked against the peer its handle was resolved against, whoever
\* provides the contract by then (broker.rs: "never a silent retarget").  It is
\* sent to that peer, or to a later incarnation of the same fiber when the
\* provision was withdrawn between the check and the crossing.
HandleNeverRetargets ==
    \A f \in Fiber : out[f].kind = "call" =>
        LET to == out[f].to  aimed == out[f].resolved
        IN  \/ to = aimed
            \/ /\ out[f].at = "sent" /\ to.fiber = aimed.fiber /\ to.inc > aimed.inc
               /\ provider.peer # aimed

\* What the broker's comment says without the exception.  TLC refutes it: the
\* provider restarts after the check, and its slot answers for the next incarnation.
NeverRetargets == \A f \in Fiber : out[f].kind = "call" => out[f].to = out[f].resolved

(* LandsWhereAimed: a reply-expecting walk reaches everyone it selected or   *)
(* is refused, and a call lands at the peer its handle names or, if that     *)
(* peer is gone since the check, at its fiber's next (NeverToNobody,         *)
(* HandleNeverRetargets).                                                    *)
LandsWhereAimed == NeverToNobody /\ HandleNeverRetargets

\* Every crossing ends: no schedule of walks, calls, deaths and restarts leaves
\* a guest parked for ever.
EveryCrossingEnds == \A f \in Fiber : (out[f] # NoCrossing) ~> (out[f] = NoCrossing)
=============================================================================
