--------------------------- MODULE CrossingsProofs ---------------------------
(***************************************************************************)
(* Guests crossing to one another, for every set of fibers and topics,      *)
(* every grant and every bound on what the environment does: the wait graph *)
(* stays free of cycles, and crossings land where they were aimed.          *)
(***************************************************************************)
EXTENDS Crossings, SequenceFacts

WaitsType == waits \in [Fiber -> SUBSET Fiber]

WaitInv == WaitsType /\ NoWaitCycle

(* Dropping tickets closes no cycle.                                        *)
LEMMA FewerWaits ==
    ASSUME WaitInv, WaitsType', \A g \in Fiber : waits'[g] \subseteq waits[g]
    PROVE  WaitInv'
  BY DEF WaitInv, NoWaitCycle

(* The edge that enter admits closes no cycle: a set R closed under waiting  *)
(* holds its target and not its waiter.  A set of fibers that meets R has    *)
(* its free fiber in R, where nothing changed; one that does not meet R does *)
(* not hold the new target.                                                  *)
LEMMA EnterKeeps ==
    ASSUME WaitInv, NEW w \in Fiber, NEW t, Enter(w, t)
    PROVE  WaitInv'
<1>1. PICK R \in SUBSET Fiber :
          t \in R /\ (\A f \in R : waits[f] \subseteq R) /\ w \notin R
  BY DEF Enter, Refused, Reaches
<1>2. WaitsType'
  BY <1>1 DEF WaitInv, WaitsType, Enter
<1>3. \A f \in Fiber \ {w} : waits'[f] = waits[f]
  BY DEF WaitInv, WaitsType, Enter
<1>4. waits'[w] = waits[w] \union {t}
  BY DEF WaitInv, WaitsType, Enter
<1>5. ASSUME NEW S \in SUBSET Fiber, S # {}
      PROVE  \E f \in S : waits'[f] \intersect S = {}
  <2>1. CASE S \intersect R # {}
    <3>1. PICK f \in S \intersect R : waits[f] \intersect (S \intersect R) = {}
      BY <2>1 DEF WaitInv, NoWaitCycle
    <3>2. waits'[f] = waits[f] /\ waits[f] \subseteq R
      BY <1>1, <1>3, <3>1
    <3> QED
      BY <3>1, <3>2
  <2>2. CASE S \intersect R = {}
    <3>1. PICK f \in S : waits[f] \intersect S = {}
      BY <1>5 DEF WaitInv, NoWaitCycle
    <3>2. waits'[f] \subseteq waits[f] \union {t}
      BY <1>3, <1>4
    <3>3. t \notin S
      BY <1>1, <2>2
    <3> QED
      BY <3>1, <3>2, <3>3
  <2> QED
    BY <2>1, <2>2
<1> QED
  BY <1>2, <1>5 DEF WaitInv, NoWaitCycle

(* The tickets of one crossing, or of several, are dropped.                 *)
LEMMA ReleaseKeeps == ASSUME WaitInv, NEW w, Release(w) PROVE WaitInv'
<1>1. WaitsType' /\ \A g \in Fiber : waits'[g] \subseteq waits[g]
  BY DEF WaitInv, WaitsType, Release
<1> QED
  BY <1>1, FewerWaits

LEMMA ReleaseAllKeeps == ASSUME WaitInv, NEW S, ReleaseAll(S) PROVE WaitInv'
<1>1. WaitsType' /\ \A g \in Fiber : waits'[g] \subseteq waits[g]
  BY DEF WaitInv, WaitsType, ReleaseAll
<1> QED
  BY <1>1, FewerWaits

LEMMA StillKeeps == ASSUME WaitInv, UNCHANGED waits PROVE WaitInv'
  BY DEF WaitInv, WaitsType, NoWaitCycle

-----------------------------------------------------------------------------
(* The steps. *)

LEMMA GuestKeeps == ASSUME WaitInv, NEW f \in Fiber, Guest(f) PROVE WaitInv'
<1>1. UNCHANGED waits
  BY DEF Guest, Emit, Listen, Provide, Resolve, Call
<1> QED
  BY <1>1, StillKeeps

LEMMA KernelKeeps == ASSUME WaitInv, NEW f \in Fiber, Kernel(f) PROVE WaitInv'
<1>1. CASE Return(f) \/ Refuse(f)
  <2>1. PICK S : ReleaseAll(S)
    BY <1>1 DEF Return, Refuse, Answered
  <2> QED
    BY <2>1, ReleaseAllKeeps
<1>2. CASE Park(f)
  <2>1. UNCHANGED waits \/ Release(f) \/ Enter(f, Head(out[f].park).fiber)
    BY <1>2 DEF Park, Drop
  <2> QED
    BY <2>1, StillKeeps, ReleaseKeeps, EnterKeeps
<1>3. CASE Decide(f) \/ Finish(f)
  <2>1. UNCHANGED waits \/ Release(f)
    BY <1>3 DEF Decide, Finish, Drop
  <2> QED
    BY <2>1, StillKeeps, ReleaseKeeps
<1>4. CASE Serve(f) \/ (\E T \in SUBSET Topic : Land(f, T)) \/ Fail(f)
  <2>1. UNCHANGED waits
    BY <1>4 DEF Serve, Land, Fail
  <2> QED
    BY <2>1, StillKeeps
<1>5. CASE ParkCall(f) \/ Cross(f)
  <2>1. UNCHANGED waits \/ Release(f) \/ Enter(f, out[f].to.fiber)
    BY <1>5 DEF ParkCall, Cross, Drop
  <2> QED
    BY <2>1, StillKeeps, ReleaseKeeps, EnterKeeps
<1> QED
  BY <1>1, <1>2, <1>3, <1>4, <1>5 DEF Kernel

LEMMA LifeKeeps == ASSUME WaitInv, NEW f \in Fiber, Life(f) PROVE WaitInv'
<1>1. CASE Expire(f) \/ Abort(f)
  <2>1. PICK w : Release(w)
    BY <1>1 DEF Expire, Abort, Kill
  <2> QED
    BY <2>1, ReleaseKeeps
<1>2. CASE ~(Expire(f) \/ Abort(f))
  <2>1. UNCHANGED waits
    BY <1>2 DEF Life, OwnEntry, Owe, Close, Suspend, Retire, Arrive, Settle, EndTombstones
  <2> QED
    BY <2>1, StillKeeps
<1> QED
  BY <1>1, <1>2

(* No schedule of walks, calls, answers, restarts and deaths parks a fiber,  *)
(* however indirectly, on itself (WaitGraph::enter refuses the edge).        *)
THEOREM WaitsAreAcyclic == Spec => []NoWaitCycle
<1>1. Init => WaitInv
  BY DEF Init, NoWait, WaitInv, WaitsType, NoWaitCycle
<1>2. WaitInv /\ [Next]_vars => WaitInv'
  <2> SUFFICES ASSUME WaitInv, [Next]_vars
               PROVE  WaitInv'
    OBVIOUS
  <2>1. CASE Next
    BY <2>1, GuestKeeps, KernelKeeps, LifeKeeps DEF Next
  <2>2. CASE UNCHANGED vars
    BY <2>2, StillKeeps DEF vars
  <2> QED
    BY <2>1, <2>2
<1>3. WaitInv => NoWaitCycle
  BY DEF WaitInv
<1> QED
  BY <1>1, <1>2, <1>3, PTL DEF Spec

-----------------------------------------------------------------------------
(* Where crossings land: types. *)

Peer == [fiber : Fiber, inc : Nat]

Place == Peer \union {NoPeer}

Walking == [kind : {"walk"}, at : {"park", "decide", "deliver"}, mode : DispatchMode,
            park : Seq(Peer), todo : Seq(Peer),
            fibers : SUBSET Fiber, tombs : SUBSET Fiber, due : SUBSET Fiber]

Calling == [kind : {"call"}, at : {"checked", "parked", "sent"}, to : Peer, resolved : Peer]

Crossing == Walking \union Calling \union {NoCrossing}

(* A crossing on its way: a walk that expects replies has in its live         *)
(* listeners and its tombstones everyone it is due to, and is delivered only  *)
(* without tombstones; a call goes to the fiber its handle was resolved       *)
(* against, and to another incarnation of it only once it is sent.            *)
Aimed(x) ==
    /\ x.kind = "walk" /\ x.mode # "Emit" =>
          /\ x.due \subseteq x.fibers \union x.tombs
          /\ x.at = "deliver" => x.tombs = {}
    /\ x.kind = "call" =>
          /\ x.to.fiber = x.resolved.fiber
          /\ x.to = x.resolved \/ (x.at = "sent" /\ x.to.inc > x.resolved.inc)

OutInv == out \in [Fiber -> Crossing] /\ \A f \in Fiber : Aimed(out[f])

LEMMA CrossingKinds ==
    ASSUME NEW x \in Crossing
    PROVE  /\ x.kind = "walk" => x \in Walking
           /\ x.kind = "call" => x \in Calling
           /\ x.kind \notin {"walk", "call"} => x = NoCrossing
           /\ NoCrossing.kind = "none"
BY DEF Crossing, Walking, Calling, NoCrossing

(* A walk, field by field.                                                    *)
LEMMA WalkFields ==
    ASSUME NEW x \in Walking
    PROVE  /\ x.kind = "walk" /\ x.at \in {"park", "decide", "deliver"} /\ x.mode \in DispatchMode
           /\ x.park \in Seq(Peer) /\ x.todo \in Seq(Peer)
           /\ x.fibers \in SUBSET Fiber /\ x.tombs \in SUBSET Fiber /\ x.due \in SUBSET Fiber
           /\ x = [kind |-> "walk", at |-> x.at, mode |-> x.mode, park |-> x.park,
                   todo |-> x.todo, fibers |-> x.fibers, tombs |-> x.tombs, due |-> x.due]
BY DEF Walking

(* No crossing, and a walk with less left to do, are aimed where they were.   *)
LEMMA AimedSteps ==
    /\ NoCrossing \in Crossing /\ Aimed(NoCrossing)
    /\ \A x \in Walking : \A s \in Seq(Peer) :
          /\ [x EXCEPT !.todo = s] \in Crossing /\ [x EXCEPT !.park = s] \in Crossing
          /\ Aimed(x) => Aimed([x EXCEPT !.todo = s]) /\ Aimed([x EXCEPT !.park = s])
    /\ \A x \in Walking :
          /\ [x EXCEPT !.at = "decide"] \in Crossing /\ [x EXCEPT !.at = "deliver"] \in Crossing
          /\ Aimed(x) => Aimed([x EXCEPT !.at = "decide"])
          /\ Aimed(x) /\ (x.mode # "Emit" => x.tombs = {}) => Aimed([x EXCEPT !.at = "deliver"])
<1>1. NoCrossing \in Crossing /\ Aimed(NoCrossing)
  BY DEF Crossing, NoCrossing, Aimed
<1>2. ASSUME NEW x \in Walking, NEW s \in Seq(Peer)
      PROVE  /\ [x EXCEPT !.todo = s] \in Walking /\ [x EXCEPT !.park = s] \in Walking
             /\ Aimed(x) => Aimed([x EXCEPT !.todo = s]) /\ Aimed([x EXCEPT !.park = s])
  <2>1. [x EXCEPT !.todo = s] \in Walking /\ [x EXCEPT !.park = s] \in Walking
    BY DEF Walking
  <2>2. ASSUME NEW y \in {[x EXCEPT !.todo = s], [x EXCEPT !.park = s]}
        PROVE  /\ y.kind = x.kind /\ y.mode = x.mode /\ y.at = x.at /\ y.due = x.due
               /\ y.fibers = x.fibers /\ y.tombs = x.tombs
    BY DEF Walking
  <2>3. x.kind # "call"
    BY DEF Walking
  <2>4. ASSUME NEW y \in {[x EXCEPT !.todo = s], [x EXCEPT !.park = s]}, Aimed(x)
        PROVE  Aimed(y)
    <3>1. /\ y.kind = x.kind /\ y.mode = x.mode /\ y.at = x.at /\ y.due = x.due
          /\ y.fibers = x.fibers /\ y.tombs = x.tombs
      BY <2>2
    <3> QED BY <2>3, <2>4, <3>1, Zenon DEF Aimed
  <2> QED BY <2>1, <2>4
<1>3. ASSUME NEW x \in Walking, NEW a \in {"decide", "deliver"}
      PROVE  /\ [x EXCEPT !.at = a] \in Walking
             /\ Aimed(x) /\ (a = "deliver" /\ x.mode # "Emit" => x.tombs = {})
                   => Aimed([x EXCEPT !.at = a])
  <2> DEFINE y == [x EXCEPT !.at = a]
  <2>1. y \in Walking
    BY DEF Walking
  <2>2. /\ y.kind = x.kind /\ y.mode = x.mode /\ y.at = a /\ y.due = x.due
        /\ y.fibers = x.fibers /\ y.tombs = x.tombs /\ x.kind # "call"
    BY DEF Walking
  <2> HIDE DEF y
  <2> QED BY <2>1, <2>2, Zenon DEF Aimed, y
<1>4. Walking \subseteq Crossing
  BY DEF Crossing
<1> QED BY <1>1, <1>2, <1>3, <1>4

(* One fiber's crossing changes.                                              *)
LEMMA OneCrossing ==
    ASSUME OutInv, NEW f \in Fiber, NEW y \in Crossing, Aimed(y), out' = [out EXCEPT ![f] = y]
    PROVE  OutInv'
BY DEF OutInv

(* Who waits somewhere is calling, or delivering what is left of a walk.      *)
LEMMA AwaitingKind ==
    ASSUME OutInv, NEW g \in Fiber, Awaiting(g) # NoPeer
    PROVE  \/ out[g].kind = "call"
           \/ out[g].kind = "walk" /\ out[g].todo # <<>>
BY DEF Awaiting

(* An answer.                                                                 *)
LEMMA AnswerAimed ==
    ASSUME NEW x \in Crossing, Aimed(x), x.kind = "call" \/ (x.kind = "walk" /\ x.todo # <<>>),
           NEW ok \in BOOLEAN
    PROVE  AfterAnswer(x, ok) \in Crossing /\ Aimed(AfterAnswer(x, ok))
<1>1. CASE x.kind = "call"
  <2>1. AfterAnswer(x, ok) = NoCrossing
    BY <1>1 DEF AfterAnswer
  <2> QED BY <2>1, AimedSteps
<1>2. CASE x.kind = "walk" /\ x.todo # <<>>
  <2>1. x \in Walking /\ x.todo \in Seq(Peer)
    BY <1>2, CrossingKinds, WalkFields
  <2>2. <<>> \in Seq(Peer) /\ Tail(x.todo) \in Seq(Peer)
    BY <1>2, <2>1
  <2>3. \E s \in Seq(Peer) : AfterAnswer(x, ok) = [x EXCEPT !.todo = s]
    <3>1. AfterAnswer(x, ok) = [x EXCEPT !.todo = IF ok /\ x.mode = "Bail" THEN <<>> ELSE Tail(@)]
      BY <1>2 DEF AfterAnswer
    <3>2. CASE ok /\ x.mode = "Bail"
      <4>1. AfterAnswer(x, ok) = [x EXCEPT !.todo = <<>>]
        BY <3>1, <3>2
      <4> QED BY <2>2, <4>1, Zenon
    <3>3. CASE ~(ok /\ x.mode = "Bail")
      <4>1. AfterAnswer(x, ok) = [x EXCEPT !.todo = Tail(x.todo)]
        BY <3>1, <3>3
      <4> QED BY <2>2, <4>1, Zenon
    <3> QED BY <3>2, <3>3
  <2> QED BY <2>1, <2>3, AimedSteps, Zenon
<1> QED BY <1>1, <1>2

LEMMA AnsweredAimed ==
    ASSUME OutInv, NEW G, \A g \in G : g \in Fiber => Awaiting(g) # NoPeer, NEW ok \in BOOLEAN,
           Answered(G, ok)
    PROVE  OutInv'
<1>1. out' = [g \in Fiber |-> IF g \in G THEN AfterAnswer(out[g], ok) ELSE out[g]]
  BY DEF Answered
<1>2. ASSUME NEW g \in Fiber PROVE out'[g] \in Crossing /\ Aimed(out'[g])
  <2>0. out[g] \in Crossing /\ Aimed(out[g])
    BY DEF OutInv
  <2>1. CASE g \in G
    <3>1. out'[g] = AfterAnswer(out[g], ok)
      BY <1>1, <2>1
    <3>2. out[g].kind = "call" \/ (out[g].kind = "walk" /\ out[g].todo # <<>>)
      BY <2>1, AwaitingKind
    <3> QED BY <2>0, <3>1, <3>2, AnswerAimed, Zenon
  <2>2. CASE g \notin G
    <3>1. out'[g] = out[g]
      BY <1>1, <2>2
    <3> QED BY <2>0, <3>1
  <2> QED BY <2>1, <2>2
<1>3. out' = [g \in Fiber |-> out'[g]]
  BY <1>1
<1> QED BY <1>2, <1>3, Zenon DEF OutInv

-----------------------------------------------------------------------------
(* Where crossings land: the table and the broker. *)

(* Every subscription has its row, live or a tombstone, and a fiber that has  *)
(* subscriptions and no seat is coming back.                                  *)
TableInv ==
    /\ table \in Seq(Row) /\ seat \in [Fiber -> Seat]
    /\ owed \in [Fiber -> {"Nothing", "Reload", "Disposal", "Rest"}]
    /\ listening \in SUBSET (Fiber \X Topic)
    /\ \A g \in Fiber, t \in Topic : <<g, t>> \in listening =>
          /\ \E r \in ToSet(table) : r.fiber = g /\ r.topic = t
          /\ seat[g].state = "none" => owed[g] = "Reload"

Handle == [held : {TRUE}, gen : Nat, to : Place]

(* No handle pins a generation that is yet to come, and one that pins the     *)
(* present one was resolved against the peer that provides it.                *)
BrokerInv ==
    /\ provider \in [peer : Place, gen : Nat]
    /\ handle \in [Fiber -> Handle \union {NoHandle}]
    /\ \A f \in Fiber : handle[f].held =>
          /\ handle[f].gen <= provider.gen
          /\ handle[f].gen = provider.gen /\ provider.peer # NoPeer => handle[f].to = provider.peer

(* Who provides the contract is the present incarnation of its fiber, which   *)
(* has a seat; no call goes to an incarnation that is yet to come.            *)
PeerInv ==
    /\ provider.peer # NoPeer =>
          /\ provider.peer.inc = seat[provider.peer.fiber].inc
          /\ seat[provider.peer.fiber].state # "none"
    /\ \A f \in Fiber : out[f].kind = "call" => out[f].to.inc <= seat[out[f].to.fiber].inc

AimedInv == OutInv /\ TableInv /\ BrokerInv

AimInv == AimedInv /\ PeerInv

(* The peers of a sequence of rows.                                           *)
LEMMA PeersOfType ==
    ASSUME NEW rows \in Seq(Row)
    PROVE  PeersOf(rows) \in Seq(Peer)
<1>1. Len(rows) \in Nat /\ \A i \in 1..Len(rows) : rows[i] \in Row
  OBVIOUS
<1>2. \A i \in 1..Len(rows) : [fiber |-> rows[i].fiber, inc |-> rows[i].inc] \in Peer
  BY <1>1 DEF Row, Peer
<1>3. PeersOf(rows) \in [1..Len(rows) -> Peer]
  BY <1>2 DEF PeersOf
<1> QED BY <1>1, <1>3, SeqDef

(* What a walk selects: everyone subscribed is among the live listeners or    *)
(* among the tombstones.                                                      *)
LEMMA EmitAimed ==
    ASSUME AimInv, NEW f \in Fiber, NEW t \in Topic, NEW m \in Mode, Emit(f, t, m)
    PROVE  OutInv'
<1> USE CrossingConstants
<1> DEFINE kept == {r \in ToSet(table) : r.topic = t /\ ~r.tomb}
           live == Select(table, kept)
           tombs == {r \in ToSet(table) : r.topic = t /\ r.tomb /\ m # "Emit"}
           y == [kind |-> "walk", at |-> "park", mode |-> m,
                 park |-> PeersOf(live), todo |-> PeersOf(live),
                 fibers |-> {r.fiber : r \in ToSet(live)},
                 tombs |-> {r.fiber : r \in tombs},
                 due |-> {l[1] : l \in {k \in listening : k[2] = t}}]
<1>1. out' = [out EXCEPT ![f] = y]
  BY DEF Emit
<1>2. live \in Seq(Row) /\ ToSet(live) = ToSet(table) \intersect kept
  BY SelectRange DEF AimInv, AimedInv, TableInv
<1>3. ToSet(table) \subseteq Row
  BY DEF AimInv, AimedInv, TableInv, ToSet
<1>4. PeersOf(live) \in Seq(Peer)
  BY <1>2, PeersOfType, Zenon
<1>5. y.fibers \in SUBSET Fiber /\ y.tombs \in SUBSET Fiber
  BY <1>2, <1>3 DEF Row
<1>6. y.due \in SUBSET Fiber
  BY DEF AimInv, AimedInv, TableInv
<1>7. m \in DispatchMode
  BY DEF DispatchMode
<1>8. y \in Walking
  BY <1>4, <1>5, <1>6, <1>7 DEF Walking
<1>9. ASSUME m # "Emit", NEW g \in y.due PROVE g \in y.fibers \union y.tombs
  <2>1. PICK k \in listening : k[2] = t /\ g = k[1]
    BY <1>9
  <2>2. g \in Fiber /\ <<g, t>> \in listening
    BY <2>1 DEF AimInv, AimedInv, TableInv
  <2>3. PICK r \in ToSet(table) : r.fiber = g /\ r.topic = t
    BY <2>2 DEF AimInv, AimedInv, TableInv
  <2>4. r \in ToSet(live) \/ r \in tombs
    <3>1. r.tomb \in BOOLEAN
      BY <1>3 DEF Row
    <3> QED BY <1>2, <1>9, <2>3, <3>1
  <2> HIDE DEF live, tombs
  <2> QED BY <2>3, <2>4
<1>10. y.kind = "walk" /\ y.at = "park" /\ y.mode = m
  OBVIOUS
<1> HIDE DEF y
<1>11. Aimed(y)
  BY <1>9, <1>10 DEF Aimed
<1>12. y \in Crossing
  BY <1>8 DEF Crossing
<1> QED BY <1>1, <1>11, <1>12, OneCrossing DEF AimInv, AimedInv

(* A call is checked against the provider of the pinned generation.           *)
LEMMA CallAimed ==
    ASSUME AimInv, NEW f \in Fiber, Call(f)
    PROVE  OutInv'
<1> DEFINE y == [kind |-> "call", at |-> "checked", to |-> provider.peer, resolved |-> handle[f].to]
<1>1. out' = [out EXCEPT ![f] = y]
  BY DEF Call
<1>2. provider.peer \in Peer /\ handle[f].to = provider.peer
  BY DEF AimInv, AimedInv, BrokerInv, Call, Place
<1>3. y \in Calling
  BY <1>2 DEF Calling
<1>4. Aimed(y)
  BY <1>2 DEF Aimed
<1> QED BY <1>1, <1>3, <1>4, OneCrossing DEF AimInv, AimedInv, Crossing

(* It is parked, and crosses to whoever sits in the slot by then: the peer it *)
(* was checked against, or a later incarnation of its fiber.                  *)
LEMMA CallSteps ==
    ASSUME AimInv, NEW f \in Fiber, ParkCall(f) \/ Cross(f)
    PROVE  OutInv'
<1> DEFINE x == out[f]
           g == x.to.fiber
           y == [x EXCEPT !.at = "parked"]
           z == [x EXCEPT !.at = "sent", !.to = PeerOf(g)]
<1>0. OutInv /\ TableInv /\ PeerInv
  BY DEF AimInv, AimedInv
<1>1. x \in Crossing /\ Aimed(x) /\ x.kind = "call" /\ x.at # "sent"
  BY <1>0 DEF OutInv, ParkCall, Cross
<1>2. x \in Calling
  BY <1>1, CrossingKinds
<1>3. x.to \in Peer /\ x.resolved = x.to /\ x.to.inc <= seat[g].inc
  BY <1>0, <1>1, <1>2 DEF Calling, Aimed, PeerInv
<1>4. g \in Fiber /\ x.to.inc \in Nat /\ seat[g] \in Seat /\ seat[g].inc \in Nat
  BY <1>0, <1>3 DEF Peer, TableInv, Seat
<1>5. PeerOf(g) \in Peer /\ PeerOf(g).fiber = g /\ PeerOf(g).inc = seat[g].inc
  BY <1>4 DEF PeerOf, Peer
<1>6. PeerOf(g) = x.to \/ PeerOf(g).inc > x.to.inc
  BY <1>3, <1>4, <1>5 DEF Peer, PeerOf
<1>7. y \in Calling /\ y.to = x.to /\ y.resolved = x.resolved
  BY <1>2 DEF Calling
<1>8. z \in Calling /\ z.to = PeerOf(g) /\ z.resolved = x.resolved /\ z.at = "sent"
  BY <1>2, <1>5 DEF Calling
<1>9. y.kind = "call" /\ z.kind = "call"
  BY <1>7, <1>8 DEF Calling
<1>10. CASE out' = [out EXCEPT ![f] = NoCrossing]
  BY <1>0, <1>10, OneCrossing, AimedSteps
<1>11. CASE out' = [out EXCEPT ![f].at = "parked"]
  <2>1. out' = [out EXCEPT ![f] = y]
    BY <1>11
  <2> HIDE DEF y
  <2>2. y \in Crossing /\ Aimed(y)
    BY <1>3, <1>7, <1>9 DEF Crossing, Aimed
  <2> QED BY <1>0, <2>1, <2>2, OneCrossing
<1>12. CASE out' = [out EXCEPT ![f].at = "sent", ![f].to = PeerOf(g)]
  <2>1. out' = [out EXCEPT ![f] = z]
    BY <1>0, <1>12 DEF OutInv
  <2> HIDE DEF z
  <2>2. z \in Crossing /\ Aimed(z)
    BY <1>3, <1>5, <1>6, <1>8, <1>9 DEF Crossing, Aimed
  <2> QED BY <1>0, <2>1, <2>2, OneCrossing
<1>13. CASE ParkCall(f)
  BY <1>10, <1>11, <1>13 DEF ParkCall
<1>14. CASE Cross(f)
  BY <1>10, <1>12, <1>14 DEF Cross, Drop
<1> QED BY <1>13, <1>14

(* The steps of a walk.                                                       *)
LEMMA WalkSteps ==
    ASSUME OutInv, NEW f \in Fiber, Park(f) \/ Decide(f) \/ Finish(f)
    PROVE  OutInv'
<1> DEFINE x == out[f]
<1>1. x \in Crossing /\ Aimed(x) /\ x.kind = "walk"
  BY DEF OutInv, Park, Decide, Finish
<1>2. x \in Walking /\ x.park \in Seq(Peer)
  BY <1>1, CrossingKinds, WalkFields
<1>3. CASE out' = [out EXCEPT ![f] = NoCrossing]
  BY <1>3, OneCrossing, AimedSteps
<1>4. CASE out' = [out EXCEPT ![f].at = "decide"]
  <2>1. out' = [out EXCEPT ![f] = [x EXCEPT !.at = "decide"]]
    BY <1>4
  <2>2. [x EXCEPT !.at = "decide"] \in Crossing /\ Aimed([x EXCEPT !.at = "decide"])
    BY <1>1, <1>2, AimedSteps
  <2> QED BY <2>1, <2>2, OneCrossing
<1>5. CASE x.park # <<>> /\ out' = [out EXCEPT ![f].park = Tail(@)]
  <2>1. out' = [out EXCEPT ![f] = [x EXCEPT !.park = Tail(x.park)]]
    BY <1>5
  <2>2. Tail(x.park) \in Seq(Peer)
    BY <1>2, <1>5
  <2>3. [x EXCEPT !.park = Tail(x.park)] \in Crossing /\ Aimed([x EXCEPT !.park = Tail(x.park)])
    BY <1>1, <1>2, <2>2, AimedSteps
  <2> QED BY <2>1, <2>3, OneCrossing
<1>6. CASE (x.mode # "Emit" => x.tombs = {}) /\ out' = [out EXCEPT ![f].at = "deliver"]
  <2>1. out' = [out EXCEPT ![f] = [x EXCEPT !.at = "deliver"]]
    BY <1>6
  <2>2. [x EXCEPT !.at = "deliver"] \in Crossing /\ Aimed([x EXCEPT !.at = "deliver"])
    BY <1>1, <1>2, <1>6, AimedSteps
  <2> QED BY <2>1, <2>2, OneCrossing
<1>7. CASE Park(f)
  BY <1>3, <1>4, <1>5, <1>7 DEF Park, Drop
<1>8. CASE Decide(f)
  BY <1>3, <1>6, <1>8 DEF Decide, Drop
<1>9. CASE Finish(f)
  BY <1>3, <1>9 DEF Finish, Drop
<1> QED BY <1>7, <1>8, <1>9

(* An answer, and an instance that ends.                                      *)
LEMMA AnswerSteps ==
    ASSUME OutInv, NEW f \in Fiber, Return(f) \/ Refuse(f)
    PROVE  OutInv'
<1>1. CASE Return(f)
  <2> DEFINE G == {g \in Fiber : Served(g) /\ serving[f] = g}
  <2>1. Answered(G, TRUE)
    BY <1>1 DEF Return
  <2>2. \A g \in G : Awaiting(g) # NoPeer
    BY DEF Served
  <2> HIDE DEF G
  <2> QED BY <2>1, <2>2, AnsweredAimed
<1>2. CASE Refuse(f)
  <2>1. Answered({f}, FALSE) /\ Awaiting(f) # NoPeer
    BY <1>2 DEF Refuse
  <2> QED BY <2>1, AnsweredAimed
<1> QED BY <1>1, <1>2

LEMMA KillAimed ==
    ASSUME OutInv, NEW f, Kill(f)
    PROVE  OutInv'
<1>1. out' = [out EXCEPT ![f] = NoCrossing]
  BY DEF Kill
<1>2. NoCrossing \in Crossing /\ Aimed(NoCrossing)
  BY AimedSteps
<1>3. CASE f \in Fiber
  BY <1>1, <1>2, <1>3, OneCrossing
<1>4. CASE f \notin Fiber
  <2>1. out' = out
    BY <1>1, <1>4 DEF OutInv
  <2> QED BY <2>1 DEF OutInv
<1> QED BY <1>3, <1>4

(* A seat changes its state and nothing is owed anew: the table keeps its     *)
(* rows, and who has subscriptions has a seat or comes back.                  *)
LEMMA SeatChange ==
    ASSUME TableInv, NEW f \in Fiber, NEW s \in Seat, seat' = [seat EXCEPT ![f] = s],
           s.state # "none", UNCHANGED <<tableVars, owed>>
    PROVE  TableInv'
<1>1. table' = table /\ listening' = listening /\ owed' = owed
  BY DEF tableVars
<1>2. seat' \in [Fiber -> Seat]
  BY DEF TableInv
<1>3. ASSUME NEW g \in Fiber, seat'[g].state = "none" PROVE seat[g].state = "none"
  BY <1>3 DEF TableInv
<1> QED BY <1>1, <1>2, <1>3 DEF TableInv

(* The transition owed to a fiber changes, and it has no empty seat or is to  *)
(* come back.                                                                 *)
LEMMA OwedChange ==
    ASSUME TableInv, NEW f \in Fiber, NEW o \in {"Nothing", "Reload", "Disposal", "Rest"},
           owed' = [owed EXCEPT ![f] = o], o = "Reload" \/ owed[f] # "Reload",
           UNCHANGED <<tableVars, seat>>
    PROVE  TableInv'
<1>1. table' = table /\ listening' = listening /\ seat' = seat
  BY DEF tableVars
<1>2. owed' \in [Fiber -> {"Nothing", "Reload", "Disposal", "Rest"}]
  BY DEF TableInv
<1>3. ASSUME NEW g \in Fiber, owed[g] = "Reload" PROVE owed'[g] = "Reload"
  BY <1>3 DEF TableInv
<1> QED BY <1>1, <1>2, <1>3 DEF TableInv

(* A fiber's subscriptions end, whatever becomes of its rows, its seat and    *)
(* what it is owed; the others' rows stay.                                    *)
LEMMA SubscriptionsEnd ==
    ASSUME TableInv, NEW f \in Fiber, NEW kept,
           table' = Select(table, kept), \A r \in ToSet(table) : r.fiber # f => r \in kept,
           listening' = Others(f) \/ (listening' = listening /\ listening \subseteq Others(f)),
           seat' \in [Fiber -> Seat], owed' \in [Fiber -> {"Nothing", "Reload", "Disposal", "Rest"}],
           \A g \in Fiber \ {f} : seat'[g] = seat[g] /\ owed'[g] = owed[g]
    PROVE  TableInv'
<1>1. table' \in Seq(Row) /\ ToSet(table') = ToSet(table) \intersect kept
  BY SelectRange DEF TableInv
<1>2. listening' \subseteq Others(f)
  OBVIOUS
<1>3. ASSUME NEW g \in Fiber, NEW t \in Topic, <<g, t>> \in listening'
      PROVE  /\ \E r \in ToSet(table') : r.fiber = g /\ r.topic = t
             /\ seat'[g].state = "none" => owed'[g] = "Reload"
  <2>1. <<g, t>> \in listening /\ g # f
    BY <1>2, <1>3 DEF Others
  <2>2. PICK r \in ToSet(table) : r.fiber = g /\ r.topic = t
    BY <2>1 DEF TableInv
  <2>3. r \in ToSet(table')
    BY <1>1, <2>1, <2>2
  <2>4. seat'[g] = seat[g] /\ owed'[g] = owed[g]
    BY <2>1
  <2> QED BY <2>1, <2>2, <2>3, <2>4 DEF TableInv
<1>4. listening' \in SUBSET (Fiber \X Topic)
  BY <1>2 DEF Others, TableInv
<1> QED BY <1>1, <1>3, <1>4, Zenon DEF TableInv

(* An instance that ends, closes, arrives.                                    *)
LEMMA SeatSteps ==
    ASSUME TableInv, NEW f \in Fiber, UNCHANGED <<tableVars, owed>>,
           Kill(f) \/ Close(f) \/ Arrive(f)
    PROVE  TableInv'
<1>1. seat[f] \in Seat
  BY DEF TableInv
<1>2. CASE Kill(f) \/ Close(f)
  <2>1. PICK a \in {"dead", "closing"} : seat' = [seat EXCEPT ![f].state = a]
    BY <1>2 DEF Kill, Close
  <2>2. seat' = [seat EXCEPT ![f] = [seat[f] EXCEPT !.state = a]]
    BY <2>1
  <2>3. [seat[f] EXCEPT !.state = a] \in Seat /\ [seat[f] EXCEPT !.state = a].state # "none"
    BY <1>1 DEF Seat
  <2> QED BY <2>2, <2>3, SeatChange
<1>3. CASE Arrive(f)
  <2> DEFINE s == [inc |-> seat[f].inc + 1, state |-> IF seat[f].inc = 0 THEN "arriving" ELSE "staged"]
  <2>1. seat' = [seat EXCEPT ![f] = s]
    BY <1>3 DEF Arrive
  <2>2. s \in Seat /\ s.state # "none"
    BY <1>1 DEF Seat
  <2> HIDE DEF s
  <2> QED BY <2>1, <2>2, SeatChange
<1> QED BY <1>2, <1>3

(* A suspension leaves a tombstone for every row.                             *)
LEMMA SuspendTable ==
    ASSUME TableInv, NEW f \in Fiber, Suspend(f)
    PROVE  TableInv'
<1>1. /\ table' = Entomb(f) /\ listening' = listening /\ owed' = owed /\ owed[f] = "Reload"
      /\ seat' = [seat EXCEPT ![f].state = "none"]
  BY DEF Suspend
<1>2. Len(table) \in Nat /\ DOMAIN table = 1..Len(table) /\ \A i \in 1..Len(table) : table[i] \in Row
  BY DEF TableInv
<1>3. DOMAIN table' = 1..Len(table)
  BY <1>1 DEF Entomb
<1>4. \A i \in 1..Len(table) :
         /\ table'[i] \in Row /\ table'[i].fiber = table[i].fiber /\ table'[i].topic = table[i].topic
  BY <1>1, <1>2 DEF Entomb, Row
<1>5. table' \in [1..Len(table) -> Row]
  BY <1>1, <1>4 DEF Entomb
<1>6. table' \in Seq(Row)
  BY <1>2, <1>5, SeqDef
<1>7. seat' \in [Fiber -> Seat]
  <2>1. [seat[f] EXCEPT !.state = "none"] \in Seat
    BY DEF TableInv, Seat
  <2>2. seat' = [seat EXCEPT ![f] = [seat[f] EXCEPT !.state = "none"]]
    BY <1>1
  <2> QED BY <2>1, <2>2 DEF TableInv
<1>8. ASSUME NEW g \in Fiber, NEW t \in Topic, <<g, t>> \in listening
      PROVE  /\ \E r \in ToSet(table') : r.fiber = g /\ r.topic = t
             /\ seat'[g].state = "none" => owed[g] = "Reload"
  <2>1. PICK r \in ToSet(table) : r.fiber = g /\ r.topic = t
    BY <1>8 DEF TableInv
  <2>2. PICK i \in 1..Len(table) : table[i] = r
    BY <1>2, <2>1 DEF ToSet
  <2>3. table'[i] \in ToSet(table') /\ table'[i].fiber = g /\ table'[i].topic = t
    BY <1>3, <1>4, <2>1, <2>2 DEF ToSet
  <2>4. g # f => seat'[g] = seat[g]
    BY <1>1 DEF TableInv
  <2>5. seat'[g].state = "none" => owed[g] = "Reload"
    BY <1>1, <1>8, <2>4 DEF TableInv
  <2> QED BY <2>3, <2>5
<1> QED BY <1>1, <1>6, <1>7, <1>8 DEF TableInv

(* The seats that take subscriptions along, and the tombstones that end.      *)
LEMMA LeavingTable ==
    ASSUME TableInv, NEW f \in Fiber, Retire(f) \/ Fail(f) \/ EndTombstones(f)
    PROVE  TableInv'
<1>1. CASE Retire(f)
  <2>1. seat' \in [Fiber -> Seat] /\ owed' \in [Fiber -> {"Nothing", "Reload", "Disposal", "Rest"}]
    BY <1>1 DEF Retire, TableInv, Seat
  <2>2. \A g \in Fiber \ {f} : seat'[g] = seat[g] /\ owed'[g] = owed[g]
    BY <1>1 DEF Retire, TableInv
  <2>3. listening' = Others(f) /\ table' = Select(table, {r \in ToSet(table) : r.fiber # f})
    BY <1>1 DEF Retire, Unlisten
  <2> QED BY <2>1, <2>2, <2>3, SubscriptionsEnd
<1>2. CASE Fail(f)
  <2>1. seat' \in [Fiber -> Seat] /\ owed' \in [Fiber -> {"Nothing", "Reload", "Disposal", "Rest"}]
    BY <1>2 DEF Fail, TableInv, Seat
  <2>2. \A g \in Fiber \ {f} : seat'[g] = seat[g] /\ owed'[g] = owed[g]
    BY <1>2 DEF Fail, TableInv
  <2>3. listening' = Others(f) /\ table' = Select(table, {r \in ToSet(table) : r.fiber # f \/ r.tomb})
    BY <1>2 DEF Fail
  <2> QED BY <2>1, <2>2, <2>3, SubscriptionsEnd
<1>3. CASE EndTombstones(f)
  <2>1. seat' \in [Fiber -> Seat] /\ owed' \in [Fiber -> {"Nothing", "Reload", "Disposal", "Rest"}]
    BY <1>3 DEF EndTombstones, TableInv
  <2>2. \A g \in Fiber \ {f} : seat'[g] = seat[g] /\ owed'[g] = owed[g]
    BY <1>3 DEF EndTombstones
  <2>3. listening' = listening /\ table' = Select(table, {r \in ToSet(table) : ~(r.fiber = f /\ r.tomb)})
    BY <1>3 DEF EndTombstones, WithdrawTombstones
  <2>4. listening \subseteq Others(f)
    <3>1. SUFFICES ASSUME NEW l \in listening, l[1] = f PROVE FALSE
      BY DEF Others
    <3>2. l[2] \in Topic /\ <<f, l[2]>> \in listening
      BY <3>1 DEF TableInv
    <3> QED BY <1>3, <3>2 DEF TableInv, EndTombstones
  <2> QED BY <2>1, <2>2, <2>3, <2>4, SubscriptionsEnd
<1> QED BY <1>1, <1>2, <1>3

(* A row is pushed with the subscription it is for.                           *)
LEMMA ListenTable ==
    ASSUME TableInv, NEW f \in Fiber, NEW t \in Topic, Listen(f, t)
    PROVE  TableInv'
<1> DEFINE n == NewRow(f, t)
<1>1. /\ table' = Append(table, n) /\ listening' = listening \union {<<f, t>>}
      /\ seat' = seat /\ owed' = owed /\ seat[f].state # "none"
  BY DEF Listen
<1>2. n \in Row /\ n.fiber = f /\ n.topic = t
  BY DEF NewRow, Row, TableInv, Seat
<1> HIDE DEF n
<1>3. table' \in Seq(Row) /\ Len(table) \in Nat /\ DOMAIN table = 1..Len(table)
  BY <1>1, <1>2 DEF TableInv
<1>4. /\ DOMAIN table' = 1..(Len(table) + 1) /\ table'[Len(table) + 1] = n
      /\ \A i \in 1..Len(table) : table'[i] = table[i]
  BY <1>1, <1>2 DEF TableInv
<1>5. n \in ToSet(table') /\ ToSet(table) \subseteq ToSet(table')
  BY <1>3, <1>4 DEF ToSet
<1>6. ASSUME NEW g \in Fiber, NEW u \in Topic, <<g, u>> \in listening'
      PROVE  /\ \E r \in ToSet(table') : r.fiber = g /\ r.topic = u
             /\ seat[g].state = "none" => owed[g] = "Reload"
  <2>1. CASE <<g, u>> \in listening
    BY <1>5, <2>1 DEF TableInv
  <2>2. CASE g = f /\ u = t
    BY <1>1, <1>2, <1>5, <2>2
  <2> QED BY <1>1, <1>6, <2>1, <2>2
<1> QED BY <1>1, <1>3, <1>6 DEF TableInv

(* A replacement lands: its rows take the place of the tombstones.            *)
LEMMA LandTable ==
    ASSUME TableInv, NEW f \in Fiber, NEW T \in SUBSET Topic, Land(f, T)
    PROVE  TableInv'
<1>1. /\ seat' = [seat EXCEPT ![f].state = "live"] /\ owed' = [owed EXCEPT ![f] = "Rest"]
      /\ Rebind(f, T) \/ UNCHANGED tableVars
  BY DEF Land
<1>2. seat' \in [Fiber -> Seat] /\ owed' \in [Fiber -> {"Nothing", "Reload", "Disposal", "Rest"}]
  BY <1>1 DEF TableInv, Seat
<1>3. seat'[f].state # "none" /\ \A g \in Fiber \ {f} : seat'[g] = seat[g] /\ owed'[g] = owed[g]
  BY <1>1 DEF TableInv, Seat
<1>4. CASE UNCHANGED tableVars
  <2>1. table' = table /\ listening' = listening
    BY <1>4 DEF tableVars
  <2>2. ASSUME NEW g \in Fiber, seat'[g].state = "none" PROVE seat[g].state = "none" /\ owed'[g] = owed[g]
    BY <1>3, <2>2
  <2> QED BY <1>2, <2>1, <2>2 DEF TableInv
<1>5. CASE Rebind(f, T)
  <2> DEFINE new == {NewRow(f, t) : t \in T}
             kept == {r \in ToSet(table) : r.fiber # f}
             rest == Select(table, kept)
  <2>1. table' = rest \o SetToSeq(new) /\ listening' = Others(f) \union ({f} \X T)
    BY <1>5 DEF Rebind, Unlisten
  <2>2. \A t \in T : NewRow(f, t) \in Row /\ NewRow(f, t).fiber = f /\ NewRow(f, t).topic = t
    BY DEF NewRow, Row, TableInv, Seat
  <2>3. IsFiniteSet(new)
    <3> DEFINE F == [t \in T |-> NewRow(f, t)]
    <3>1. IsFiniteSet(T)
      BY CrossingConstants, FS_Subset
    <3>2. F \in [T -> new] /\ \A y \in new : \E t \in T : F[t] = y
      OBVIOUS
    <3> HIDE DEF F, new
    <3> QED BY <3>1, <3>2, FiniteImage
  <2>4. new \subseteq Row
    BY <2>2
  <2>5. SetToSeq(new) \in Seq(new) /\ ToSet(SetToSeq(new)) = new
    <3> HIDE DEF new
    <3> QED BY <2>3, SetToSeqRange
  <2>6. SetToSeq(new) \in Seq(Row)
    <3> HIDE DEF new
    <3> QED BY <2>4, <2>5
  <2>7. rest \in Seq(Row) /\ ToSet(rest) = ToSet(table) \intersect kept
    BY SelectRange DEF TableInv
  <2>8. table' \in Seq(Row) /\ ToSet(table') = ToSet(rest) \union new
    <3> HIDE DEF new, rest
    <3> QED BY <2>1, <2>5, <2>6, <2>7, ConcatRange
  <2>9. ASSUME NEW g \in Fiber, NEW t \in Topic, <<g, t>> \in listening'
        PROVE  /\ \E r \in ToSet(table') : r.fiber = g /\ r.topic = t
               /\ seat'[g].state = "none" => owed'[g] = "Reload"
    <3>1. CASE g = f /\ t \in T
      <4>1. NewRow(f, t) \in ToSet(table')
        BY <2>8, <3>1
      <4> QED BY <1>3, <2>2, <3>1, <4>1
    <3>2. CASE g # f /\ <<g, t>> \in listening
      <4>1. PICK r \in ToSet(table) : r.fiber = g /\ r.topic = t
        BY <3>2 DEF TableInv
      <4>2. r \in ToSet(table')
        BY <2>7, <2>8, <3>2, <4>1
      <4>3. seat'[g] = seat[g] /\ owed'[g] = owed[g]
        BY <1>3, <3>2
      <4> QED BY <3>2, <4>1, <4>2, <4>3 DEF TableInv
    <3> QED BY <2>1, <2>9, <3>1, <3>2 DEF Others
  <2>10. listening' \in SUBSET (Fiber \X Topic)
    BY <2>1 DEF Others, TableInv
  <2> HIDE DEF new, rest, kept
  <2> QED BY <1>2, <2>8, <2>9, <2>10, Zenon DEF TableInv
<1> QED BY <1>1, <1>4, <1>5

(* A fiber leaves: its provision goes, and its handles with it.               *)
LEMMA RemovePeerBroker ==
    ASSUME BrokerInv, NEW f \in Fiber, RemovePeer(f)
    PROVE  BrokerInv'
<1>1. /\ provider'.gen = provider.gen /\ provider'.peer \in {provider.peer, NoPeer}
      /\ provider' \in [peer : Place, gen : Nat]
  BY DEF BrokerInv, RemovePeer, Place
<1>2. handle' = [handle EXCEPT ![f] = NoHandle]
  BY DEF RemovePeer
<1>3. handle' \in [Fiber -> Handle \union {NoHandle}]
  BY <1>2 DEF BrokerInv
<1>4. ASSUME NEW g \in Fiber, handle'[g].held PROVE handle'[g] = handle[g]
  BY <1>2, <1>4 DEF BrokerInv, NoHandle
<1> QED BY <1>1, <1>3, <1>4 DEF BrokerInv

(* A provision is a new generation, which no handle pins yet.                 *)
LEMMA ProvideBroker ==
    ASSUME BrokerInv, TableInv, NEW f \in Fiber, Provide(f)
    PROVE  BrokerInv'
<1>1. provider' = [peer |-> PeerOf(f), gen |-> provider.gen + 1] /\ handle' = handle
  BY DEF Provide
<1>2. PeerOf(f) \in Place
  BY DEF PeerOf, Place, Peer, TableInv, Seat
<1>3. provider' \in [peer : Place, gen : Nat] /\ provider'.gen = provider.gen + 1
  BY <1>1, <1>2 DEF BrokerInv
<1>4. ASSUME NEW g \in Fiber, handle[g].held
      PROVE  handle[g].gen <= provider'.gen /\ handle[g].gen # provider'.gen
  <2>1. handle[g] \in Handle
    BY <1>4 DEF BrokerInv, NoHandle
  <2>2. handle[g].gen \in Nat /\ provider.gen \in Nat /\ handle[g].gen <= provider.gen
    BY <1>4, <2>1 DEF BrokerInv, Handle
  <2> QED BY <1>3, <2>2
<1> QED BY <1>1, <1>3, <1>4 DEF BrokerInv

(* A handle is resolved against the present provision.                        *)
LEMMA ResolveBroker ==
    ASSUME BrokerInv, NEW f \in Fiber, Resolve(f)
    PROVE  BrokerInv'
<1> DEFINE h == [held |-> TRUE, gen |-> provider.gen, to |-> provider.peer]
<1>1. handle' = [handle EXCEPT ![f] = h] /\ provider' = provider
  BY DEF Resolve
<1>2. h \in Handle /\ provider.gen \in Nat
  BY DEF Handle, BrokerInv
<1>3. handle' \in [Fiber -> Handle \union {NoHandle}]
  BY <1>1, <1>2 DEF BrokerInv
<1>4. \A g \in Fiber : handle'[g] = IF g = f THEN h ELSE handle[g]
  BY <1>1 DEF BrokerInv
<1>5. h.gen = provider.gen /\ h.to = provider.peer
  OBVIOUS
<1> HIDE DEF h
<1>6. ASSUME NEW g \in Fiber, handle'[g].held
      PROVE  /\ handle'[g].gen <= provider.gen
             /\ handle'[g].gen = provider.gen /\ provider.peer # NoPeer
                   => handle'[g].to = provider.peer
  BY <1>2, <1>4, <1>5, <1>6 DEF BrokerInv
<1> QED BY <1>1, <1>3, <1>6 DEF BrokerInv

(* Seats only advance, and a call keeps its target or takes a present one.    *)
LEMMA PeersStand ==
    ASSUME OutInv, TableInv, BrokerInv, PeerInv, OutInv', seat' \in [Fiber -> Seat],
           \A g \in Fiber : seat[g].inc <= seat'[g].inc,
           \A f \in Fiber : out'[f].kind = "call" =>
                \/ out[f].kind = "call" /\ out'[f].to = out[f].to
                \/ out'[f].to.inc = seat[out'[f].to.fiber].inc,
           provider'.peer # NoPeer =>
                /\ provider'.peer.inc = seat'[provider'.peer.fiber].inc
                /\ seat'[provider'.peer.fiber].state # "none"
    PROVE  PeerInv'
<1>1. ASSUME NEW f \in Fiber, out'[f].kind = "call"
      PROVE  out'[f].to.inc <= seat'[out'[f].to.fiber].inc
  <2>1. out'[f] \in Crossing
    BY DEF OutInv
  <2>2. out'[f].to \in Peer
    BY <1>1, <2>1, CrossingKinds DEF Calling
  <2> DEFINE g == out'[f].to.fiber
  <2>3. g \in Fiber /\ out'[f].to.inc \in Nat
    BY <2>2 DEF Peer
  <2>4. out'[f].to.inc <= seat[g].inc
    <3>1. CASE out[f].kind = "call" /\ out'[f].to = out[f].to
      BY <3>1 DEF PeerInv
    <3>2. CASE out'[f].to.inc = seat[out'[f].to.fiber].inc
      BY <2>3, <3>2
    <3> QED BY <1>1, <3>1, <3>2
  <2>5. seat[g].inc \in Nat /\ seat'[g].inc \in Nat /\ seat[g].inc <= seat'[g].inc
    BY <2>3 DEF TableInv, Seat
  <2> HIDE DEF g
  <2> QED BY <2>3, <2>4, <2>5 DEF g
<1> QED BY <1>1 DEF PeerInv

(* Neither the seats nor the provision change.                                *)
LEMMA PeersStay ==
    ASSUME AimInv, OutInv', UNCHANGED <<seat, provider>>,
           \A f \in Fiber : out'[f].kind = "call" =>
                \/ out[f].kind = "call" /\ out'[f].to = out[f].to
                \/ out'[f].to.inc = seat[out'[f].to.fiber].inc
    PROVE  PeerInv'
<1>1. seat' = seat /\ provider' = provider
  OBVIOUS
<1>2. \A g \in Fiber : seat[g].inc <= seat'[g].inc
  BY <1>1 DEF AimInv, AimedInv, TableInv, Seat
<1>3. provider'.peer # NoPeer =>
         /\ provider'.peer.inc = seat'[provider'.peer.fiber].inc
         /\ seat'[provider'.peer.fiber].state # "none"
  BY <1>1 DEF AimInv, PeerInv
<1>4. OutInv /\ TableInv /\ BrokerInv /\ PeerInv /\ seat' \in [Fiber -> Seat]
  BY <1>1 DEF AimInv, AimedInv, TableInv
<1> QED BY <1>2, <1>3, <1>4, PeersStand

(* One seat changes its state or its incarnation, and the provision with it.  *)
LEMMA PeersMove ==
    ASSUME AimInv, OutInv', NEW f \in Fiber, NEW t \in Seat, seat' = [seat EXCEPT ![f] = t],
           seat[f].inc <= t.inc,
           \A g \in Fiber : out'[g].kind = "call" => out[g].kind = "call" /\ out'[g].to = out[g].to,
           \/ provider' = provider /\ t.state # "none"
              /\ (t.inc = seat[f].inc \/ seat[f].state = "none")
           \/ RemovePeer(f)
    PROVE  PeerInv'
<1>1. OutInv /\ TableInv /\ BrokerInv /\ PeerInv
  BY DEF AimInv, AimedInv
<1>2. /\ seat' \in [Fiber -> Seat] /\ seat'[f] = t
      /\ \A g \in Fiber \ {f} : seat'[g] = seat[g]
  BY <1>1 DEF TableInv
<1>3. \A g \in Fiber : seat[g].inc <= seat'[g].inc
  BY <1>1, <1>2 DEF TableInv, Seat
<1>4. ASSUME provider'.peer # NoPeer
      PROVE  /\ provider'.peer.inc = seat'[provider'.peer.fiber].inc
             /\ seat'[provider'.peer.fiber].state # "none"
  <2> DEFINE q == provider.peer
  <2>0. q \in Place
    BY <1>1 DEF BrokerInv
  <2>1. provider'.peer = q /\ q # NoPeer
    BY <1>1, <1>4 DEF RemovePeer, BrokerInv
  <2>2. q.fiber \in Fiber /\ q.inc = seat[q.fiber].inc /\ seat[q.fiber].state # "none"
    BY <1>1, <2>0, <2>1 DEF PeerInv, Place, Peer
  <2>3. CASE q.fiber # f
    BY <1>2, <2>1, <2>2, <2>3
  <2>4. CASE q.fiber = f
    <3>1. q = PeerOf(f)
      BY <2>0, <2>1, <2>2, <2>4 DEF Place, Peer, PeerOf
    <3>2. ~RemovePeer(f)
      BY <1>1, <2>1, <3>1 DEF RemovePeer, BrokerInv
    <3> QED BY <1>2, <2>1, <2>2, <2>4, <3>2
  <2> QED BY <2>3, <2>4
<1> QED BY <1>1, <1>2, <1>3, <1>4, PeersStand

-----------------------------------------------------------------------------
(* Where crossings land: the specification. *)

LEMMA AimInit == Init => AimInv
<1> SUFFICES ASSUME Init PROVE AimInv
  OBVIOUS
<1> USE CrossingConstants
<1>1. PICK s \in Stories :
        /\ listening = s.listening
        /\ seat = [f \in Fiber |-> IF f \in s.up THEN [inc |-> 1, state |-> "live"]
                                                ELSE [inc |-> 0, state |-> "none"]]
        /\ owed = [f \in Fiber |-> IF f \in s.coming THEN "Reload" ELSE "Nothing"]
  BY DEF Init
<1>2. s.up \subseteq Fiber /\ listening \subseteq s.up \X Topic /\ IsFiniteSet(listening)
  BY <1>1
<1>3. listening \in SUBSET (Fiber \X Topic) /\ \A l \in listening : l[1] \in Fiber /\ l[2] \in Topic
  BY <1>2
<1> DEFINE RowOf(l) == [fiber |-> l[1], topic |-> l[2], inc |-> 1, tomb |-> FALSE]
           rows == {RowOf(l) : l \in listening}
           F == [l \in listening |-> RowOf(l)]
<1>4. F \in [listening -> rows] /\ \A y \in rows : \E l \in listening : F[l] = y
  OBVIOUS
<1>5. rows \subseteq Row
  <2>1. \A l \in listening : RowOf(l) \in Row
    BY <1>3 DEF Row
  <2> HIDE DEF RowOf
  <2> QED BY <2>1
<1>6. ASSUME NEW g \in Fiber, NEW t \in Topic, <<g, t>> \in listening
      PROVE  \E r \in rows : r.fiber = g /\ r.topic = t
  <2>1. RowOf(<<g, t>>) \in rows /\ RowOf(<<g, t>>).fiber = g /\ RowOf(<<g, t>>).topic = t
    BY <1>6
  <2> QED BY <2>1
<1>7. table = SetToSeq(rows)
  BY DEF Init
<1> HIDE DEF rows, F
<1>8. IsFiniteSet(rows)
  BY <1>2, <1>4, FiniteImage
<1>9. table \in Seq(rows) /\ ToSet(table) = rows
  BY <1>7, <1>8, SetToSeqRange
<1>10. table \in Seq(Row)
  BY <1>5, <1>9
<1>11. seat \in [Fiber -> Seat] /\ owed \in [Fiber -> {"Nothing", "Reload", "Disposal", "Rest"}]
  BY <1>1 DEF Seat
<1>12. ASSUME NEW g \in Fiber, NEW t \in Topic, <<g, t>> \in listening
       PROVE  seat[g].state # "none"
  BY <1>1, <1>2, <1>12
<1>13. TableInv
  <2>1. \A g \in Fiber, t \in Topic : <<g, t>> \in listening =>
           /\ \E r \in ToSet(table) : r.fiber = g /\ r.topic = t
           /\ seat[g].state = "none" => owed[g] = "Reload"
    BY <1>6, <1>9, <1>12
  <2> QED BY <1>3, <1>10, <1>11, <2>1, Zenon DEF TableInv
<1>14. OutInv
  BY AimedSteps DEF Init, OutInv
<1>15. BrokerInv
  BY DEF Init, BrokerInv, NoHandle, Place
<1>16. PeerInv
  BY DEF Init, PeerInv, NoCrossing
<1> QED BY <1>13, <1>14, <1>15, <1>16 DEF AimInv, AimedInv

(* What a guest asks for.                                                     *)
LEMMA AimGuest ==
    ASSUME AimInv, NEW f \in Fiber, Guest(f)
    PROVE  AimedInv'
<1>0. OutInv /\ TableInv /\ BrokerInv
  BY DEF AimInv, AimedInv
<1>1. ASSUME NEW t \in Topic, NEW m \in Mode, Emit(f, t, m) PROVE AimedInv'
  <2>1. OutInv'
    BY <1>1, EmitAimed
  <2>2. UNCHANGED <<tableVars, seat, owed, brokerVars>>
    BY <1>1 DEF Emit
  <2> QED BY <1>0, <2>1, <2>2 DEF AimedInv, TableInv, BrokerInv, tableVars, brokerVars
<1>2. ASSUME NEW t \in Topic, Listen(f, t) PROVE AimedInv'
  <2>1. TableInv'
    BY <1>0, <1>2, ListenTable
  <2>2. UNCHANGED <<out, brokerVars>>
    BY <1>2 DEF Listen
  <2> QED BY <1>0, <2>1, <2>2 DEF AimedInv, OutInv, BrokerInv, brokerVars
<1>3. CASE Provide(f)
  <2>1. BrokerInv'
    BY <1>0, <1>3, ProvideBroker
  <2>2. UNCHANGED <<tableVars, seat, out, owed>>
    BY <1>3 DEF Provide
  <2> QED BY <1>0, <2>1, <2>2 DEF AimedInv, OutInv, TableInv, tableVars
<1>4. CASE Resolve(f)
  <2>1. BrokerInv'
    BY <1>0, <1>4, ResolveBroker
  <2>2. UNCHANGED <<tableVars, seat, out, owed>>
    BY <1>4 DEF Resolve
  <2> QED BY <1>0, <2>1, <2>2 DEF AimedInv, OutInv, TableInv, tableVars
<1>5. CASE Call(f)
  <2>1. OutInv'
    BY <1>5, CallAimed
  <2>2. UNCHANGED <<tableVars, seat, owed, brokerVars>>
    BY <1>5 DEF Call
  <2> QED BY <1>0, <2>1, <2>2 DEF AimedInv, TableInv, BrokerInv, tableVars, brokerVars
<1> QED BY <1>1, <1>2, <1>3, <1>4, <1>5 DEF Guest

(* What the kernel does for it.                                               *)
LEMMA AimKernel ==
    ASSUME AimInv, NEW f \in Fiber, Kernel(f)
    PROVE  AimedInv'
<1>0. OutInv /\ TableInv /\ BrokerInv
  BY DEF AimInv, AimedInv
<1>1. CASE Serve(f)
  <2>1. UNCHANGED <<tableVars, seat, out, owed, brokerVars>>
    BY <1>1 DEF Serve
  <2> QED BY <1>0, <2>1 DEF AimedInv, OutInv, TableInv, BrokerInv, tableVars, brokerVars
<1>2. CASE Return(f) \/ Refuse(f) \/ Park(f) \/ Decide(f) \/ Finish(f)
  <2>1. OutInv'
    BY <1>0, <1>2, AnswerSteps, WalkSteps
  <2>2. UNCHANGED <<tableVars, seat, owed, brokerVars>>
    BY <1>2 DEF Return, Refuse, Park, Decide, Finish
  <2> QED BY <1>0, <2>1, <2>2 DEF AimedInv, TableInv, BrokerInv, tableVars, brokerVars
<1>3. ASSUME NEW T \in SUBSET Topic, Land(f, T) PROVE AimedInv'
  <2>1. TableInv'
    BY <1>0, <1>3, LandTable
  <2>2. UNCHANGED <<out, brokerVars>>
    BY <1>3 DEF Land
  <2> QED BY <1>0, <2>1, <2>2 DEF AimedInv, OutInv, BrokerInv, brokerVars
<1>4. CASE Fail(f)
  <2>1. TableInv'
    BY <1>0, <1>4, LeavingTable
  <2>2. RemovePeer(f) /\ UNCHANGED out
    BY <1>4 DEF Fail
  <2>3. BrokerInv'
    BY <1>0, <2>2, RemovePeerBroker
  <2> QED BY <1>0, <2>1, <2>2, <2>3 DEF AimedInv, OutInv
<1>5. CASE ParkCall(f) \/ Cross(f)
  <2>1. OutInv'
    BY <1>5, CallSteps
  <2>2. UNCHANGED <<tableVars, seat, owed, brokerVars>>
    BY <1>5 DEF ParkCall, Cross
  <2> QED BY <1>0, <2>1, <2>2 DEF AimedInv, TableInv, BrokerInv, tableVars, brokerVars
<1> QED BY <1>1, <1>2, <1>3, <1>4, <1>5 DEF Kernel

(* Whoever an expiry or a late delivery ends is a fiber.                      *)
LEMMA KilledIsFiber ==
    ASSUME OutInv, NEW f \in Fiber, Expire(f) \/ Abort(f)
    PROVE  \E g \in Fiber : Kill(g)
<1>1. CASE Expire(f)
  BY <1>1 DEF Expire
<1>2. CASE Abort(f)
  <2>1. Awaiting(f) # NoPeer /\ Kill(Awaiting(f).fiber)
    BY <1>2 DEF Abort
  <2>2. out[f] \in Crossing
    BY DEF OutInv
  <2>3. out[f].kind = "walk" /\ out[f].todo # <<>> /\ Awaiting(f) = Head(out[f].todo)
    BY <1>2, <2>1 DEF Abort, Awaiting
  <2>4. out[f].todo \in Seq(Peer)
    BY <2>2, <2>3, CrossingKinds, WalkFields
  <2>5. Awaiting(f) \in Peer
    BY <2>3, <2>4
  <2> QED BY <2>1, <2>5 DEF Peer
<1> QED BY <1>1, <1>2

(* What happens to it.                                                        *)
LEMMA AimLife ==
    ASSUME AimInv, NEW f \in Fiber, Life(f)
    PROVE  AimedInv'
<1>0. OutInv /\ TableInv /\ BrokerInv
  BY DEF AimInv, AimedInv
<1>1. CASE OwnEntry(f)
  <2>1. UNCHANGED <<tableVars, seat, out, owed, brokerVars>>
    BY <1>1 DEF OwnEntry
  <2> QED BY <1>0, <2>1 DEF AimedInv, OutInv, TableInv, BrokerInv, tableVars, brokerVars
<1>2. CASE Expire(f) \/ Abort(f)
  <2>1. \E g \in Fiber : Kill(g)
    BY <1>0, <1>2, KilledIsFiber
  <2>2. UNCHANGED <<tableVars, owed, brokerVars>>
    BY <1>2 DEF Expire, Abort
  <2>3. TableInv' /\ OutInv'
    BY <1>0, <2>1, <2>2, SeatSteps, KillAimed
  <2> QED BY <1>0, <2>2, <2>3 DEF AimedInv, BrokerInv, brokerVars
<1>3. ASSUME NEW what \in {"Reload", "Disposal"}, Owe(f, what) PROVE AimedInv'
  <2>1. /\ owed' = [owed EXCEPT ![f] = what] /\ owed[f] = "Nothing"
        /\ UNCHANGED <<tableVars, seat, out, brokerVars>>
    BY <1>3 DEF Owe
  <2>2. TableInv'
    BY <1>0, <2>1, OwedChange
  <2> QED BY <1>0, <2>1, <2>2 DEF AimedInv, OutInv, BrokerInv, brokerVars
<1>4. CASE Close(f) \/ Arrive(f)
  <2>1. UNCHANGED <<tableVars, out, owed, brokerVars>>
    BY <1>4 DEF Close, Arrive
  <2>2. TableInv'
    BY <1>0, <1>4, <2>1, SeatSteps
  <2> QED BY <1>0, <2>1, <2>2 DEF AimedInv, OutInv, BrokerInv, brokerVars
<1>5. CASE Suspend(f) \/ Retire(f)
  <2>1. TableInv'
    BY <1>0, <1>5, SuspendTable, LeavingTable
  <2>2. RemovePeer(f) /\ UNCHANGED out
    BY <1>5 DEF Suspend, Retire
  <2>3. BrokerInv'
    BY <1>0, <2>2, RemovePeerBroker
  <2> QED BY <1>0, <2>1, <2>2, <2>3 DEF AimedInv, OutInv
<1>6. CASE Settle(f)
  <2>1. /\ owed' = [owed EXCEPT ![f] = "Nothing"] /\ owed[f] = "Rest"
        /\ UNCHANGED <<tableVars, seat, out, brokerVars>>
    BY <1>6 DEF Settle
  <2>2. TableInv'
    BY <1>0, <2>1, OwedChange
  <2> QED BY <1>0, <2>1, <2>2 DEF AimedInv, OutInv, BrokerInv, brokerVars
<1>7. CASE EndTombstones(f)
  <2>1. TableInv'
    BY <1>0, <1>7, LeavingTable
  <2>2. UNCHANGED <<out, brokerVars>>
    BY <1>7 DEF EndTombstones
  <2> QED BY <1>0, <2>1, <2>2 DEF AimedInv, OutInv, BrokerInv, brokerVars
<1> QED BY <1>1, <1>2, <1>3, <1>4, <1>5, <1>6, <1>7 DEF Life

(* The calls another crossing leaves alone: f's is over, or is no call.       *)
LEMMA OthersStay ==
    ASSUME OutInv, NEW f \in Fiber, NEW y, y.kind # "call", out' = [out EXCEPT ![f] = y]
    PROVE  \A g \in Fiber : out'[g].kind = "call" => out[g].kind = "call" /\ out'[g].to = out[g].to
<1>1. \A g \in Fiber : out'[g] = IF g = f THEN y ELSE out[g]
  BY DEF OutInv
<1> QED BY <1>1

LEMMA AnsweredStay ==
    ASSUME OutInv, NEW G, \A g \in G : g \in Fiber => Awaiting(g) # NoPeer, NEW ok \in BOOLEAN,
           Answered(G, ok)
    PROVE  \A g \in Fiber : out'[g].kind = "call" => out[g].kind = "call" /\ out'[g].to = out[g].to
<1> SUFFICES ASSUME NEW g \in Fiber, out'[g].kind = "call"
             PROVE  out[g].kind = "call" /\ out'[g].to = out[g].to
  OBVIOUS
<1>1. out'[g] = IF g \in G THEN AfterAnswer(out[g], ok) ELSE out[g]
  BY DEF Answered
<1>2. CASE g \notin G
  BY <1>1, <1>2
<1>3. CASE g \in G
  <2>1. out[g].kind = "call" \/ (out[g].kind = "walk" /\ out[g].todo # <<>>)
    BY <1>3, AwaitingKind
  <2>2. CASE out[g].kind = "call"
    BY <1>1, <1>3, <2>2 DEF AfterAnswer, NoCrossing
  <2>3. CASE out[g].kind = "walk" /\ out[g].todo # <<>>
    <3> DEFINE x == out[g]
    <3>1. x \in Walking
      BY <2>3, CrossingKinds DEF OutInv
    <3>2. AfterAnswer(x, ok) = [x EXCEPT !.todo = IF ok /\ x.mode = "Bail" THEN <<>> ELSE Tail(@)]
      BY <2>3 DEF AfterAnswer
    <3>3. AfterAnswer(x, ok).kind = "walk"
      BY <3>1, <3>2 DEF Walking
    <3> QED BY <1>1, <1>3, <3>3
  <2> QED BY <2>1, <2>2, <2>3
<1> QED BY <1>2, <1>3

(* Every step keeps the provider present and no call ahead of its seat.       *)
LEMMA GuestPeers ==
    ASSUME AimInv, NEW f \in Fiber, Guest(f), OutInv'
    PROVE  PeerInv'
<1>0. OutInv /\ TableInv /\ BrokerInv /\ PeerInv
  BY DEF AimInv, AimedInv
<1>1. ASSUME NEW t \in Topic, NEW m \in Mode, Emit(f, t, m) PROVE PeerInv'
  <2> DEFINE live == Select(table, {r \in ToSet(table) : r.topic = t /\ ~r.tomb})
             tombs == {r \in ToSet(table) : r.topic = t /\ r.tomb /\ m # "Emit"}
             y == [kind |-> "walk", at |-> "park", mode |-> m,
                   park |-> PeersOf(live), todo |-> PeersOf(live),
                   fibers |-> {r.fiber : r \in ToSet(live)},
                   tombs |-> {r.fiber : r \in tombs},
                   due |-> {l[1] : l \in {k \in listening : k[2] = t}}]
  <2>1. out' = [out EXCEPT ![f] = y] /\ y.kind # "call"
    BY <1>1 DEF Emit
  <2> HIDE DEF y
  <2>2. UNCHANGED <<seat, provider>>
    BY <1>1 DEF Emit, brokerVars
  <2> QED BY <1>0, <2>1, <2>2, OthersStay, PeersStay
<1>2. CASE Resolve(f) \/ \E t \in Topic : Listen(f, t)
  <2>1. UNCHANGED <<out, seat, provider>>
    BY <1>2 DEF Resolve, Listen, brokerVars
  <2> QED BY <2>1, PeersStay
<1>3. CASE Provide(f)
  <2>1. provider'.peer = PeerOf(f) /\ seat' = seat /\ out' = out /\ seat[f].state # "none"
    BY <1>3 DEF Provide
  <2>2. provider'.peer.fiber = f /\ provider'.peer.inc = seat[f].inc
    BY <2>1 DEF PeerOf
  <2>3. (\A g \in Fiber : seat[g].inc <= seat'[g].inc) /\ seat' \in [Fiber -> Seat]
    BY <1>0, <2>1 DEF TableInv, Seat
  <2> QED BY <1>0, <2>1, <2>2, <2>3, PeersStand
<1>4. CASE Call(f)
  <2> DEFINE y == [kind |-> "call", at |-> "checked", to |-> provider.peer, resolved |-> handle[f].to]
  <2>1. out' = [out EXCEPT ![f] = y] /\ UNCHANGED <<seat, provider>> /\ provider.peer # NoPeer
    BY <1>4 DEF Call, brokerVars
  <2>2. y.to.inc = seat[y.to.fiber].inc
    BY <1>0, <2>1 DEF PeerInv
  <2> HIDE DEF y
  <2>3. \A g \in Fiber : out'[g] = IF g = f THEN y ELSE out[g]
    BY <1>0, <2>1 DEF OutInv
  <2> QED BY <2>1, <2>2, <2>3, PeersStay
<1> QED BY <1>1, <1>2, <1>3, <1>4 DEF Guest

LEMMA KernelPeers ==
    ASSUME AimInv, NEW f \in Fiber, Kernel(f), OutInv'
    PROVE  PeerInv'
<1>0. OutInv /\ TableInv /\ BrokerInv /\ PeerInv
  BY DEF AimInv, AimedInv
<1>1. CASE Serve(f)
  <2>1. UNCHANGED <<out, seat, provider>>
    BY <1>1 DEF Serve, brokerVars
  <2> QED BY <2>1, PeersStay
<1>2. CASE Return(f)
  <2> DEFINE G == {g \in Fiber : Served(g) /\ serving[f] = g}
  <2>1. Answered(G, TRUE) /\ UNCHANGED <<seat, provider>>
    BY <1>2 DEF Return, brokerVars
  <2>2. \A g \in G : Awaiting(g) # NoPeer
    BY DEF Served
  <2> HIDE DEF G
  <2> QED BY <1>0, <2>1, <2>2, AnsweredStay, PeersStay
<1>3. CASE Refuse(f)
  <2>1. Answered({f}, FALSE) /\ Awaiting(f) # NoPeer /\ UNCHANGED <<seat, provider>>
    BY <1>3 DEF Refuse, brokerVars
  <2> QED BY <1>0, <2>1, AnsweredStay, PeersStay
<1>4. CASE Park(f) \/ Decide(f) \/ Finish(f)
  <2> DEFINE x == out[f]
  <2>1. x \in Walking
    BY <1>0, <1>4, CrossingKinds DEF OutInv, Park, Decide, Finish
  <2>2. PICK y \in {NoCrossing, [x EXCEPT !.at = "decide"], [x EXCEPT !.at = "deliver"],
                    [x EXCEPT !.park = Tail(x.park)]} : out' = [out EXCEPT ![f] = y]
    BY <1>4 DEF Park, Decide, Finish, Drop
  <2>3. y.kind # "call"
    BY <2>1, <2>2 DEF Walking, NoCrossing
  <2>4. UNCHANGED <<seat, provider>>
    BY <1>4 DEF Park, Decide, Finish, brokerVars
  <2> QED BY <1>0, <2>2, <2>3, <2>4, OthersStay, PeersStay
<1>5. CASE ParkCall(f) \/ Cross(f)
  <2> DEFINE x == out[f]
             g == x.to.fiber
             y == [x EXCEPT !.at = "parked"]
             z == [x EXCEPT !.at = "sent", !.to = PeerOf(g)]
  <2>1. x \in Calling
    BY <1>0, <1>5, CrossingKinds DEF OutInv, ParkCall, Cross
  <2>2. y.to = x.to /\ z.to = PeerOf(g) /\ x.kind = "call"
    BY <2>1 DEF Calling
  <2>3. z.to.inc = seat[z.to.fiber].inc
    BY <2>2 DEF PeerOf
  <2>4. UNCHANGED <<seat, provider>>
    BY <1>5 DEF ParkCall, Cross, brokerVars
  <2>5. \/ out' = [out EXCEPT ![f] = NoCrossing] \/ out' = [out EXCEPT ![f] = y]
        \/ out' = [out EXCEPT ![f] = z]
    <3>1. CASE ParkCall(f)
      BY <3>1 DEF ParkCall
    <3>2. CASE Cross(f)
      BY <1>0, <3>2 DEF Cross, Drop, OutInv
    <3> QED BY <1>5, <3>1, <3>2
  <2> HIDE DEF y, z
  <2>6. ASSUME NEW h \in Fiber, out'[h].kind = "call"
        PROVE  \/ out[h].kind = "call" /\ out'[h].to = out[h].to
               \/ out'[h].to.inc = seat[out'[h].to.fiber].inc
    <3>1. CASE h # f
      BY <1>0, <2>5, <2>6, <3>1 DEF OutInv
    <3>2. CASE h = f
      <4>1. out'[f] \in {NoCrossing, y, z}
        BY <1>0, <2>5 DEF OutInv
      <4>2. NoCrossing.kind # "call"
        BY DEF NoCrossing
      <4> QED BY <2>2, <2>3, <2>6, <3>2, <4>1, <4>2
    <3> QED BY <3>1, <3>2
  <2> QED BY <2>4, <2>6, PeersStay
<1>6. CASE (\E T \in SUBSET Topic : Land(f, T)) \/ Fail(f)
  <2>1. UNCHANGED out /\ seat[f] \in Seat
    BY <1>0, <1>6 DEF Land, Fail, TableInv
  <2>2. CASE Fail(f)
    <3> DEFINE t == [seat[f] EXCEPT !.state = "none"]
    <3>1. seat' = [seat EXCEPT ![f] = t] /\ RemovePeer(f)
      BY <2>2 DEF Fail
    <3>2. t \in Seat /\ seat[f].inc <= t.inc
      BY <2>1 DEF Seat
    <3> HIDE DEF t
    <3> QED BY <2>1, <3>1, <3>2, PeersMove
  <2>3. CASE \E T \in SUBSET Topic : Land(f, T)
    <3> DEFINE t == [seat[f] EXCEPT !.state = "live"]
    <3>1. seat' = [seat EXCEPT ![f] = t] /\ provider' = provider
      BY <2>3 DEF Land, brokerVars
    <3>2. t \in Seat /\ t.state # "none" /\ t.inc = seat[f].inc /\ seat[f].inc <= t.inc
      BY <2>1 DEF Seat
    <3> HIDE DEF t
    <3> QED BY <2>1, <3>1, <3>2, PeersMove
  <2> QED BY <1>6, <2>2, <2>3
<1> QED BY <1>1, <1>2, <1>3, <1>4, <1>5, <1>6 DEF Kernel

LEMMA LifePeers ==
    ASSUME AimInv, NEW f \in Fiber, Life(f), OutInv'
    PROVE  PeerInv'
<1>0. OutInv /\ TableInv /\ BrokerInv /\ PeerInv
  BY DEF AimInv, AimedInv
<1>1. CASE OwnEntry(f) \/ Owe(f, "Reload") \/ Owe(f, "Disposal") \/ Settle(f) \/ EndTombstones(f)
  <2>1. UNCHANGED <<out, seat, provider>>
    BY <1>1 DEF OwnEntry, Owe, Settle, EndTombstones, brokerVars
  <2> QED BY <2>1, PeersStay
<1>2. CASE Expire(f) \/ Abort(f)
  <2>1. PICK g \in Fiber : Kill(g)
    BY <1>0, <1>2, KilledIsFiber
  <2>2. provider' = provider
    BY <1>2 DEF Expire, Abort, brokerVars
  <2>3. seat[g] \in Seat /\ out' = [out EXCEPT ![g] = NoCrossing] /\ NoCrossing.kind # "call"
    BY <1>0, <2>1 DEF Kill, TableInv, NoCrossing
  <2> DEFINE t == [seat[g] EXCEPT !.state = "dead"]
  <2>4. seat' = [seat EXCEPT ![g] = t]
    BY <2>1 DEF Kill
  <2>5. t \in Seat /\ t.state # "none" /\ t.inc = seat[g].inc /\ seat[g].inc <= t.inc
    BY <2>3 DEF Seat
  <2> HIDE DEF t
  <2>6. \A h \in Fiber : out'[h].kind = "call" => out[h].kind = "call" /\ out'[h].to = out[h].to
    BY <1>0, <2>3, OthersStay
  <2> QED BY <2>2, <2>4, <2>5, <2>6, PeersMove
<1>3. CASE Close(f)
  <2> DEFINE t == [seat[f] EXCEPT !.state = "closing"]
  <2>1. seat' = [seat EXCEPT ![f] = t] /\ UNCHANGED <<out, provider>>
    BY <1>3 DEF Close, brokerVars
  <2>2. t \in Seat /\ t.state # "none" /\ t.inc = seat[f].inc /\ seat[f].inc <= t.inc
    BY <1>0 DEF Seat, TableInv
  <2> HIDE DEF t
  <2> QED BY <2>1, <2>2, PeersMove
<1>4. CASE Suspend(f) \/ Retire(f)
  <2> DEFINE t == [seat[f] EXCEPT !.state = "none"]
  <2>1. seat' = [seat EXCEPT ![f] = t] /\ RemovePeer(f) /\ UNCHANGED out
    BY <1>4 DEF Suspend, Retire
  <2>2. t \in Seat /\ seat[f].inc <= t.inc
    BY <1>0 DEF Seat, TableInv
  <2> HIDE DEF t
  <2> QED BY <2>1, <2>2, PeersMove
<1>5. CASE Arrive(f)
  <2> DEFINE t == [inc |-> seat[f].inc + 1, state |-> IF seat[f].inc = 0 THEN "arriving" ELSE "staged"]
  <2>1. seat' = [seat EXCEPT ![f] = t] /\ UNCHANGED <<out, provider>> /\ seat[f].state = "none"
    BY <1>5 DEF Arrive, brokerVars
  <2>2. seat[f] \in Seat
    BY <1>0 DEF TableInv
  <2>3. t \in Seat /\ t.state # "none" /\ seat[f].inc <= t.inc
    BY <2>2 DEF Seat
  <2> HIDE DEF t
  <2> QED BY <2>1, <2>3, PeersMove
<1> QED BY <1>1, <1>2, <1>3, <1>4, <1>5 DEF Life

LEMMA AimStep == AimInv /\ [Next]_vars => AimInv'
<1>1. CASE AimInv /\ Next
  <2>1. PICK f \in Fiber : Guest(f) \/ Kernel(f) \/ Life(f)
    BY <1>1 DEF Next
  <2>2. AimedInv'
    BY <1>1, <2>1, AimGuest, AimKernel, AimLife
  <2>3. PeerInv'
    BY <1>1, <2>1, <2>2, GuestPeers, KernelPeers, LifePeers DEF AimedInv
  <2> QED BY <2>2, <2>3 DEF AimInv
<1>2. CASE AimInv /\ UNCHANGED vars
  BY <1>2 DEF vars, AimInv, AimedInv, OutInv, TableInv, BrokerInv, PeerInv
<1> QED BY <1>1, <1>2

(* For every set of fibers and topics and every history of deaths and         *)
(* restarts, a reply-expecting walk that is delivered reaches everyone who    *)
(* was subscribed when it selected, and a call lands at the peer its handle   *)
(* was resolved against or, once that peer no longer provides, at a later     *)
(* incarnation of its fiber (topics.rs select and decide, tombstone.rs entomb *)
(* and rebind, broker/calls.rs call_or_refuse, slot/peer_face.rs).            *)
THEOREM CrossingsLand == Spec => []LandsWhereAimed
<1>1. AimInv => LandsWhereAimed
  <2> SUFFICES ASSUME AimInv PROVE LandsWhereAimed
    OBVIOUS
  <2>1. OutInv /\ TableInv /\ PeerInv /\ \A f \in Fiber : Aimed(out[f])
    BY DEF AimInv, AimedInv, OutInv
  <2>2. NeverToNobody
    BY <2>1 DEF Aimed, NeverToNobody
  <2>3. ASSUME NEW f \in Fiber, out[f].kind = "call", out[f].to # out[f].resolved
        PROVE  /\ out[f].at = "sent" /\ out[f].to.fiber = out[f].resolved.fiber
               /\ out[f].to.inc > out[f].resolved.inc /\ provider.peer # out[f].resolved
    <3> DEFINE to == out[f].to  aimed == out[f].resolved
    <3>1. out[f] \in Calling
      BY <2>1, <2>3, CrossingKinds DEF OutInv
    <3>2. to \in Peer /\ aimed \in Peer
      BY <3>1 DEF Calling
    <3>3. out[f].at = "sent" /\ to.fiber = aimed.fiber /\ to.inc > aimed.inc
      BY <2>1, <2>3 DEF Aimed
    <3>4. to.fiber \in Fiber /\ to.inc \in Nat /\ aimed.inc \in Nat /\ seat[to.fiber].inc \in Nat
      BY <2>1, <3>2 DEF Peer, TableInv, Seat
    <3>5. to.inc <= seat[to.fiber].inc
      BY <2>1, <2>3 DEF PeerInv
    <3>6. aimed # NoPeer
      BY <3>2, CrossingConstants DEF Peer, NoPeer
    <3>7. provider.peer # aimed
      BY <2>1, <3>3, <3>4, <3>5, <3>6 DEF PeerInv
    <3> QED BY <3>3, <3>7
  <2>4. HandleNeverRetargets
    BY <2>3 DEF HandleNeverRetargets
  <2> QED BY <2>2, <2>4 DEF LandsWhereAimed
<1> QED BY <1>1, AimInit, AimStep, PTL DEF Spec
=============================================================================
