--------------------------- MODULE RegistryProofs ---------------------------
(***************************************************************************)
(* Theorems about the service registry, for every context tree, every set  *)
(* of provisions and of consumers and every number of activations and of   *)
(* vitality reports: dependents go first, a cell is open exactly while it  *)
(* is current, every lease is counted, and a settled readiness signal is   *)
(* the one the slots give.                                                 *)
(***************************************************************************)
EXTENDS Registry, SequenceFacts

-----------------------------------------------------------------------------
(* Type correctness. *)

WatcherState == [at : {"first", "subscribing", "parked", "computing"}, walk : WalkState]

BodyState == [at : {"idle", "locating", "leasing", "active", "releasing", "returned"},
              epoch : Epoch, walk : WalkState, located : Provision \union {None},
              guards : Seq(Provision), runs : 0..MaxActivations]

(* Where a provision is made and where a walk probes are slots.             *)
LEMMA SlotFacts ==
    /\ \A p \in Provision : At[p] \in Slot
    /\ \A c \in Consumer : \A i \in DOMAIN Walks[c] : \A j \in DOMAIN Walks[c][i] :
          Walks[c][i][j] \in Slot
<1>1. \A p \in Provision : At[p] \in Slot
  BY DEF Slot
<1>2. ASSUME NEW c \in Consumer, NEW i \in DOMAIN Walks[c], NEW j \in DOMAIN Walks[c][i]
      PROVE  Walks[c][i][j] \in Slot
  <2>1. Walks[c][i][j] \in {Walks[c][i][k] : k \in DOMAIN Walks[c][i]}
    BY Zenon
  <2>2. {Walks[c][i][k] : k \in DOMAIN Walks[c][i]} \subseteq Probed(c)
    BY DEF Probed
  <2>3. Probed(c) \subseteq Slot
    BY DEF Slot
  <2> QED BY <2>1, <2>2, <2>3, Zenon
<1> QED BY <1>1, <1>2, Zenon

(* A walk that is not over stands at a slot.                                *)
LEMMA FrameFacts ==
    ASSUME TypeOK, NEW c \in Consumer, NEW walk, InWalk(c, walk)
    PROVE  /\ Frame(c, walk) \in Slot
           /\ slots[Frame(c, walk)] \in Provision \union {None}
<1>1. Frame(c, walk) \in Slot
  BY SlotFacts, Zenon DEF InWalk, Frame
<1> QED BY <1>1, Zenon DEF TypeOK

(* The places of a walk.                                                    *)
LEMMA WalkTypes ==
    /\ Start \in WalkState
    /\ \A walk \in WalkState : NextFrame(walk) \in WalkState
    /\ \A walk \in WalkState, p \in Provision : NextService(walk, p) \in WalkState
<1>1. Start \in WalkState
  BY DEF Start, WalkState
<1>2. ASSUME NEW walk \in WalkState PROVE NextFrame(walk) \in WalkState
  BY DEF NextFrame, WalkState
<1>3. ASSUME NEW walk \in WalkState, NEW p \in Provision
      PROVE  NextService(walk, p) \in WalkState
  <2>1. walk.service \in Nat /\ walk.found \in Seq(Provision)
    BY DEF WalkState
  <2>2. walk.service + 1 \in Nat /\ Append(walk.found, p) \in Seq(Provision) /\ 1 \in Nat
    BY <2>1
  <2> QED BY <2>2, Zenon DEF NextService, WalkState
<1> QED BY <1>1, <1>2, <1>3

(* An activation that changes one field at a time.                          *)
LEMMA BodyTypes ==
    ASSUME NEW b \in BodyState
    PROVE  /\ AtRest(b) \in BodyState
           /\ [b EXCEPT !.at = "releasing"] \in BodyState
           /\ \A walk \in WalkState : [b EXCEPT !.walk = walk] \in BodyState
           /\ \A p \in Provision : [b EXCEPT !.at = "leasing", !.located = p] \in BodyState
           /\ b.guards # <<>> =>
                [b EXCEPT !.at = "returned", !.guards = Tail(b.guards)] \in BodyState
<1>1. /\ b.guards \in Seq(Provision) /\ b.runs \in 0..MaxActivations
      /\ b.epoch \in Epoch /\ b.walk \in WalkState /\ b.located \in Provision \union {None}
      /\ b.at \in {"idle", "locating", "leasing", "active", "releasing", "returned"}
      /\ b = [at |-> b.at, epoch |-> b.epoch, walk |-> b.walk, located |-> b.located,
              guards |-> b.guards, runs |-> b.runs]
  BY Zenon DEF BodyState
<1>2. b.guards # <<>> => Tail(b.guards) \in Seq(Provision)
  BY <1>1
<1>3. None \in Epoch /\ Start \in WalkState
  BY WalkTypes, Zenon DEF Epoch
<1>4. AtRest(b) \in BodyState
  BY <1>1, <1>3, Zenon DEF AtRest, BodyState
<1>5. [b EXCEPT !.at = "releasing"] \in BodyState
  BY <1>1, Zenon DEF BodyState
<1>6. \A walk \in WalkState : [b EXCEPT !.walk = walk] \in BodyState
  BY <1>1, Zenon DEF BodyState
<1>7. \A p \in Provision : [b EXCEPT !.at = "leasing", !.located = p] \in BodyState
  BY <1>1, Zenon DEF BodyState
<1>8. b.guards # <<>> =>
         [b EXCEPT !.at = "returned", !.guards = Tail(b.guards)] \in BodyState
  BY <1>1, <1>2, Zenon DEF BodyState
<1> QED BY <1>4, <1>5, <1>6, <1>7, <1>8, Zenon

(* What an activation holds: nothing at rest, something when it stands or     *)
(* returns its leases, a located provider when it leases.                     *)
GuardInv ==
    \A c \in Consumer :
      /\ body[c].at = "idle" => body[c].guards = <<>>
      /\ body[c].at \in {"releasing", "active"} => body[c].guards # <<>>
      /\ body[c].at = "leasing" => body[c].located # None

(* The fields of an activation.                                               *)
LEMMA BodyFields ==
    ASSUME TypeOK, NEW c \in Consumer
    PROVE  /\ body[c] \in BodyState
           /\ body[c].at \in {"idle", "locating", "leasing", "active", "releasing", "returned"}
           /\ body[c].epoch \in Epoch /\ body[c].walk \in WalkState
           /\ body[c].located \in Provision \union {None}
           /\ body[c].guards \in Seq(Provision) /\ body[c].runs \in 0..MaxActivations
           /\ watcher[c].walk \in WalkState
           /\ watcher[c].at \in {"first", "subscribing", "parked", "computing"}
<1>1. body[c] \in BodyState
  BY Zenon DEF TypeOK, BodyState
<1>2. watcher[c] \in WatcherState
  BY Zenon DEF TypeOK, WatcherState
<1> QED BY <1>1, <1>2, Zenon DEF BodyState, WatcherState

(* The fields of a lease cell.                                                *)
LEMMA CellFields ==
    ASSUME TypeOK, NEW p \in Provision
    PROVE  leases[p].active \in Nat /\ leases[p].closed \in BOOLEAN
BY Zenon DEF TypeOK

(* The variables that TypeOK speaks of and a provider's step may change.      *)
LEMMA ProviderTypes ==
    ASSUME TypeOK, NEW p \in Provision,
           \/ Refused(p) \/ Insert(p) \/ Announce(p) \/ ReportVitality(p)
           \/ (\E from \in {"drain", "undo"} : RemoveIf(p, from)) \/ WithdrawalStep(p)
    PROVE  TypeOK'
<1>0. /\ slots \in [Slot -> Provision \union {None}]
      /\ leases \in [Provision -> [active : Nat, closed : BOOLEAN]]
      /\ vital \in [Provision -> BOOLEAN]
      /\ reports \in 0..MaxReports
      /\ edge \in [Subscriber -> BOOLEAN]
      /\ stage \in [Provision -> Stage]
      /\ phase \in [Provision -> {"drain", "undo"}]
      /\ missed \in [Consumer -> BOOLEAN]
  BY Zenon DEF TypeOK
<1>w. /\ watcher \in [Consumer -> [at : {"first", "subscribing", "parked", "computing"},
                                   walk : WalkState]]
      /\ published \in [Consumer -> Epoch]
      /\ body \in [Consumer -> [at : {"idle", "locating", "leasing", "active",
                                    "releasing", "returned"},
                              epoch : Epoch, walk : WalkState,
                              located : Provision \union {None},
                              guards : Seq(Provision), runs : 0..MaxActivations]]
      /\ blocked \in [Consumer -> Epoch]
  BY Zenon DEF TypeOK
<1>s. {"idle", "refused", "unannounced", "live", "removed", "closed", "waiting",
       "inverses", "gone"} = Stage
  BY DEF Stage
<1>changed. Changed => missed' \in [Consumer -> BOOLEAN]
  BY <1>0 DEF Changed
<1>bump. Bump => edge' \in [Subscriber -> BOOLEAN]
  BY DEF Bump, Subscribed
<1>at. At[p] \in Slot
  BY SlotFacts, Zenon
<1>1. CASE Refused(p)
  <2>1. stage' \in [Provision -> Stage]
    BY <1>0, <1>1, <1>s DEF Refused
  <2> QED BY <1>0, <1>w, <1>1, <2>1, Zenon DEF Refused, TypeOK, storeVars, watcherVars, bodyVars
<1>2. CASE Insert(p)
  <2>1. stage' \in [Provision -> Stage] /\ slots' \in [Slot -> Provision \union {None}]
    BY <1>0, <1>2, <1>s, <1>at DEF Insert
  <2>2. leases' \in [Provision -> [active : Nat, closed : BOOLEAN]]
    BY <1>0, <1>2 DEF Insert
  <2>3. missed' \in [Consumer -> BOOLEAN]
    BY <1>2, <1>changed DEF Insert
  <2> QED BY <1>0, <1>w, <1>2, <2>1, <2>2, <2>3, Zenon DEF Insert, TypeOK, bodyVars
<1>3. CASE Announce(p) \/ AnnounceRemoval(p)
  <2>1. stage' \in [Provision -> Stage]
    BY <1>0, <1>3, <1>s DEF Announce, AnnounceRemoval
  <2>2. edge' \in [Subscriber -> BOOLEAN]
    BY <1>3, <1>bump DEF Announce, AnnounceRemoval
  <2> QED BY <1>0, <1>w, <1>3, <2>1, <2>2, Zenon
          DEF Announce, AnnounceRemoval, TypeOK, storeVars, watcherVars, bodyVars
<1>4. CASE ReportVitality(p)
  <2>1. stage' \in [Provision -> Stage] /\ vital' \in [Provision -> BOOLEAN]
    BY <1>0, <1>4, <1>s DEF ReportVitality
  <2>2. reports' \in 0..MaxReports
    BY <1>0, <1>4, RegistryConstants DEF ReportVitality
  <2>3. missed' \in [Consumer -> BOOLEAN]
    BY <1>4, <1>changed DEF ReportVitality
  <2> QED BY <1>0, <1>w, <1>4, <2>1, <2>2, <2>3, Zenon DEF ReportVitality, TypeOK, bodyVars
<1>5. ASSUME NEW from \in {"drain", "undo"}, RemoveIf(p, from) PROVE TypeOK'
  <2>1. stage' \in [Provision -> Stage] /\ slots' \in [Slot -> Provision \union {None}]
    BY <1>0, <1>5, <1>s, <1>at DEF RemoveIf
  <2>2. leases' \in [Provision -> [active : Nat, closed : BOOLEAN]]
    BY <1>0, <1>5 DEF RemoveIf
  <2>3. missed' \in [Consumer -> BOOLEAN]
    BY <1>0, <1>5, <1>changed DEF RemoveIf
  <2>4. phase' \in [Provision -> {"drain", "undo"}]
    BY <1>0, <1>5 DEF RemoveIf
  <2>5. UNCHANGED <<vital, reports, edge, watcher, published, body, blocked>>
    BY <1>5 DEF RemoveIf, bodyVars
  <2> QED BY <1>0, <1>w, <2>1, <2>2, <2>3, <2>4, <2>5, Zenon DEF TypeOK
<1>6. CASE Subscribe(p) \/ Woken(p)
  <2>1. stage' \in [Provision -> Stage]
    BY <1>0, <1>6, <1>s DEF Subscribe, Woken, Read
  <2>2. edge' \in [Subscriber -> BOOLEAN]
    BY <1>0, <1>6 DEF Subscribe, Woken
  <2> QED BY <1>0, <1>w, <1>6, <2>1, <2>2, Zenon
          DEF Subscribe, Woken, TypeOK, storeVars, watcherVars, bodyVars
<1> QED BY <1>1, <1>2, <1>3, <1>4, <1>5, <1>6, Zenon DEF WithdrawalStep

(* The same for a watcher's step.                                             *)
LEMMA WatcherTypes ==
    ASSUME TypeOK, NEW c \in Consumer, WatcherStep(c)
    PROVE  TypeOK'
<1>0. /\ watcher \in [Consumer -> WatcherState] /\ watcher[c] \in WatcherState
      /\ published \in [Consumer -> Epoch] /\ missed \in [Consumer -> BOOLEAN]
      /\ edge \in [Subscriber -> BOOLEAN]
  BY Zenon DEF TypeOK, WatcherState
<1>1. watcher[c].walk \in WalkState
  BY BodyFields, Zenon
<1>2. UNCHANGED <<slots, leases, vital, reports, stage, phase, body, blocked>>
  BY Zenon DEF WatcherStep, Probe, Located, PublishFirst, SubscribeWatcher, WakeWatcher,
               Publish, storeVars, providerVars, bodyVars
<1>set. \A w \in WatcherState : [watcher EXCEPT ![c] = w] \in [Consumer -> WatcherState]
  BY <1>0, Zenon
<1>walk. \A walk \in WalkState : [watcher[c] EXCEPT !.walk = walk] \in WatcherState
  BY <1>0, Zenon DEF WatcherState
<1>3. watcher' \in [Consumer -> WatcherState]
  <2>1. CASE Probe(c)
    BY <1>1, <1>set, <1>walk, <2>1, WalkTypes, Zenon DEF Probe
  <2>2. CASE Located(c)
    <3>1. PICK p : /\ InWalk(c, watcher[c].walk) /\ p = slots[Frame(c, watcher[c].walk)]
                   /\ p # None
                   /\ watcher' = [watcher EXCEPT ![c].walk = NextService(watcher[c].walk, p)]
      BY <2>2, Zenon DEF Located
    <3>2. p \in Provision
      BY <3>1, FrameFacts, Zenon
    <3> QED BY <1>1, <1>set, <1>walk, <3>1, <3>2, WalkTypes, Zenon
  <2>3. CASE PublishFirst(c) \/ WakeWatcher(c) \/ Publish(c)
    <3>1. \A a \in {"subscribing", "computing", "parked"} :
            [at |-> a, walk |-> Start] \in WatcherState
      BY WalkTypes, Zenon DEF WatcherState
    <3> QED BY <1>set, <2>3, <3>1, Zenon DEF PublishFirst, WakeWatcher, Publish
  <2>4. CASE SubscribeWatcher(c)
    <3>1. [watcher[c] EXCEPT !.at = "parked"] \in WatcherState
      BY <1>0, Zenon DEF WatcherState
    <3> QED BY <1>set, <2>4, <3>1, Zenon DEF SubscribeWatcher
  <2> QED BY <2>1, <2>2, <2>3, <2>4, Zenon DEF WatcherStep
<1>4. Computed(c) \in Epoch
  BY <1>1, Zenon DEF Computed, Epoch, WalkState
<1>5. published' \in [Consumer -> Epoch]
  BY <1>0, <1>4, Zenon DEF WatcherStep, Probe, Located, PublishFirst, SubscribeWatcher,
                           WakeWatcher, Publish
<1>6. missed' \in [Consumer -> BOOLEAN] /\ edge' \in [Subscriber -> BOOLEAN]
  BY <1>0, Zenon DEF WatcherStep, Probe, Located, PublishFirst, SubscribeWatcher,
                     WakeWatcher, Publish
<1> QED BY <1>2, <1>3, <1>5, <1>6, Zenon DEF TypeOK, WatcherState

-----------------------------------------------------------------------------
(* The activations. *)

(* What an activation's field GuardInv speaks of.                             *)
Holding(b) ==
    /\ b.at = "idle" => b.guards = <<>>
    /\ b.at \in {"releasing", "active"} => b.guards # <<>>
    /\ b.at = "leasing" => b.located # None

(* The three things an activation's step does to the leases: nothing, one     *)
(* more on an open and current cell, or one less of what it holds.            *)
Keeps(c, b) == b.guards = body[c].guards /\ leases' = leases

Takes(c, b, p) ==
    /\ CanLease(p) /\ b.guards = Append(body[c].guards, p)
    /\ leases' = [leases EXCEPT ![p].active = leases[p].active + 1]

Returns(c, b) ==
    /\ body[c].guards # <<>> /\ b.guards = Tail(body[c].guards)
    /\ leases' = [leases EXCEPT ![Head(body[c].guards)].active =
                     IF leases[Head(body[c].guards)].active = 0 THEN 0
                     ELSE leases[Head(body[c].guards)].active - 1]

ActivationStep(c) == Launch(c) \/ BodyStep(c) \/ Restart(c)

(* What each step of an activation leaves.                                    *)
LEMMA BodyMoves ==
    ASSUME TypeOK, GuardInv, NEW c \in Consumer, ActivationStep(c)
    PROVE  /\ \E b \in BodyState :
                /\ body' = [body EXCEPT ![c] = b] /\ Holding(b)
                /\ Keeps(c, b) \/ (\E p \in Provision : Takes(c, b, p)) \/ Returns(c, b)
           /\ blocked' \in [Consumer -> Epoch]
           /\ edge' = edge \/ Bump
           /\ UNCHANGED <<slots, vital, reports, stage, phase, watcher, published, missed>>
<1>0. /\ body \in [Consumer -> BodyState] /\ body[c] \in BodyState
      /\ blocked \in [Consumer -> Epoch] /\ published \in [Consumer -> Epoch]
      /\ blocked[c] \in Epoch /\ published[c] \in Epoch
  BY Zenon DEF TypeOK, BodyState
<1>b. /\ body[c].guards \in Seq(Provision) /\ body[c].runs \in 0..MaxActivations
      /\ body[c].epoch \in Epoch /\ body[c].walk \in WalkState
      /\ body[c].located \in Provision \union {None}
      /\ body[c].at \in {"idle", "locating", "leasing", "active", "releasing", "returned"}
  BY BodyFields, Zenon
<1>g. Holding(body[c])
  BY Zenon DEF GuardInv, Holding
<1>1. /\ edge' = edge \/ Bump
      /\ UNCHANGED <<slots, vital, reports, stage, phase, watcher, published, missed>>
  BY Zenon DEF ActivationStep, Launch, BodyStep, Restart, Locate, Lease, Missing, Unload,
               Release, AnnounceReturn, storeVars, providerVars, watcherVars
<1>2. blocked' \in [Consumer -> Epoch]
  <2>1. None \in Epoch
    BY DEF Epoch
  <2> QED BY <1>0, <1>b, <2>1, Zenon
          DEF ActivationStep, Launch, BodyStep, Restart, Locate, Lease, Missing, Unload,
              Release, AnnounceReturn
<1>3. CASE Launch(c)
  <2> DEFINE b == [at |-> "locating", epoch |-> published[c], walk |-> Start,
                   located |-> None, guards |-> <<>>, runs |-> body[c].runs + 1]
  <2>1. body' = [body EXCEPT ![c] = b] /\ leases' = leases /\ body[c].at = "idle"
        /\ body[c].runs < MaxActivations
    BY <1>3, Zenon DEF Launch, storeVars
  <2>2. body[c].runs + 1 \in 0..MaxActivations
    BY <1>b, <2>1, RegistryConstants
  <2>3. <<>> \in Seq(Provision)
    OBVIOUS
  <2>4. b \in BodyState
    BY <1>0, <2>2, <2>3, WalkTypes, Zenon DEF BodyState
  <2>5. /\ b.at # "idle" /\ b.at \notin {"releasing", "active"} /\ b.at # "leasing"
        /\ b.guards = <<>>
    OBVIOUS
  <2> HIDE DEF b
  <2>6. Holding(b) /\ Keeps(c, b)
    BY <1>g, <2>1, <2>5, Zenon DEF Holding, Keeps
  <2> QED BY <1>1, <1>2, <2>1, <2>4, <2>6, Zenon
<1>4. CASE Locate(c)
  <2>1. PICK p : /\ body[c].at = "locating" /\ InWalk(c, body[c].walk)
                 /\ p = slots[Frame(c, body[c].walk)]
                 /\ body' = IF p = None
                            THEN [body EXCEPT ![c].walk = NextFrame(body[c].walk)]
                            ELSE [body EXCEPT ![c].at = "leasing", ![c].located = p]
                 /\ leases' = leases
    BY <1>4, Zenon DEF Locate, storeVars
  <2>2. p \in Provision \union {None}
    BY <2>1, FrameFacts, Zenon
  <2>3. CASE p = None
    <3> DEFINE b == [body[c] EXCEPT !.walk = NextFrame(body[c].walk)]
    <3>1. body' = [body EXCEPT ![c] = b]
      BY <2>1, <2>3, Zenon
    <3>2. b \in BodyState
      BY <1>0, <1>b, BodyTypes, WalkTypes, Zenon
    <3>3. b.at = body[c].at /\ b.guards = body[c].guards /\ b.located = body[c].located
      BY <1>0, Zenon DEF BodyState
    <3> HIDE DEF b
    <3> QED BY <1>1, <1>2, <1>g, <2>1, <3>1, <3>2, <3>3, Zenon DEF Holding, Keeps
  <2>4. CASE p # None
    <3> DEFINE b == [body[c] EXCEPT !.at = "leasing", !.located = p]
    <3>1. body' = [body EXCEPT ![c] = b]
      BY <1>0, <2>1, <2>4, Zenon
    <3>2. b \in BodyState
      BY <1>0, <2>2, <2>4, BodyTypes, Zenon
    <3>3. b.at = "leasing" /\ b.guards = body[c].guards /\ b.located = p
      BY <1>0, Zenon DEF BodyState
    <3>4. b.at # "idle" /\ b.at \notin {"releasing", "active"}
      BY <3>3
    <3> HIDE DEF b
    <3> QED BY <1>1, <1>2, <2>1, <2>4, <3>1, <3>2, <3>3, <3>4, Zenon DEF Holding, Keeps
  <2> QED BY <2>3, <2>4
<1>5. CASE Lease(c)
  <2> DEFINE p == body[c].located
             walk == NextService(body[c].walk, p)
             to == IF AllFound(c, walk) THEN "active" ELSE "locating"
             b == [body[c] EXCEPT !.at = to, !.walk = walk, !.located = None,
                                  !.guards = Append(body[c].guards, p)]
  <2>1. /\ body[c].at = "leasing" /\ CanLease(p)
        /\ leases' = [leases EXCEPT ![p].active = leases[p].active + 1]
        /\ body' = [body EXCEPT ![c].at = to, ![c].walk = walk, ![c].located = None,
                                ![c].guards = Append(body[c].guards, p)]
    BY <1>5, Zenon DEF Lease
  <2>2. p \in Provision
    BY <1>b, <1>g, <2>1, Zenon DEF Holding
  <2>3. walk \in WalkState /\ to \in {"active", "locating"}
    BY <1>b, <2>2, WalkTypes, Zenon
  <2>4. Append(body[c].guards, p) \in Seq(Provision) /\ Append(body[c].guards, p) # <<>>
    BY <1>b, <2>2
  <2> HIDE DEF p, walk, to
  <2>5. body' = [body EXCEPT ![c] = b]
    BY <1>0, <2>1, Zenon
  <2>6. b \in BodyState
    BY <1>0, <1>b, <2>3, <2>4, Zenon DEF BodyState
  <2>7. b.at = to /\ b.guards = Append(body[c].guards, p)
    BY <1>0, Zenon DEF BodyState
  <2>8. to # "idle" /\ to # "leasing"
    BY <2>3
  <2> HIDE DEF b
  <2>9. Holding(b) /\ Takes(c, b, p)
    BY <2>1, <2>4, <2>7, <2>8, Zenon DEF Holding, Takes
  <2> QED BY <1>1, <1>2, <2>2, <2>5, <2>6, <2>9, Zenon
<1>6. ASSUME NEW b, body' = [body EXCEPT ![c] = b],
             b = IF body[c].guards = <<>> THEN AtRest(body[c])
                 ELSE [body[c] EXCEPT !.at = "releasing"]
      PROVE  b \in BodyState /\ Holding(b) /\ b.guards = body[c].guards
  <2>1. b \in BodyState
    BY <1>0, <1>6, BodyTypes, Zenon
  <2>2. b.guards = body[c].guards
    BY <1>0, <1>6, Zenon DEF BodyState, AtRest
  <2>3. CASE body[c].guards = <<>>
    <3>1. b.at = "idle"
      BY <1>0, <1>6, <2>3, Zenon DEF BodyState, AtRest
    <3>2. b.at # "leasing" /\ b.at \notin {"releasing", "active"}
      BY <3>1
    <3> QED BY <2>1, <2>2, <2>3, <3>2, Zenon DEF Holding
  <2>4. CASE body[c].guards # <<>>
    <3>1. b.at = "releasing"
      BY <1>0, <1>6, <2>4, Zenon DEF BodyState
    <3>2. b.at # "leasing" /\ b.at # "idle"
      BY <3>1
    <3> QED BY <2>1, <2>2, <2>4, <3>2, Zenon DEF Holding
  <2> QED BY <2>3, <2>4
<1>7. CASE Missing(c) \/ AnnounceReturn(c)
  <2>1. PICK b : /\ body' = [body EXCEPT ![c] = b]
                 /\ b = IF body[c].guards = <<>> THEN AtRest(body[c])
                        ELSE [body[c] EXCEPT !.at = "releasing"]
                 /\ leases' = leases
    BY <1>7, Zenon DEF Missing, AnnounceReturn, storeVars
  <2> QED BY <1>1, <1>2, <1>6, <2>1, Zenon DEF Keeps
<1>8. CASE Unload(c) \/ Restart(c)
  <2> DEFINE b == [body[c] EXCEPT !.at = "releasing"]
  <2>1. body[c].at = "active" /\ body' = [body EXCEPT ![c] = b] /\ leases' = leases
    BY <1>8, Zenon DEF Unload, Restart, storeVars
  <2>2. b \in BodyState
    BY <1>0, BodyTypes, Zenon
  <2>3. b.at = "releasing" /\ b.guards = body[c].guards
    BY <1>0, Zenon DEF BodyState
  <2>4. b.at # "leasing" /\ b.at # "idle" /\ body[c].at \in {"releasing", "active"}
    BY <2>1, <2>3
  <2> HIDE DEF b
  <2> QED BY <1>1, <1>2, <1>g, <2>1, <2>2, <2>3, <2>4, Zenon DEF Holding, Keeps
<1>9. CASE Release(c)
  <2> DEFINE b == [body[c] EXCEPT !.at = "returned", !.guards = Tail(body[c].guards)]
  <2>1. /\ body[c].at = "releasing"
        /\ body' = [body EXCEPT ![c].at = "returned", ![c].guards = Tail(body[c].guards)]
        /\ leases' = [leases EXCEPT ![Head(body[c].guards)].active =
                     IF leases[Head(body[c].guards)].active = 0 THEN 0
                     ELSE leases[Head(body[c].guards)].active - 1]
    BY <1>9, Zenon DEF Release
  <2>2. body[c].guards # <<>>
    BY <1>g, <2>1, Zenon DEF Holding
  <2>3. b \in BodyState
    BY <1>0, <2>2, BodyTypes, Zenon
  <2>4. body' = [body EXCEPT ![c] = b]
    BY <1>0, <2>1, Zenon
  <2>5. b.at = "returned" /\ b.guards = Tail(body[c].guards)
    BY <1>0, Zenon DEF BodyState
  <2>6. b.at # "idle" /\ b.at \notin {"releasing", "active"} /\ b.at # "leasing"
    BY <2>5
  <2> HIDE DEF b
  <2> QED BY <1>1, <1>2, <2>1, <2>2, <2>3, <2>4, <2>5, <2>6, Zenon DEF Holding, Returns
<1> QED BY <1>3, <1>4, <1>5, <1>7, <1>8, <1>9, Zenon DEF ActivationStep, BodyStep

(* The type invariant over an activation's step.                              *)
LEMMA ActivationTypes ==
    ASSUME TypeOK, GuardInv, NEW c \in Consumer, ActivationStep(c)
    PROVE  TypeOK' /\ GuardInv'
<1>0. /\ body \in [Consumer -> BodyState]
      /\ leases \in [Provision -> [active : Nat, closed : BOOLEAN]]
      /\ edge \in [Subscriber -> BOOLEAN]
  BY Zenon DEF TypeOK, BodyState
<1>1. PICK b \in BodyState :
        /\ body' = [body EXCEPT ![c] = b] /\ Holding(b)
        /\ Keeps(c, b) \/ (\E p \in Provision : Takes(c, b, p)) \/ Returns(c, b)
  BY BodyMoves, Zenon
<1>2. body' \in [Consumer -> BodyState]
  BY <1>0, <1>1, Zenon
<1>3. GuardInv'
  BY <1>0, <1>1, Zenon DEF GuardInv, Holding
<1>4. leases' \in [Provision -> [active : Nat, closed : BOOLEAN]]
  <2>1. CASE Keeps(c, b)
    BY <1>0, <2>1, Zenon DEF Keeps
  <2>2. ASSUME NEW p \in Provision, Takes(c, b, p)
        PROVE  leases' \in [Provision -> [active : Nat, closed : BOOLEAN]]
    BY <1>0, <2>2 DEF Takes
  <2>3. CASE Returns(c, b)
    <3>1. body[c].guards \in Seq(Provision)
      BY BodyFields, Zenon
    <3>2. Head(body[c].guards) \in Provision
      BY <2>3, <3>1 DEF Returns
    <3> DEFINE p == Head(body[c].guards)
               left == IF leases[p].active = 0 THEN 0 ELSE leases[p].active - 1
    <3>3. p \in Provision /\ leases' = [leases EXCEPT ![p].active = left]
      BY <2>3, <3>2, Zenon DEF Returns
    <3> HIDE DEF p
    <3>4. left \in Nat
      <4>1. leases[p] \in [active : Nat, closed : BOOLEAN]
        BY <1>0, <3>3, Zenon
      <4>2. leases[p].active \in Nat
        BY <4>1, Zenon
      <4> QED BY <4>2
    <3> HIDE DEF left
    <3> QED BY <1>0, <3>3, <3>4
  <2> QED BY <1>1, <2>1, <2>2, <2>3, Zenon
<1>5. edge' \in [Subscriber -> BOOLEAN]
  <2>1. Bump => edge' \in [Subscriber -> BOOLEAN]
    BY DEF Bump, Subscribed
  <2> QED BY <1>0, <2>1, BodyMoves, Zenon
<1>6. /\ blocked' \in [Consumer -> Epoch]
      /\ UNCHANGED <<slots, vital, reports, stage, phase, watcher, published, missed>>
  BY BodyMoves, Zenon
<1> QED BY <1>2, <1>3, <1>4, <1>5, <1>6, Zenon DEF TypeOK, BodyState

-----------------------------------------------------------------------------
(* The store: slots, cells and stages. *)

(* OpenIffCurrent, and what it takes: a provision that was not made is in no  *)
(* slot and its cell is open, a slot holds a provision of that slot, and a    *)
(* withdrawal past its wait left a drained cell.                              *)
StoreInv ==
    /\ \A p \in Provision : stage[p] \in {"idle", "refused"} =>
          ~leases[p].closed /\ \A a \in Slot : slots[a] # p
    /\ \A a \in Slot : slots[a] # None => At[slots[a]] = a
    /\ OpenIffCurrent
    /\ \A p \in Provision : stage[p] \in {"inverses", "gone"} => IsDrained(p)

(* An insertion keeps it: the one cell that was open in the slot is closed.   *)
LEMMA InsertStore ==
    ASSUME TypeOK, StoreInv, NEW p \in Provision, Insert(p)
    PROVE  StoreInv'
<1>0. /\ slots \in [Slot -> Provision \union {None}] /\ At[p] \in Slot
      /\ stage \in [Provision -> Stage] /\ None \notin Provision
      /\ leases \in [Provision -> [active : Nat, closed : BOOLEAN]]
  BY SlotFacts, RegistryConstants, Zenon DEF TypeOK
<1>at. \A q \in Provision : At[q] \in Slot
  BY SlotFacts, Zenon
<1>1. /\ stage[p] = "idle"
      /\ slots' = [slots EXCEPT ![At[p]] = p]
      /\ stage' = [stage EXCEPT ![p] = "unannounced"]
      /\ leases' = [q \in Provision |->
                      IF q = slots[At[p]] THEN [leases[q] EXCEPT !.closed = TRUE]
                      ELSE leases[q]]
  BY Zenon DEF Insert
<1>2. ~leases[p].closed /\ \A a \in Slot : slots[a] # p
  BY <1>1, Zenon DEF StoreInv
<1>3. \A q \in Provision :
        /\ q # slots[At[p]] => leases'[q] = leases[q]
        /\ q = slots[At[p]] => leases'[q].closed /\ leases'[q].active = leases[q].active
  BY <1>0, <1>1
<1>4. stage'[p] = "unannounced" /\ \A q \in Provision : q # p => stage'[q] = stage[q]
  BY <1>0, <1>1, Zenon
<1>5. slots'[At[p]] = p /\ \A a \in Slot : a # At[p] => slots'[a] = slots[a]
  BY <1>0, <1>1, Zenon
<1>6. ASSUME NEW q \in Provision, stage'[q] \in {"idle", "refused"}
      PROVE  ~leases'[q].closed /\ \A a \in Slot : slots'[a] # q
  <2>1. q # p
    BY <1>4, <1>6
  <2>2. ~leases[q].closed /\ \A a \in Slot : slots[a] # q
    BY <1>4, <1>6, <2>1, Zenon DEF StoreInv
  <2>3. leases'[q] = leases[q]
    BY <1>0, <1>3, <2>2, Zenon
  <2> QED BY <1>5, <2>1, <2>2, <2>3, Zenon
<1>7. ASSUME NEW a \in Slot, slots'[a] # None PROVE At[slots'[a]] = a
  BY <1>5, <1>7, Zenon DEF StoreInv
<1>8. ASSUME NEW q \in Provision, stage'[q] \notin {"idle", "refused"}
      PROVE  slots'[At[q]] = q <=> ~leases'[q].closed
  <2>1. CASE q = p
    <3>1. leases'[p] = leases[p]
      BY <1>0, <1>2, <1>3, Zenon
    <3> QED BY <1>2, <1>5, <2>1, <3>1, Zenon
  <2>2. CASE q # p /\ q = slots[At[p]]
    <3>1. At[q] = At[p]
      BY <1>0, <2>2, Zenon DEF StoreInv
    <3>2. leases'[q].closed
      BY <1>3, <2>2, Zenon
    <3> QED BY <1>5, <2>2, <3>1, <3>2, Zenon
  <2>3. CASE q # p /\ q # slots[At[p]]
    <3>1. leases'[q] = leases[q] /\ (slots[At[q]] = q <=> ~leases[q].closed)
      BY <1>3, <1>4, <1>8, <2>3, Zenon DEF StoreInv, OpenIffCurrent
    <3>2. slots'[At[q]] = q <=> slots[At[q]] = q
      BY <1>5, <1>at, <2>3, Zenon
    <3> QED BY <3>1, <3>2, Zenon
  <2> QED BY <2>1, <2>2, <2>3
<1>9. ASSUME NEW q \in Provision, stage'[q] \in {"inverses", "gone"} PROVE IsDrained(q)'
  <2>1. q # p
    BY <1>4, <1>9
  <2>2. leases[q].closed /\ leases[q].active = 0
    BY <1>4, <1>9, <2>1, Zenon DEF StoreInv, IsDrained
  <2> QED BY <1>3, <2>2, Zenon DEF IsDrained
<1> QED BY <1>6, <1>7, <1>8, <1>9, Zenon DEF StoreInv, OpenIffCurrent

(* A removal keeps it: the slot is emptied if it is still the provision's,    *)
(* and the cell is closed either way.                                         *)
LEMMA RemoveStore ==
    ASSUME TypeOK, StoreInv, NEW p \in Provision, NEW from \in {"drain", "undo"},
           RemoveIf(p, from)
    PROVE  StoreInv'
<1>0. /\ slots \in [Slot -> Provision \union {None}] /\ At[p] \in Slot
      /\ stage \in [Provision -> Stage] /\ None \notin Provision
      /\ leases \in [Provision -> [active : Nat, closed : BOOLEAN]]
  BY SlotFacts, RegistryConstants, Zenon DEF TypeOK
<1>at. \A q \in Provision : At[q] \in Slot
  BY SlotFacts, Zenon
<1>1. /\ leases' = [leases EXCEPT ![p].closed = TRUE]
      /\ \/ /\ slots[At[p]] = p /\ slots' = [slots EXCEPT ![At[p]] = None]
            /\ stage' = [stage EXCEPT ![p] = "removed"]
         \/ /\ slots[At[p]] # p /\ slots' = slots
            /\ stage' = [stage EXCEPT ![p] = "closed"]
  BY Zenon DEF RemoveIf
<1>2. /\ leases'[p].closed
      /\ \A q \in Provision : q # p => leases'[q] = leases[q]
  BY <1>0, <1>1
<1>3. /\ stage'[p] \in {"removed", "closed"}
      /\ \A q \in Provision : q # p => stage'[q] = stage[q]
  BY <1>0, <1>1, Zenon
<1>4. /\ slots'[At[p]] # p
      /\ \A a \in Slot : slots'[a] = slots[a] \/ (a = At[p] /\ slots[a] = p /\ slots'[a] = None)
  BY <1>0, <1>1, Zenon
<1>5. ASSUME NEW q \in Provision, stage'[q] \in {"idle", "refused"}
      PROVE  ~leases'[q].closed /\ \A a \in Slot : slots'[a] # q
  <2>1. q # p
    BY <1>3, <1>5
  <2>2. ~leases[q].closed /\ \A a \in Slot : slots[a] # q
    BY <1>3, <1>5, <2>1, Zenon DEF StoreInv
  <2> QED BY <1>0, <1>2, <1>4, <2>1, <2>2, Zenon
<1>6. ASSUME NEW a \in Slot, slots'[a] # None PROVE At[slots'[a]] = a
  BY <1>4, <1>6, Zenon DEF StoreInv
<1>7. ASSUME NEW q \in Provision, stage'[q] \notin {"idle", "refused"}
      PROVE  slots'[At[q]] = q <=> ~leases'[q].closed
  <2>1. CASE q = p
    BY <1>2, <1>4, <2>1, Zenon
  <2>2. CASE q # p
    <3>1. leases'[q] = leases[q] /\ (slots[At[q]] = q <=> ~leases[q].closed)
      BY <1>2, <1>3, <1>7, <2>2, Zenon DEF StoreInv, OpenIffCurrent
    <3>2. slots'[At[q]] = q <=> slots[At[q]] = q
      BY <1>0, <1>4, <1>at, <2>2, Zenon
    <3> QED BY <3>1, <3>2, Zenon
  <2> QED BY <2>1, <2>2
<1>8. ASSUME NEW q \in Provision, stage'[q] \in {"inverses", "gone"} PROVE IsDrained(q)'
  <2>1. q # p
    BY <1>3, <1>8
  <2> QED BY <1>2, <1>3, <1>8, <2>1, Zenon DEF StoreInv, IsDrained
<1> QED BY <1>5, <1>6, <1>7, <1>8, Zenon DEF StoreInv, OpenIffCurrent

(* A step that moves no slot and opens no cell: a stage moves on, and only a  *)
(* drained cell's withdrawal passes its wait.                                 *)
LEMMA StageStore ==
    ASSUME TypeOK, StoreInv, slots' = slots,
           \A q \in Provision :
              /\ leases'[q].closed = leases[q].closed
              /\ IsDrained(q) => leases'[q].active = 0,
           \A q \in Provision :
              \/ stage'[q] = stage[q]
              \/ stage[q] = "idle" /\ stage'[q] = "refused"
              \/ /\ stage[q] \notin {"idle", "refused"}
                 /\ stage'[q] \notin {"idle", "refused"}
                 /\ stage'[q] \in {"inverses", "gone"} => IsDrained(q)
    PROVE  StoreInv'
<1>1. ASSUME NEW q \in Provision, stage'[q] \in {"idle", "refused"}
      PROVE  stage[q] \in {"idle", "refused"}
  BY <1>1
<1>2. ASSUME NEW q \in Provision, stage'[q] \notin {"idle", "refused"}
      PROVE  stage[q] \notin {"idle", "refused"}
  BY <1>2
<1>3. ASSUME NEW q \in Provision, stage'[q] \in {"inverses", "gone"} PROVE IsDrained(q)'
  <2>1. IsDrained(q)
    BY <1>3 DEF StoreInv
  <2> QED BY <2>1, Zenon DEF IsDrained
<1> QED BY <1>1, <1>2, <1>3, Zenon DEF StoreInv, OpenIffCurrent

(* Every step of the registry keeps the store invariant.                      *)
LEMMA StoreStep ==
    ASSUME TypeOK, GuardInv, StoreInv, [Next]_vars
    PROVE  StoreInv'
<1>0. /\ stage \in [Provision -> Stage]
      /\ leases \in [Provision -> [active : Nat, closed : BOOLEAN]]
  BY Zenon DEF TypeOK
<1>1. ASSUME NEW p \in Provision,
             Refused(p) \/ Announce(p) \/ ReportVitality(p) \/ AnnounceRemoval(p)
      PROVE  StoreInv'
  <2>1. slots' = slots /\ leases' = leases
    BY <1>1, Zenon DEF Refused, Announce, ReportVitality, AnnounceRemoval, storeVars
  <2>2. \A q \in Provision : q # p => stage'[q] = stage[q]
    BY <1>0, <1>1, Zenon DEF Refused, Announce, ReportVitality, AnnounceRemoval
  <2>3. \/ stage[p] = "idle" /\ stage'[p] = "refused"
        \/ stage[p] = "unannounced" /\ stage'[p] = "live"
        \/ stage[p] = "live" /\ stage'[p] = "unannounced"
        \/ stage[p] = "removed" /\ stage'[p] = "closed"
    BY <1>0, <1>1, Zenon DEF Refused, Announce, ReportVitality, AnnounceRemoval
  <2>4. \A q \in Provision : IsDrained(q) => leases'[q].active = 0
    BY <2>1, Zenon DEF IsDrained
  <2>5. \A q \in Provision :
              \/ stage'[q] = stage[q]
              \/ stage[q] = "idle" /\ stage'[q] = "refused"
              \/ /\ stage[q] \notin {"idle", "refused"}
                 /\ stage'[q] \notin {"idle", "refused"}
                 /\ stage'[q] \in {"inverses", "gone"} => IsDrained(q)
    BY <2>2, <2>3
  <2> QED BY <2>1, <2>4, <2>5, StageStore, Zenon
<1>2. ASSUME NEW p \in Provision, Subscribe(p) \/ Woken(p) PROVE StoreInv'
  <2>1. slots' = slots /\ leases' = leases /\ Read(p) /\ stage[p] \in {"closed", "waiting"}
    BY <1>2, Zenon DEF Subscribe, Woken, storeVars
  <2>2. \A q \in Provision : q # p => stage'[q] = stage[q]
    BY <1>0, <2>1, Zenon DEF Read
  <2>3. \/ stage'[p] = "waiting"
        \/ stage'[p] \in {"inverses", "gone"} /\ IsDrained(p)
    BY <1>0, <2>1, Zenon DEF Read
  <2>4. \A q \in Provision : IsDrained(q) => leases'[q].active = 0
    BY <2>1, Zenon DEF IsDrained
  <2>5. \A q \in Provision :
              \/ stage'[q] = stage[q]
              \/ stage[q] = "idle" /\ stage'[q] = "refused"
              \/ /\ stage[q] \notin {"idle", "refused"}
                 /\ stage'[q] \notin {"idle", "refused"}
                 /\ stage'[q] \in {"inverses", "gone"} => IsDrained(q)
    BY <2>1, <2>2, <2>3
  <2> QED BY <2>1, <2>4, <2>5, StageStore, Zenon
<1>3. ASSUME NEW c \in Consumer, WatcherStep(c) PROVE StoreInv'
  <2>1. UNCHANGED <<slots, leases, stage>>
    BY <1>3, Zenon DEF WatcherStep, Probe, Located, PublishFirst, SubscribeWatcher,
                       WakeWatcher, Publish, storeVars, providerVars
  <2>2. \A q \in Provision : IsDrained(q) => leases'[q].active = 0
    BY <2>1, Zenon DEF IsDrained
  <2> QED BY <2>1, <2>2, StageStore, Zenon
<1>4. ASSUME NEW c \in Consumer, ActivationStep(c) PROVE StoreInv'
  <2>1. slots' = slots /\ stage' = stage
    BY <1>4, BodyMoves, Zenon
  <2>2. PICK b \in BodyState :
           Keeps(c, b) \/ (\E p \in Provision : Takes(c, b, p)) \/ Returns(c, b)
    BY <1>4, BodyMoves, Zenon
  <2>3. \A q \in Provision : /\ leases'[q].closed = leases[q].closed
                             /\ IsDrained(q) => leases'[q].active = 0
    <3>1. CASE Keeps(c, b)
      BY <3>1, Zenon DEF Keeps, IsDrained
    <3>2. ASSUME NEW p \in Provision, Takes(c, b, p), NEW q \in Provision
          PROVE  /\ leases'[q].closed = leases[q].closed
                 /\ IsDrained(q) => leases'[q].active = 0
      <4>1. /\ leases'[q].closed = leases[q].closed
            /\ q # p => leases'[q].active = leases[q].active
        BY <1>0, <3>2 DEF Takes
      <4>2. ~leases[p].closed
        BY <3>2, Zenon DEF Takes, CanLease
      <4> QED BY <4>1, <4>2, Zenon DEF IsDrained
    <3>3. ASSUME Returns(c, b), NEW q \in Provision
          PROVE  /\ leases'[q].closed = leases[q].closed
                 /\ IsDrained(q) => leases'[q].active = 0
      <4> DEFINE h == Head(body[c].guards)
      <4>1. h \in Provision
        <5>1. body[c].guards \in Seq(Provision)
          BY BodyFields, Zenon
        <5> QED BY <3>3, <5>1 DEF Returns
      <4>2. leases' = [leases EXCEPT ![h].active =
                          IF leases[h].active = 0 THEN 0 ELSE leases[h].active - 1]
        BY <3>3, Zenon DEF Returns
      <4> HIDE DEF h
      <4>3. /\ leases'[q].closed = leases[q].closed
            /\ leases[q].active = 0 => leases'[q].active = 0
        BY <1>0, <4>1, <4>2
      <4> QED BY <4>3, Zenon DEF IsDrained
    <3> QED BY <2>2, <3>1, <3>2, <3>3, Zenon
  <2> QED BY <2>1, <2>3, StageStore, Zenon
<1>5. CASE UNCHANGED vars
  <2>1. UNCHANGED <<slots, leases, stage>>
    BY <1>5, Zenon DEF vars
  <2>2. \A q \in Provision : IsDrained(q) => leases'[q].active = 0
    BY <2>1, Zenon DEF IsDrained
  <2> QED BY <2>1, <2>2, StageStore, Zenon
<1> QED BY <1>1, <1>2, <1>3, <1>4, <1>5, InsertStore, RemoveStore, Zenon
        DEF Next, WithdrawalStep, ActivationStep

-----------------------------------------------------------------------------
(* The count of the leases. *)

(* Who holds what.                                                            *)
LEMMA HolderIs ==
    ASSUME NEW q, NEW x
    PROVE  x \in Holders(q) <=>
             \E d \in Consumer : \E i \in DOMAIN body[d].guards :
                 body[d].guards[i] = q /\ x = <<d, i>>
BY DEF Holders

(* The lease cells count the guards, which are finitely many.                 *)
CountInv ==
    \A p \in Provision :
        IsFiniteSet(Holders(p)) /\ leases[p].active = Cardinality(Holders(p))

(* A step that touches no guards and no counts.                               *)
LEMMA SameHolders ==
    ASSUME CountInv, \A c \in Consumer : body'[c].guards = body[c].guards,
           \A p \in Provision : leases'[p].active = leases[p].active
    PROVE  CountInv'
<1>1. ASSUME NEW q PROVE Holders(q)' = Holders(q)
  <2>1. ASSUME NEW c \in Consumer
        PROVE  {<<c, i>> : i \in {j \in DOMAIN body'[c].guards : body'[c].guards[j] = q}}
                 = {<<c, i>> : i \in {j \in DOMAIN body[c].guards : body[c].guards[j] = q}}
    BY Zenon
  <2> QED BY <2>1 DEF Holders
<1> QED BY <1>1, Zenon DEF CountInv

(* A lease is one more guard on its provision, and none elsewhere.            *)
LEMMA TakenCount ==
    ASSUME TypeOK, CountInv, NEW c \in Consumer, NEW b \in BodyState, NEW p \in Provision,
           body' = [body EXCEPT ![c] = b], Takes(c, b, p)
    PROVE  CountInv'
<1> DEFINE g == body[c].guards
           new == <<c, Len(g) + 1>>
<1>0. /\ g \in Seq(Provision) /\ leases \in [Provision -> [active : Nat, closed : BOOLEAN]]
      /\ body \in [Consumer -> BodyState]
  BY BodyFields, Zenon DEF TypeOK, BodyState
<1>1. /\ body'[c].guards = Append(g, p)
      /\ \A d \in Consumer : d # c => body'[d].guards = body[d].guards
  BY <1>0, Zenon DEF Takes
<1>2. /\ Len(g) \in Nat /\ DOMAIN g = 1..Len(g) /\ DOMAIN Append(g, p) = 1..(Len(g) + 1)
      /\ Append(g, p)[Len(g) + 1] = p /\ \A i \in 1..Len(g) : Append(g, p)[i] = g[i]
  BY <1>0
<1>g. g = body[c].guards
  OBVIOUS
<1> HIDE DEF g
<1>3. \A i : i \in 1..(Len(g) + 1) <=> i \in 1..Len(g) \/ i = Len(g) + 1
  BY <1>2
<1>4. Len(g) + 1 \notin 1..Len(g)
  BY <1>2
<1>5. ASSUME NEW q, NEW x
      PROVE  x \in Holders(q)' <=>
               \E d \in Consumer : \E i \in DOMAIN body'[d].guards :
                   body'[d].guards[i] = q /\ x = <<d, i>>
  BY DEF Holders
<1>6. ASSUME NEW q PROVE Holders(q)' = IF q = p THEN Holders(q) \union {new} ELSE Holders(q)
  <2>1. ASSUME NEW x \in Holders(q)' PROVE x \in Holders(q) \/ (q = p /\ x = new)
    <3>1a. PICK d \in Consumer : \E i \in DOMAIN body'[d].guards :
             body'[d].guards[i] = q /\ x = <<d, i>>
      BY <1>5, <2>1
    <3>1. PICK i \in DOMAIN body'[d].guards :
             body'[d].guards[i] = q /\ x = <<d, i>>
      BY <3>1a, Zenon
    <3>2. CASE d # c
      BY <1>1, <3>1, <3>2, HolderIs, Zenon
    <3>3. CASE d = c
      <4>1. i \in 1..Len(g) \/ i = Len(g) + 1
        BY <1>1, <1>2, <1>3, <3>1, <3>3, Zenon
      <4>2. CASE i \in 1..Len(g)
        BY <1>1, <1>2, <1>g, <3>1, <3>3, <4>2, HolderIs
      <4>3. CASE i = Len(g) + 1
        BY <1>1, <1>2, <3>1, <3>3, <4>3, Zenon
      <4> QED BY <4>1, <4>2, <4>3
    <3> QED BY <3>2, <3>3
  <2>2. ASSUME NEW x \in Holders(q) PROVE x \in Holders(q)'
    <3>1a. PICK d \in Consumer : \E i \in DOMAIN body[d].guards :
             body[d].guards[i] = q /\ x = <<d, i>>
      BY <2>2, HolderIs
    <3>1. PICK i \in DOMAIN body[d].guards :
             body[d].guards[i] = q /\ x = <<d, i>>
      BY <3>1a, Zenon
    <3>2. i \in DOMAIN body'[d].guards /\ body'[d].guards[i] = q
      BY <1>1, <1>2, <1>3, <1>g, <3>1, Zenon
    <3> QED BY <1>5, <3>1, <3>2, Zenon
  <2>3. q = p => new \in Holders(q)'
    <3>1. Len(g) + 1 \in DOMAIN body'[c].guards /\ body'[c].guards[Len(g) + 1] = p
      BY <1>1, <1>2, <1>3, Zenon
    <3> QED BY <1>5, <3>1, Zenon
  <2> QED BY <2>1, <2>2, <2>3
<1>7. new \notin Holders(p)
  <2> SUFFICES ASSUME NEW d \in Consumer, NEW i \in DOMAIN body[d].guards, new = <<d, i>>
               PROVE  FALSE
    BY HolderIs
  <2>1. d = c /\ i = Len(g) + 1
    OBVIOUS
  <2> QED BY <1>2, <1>4, <1>g, <2>1, Zenon
<1> HIDE DEF new
<1>8. ASSUME NEW q \in Provision
      PROVE  IsFiniteSet(Holders(q))' /\ leases'[q].active = Cardinality(Holders(q)')
  <2>1. IsFiniteSet(Holders(q)) /\ leases[q].active = Cardinality(Holders(q))
    BY Zenon DEF CountInv
  <2>2. CASE q # p
    <3>1. leases'[q].active = leases[q].active
      BY <1>0, <2>2 DEF Takes
    <3> QED BY <1>6, <2>1, <2>2, <3>1, Zenon
  <2>3. CASE q = p
    <3>1. leases'[q].active = leases[q].active + 1
      BY <1>0, <2>3 DEF Takes
    <3>2. /\ IsFiniteSet(Holders(q) \union {new})
          /\ Cardinality(Holders(q) \union {new}) = Cardinality(Holders(q)) + 1
      BY <1>7, <2>1, <2>3, FS_AddElement, Zenon
    <3> QED BY <1>6, <2>1, <2>3, <3>1, <3>2, Zenon
  <2> QED BY <2>2, <2>3
<1> QED BY <1>8, Zenon DEF CountInv

(* A return is one guard less on the provision of the first: the others move  *)
(* up by one, which is a bijection.                                           *)
LEMMA ReturnedCount ==
    ASSUME TypeOK, CountInv, NEW c \in Consumer, NEW b \in BodyState,
           body' = [body EXCEPT ![c] = b], Returns(c, b)
    PROVE  CountInv'
<1> DEFINE g == body[c].guards
           h == Head(g)
           old == <<c, 1>>
<1>0. /\ g \in Seq(Provision) /\ leases \in [Provision -> [active : Nat, closed : BOOLEAN]]
      /\ body \in [Consumer -> BodyState] /\ g # <<>>
  BY BodyFields, Zenon DEF TypeOK, BodyState, Returns
<1>1. /\ body'[c].guards = Tail(g)
      /\ \A d \in Consumer : d # c => body'[d].guards = body[d].guards
  BY <1>0, Zenon DEF Returns
<1>2. /\ Len(g) \in Nat \ {0} /\ DOMAIN g = 1..Len(g) /\ DOMAIN Tail(g) = 1..(Len(g) - 1)
      /\ h = g[1] /\ h \in Provision /\ \A i \in 1..(Len(g) - 1) : Tail(g)[i] = g[i + 1]
  BY <1>0
<1>l. leases' = [leases EXCEPT ![h].active = IF leases[h].active = 0 THEN 0
                                             ELSE leases[h].active - 1]
  BY Zenon DEF Returns
<1>g. g = body[c].guards
  OBVIOUS
<1> HIDE DEF g, h
<1>5. ASSUME NEW q, NEW x
      PROVE  x \in Holders(q)' <=>
               \E d \in Consumer : \E i \in DOMAIN body'[d].guards :
                   body'[d].guards[i] = q /\ x = <<d, i>>
  BY DEF Holders
<1>6. ASSUME NEW q, IsFiniteSet(Holders(q))
      PROVE  /\ IsFiniteSet(Holders(q)')
             /\ Cardinality(Holders(q)') = Cardinality(Holders(q) \ {old})
  <2> DEFINE S == Holders(q) \ {old}
             T == Holders(q)'
             F == [x \in S |-> IF x[1] = c THEN <<c, x[2] - 1>> ELSE x]
  <2>1. ASSUME NEW x \in S
        PROVE  \E d \in Consumer : \E i \in DOMAIN body[d].guards :
                 /\ x = <<d, i>> /\ body[d].guards[i] = q
                 /\ d = c => /\ i \in 2..Len(g) /\ i - 1 \in 1..(Len(g) - 1)
                             /\ Tail(g)[i - 1] = q /\ F[x] = <<c, i - 1>>
                 /\ d # c => F[x] = x
    <3>1a. PICK d \in Consumer : \E i \in DOMAIN body[d].guards :
             body[d].guards[i] = q /\ x = <<d, i>>
      BY <2>1, HolderIs
    <3>1. PICK i \in DOMAIN body[d].guards :
             body[d].guards[i] = q /\ x = <<d, i>>
      BY <3>1a, Zenon
    <3>2. CASE d # c
      BY <3>1, <3>2
    <3>3. CASE d = c
      <4>1. i \in 1..Len(g) /\ g[i] = q
        BY <1>2, <1>g, <3>1, <3>3, Zenon
      <4>2. i # 1
        BY <2>1, <3>1, <3>3
      <4>3. i \in 2..Len(g) /\ i - 1 \in 1..(Len(g) - 1) /\ (i - 1) + 1 = i
        BY <1>2, <4>1, <4>2
      <4>4. Tail(g)[i - 1] = q
        BY <1>2, <4>1, <4>3
      <4>5. F[x] = <<c, i - 1>>
        BY <3>1, <3>3
      <4> QED BY <3>1, <3>3, <4>3, <4>4, <4>5, Zenon
    <3> QED BY <3>2, <3>3
  <2>2. ASSUME NEW x \in S PROVE F[x] \in T
    <3>1a. PICK d \in Consumer : \E i \in DOMAIN body[d].guards :
                 /\ x = <<d, i>> /\ body[d].guards[i] = q
                 /\ d = c => /\ i \in 2..Len(g) /\ i - 1 \in 1..(Len(g) - 1)
                             /\ Tail(g)[i - 1] = q /\ F[x] = <<c, i - 1>>
                 /\ d # c => F[x] = x
      BY <2>1, Zenon
    <3>1. PICK i \in DOMAIN body[d].guards :
                 /\ x = <<d, i>> /\ body[d].guards[i] = q
                 /\ d = c => /\ i \in 2..Len(g) /\ i - 1 \in 1..(Len(g) - 1)
                             /\ Tail(g)[i - 1] = q /\ F[x] = <<c, i - 1>>
                 /\ d # c => F[x] = x
      BY <3>1a, Zenon
    <3> HIDE DEF F
    <3>2. CASE d # c
      BY <1>1, <1>5, <3>1, <3>2
    <3>3. CASE d = c
      <4>1. i - 1 \in DOMAIN body'[c].guards /\ body'[c].guards[i - 1] = q
        BY <1>1, <1>2, <3>1, <3>3, Zenon
      <4>2. F[x] = <<c, i - 1>>
        BY <3>1, <3>3, Zenon
      <4> QED BY <1>5, <4>1, <4>2
    <3> QED BY <3>2, <3>3
  <2>3. F \in [S -> T]
    BY <2>2, Zenon
  <2>4. ASSUME NEW x \in S, NEW y \in S, F[x] = F[y] PROVE x = y
    <3>1a. PICK d \in Consumer : \E i \in DOMAIN body[d].guards :
                 /\ x = <<d, i>>
                 /\ d = c => i \in 2..Len(g) /\ F[x] = <<c, i - 1>>
                 /\ d # c => F[x] = x
      BY <2>1
    <3>1. PICK i \in DOMAIN body[d].guards :
                 /\ x = <<d, i>>
                 /\ d = c => i \in 2..Len(g) /\ F[x] = <<c, i - 1>>
                 /\ d # c => F[x] = x
      BY <3>1a, Zenon
    <3>2a. PICK e \in Consumer : \E j \in DOMAIN body[e].guards :
                 /\ y = <<e, j>>
                 /\ e = c => j \in 2..Len(g) /\ F[y] = <<c, j - 1>>
                 /\ e # c => F[y] = y
      BY <2>1
    <3>2. PICK j \in DOMAIN body[e].guards :
                 /\ y = <<e, j>>
                 /\ e = c => j \in 2..Len(g) /\ F[y] = <<c, j - 1>>
                 /\ e # c => F[y] = y
      BY <3>2a, Zenon
    <3> HIDE DEF F
    <3> QED BY <1>2, <2>4, <3>1, <3>2
  <2>5. ASSUME NEW y \in T PROVE \E x \in S : F[x] = y
    <3>1a. PICK d \in Consumer : \E i \in DOMAIN body'[d].guards :
             body'[d].guards[i] = q /\ y = <<d, i>>
      BY <1>5, <2>5
    <3>1. PICK i \in DOMAIN body'[d].guards :
             body'[d].guards[i] = q /\ y = <<d, i>>
      BY <3>1a, Zenon
    <3>2. CASE d # c
      <4>1. y \in Holders(q)
        BY <1>1, <3>1, <3>2, HolderIs, Zenon
      <4>2. y \in S /\ F[y] = y
        BY <3>1, <3>2, <4>1
      <4> QED BY <4>2, Zenon
    <3>3. CASE d = c
      <4>1. i \in 1..(Len(g) - 1) /\ Tail(g)[i] = q
        BY <1>1, <1>2, <3>1, <3>3, Zenon
      <4>2. i + 1 \in 1..Len(g) /\ i + 1 # 1 /\ g[i + 1] = q /\ (i + 1) - 1 = i
        BY <1>2, <4>1
      <4>3. <<c, i + 1>> \in Holders(q)
        BY <1>2, <1>g, <4>2, HolderIs, Zenon
      <4>4. <<c, i + 1>> \in S
        BY <4>2, <4>3
      <4>5. F[<<c, i + 1>>] = <<c, i>>
        BY <4>2, <4>4
      <4> QED BY <3>1, <3>3, <4>4, <4>5, Zenon
    <3> QED BY <3>2, <3>3
  <2> HIDE DEF F
  <2>6. IsFiniteSet(S)
    BY <1>6, FS_RemoveElement, Zenon
  <2>7. PICK A, B, G : A = S /\ B = T /\ G = F
    OBVIOUS
  <2> HIDE DEF S, T, F
  <2>8. /\ IsFiniteSet(A) /\ G \in [A -> B]
        /\ \A x, y \in A : G[x] = G[y] => x = y
        /\ \A y \in B : \E x \in A : G[x] = y
    BY <2>3, <2>4, <2>5, <2>6, <2>7, Zenon
  <2>9. IsFiniteSet(B) /\ Cardinality(B) = Cardinality(A)
    BY <2>8, CountedByBijection, Zenon
  <2> QED BY <2>7, <2>9, Zenon DEF S, T
<1>7. ASSUME NEW q PROVE old \in Holders(q) <=> q = h
  <2>1. old \in Holders(q) => q = h
    <3> SUFFICES ASSUME NEW d \in Consumer, NEW i \in DOMAIN body[d].guards,
                        body[d].guards[i] = q, old = <<d, i>>
                 PROVE  q = h
      BY HolderIs, Zenon
    <3>1. d = c /\ i = 1
      OBVIOUS
    <3> QED BY <1>2, <1>g, <3>1, Zenon
  <2>2. q = h => old \in Holders(q)
    <3>1. 1 \in DOMAIN body[c].guards /\ body[c].guards[1] = h
      BY <1>2, <1>g
    <3> QED BY <3>1, HolderIs, Zenon
  <2> QED BY <2>1, <2>2
<1> HIDE DEF old
<1>8. ASSUME NEW q \in Provision
      PROVE  IsFiniteSet(Holders(q)') /\ leases'[q].active = Cardinality(Holders(q)')
  <2>1. IsFiniteSet(Holders(q)) /\ leases[q].active = Cardinality(Holders(q))
    BY Zenon DEF CountInv
  <2>2. Cardinality(Holders(q) \ {old}) =
           IF old \in Holders(q) THEN Cardinality(Holders(q)) - 1 ELSE Cardinality(Holders(q))
    BY <2>1, FS_RemoveElement, Zenon
  <2>3. CASE q # h
    <3>1. leases'[q].active = leases[q].active
      BY <1>0, <1>2, <1>l, <2>3
    <3> QED BY <1>6, <1>7, <2>1, <2>2, <2>3, <3>1, Zenon
  <2>4. CASE q = h
    <3>1. leases[q].active # 0
      BY <1>7, <2>1, <2>4, FS_EmptySet, Zenon
    <3>2. leases'[q].active = leases[q].active - 1
      BY <1>0, <1>2, <1>l, <2>4, <3>1
    <3> QED BY <1>6, <1>7, <2>1, <2>2, <2>4, <3>2, Zenon
  <2> QED BY <2>3, <2>4
<1> QED BY <1>8, Zenon DEF CountInv


(* Every step of the registry keeps the count.                                *)
LEMMA CountStep ==
    ASSUME TypeOK, GuardInv, CountInv, [Next]_vars
    PROVE  CountInv'
<1>0. /\ body \in [Consumer -> BodyState]
      /\ leases \in [Provision -> [active : Nat, closed : BOOLEAN]]
  BY Zenon DEF TypeOK, BodyState
<1>1. ASSUME NEW p \in Provision,
             Refused(p) \/ Announce(p) \/ ReportVitality(p)
             \/ AnnounceRemoval(p) \/ Subscribe(p) \/ Woken(p)
      PROVE  CountInv'
  <2>1. leases' = leases /\ body' = body
    BY <1>1, Zenon DEF Refused, Announce, ReportVitality, AnnounceRemoval, Subscribe, Woken,
                       storeVars, bodyVars
  <2> QED BY <2>1, SameHolders, Zenon
<1>2. ASSUME NEW p \in Provision, Insert(p) PROVE CountInv'
  <2>1. body' = body
    BY <1>2, Zenon DEF Insert, bodyVars
  <2>2. \A q \in Provision : leases'[q].active = leases[q].active
    BY <1>0, <1>2 DEF Insert
  <2> QED BY <2>1, <2>2, SameHolders, Zenon
<1>3. ASSUME NEW p \in Provision, NEW from \in {"drain", "undo"}, RemoveIf(p, from)
      PROVE  CountInv'
  <2>1. body' = body
    BY <1>3, Zenon DEF RemoveIf, bodyVars
  <2>2. \A q \in Provision : leases'[q].active = leases[q].active
    BY <1>0, <1>3 DEF RemoveIf
  <2> QED BY <2>1, <2>2, SameHolders, Zenon
<1>4. ASSUME NEW c \in Consumer, WatcherStep(c) PROVE CountInv'
  <2>1. leases' = leases /\ body' = body
    BY <1>4, Zenon DEF WatcherStep, Probe, Located, PublishFirst, SubscribeWatcher,
                       WakeWatcher, Publish, storeVars, bodyVars
  <2> QED BY <2>1, SameHolders, Zenon
<1>5. ASSUME NEW c \in Consumer, ActivationStep(c) PROVE CountInv'
  <2>1. PICK b \in BodyState :
           /\ body' = [body EXCEPT ![c] = b]
           /\ Keeps(c, b) \/ (\E p \in Provision : Takes(c, b, p)) \/ Returns(c, b)
    BY <1>5, BodyMoves, Zenon
  <2>2. CASE Keeps(c, b)
    <3>1. leases' = leases /\ \A d \in Consumer : body'[d].guards = body[d].guards
      BY <1>0, <2>1, <2>2, Zenon DEF Keeps
    <3> QED BY <3>1, SameHolders, Zenon
  <2>3. ASSUME NEW p \in Provision, Takes(c, b, p) PROVE CountInv'
    BY <2>1, <2>3, TakenCount, Zenon
  <2>4. CASE Returns(c, b)
    BY <2>1, <2>4, ReturnedCount, Zenon
  <2> QED BY <2>1, <2>2, <2>3, <2>4, Zenon
<1>6. CASE UNCHANGED vars
  <2>1. leases' = leases /\ body' = body
    BY <1>6, Zenon DEF vars
  <2> QED BY <2>1, SameHolders, Zenon
<1> QED BY <1>1, <1>2, <1>3, <1>4, <1>5, <1>6, Zenon DEF Next, WithdrawalStep, ActivationStep

-----------------------------------------------------------------------------
(* The grants: what the store, the cells and the activations keep. *)

GrantInv == TypeOK /\ GuardInv /\ StoreInv /\ CountInv

LEMMA GrantInit ==
    ASSUME Init PROVE GrantInv
<1>1. /\ slots = [a \in Slot |-> None]
      /\ leases = [p \in Provision |-> [active |-> 0, closed |-> FALSE]]
      /\ vital = [p \in Provision |-> TRUE]
      /\ reports = 0
      /\ edge = [s \in Subscriber |-> FALSE]
      /\ stage = [p \in Provision |-> "idle"]
      /\ phase = [p \in Provision |-> "drain"]
      /\ watcher = [c \in Consumer |-> [at |-> "first", walk |-> Start]]
      /\ published = [c \in Consumer |-> None]
      /\ missed = [c \in Consumer |-> FALSE]
      /\ body = [c \in Consumer |-> [at |-> "idle", epoch |-> None, walk |-> Start,
                                     located |-> None, guards |-> <<>>, runs |-> 0]]
      /\ blocked = [c \in Consumer |-> None]
  BY DEF Init
<1>2. /\ 0 \in 0..MaxReports /\ 0 \in 0..MaxActivations /\ 0 \in Nat
      /\ <<>> \in Seq(Provision) /\ None \in Epoch /\ "idle" \in Stage
  BY RegistryConstants DEF Epoch, Stage
<1>3. [at |-> "idle", epoch |-> None, walk |-> Start, located |-> None,
       guards |-> <<>>, runs |-> 0] \in BodyState
  BY <1>2, WalkTypes, Zenon DEF BodyState
<1>4. [at |-> "first", walk |-> Start] \in WatcherState
  BY WalkTypes, Zenon DEF WatcherState
<1>5. TypeOK
  <2>1. /\ body \in [Consumer -> BodyState] /\ watcher \in [Consumer -> WatcherState]
        /\ published \in [Consumer -> Epoch] /\ blocked \in [Consumer -> Epoch]
    BY <1>1, <1>2, <1>3, <1>4, Zenon
  <2>2. /\ slots \in [Slot -> Provision \union {None}]
        /\ leases \in [Provision -> [active : Nat, closed : BOOLEAN]]
        /\ vital \in [Provision -> BOOLEAN] /\ edge \in [Subscriber -> BOOLEAN]
        /\ missed \in [Consumer -> BOOLEAN]
        /\ stage \in [Provision -> Stage] /\ phase \in [Provision -> {"drain", "undo"}]
    BY <1>1, <1>2, Zenon
  <2> QED BY <1>1, <1>2, <2>1, <2>2, Zenon DEF TypeOK, BodyState, WatcherState
<1>6. \A c \in Consumer : body[c].at = "idle" /\ body[c].guards = <<>>
  BY <1>1, Zenon
<1>7. GuardInv
  BY <1>6 DEF GuardInv
<1>8. StoreInv
  <2>1. \A p \in Provision : ~leases[p].closed /\ stage[p] = "idle"
    BY <1>1
  <2>2. \A a \in Slot : slots[a] = None
    BY <1>1, Zenon
  <2> QED BY <2>1, <2>2, RegistryConstants DEF StoreInv, OpenIffCurrent
<1>9. CountInv
  <2>1. ASSUME NEW q PROVE Holders(q) = {}
    <3>1. DOMAIN (<<>>) = {}
      OBVIOUS
    <3> QED BY <1>6, <3>1, HolderIs
  <2>2. \A p \in Provision : leases[p].active = 0
    BY <1>1
  <2> QED BY <2>1, <2>2, FS_EmptySet, Zenon DEF CountInv
<1> QED BY <1>5, <1>7, <1>8, <1>9 DEF GrantInv

LEMMA GrantStep ==
    ASSUME GrantInv, [Next]_vars PROVE GrantInv'
<1> USE DEF GrantInv
<1>1. TypeOK' /\ GuardInv'
  <2>1. ASSUME NEW p \in Provision,
               \/ Refused(p) \/ Insert(p) \/ Announce(p) \/ ReportVitality(p)
               \/ (\E from \in {"drain", "undo"} : RemoveIf(p, from)) \/ WithdrawalStep(p)
        PROVE  TypeOK' /\ GuardInv'
    <3>1. TypeOK'
      BY <2>1, ProviderTypes, Zenon
    <3>2. body' = body
      BY <2>1, Zenon DEF Refused, Insert, Announce, ReportVitality, RemoveIf, WithdrawalStep,
                         AnnounceRemoval, Subscribe, Woken, bodyVars
    <3> QED BY <3>1, <3>2, Zenon DEF GuardInv
  <2>2. ASSUME NEW c \in Consumer, WatcherStep(c) PROVE TypeOK' /\ GuardInv'
    <3>1. TypeOK'
      BY <2>2, WatcherTypes, Zenon
    <3>2. body' = body
      BY <2>2, Zenon DEF WatcherStep, Probe, Located, PublishFirst, SubscribeWatcher,
                         WakeWatcher, Publish, bodyVars
    <3> QED BY <3>1, <3>2, Zenon DEF GuardInv
  <2>3. ASSUME NEW c \in Consumer, ActivationStep(c) PROVE TypeOK' /\ GuardInv'
    BY <2>3, ActivationTypes, Zenon
  <2>4. CASE UNCHANGED vars
    BY <2>4, Zenon DEF vars, TypeOK, GuardInv
  <2> QED BY <2>1, <2>2, <2>3, <2>4, Zenon DEF Next, ActivationStep
<1>2. StoreInv'
  BY StoreStep
<1>3. CountInv'
  BY CountStep
<1> QED BY <1>1, <1>2, <1>3

LEMMA GrantsHold == Spec => []GrantInv
<1>1. Init => GrantInv
  BY GrantInit
<1>2. GrantInv /\ [Next]_vars => GrantInv'
  BY GrantStep
<1> QED BY <1>1, <1>2, PTL DEF Spec

(* I2 of the withdrawal: whatever consumers activate, hold and return, when   *)
(* a provider's inverses run and when its value is dropped nobody holds a     *)
(* lease on it.                                                               *)
THEOREM DependentsGoFirst == Spec => []DependentsFirst
<1>1. GrantInv => DependentsFirst
  <2> SUFFICES ASSUME GrantInv, NEW p \in Provision, stage[p] \in {"inverses", "gone"}
               PROVE  Holders(p) = {}
    BY DEF DependentsFirst
  <2>1. leases[p].active = 0
    BY Zenon DEF GrantInv, StoreInv, IsDrained
  <2>2. IsFiniteSet(Holders(p)) /\ Cardinality(Holders(p)) = 0
    BY <2>1, Zenon DEF GrantInv, CountInv
  <2> QED BY <2>2, FS_EmptySet, Zenon
<1> QED BY <1>1, GrantsHold, PTL

(* The cell of a provision that was made is open exactly while the slot map   *)
(* shows it: superseding and removing close it in the same step, and nothing  *)
(* else does.                                                                 *)
THEOREM OpenWhileCurrent == Spec => []OpenIffCurrent
<1>1. GrantInv => OpenIffCurrent
  BY DEF GrantInv, StoreInv
<1> QED BY <1>1, GrantsHold, PTL

-----------------------------------------------------------------------------
(* The context tree: what a layer chain is. *)

(* s leads from x to the root, parent by parent.                              *)
IsChain(s, x) ==
    /\ s \in Seq(Context) /\ Len(s) >= 1
    /\ s[1] = x /\ s[Len(s)] = Root
    /\ \A i \in 1..(Len(s) - 1) : s[i] # Root /\ s[i + 1] = Parent[s[i]]

LEMMA RootChain == IsChain(<<Root>>, Root)
BY ContextConstants DEF IsChain

LEMMA LongerChain ==
    ASSUME NEW x \in Context, x # Root, NEW s, IsChain(s, Parent[x])
    PROVE  IsChain(<<x>> \o s, x)
<1> DEFINE t == <<x>> \o s
<1>1. s \in Seq(Context) /\ Len(s) \in Nat /\ Len(s) >= 1 /\ s[1] = Parent[x]
      /\ s[Len(s)] = Root /\ \A i \in 1..(Len(s) - 1) : s[i] # Root /\ s[i + 1] = Parent[s[i]]
  BY DEF IsChain
<1>2. t \in Seq(Context) /\ Len(t) = Len(s) + 1
  BY <1>1
<1>3. t[1] = x /\ \A i \in 2..(Len(s) + 1) : t[i] = s[i - 1]
  BY <1>1
<1> HIDE DEF t
<1>4. t[Len(t)] = Root
  BY <1>1, <1>2, <1>3
<1>5. ASSUME NEW i \in 1..(Len(t) - 1) PROVE t[i] # Root /\ t[i + 1] = Parent[t[i]]
  <2>1. CASE i = 1
    <3>1. t[2] = s[1]
      BY <1>1, <1>3
    <3> QED BY <1>1, <1>3, <2>1, <3>1
  <2>2. CASE i # 1
    <3>1. /\ i \in 2..(Len(s) + 1) /\ i + 1 \in 2..(Len(s) + 1) /\ (i + 1) - 1 = i
          /\ i - 1 \in 1..(Len(s) - 1) /\ (i - 1) + 1 = i
      BY <1>1, <1>2, <2>2
    <3>2. t[i] = s[i - 1] /\ t[i + 1] = s[i]
      BY <1>3, <3>1
    <3>3. s[i - 1] # Root /\ s[i] = Parent[s[i - 1]]
      BY <1>1, <3>1
    <3> QED BY <3>2, <3>3
  <2> QED BY <2>1, <2>2
<1>6. 1 <= Len(t)
  BY <1>1, <1>2
<1> QED BY <1>2, <1>3, <1>4, <1>5, <1>6 DEF IsChain, t

(* Whatever stands on a chain has the rest of it for its own.                 *)
LEMMA RestOfChain ==
    ASSUME NEW x, NEW s, IsChain(s, x), NEW j \in 1..Len(s)
    PROVE  /\ IsChain(SubSeq(s, j, Len(s)), s[j])
           /\ Len(SubSeq(s, j, Len(s))) = Len(s) - j + 1
<1> DEFINE t == SubSeq(s, j, Len(s))
<1>1. s \in Seq(Context) /\ Len(s) \in Nat /\ Len(s) >= 1 /\ j \in Nat /\ j >= 1 /\ j <= Len(s)
      /\ s[Len(s)] = Root /\ \A i \in 1..(Len(s) - 1) : s[i] # Root /\ s[i + 1] = Parent[s[i]]
  BY DEF IsChain
<1>2. t \in Seq(Context) /\ Len(t) = Len(s) - j + 1 /\ \A i \in 1..(Len(s) - j + 1) : t[i] = s[j + i - 1]
  BY <1>1
<1> HIDE DEF t
<1>3. Len(t) >= 1 /\ t[1] = s[j] /\ t[Len(t)] = Root
  <2>1. 1 \in 1..(Len(s) - j + 1) /\ Len(t) \in 1..(Len(s) - j + 1) /\ j + 1 - 1 = j
        /\ j + Len(t) - 1 = Len(s)
    BY <1>1, <1>2
  <2>2. t[1] = s[j + 1 - 1] /\ t[Len(t)] = s[j + Len(t) - 1]
    BY <1>2, <2>1
  <2> QED BY <1>1, <2>1, <2>2
<1>4. ASSUME NEW i \in 1..(Len(t) - 1) PROVE t[i] # Root /\ t[i + 1] = Parent[t[i]]
  <2>1. /\ i \in 1..(Len(s) - j + 1) /\ i + 1 \in 1..(Len(s) - j + 1)
        /\ j + i - 1 \in 1..(Len(s) - 1) /\ (j + i - 1) + 1 = j + (i + 1) - 1
    BY <1>1, <1>2
  <2>2. t[i] = s[j + i - 1] /\ t[i + 1] = s[j + (i + 1) - 1]
    BY <1>2, <2>1, Zenon
  <2>3. s[j + i - 1] # Root /\ s[(j + i - 1) + 1] = Parent[s[j + i - 1]]
    BY <1>1, <2>1, Zenon
  <2> QED BY <2>1, <2>2, <2>3, Zenon
<1> QED BY <1>2, <1>3, <1>4 DEF IsChain, t

(* Induction over the tree, for sets: what the root has, and every layer      *)
(* whose parent has it, every context has.                                    *)
LEMMA TreeInduction ==
    ASSUME NEW G, Root \in G,
           \A x \in Context \ {Root} : Parent[x] \in G => x \in G
    PROVE  Context \subseteq G
<1> DEFINE S == {x \in Context \ {Root} : x \notin G}
<1>1. ASSUME S # {} PROVE FALSE
  <2>1. S \in SUBSET (Context \ {Root})
    OBVIOUS
  <2>2. PICK x \in S : Parent[x] \notin S
    BY <1>1, <2>1, ContextConstants, Zenon
  <2>3. x \in Context \ {Root} /\ x \notin G /\ Parent[x] \in Context
    BY ContextConstants
  <2> QED BY <2>2, <2>3
<1> QED BY <1>1

LEMMA ChainExists == \A x \in Context : \E s : IsChain(s, x)
<1> DEFINE G == {x \in Context : \E s : IsChain(s, x)}
<1>1. Root \in G
  BY RootChain, ContextConstants
<1>2. ASSUME NEW x \in Context \ {Root}, Parent[x] \in G PROVE x \in G
  BY <1>2, LongerChain
<1> HIDE DEF G
<1>3. Context \subseteq G
  BY <1>1, <1>2, TreeInduction
<1> QED BY <1>3 DEF G

LEMMA ChainUnique ==
    \A x \in Context : \A s, t : IsChain(s, x) /\ IsChain(t, x) => s = t
<1> DEFINE G == {x \in Context : \A s, t : IsChain(s, x) /\ IsChain(t, x) => s = t}
<1>0. ASSUME NEW x, NEW s, IsChain(s, x)
      PROVE  /\ s \in Seq(Context) /\ Len(s) \in Nat /\ Len(s) >= 1 /\ s[1] = x
             /\ x = Root => Len(s) = 1
             /\ x # Root => Len(s) >= 2
  <2>1. /\ s \in Seq(Context) /\ Len(s) \in Nat /\ Len(s) >= 1 /\ s[1] = x
        /\ s[Len(s)] = Root
    BY <1>0 DEF IsChain
  <2>n. Len(s) \in Nat /\ Len(s) >= 1
    BY <2>1
  <2>2. ASSUME x = Root, Len(s) # 1 PROVE FALSE
    <3>1. Len(s) # 1
      BY <2>2
    <3>2. 1 \in 1..(Len(s) - 1)
      BY <2>n, <3>1
    <3> QED BY <1>0, <2>1, <2>2, <3>2 DEF IsChain
  <2>3. x # Root => Len(s) # 1
    BY <2>1
  <2> QED BY <2>1, <2>2, <2>3
<1>1. Root \in G
  <2>1. ASSUME NEW s, NEW t, IsChain(s, Root), IsChain(t, Root) PROVE s = t
    <3>1. /\ s \in Seq(Context) /\ Len(s) = 1 /\ s[1] = Root
          /\ t \in Seq(Context) /\ Len(t) = 1 /\ t[1] = Root
      BY <1>0, <2>1
    <3> QED BY <3>1
  <2> QED BY <2>1, ContextConstants
<1>2. ASSUME NEW x \in Context \ {Root}, Parent[x] \in G PROVE x \in G
  <2>1. ASSUME NEW s, IsChain(s, x)
        PROVE  /\ s \in Seq(Context) /\ Len(s) \in Nat /\ Len(s) >= 2 /\ s[1] = x
               /\ IsChain(SubSeq(s, 2, Len(s)), Parent[x])
    <3>1. s \in Seq(Context) /\ Len(s) \in Nat /\ Len(s) >= 2 /\ s[1] = x
      BY <1>0, <2>1
    <3>2. s[2] = Parent[x]
      BY <2>1, <3>1 DEF IsChain
    <3>3. 2 \in 1..Len(s)
      BY <3>1
    <3> QED BY <2>1, <3>1, <3>2, <3>3, RestOfChain
  <2>2. ASSUME NEW s, NEW t, IsChain(s, x), IsChain(t, x) PROVE s = t
    <3>1. SubSeq(s, 2, Len(s)) = SubSeq(t, 2, Len(t))
      <4>1. /\ IsChain(SubSeq(s, 2, Len(s)), Parent[x])
            /\ IsChain(SubSeq(t, 2, Len(t)), Parent[x])
        BY <2>1, <2>2
      <4>2. \A u, v : IsChain(u, Parent[x]) /\ IsChain(v, Parent[x]) => u = v
        BY <1>2
      <4> QED BY <4>1, <4>2
    <3>2. /\ s \in Seq(Context) /\ Len(s) \in Nat /\ Len(s) >= 2 /\ s[1] = x
          /\ t \in Seq(Context) /\ Len(t) \in Nat /\ Len(t) >= 2 /\ t[1] = x
      BY <2>1, <2>2
    <3>3. Len(s) - 1 = Len(t) - 1
      <4>1. Len(SubSeq(s, 2, Len(s))) = Len(s) - 1 /\ Len(SubSeq(t, 2, Len(t))) = Len(t) - 1
        BY <3>2
      <4> QED BY <3>1, <4>1
    <3>4. Len(s) = Len(t)
      BY <3>2, <3>3
    <3>5. ASSUME NEW i \in 2..Len(s) PROVE s[i] = t[i]
      <4>1. /\ SubSeq(s, 2, Len(s))[i - 1] = s[i]
            /\ SubSeq(t, 2, Len(t))[i - 1] = t[i]
        BY <3>2, <3>4
      <4> QED BY <3>1, <4>1
    <3>6. \A i \in 1..Len(s) : s[i] = t[i]
      BY <3>2, <3>5
    <3> QED BY <3>2, <3>4, <3>6
  <2> QED BY <2>2
<1> HIDE DEF G
<1>3. Context \subseteq G
  BY <1>1, <1>2, TreeInduction
<1> QED BY <1>3 DEF G

(* Chain is what it was defined to be: the layers from a context to the root. *)
LEMMA ChainIsChain == \A x \in Context : IsChain(Chain[x], x)
<1> DEFINE Def(f) == [x \in Context |-> <<x>> \o (IF x = Root THEN <<>> ELSE f[Parent[x]])]
           g == [x \in Context |-> CHOOSE s : IsChain(s, x)]
<1>1. ASSUME NEW x \in Context PROVE IsChain(g[x], x)
  BY ChainExists
<1>2. ASSUME NEW x \in Context
      PROVE  g[x] = <<x>> \o (IF x = Root THEN <<>> ELSE g[Parent[x]])
  <2>1. CASE x = Root
    <3>1. <<x>> \o <<>> = <<x>>
      OBVIOUS
    <3> QED BY <1>1, <2>1, <3>1, RootChain, ChainUnique
  <2>2. CASE x # Root
    <3>1. Parent[x] \in Context
      BY <2>2, ContextConstants
    <3>2. IsChain(<<x>> \o g[Parent[x]], x)
      BY <1>1, <2>2, <3>1, LongerChain
    <3> HIDE DEF g
    <3> QED BY <1>1, <2>2, <3>2, ChainUnique
  <2> QED BY <2>1, <2>2
<1>3. g = Def(g)
  <2>1. g = [x \in Context |-> g[x]]
    OBVIOUS
  <2> HIDE DEF g
  <2> QED BY <1>2, <2>1, Zenon
<1>4. Chain = CHOOSE f : f = Def(f)
  BY DEF Chain
<1> HIDE DEF g
<1>5. Chain = Def(Chain)
  BY <1>3, <1>4
<1>6. ASSUME NEW x \in Context
      PROVE  Chain[x] = <<x>> \o (IF x = Root THEN <<>> ELSE Chain[Parent[x]])
  BY <1>5
<1> DEFINE G == {x \in Context : IsChain(Chain[x], x)}
<1>7. Root \in G
  <2>1. Chain[Root] = <<Root>>
    <3>1. Chain[Root] = <<Root>> \o <<>>
      BY <1>6, ContextConstants, Zenon
    <3> QED BY <3>1, ContextConstants
  <2> QED BY <2>1, RootChain, ContextConstants
<1>8. ASSUME NEW x \in Context \ {Root}, Parent[x] \in G PROVE x \in G
  BY <1>6, <1>8, LongerChain
<1> HIDE DEF G
<1>9. Context \subseteq G
  BY <1>7, <1>8, TreeInduction
<1> QED BY <1>9 DEF G

-----------------------------------------------------------------------------
(* Where a resolution looks. *)

(* The places of a chain, and how long the chain of each is.                  *)
LEMMA ChainFacts ==
    ASSUME NEW x \in Context
    PROVE  /\ Chain[x] \in Seq(Context) /\ Len(Chain[x]) \in Nat \ {0}
           /\ DOMAIN Chain[x] = 1..Len(Chain[x])
           /\ Chain[x][1] = x /\ Chain[x][Len(Chain[x])] = Root
           /\ \A i \in 1..(Len(Chain[x]) - 1) :
                 Chain[x][i] # Root /\ Chain[x][i + 1] = Parent[Chain[x][i]]
           /\ \A i \in 1..Len(Chain[x]) :
                 /\ Chain[x][i] \in Context
                 /\ Len(Chain[Chain[x][i]]) = Len(Chain[x]) - i + 1
<1>1. IsChain(Chain[x], x)
  BY ChainIsChain
<1>2. Chain[x] \in Seq(Context) /\ Len(Chain[x]) \in Nat /\ Len(Chain[x]) >= 1
  BY <1>1 DEF IsChain
<1>3. ASSUME NEW i \in 1..Len(Chain[x])
      PROVE  /\ Chain[x][i] \in Context
             /\ Len(Chain[Chain[x][i]]) = Len(Chain[x]) - i + 1
  <2>1. Chain[x][i] \in Context
    BY <1>2
  <2>2. /\ IsChain(SubSeq(Chain[x], i, Len(Chain[x])), Chain[x][i])
        /\ Len(SubSeq(Chain[x], i, Len(Chain[x]))) = Len(Chain[x]) - i + 1
    BY <1>1, RestOfChain
  <2>3. Chain[Chain[x][i]] = SubSeq(Chain[x], i, Len(Chain[x]))
    BY <2>1, <2>2, ChainIsChain, ChainUnique
  <2> QED BY <2>1, <2>2, <2>3
<1>4. DOMAIN Chain[x] = 1..Len(Chain[x]) /\ Len(Chain[x]) \in Nat \ {0}
  BY <1>2
<1> QED BY <1>1, <1>2, <1>3, <1>4 DEF IsChain

(* The cut of a chain: up to it, and only up to it, every layer resolves the  *)
(* service in the realm the context does.                                     *)
LEMMA CutFacts ==
    ASSUME NEW x \in Context, NEW service
    PROVE  /\ Cut(x, service) \in 1..Len(Chain[x])
           /\ \A i \in 1..Cut(x, service) :
                 RealmOf(Chain[x][i], service) = RealmOf(x, service)
           /\ Cut(x, service) < Len(Chain[x]) =>
                 RealmOf(Chain[x][Cut(x, service) + 1], service) # RealmOf(x, service)
<1> DEFINE s == Chain[x]
           r == RealmOf(x, service)
           stops == {i \in DOMAIN s : s[i] = Root \/ Boundary(s[i], service, r)}
           m == Cut(x, service)
<1>0. /\ s \in Seq(Context) /\ Len(s) \in Nat \ {0} /\ DOMAIN s = 1..Len(s)
      /\ s[1] = x /\ s[Len(s)] = Root
      /\ \A i \in 1..(Len(s) - 1) : s[i] # Root /\ s[i + 1] = Parent[s[i]]
  BY ChainFacts
<1>1. m = CHOOSE i \in stops : \A j \in stops : i <= j
  BY DEF Cut
<1> HIDE DEF m, s, r
<1>2. stops \in SUBSET Nat /\ stops # {}
  <2>1. Len(s) \in DOMAIN s
    BY <1>0
  <2> QED BY <1>0, <2>1
<1>3. m \in stops /\ \A j \in stops : m <= j
  <2> HIDE DEF stops
  <2> QED BY <1>1, <1>2, LeastExists
<1>4. m \in 1..Len(s)
  BY <1>0, <1>3
<1>5. ASSUME NEW i \in 1..m PROVE RealmOf(s[i], service) = r
  <2>1. CASE i = 1
    BY <1>0, <2>1 DEF r
  <2>2. CASE i # 1
    <3>1. i - 1 \in 1..(Len(s) - 1) /\ i - 1 \in 1..Len(s) /\ i - 1 < m /\ (i - 1) + 1 = i
          /\ ~(m <= i - 1)
      BY <1>0, <1>4, <2>2
    <3>2. ~Boundary(s[i - 1], service, r) /\ s[i - 1] # Root
      BY <1>0, <1>3, <3>1
    <3>3. s[i] = Parent[s[i - 1]]
      BY <1>0, <3>1
    <3> QED BY <3>2, <3>3 DEF Boundary
  <2> QED BY <2>1, <2>2
<1>6. ASSUME m < Len(s) PROVE RealmOf(s[m + 1], service) # r
  <2>1. m \in 1..(Len(s) - 1)
    BY <1>0, <1>4, <1>6
  <2>2. s[m] # Root /\ s[m + 1] = Parent[s[m]]
    BY <1>0, <2>1
  <2>3. Boundary(s[m], service, r)
    BY <1>3, <2>2
  <2> QED BY <2>2, <2>3 DEF Boundary
<1> QED BY <1>4, <1>5, <1>6 DEF m, s, r

(* The walk of a consumer's service: it looks at the slots the service can be *)
(* answered from, the deepest first.                                          *)
LEMMA WalkFacts ==
    ASSUME NEW c \in Consumer, NEW i \in DOMAIN Injects[c]
    PROVE  /\ \E n \in Nat : DOMAIN Walks[c][i] = 1..n
           /\ \A j \in DOMAIN Walks[c][i] : Walks[c][i][j].context \in Context
           /\ \A j \in DOMAIN Walks[c][i] : \A p \in Provision :
                 At[p] = Walks[c][i][j] => p \in Visible[c][i]
           /\ \A p \in Visible[c][i] :
                 p \in Provision /\ \E j \in DOMAIN Walks[c][i] : At[p] = Walks[c][i][j]
           /\ \A j, k \in DOMAIN Walks[c][i] : j < k =>
                 Len(Chain[Walks[c][i][k].context]) < Len(Chain[Walks[c][i][j].context])
<1> DEFINE x == Seat[c]
           service == Injects[c][i]
           r == RealmOf(x, service)
           s == Chain[x]
           w == Walks[c][i]
           m == Cut(x, service)
<1>0. x \in Context
  BY RegistryConstants
<1>1. w = Walk(x, service)
  BY DEF Walks
<1>2. Visible[c][i] =
        {p \in Provision :
           /\ At[p].service = service /\ At[p].realm = r
           /\ r = RootRealm =>
                \E k \in DOMAIN s : /\ s[k] = At[p].context
                                    /\ \A j \in 1..k : RealmOf(s[j], service) = RootRealm}
  BY DEF Visible
<1>3. ASSUME NEW p \in Provision
      PROVE  \E y, t, q : At[p] = SlotFor(y, t, q)
  BY DEF At, EntrySlot
<1>4. ASSUME NEW p \in Provision
      PROVE  /\ At[p] = [context |-> At[p].context, service |-> At[p].service,
                         realm |-> At[p].realm]
             /\ At[p].realm # RootRealm => At[p].context = Root
  <2>1. PICK y, t, q : At[p] = SlotFor(y, t, q)
    BY <1>3
  <2>2. PICK z : z = IF q = RootRealm THEN y ELSE Root
    OBVIOUS
  <2>3. At[p] = [context |-> z, service |-> t, realm |-> q]
    BY <2>1, <2>2, Zenon DEF SlotFor
  <2>4. At[p].context = z /\ At[p].service = t /\ At[p].realm = q
    BY <2>3
  <2> QED BY <2>2, <2>3, <2>4, Zenon
<1>5. CASE r # RootRealm
  <2>1. w = <<[context |-> Root, service |-> service, realm |-> r]>>
    BY <1>1, <1>5 DEF Walk, SlotFor
  <2>2. DOMAIN w = 1..1 /\ w[1] = [context |-> Root, service |-> service, realm |-> r]
    BY <2>1
  <2> HIDE DEF w, r, service, x
  <2>3. ASSUME NEW p \in Provision
        PROVE  p \in Visible[c][i] <=> At[p] = w[1]
    <3>1. p \in Visible[c][i] <=> At[p].service = service /\ At[p].realm = r
      BY <1>2, <1>5, Zenon
    <3>2. w[1].context = Root /\ w[1].service = service /\ w[1].realm = r
      BY <2>2
    <3>3. At[p].service = service /\ At[p].realm = r => At[p].context = Root
      BY <1>4, <1>5, Zenon
    <3>4. At[p].service = service /\ At[p].realm = r => At[p] = w[1]
      BY <1>4, <2>2, <3>3, Zenon
    <3> QED BY <3>1, <3>2, <3>4, Zenon
  <2>4. \A j : j \in DOMAIN w <=> j = 1
    BY <2>2
  <2>5. Visible[c][i] \subseteq Provision
    BY <1>2
  <2>6. w[1].context \in Context
    BY <2>2, ContextConstants
  <2> QED BY <2>2, <2>3, <2>4, <2>5, <2>6 DEF w
<1>6. CASE r = RootRealm
  <2>0. /\ s \in Seq(Context) /\ Len(s) \in Nat \ {0} /\ DOMAIN s = 1..Len(s)
        /\ \A k \in 1..Len(s) : Len(Chain[s[k]]) = Len(s) - k + 1
    BY <1>0, ChainFacts
  <2>1. /\ m \in 1..Len(s)
        /\ \A k \in 1..m : RealmOf(s[k], service) = RootRealm
        /\ m < Len(s) => RealmOf(s[m + 1], service) # RootRealm
    BY <1>0, <1>6, CutFacts
  <2>2. w = [k \in DOMAIN SubSeq(s, 1, m) |-> SlotFor(SubSeq(s, 1, m)[k], service, r)]
    BY <1>1, <1>6 DEF Walk, ResolutionFrames
  <2> HIDE DEF w, r, service, x, s, m
  <2>3. DOMAIN SubSeq(s, 1, m) = 1..m /\ \A k \in 1..m : SubSeq(s, 1, m)[k] = s[k]
    BY <2>0, <2>1
  <2>4. /\ DOMAIN w = 1..m
        /\ \A k \in 1..m : w[k] = [context |-> s[k], service |-> service, realm |-> RootRealm]
    BY <1>6, <2>2, <2>3 DEF SlotFor
  <2>5. ASSUME NEW j \in DOMAIN w, NEW p \in Provision, At[p] = w[j]
        PROVE  p \in Visible[c][i]
    <3>1. /\ At[p].context = s[j] /\ At[p].service = service /\ At[p].realm = r
          /\ j \in DOMAIN s /\ \A k \in 1..j : k \in 1..m
      BY <1>6, <2>0, <2>1, <2>4, <2>5
    <3>2. \A k \in 1..j : RealmOf(s[k], service) = RootRealm
      BY <2>1, <3>1
    <3> QED BY <1>2, <3>1, <3>2
  <2>6. ASSUME NEW p \in Visible[c][i]
        PROVE  p \in Provision /\ \E j \in DOMAIN w : At[p] = w[j]
    <3>1. p \in Provision /\ At[p].service = service /\ At[p].realm = RootRealm
      BY <1>2, <1>6
    <3>2. PICK k \in DOMAIN s : /\ s[k] = At[p].context
                                /\ \A j \in 1..k : RealmOf(s[j], service) = RootRealm
      BY <1>2, <1>6
    <3>3. ASSUME ~(k <= m) PROVE FALSE
      <4>1. m < Len(s) /\ m + 1 \in 1..k
        BY <2>0, <2>1, <3>3
      <4> QED BY <2>1, <3>2, <4>1
    <3>4. k \in 1..m
      BY <2>0, <2>1, <3>3
    <3>5. At[p] = w[k]
      BY <1>4, <2>4, <3>1, <3>2, <3>4
    <3> QED BY <2>4, <3>1, <3>4, <3>5
  <2>7. ASSUME NEW j \in DOMAIN w, NEW k \in DOMAIN w, j < k
        PROVE  Len(Chain[w[k].context]) < Len(Chain[w[j].context])
    <3>1. j \in 1..Len(s) /\ k \in 1..Len(s) /\ j \in 1..m /\ k \in 1..m
      BY <2>0, <2>1, <2>4
    <3>2. w[j].context = s[j] /\ w[k].context = s[k]
      BY <2>4, <3>1
    <3>3. Len(Chain[s[j]]) = Len(s) - j + 1 /\ Len(Chain[s[k]]) = Len(s) - k + 1
      BY <2>0, <3>1
    <3>4. Len(s) - k + 1 < Len(s) - j + 1
      BY <2>0, <2>7, <3>1
    <3> QED BY <3>2, <3>3, <3>4
  <2>8. m \in Nat /\ \A k \in DOMAIN w : w[k].context \in Context
    BY <2>0, <2>1, <2>4
  <2> QED BY <2>4, <2>5, <2>6, <2>7, <2>8 DEF w
<1> QED BY <1>5, <1>6

-----------------------------------------------------------------------------
(* What a computation answers. *)

(* With the slots s and the vitalities v: p is what the walk of c's service i *)
(* comes upon first.                                                          *)
Found(s, c, i, p) ==
    \E j \in DOMAIN Walks[c][i] :
        /\ p = s[Walks[c][i][j]] /\ p # None
        /\ \A k \in DOMAIN Walks[c][i] : k < j => s[Walks[c][i][k]] = None

(* The service is missing, or its provider is not vital.                      *)
Lacks(s, v, c, i) ==
    \/ \A j \in DOMAIN Walks[c][i] : s[Walks[c][i][j]] = None
    \/ \E p : Found(s, c, i, p) /\ ~v[p]

(* e is what compute answers when nothing changes under it.                   *)
Answers(s, v, c, e) ==
    \/ e = None /\ \E i \in 1..Len(Injects[c]) : Lacks(s, v, c, i)
    \/ /\ e \in Seq(Provision) /\ Len(e) = Len(Injects[c])
       /\ \A i \in 1..Len(Injects[c]) : Found(s, c, i, e[i]) /\ v[e[i]]

(* The walk w came where it is by what s and v show.                          *)
Progress(s, v, c, w) ==
    /\ w \in WalkState /\ w.frame >= 1
    /\ w.service \in 1..(Len(Injects[c]) + 1) /\ Len(w.found) = w.service - 1
    /\ \A i \in 1..(w.service - 1) : Found(s, c, i, w.found[i]) /\ v[w.found[i]]
    /\ w.service <= Len(Injects[c]) =>
          \A k \in DOMAIN Walks[c][w.service] :
              k < w.frame => s[Walks[c][w.service][k]] = None

LEMMA InjectFacts ==
    ASSUME NEW c \in Consumer
    PROVE  /\ Injects[c] \in Seq(Service) /\ Len(Injects[c]) \in Nat \ {0}
           /\ DOMAIN Injects[c] = 1..Len(Injects[c])
           /\ DOMAIN Walks[c] = 1..Len(Injects[c])
           /\ \A i \in 1..Len(Injects[c]) : \E n \in Nat : DOMAIN Walks[c][i] = 1..n
<1>1. Injects[c] \in Seq(Service) /\ Injects[c] # <<>>
  BY RegistryConstants
<1>2. Len(Injects[c]) \in Nat \ {0} /\ DOMAIN Injects[c] = 1..Len(Injects[c])
  BY <1>1
<1>3. DOMAIN Walks[c] = 1..Len(Injects[c])
  BY <1>2 DEF Walks
<1> QED BY <1>1, <1>2, <1>3, WalkFacts

LEMMA ProgressStarts ==
    ASSUME NEW s, NEW v, NEW c \in Consumer
    PROVE  Progress(s, v, c, Start)
<1>1. /\ Start \in WalkState /\ Start.frame = 1 /\ Start.service = 1
      /\ Start.found = <<>>
  BY WalkTypes DEF Start
<1>2. Len(Start.found) = 0
  BY <1>1
<1>3. 1 <= Len(Injects[c]) => \A k \in DOMAIN Walks[c][1] : ~(k < 1)
  BY InjectFacts
<1> HIDE DEF Start
<1>4. 1 \in 1..(Len(Injects[c]) + 1)
  BY InjectFacts
<1> QED BY <1>1, <1>2, <1>3, <1>4 DEF Progress

(* Past an empty slot the walk looks at the next frame.                       *)
LEMMA ProgressFrame ==
    ASSUME NEW s, NEW v, NEW c \in Consumer, NEW w, Progress(s, v, c, w), InWalk(c, w),
           s[Frame(c, w)] = None
    PROVE  Progress(s, v, c, NextFrame(w))
<1> DEFINE u == NextFrame(w)
<1>0. /\ w \in WalkState /\ w.frame \in Nat /\ w.frame >= 1 /\ w.service \in Nat
      /\ u \in WalkState
  BY WalkTypes DEF Progress, WalkState
<1>1. u.frame = w.frame + 1 /\ u.service = w.service /\ u.found = w.found
  BY <1>0 DEF NextFrame, WalkState
<1> HIDE DEF u
<1>2. ASSUME w.service <= Len(Injects[c]), NEW k \in DOMAIN Walks[c][w.service], k < w.frame + 1
      PROVE  s[Walks[c][w.service][k]] = None
  <2>1. w.service \in 1..Len(Injects[c])
    BY <1>2 DEF Progress
  <2>2. k \in Nat
    BY <2>1, InjectFacts
  <2>3. k < w.frame \/ k = w.frame
    BY <1>0, <1>2, <2>2
  <2> QED BY <1>2, <2>3 DEF Progress, Frame
<1>3. w.frame + 1 >= 1
  BY <1>0
<1> QED BY <1>0, <1>1, <1>2, <1>3 DEF Progress, u

(* At a vital provision it goes on to the next service.                       *)
LEMMA ProgressService ==
    ASSUME NEW s, NEW v, NEW c \in Consumer, NEW w, Progress(s, v, c, w), InWalk(c, w),
           NEW p \in Provision, p = s[Frame(c, w)], p # None, v[p]
    PROVE  Progress(s, v, c, NextService(w, p))
<1> DEFINE u == NextService(w, p)
           n == Len(Injects[c])
<1>0. /\ w \in WalkState /\ w.frame \in Nat /\ w.frame >= 1 /\ w.service \in 1..n
      /\ u \in WalkState /\ w.found \in Seq(Provision) /\ Len(w.found) = w.service - 1
      /\ n \in Nat \ {0}
  BY WalkTypes, InjectFacts DEF Progress, WalkState, InWalk
<1>1. u.frame = 1 /\ u.service = w.service + 1 /\ u.found = Append(w.found, p)
  BY DEF NextService
<1> HIDE DEF u, n
<1>2. Len(u.found) = u.service - 1 /\ u.service \in 1..(n + 1)
  BY <1>0, <1>1
<1>3. Found(s, c, w.service, p)
  <2>1. w.service <= n
    BY <1>0
  <2>2. \A k \in DOMAIN Walks[c][w.service] : k < w.frame => s[Walks[c][w.service][k]] = None
    BY <2>1 DEF Progress, n
  <2> QED BY <2>2 DEF Found, Frame, InWalk
<1>4. ASSUME NEW i \in 1..(u.service - 1) PROVE Found(s, c, i, u.found[i]) /\ v[u.found[i]]
  <2>1. CASE i = w.service
    <3>1. u.found[i] = p
      BY <1>0, <1>1, <2>1
    <3> QED BY <1>3, <2>1, <3>1
  <2>2. CASE i # w.service
    <3>1. i \in 1..(w.service - 1) /\ u.found[i] = w.found[i]
      BY <1>0, <1>1, <2>2
    <3> QED BY <3>1 DEF Progress
  <2> QED BY <2>1, <2>2
<1>5. ASSUME u.service <= n, NEW k \in DOMAIN Walks[c][u.service] PROVE ~(k < 1)
  <2>1. u.service \in 1..n
    BY <1>0, <1>1, <1>5
  <2> QED BY <2>1, InjectFacts DEF n
<1>6. u.frame >= 1
  BY <1>1
<1> QED BY <1>0, <1>1, <1>2, <1>4, <1>5, <1>6 DEF Progress, u, n

(* And when it ends, it answers.                                              *)
LEMMA ProgressAnswers ==
    ASSUME NEW s, NEW v, NEW c \in Consumer, NEW w, Progress(s, v, c, w),
           InWalk(c, w) => s[Frame(c, w)] # None /\ ~v[s[Frame(c, w)]]
    PROVE  Answers(s, v, c, IF AllFound(c, w) THEN w.found ELSE None)
<1> DEFINE n == Len(Injects[c])
<1>0. /\ w \in WalkState /\ w.frame \in Nat /\ w.frame >= 1 /\ w.service \in 1..(n + 1)
      /\ w.found \in Seq(Provision) /\ Len(w.found) = w.service - 1
      /\ n \in Nat \ {0}
  BY InjectFacts DEF Progress, WalkState
<1>1. CASE w.service > n
  <2>1. w.service - 1 = n
    BY <1>0, <1>1
  <2>2. \A i \in 1..n : Found(s, c, i, w.found[i]) /\ v[w.found[i]]
    BY <2>1 DEF Progress
  <2> QED BY <1>0, <1>1, <2>1, <2>2 DEF Answers, AllFound
<1>2. CASE ~(w.service > n)
  <2>1. w.service \in 1..n /\ w.service <= n
    BY <1>0, <1>2
  <2>2. \A k \in DOMAIN Walks[c][w.service] : k < w.frame => s[Walks[c][w.service][k]] = None
    BY <2>1 DEF Progress
  <2>3. CASE InWalk(c, w)
    <3>1. Found(s, c, w.service, s[Frame(c, w)])
      BY <2>2, <2>3 DEF Found, Frame, InWalk
    <3>2. Lacks(s, v, c, w.service)
      BY <2>3, <3>1 DEF Lacks
    <3> QED BY <1>2, <2>1, <3>2 DEF Answers, AllFound
  <2>4. CASE ~InWalk(c, w)
    <3>1. w.frame \notin DOMAIN Walks[c][w.service]
      BY <2>1, <2>4, InjectFacts DEF InWalk
    <3>2. \A k \in DOMAIN Walks[c][w.service] : k < w.frame
      BY <1>0, <2>1, <3>1, InjectFacts
    <3>3. Lacks(s, v, c, w.service)
      BY <2>2, <3>2 DEF Lacks
    <3> QED BY <1>2, <2>1, <3>3 DEF Answers, AllFound
  <2> QED BY <2>3, <2>4
<1> QED BY <1>1, <1>2

(* What is found is the nearest provision the service can be answered from,   *)
(* and the only one.                                                          *)
LEMMA FoundIsNearest ==
    ASSUME TypeOK, StoreInv, NEW c \in Consumer, NEW i \in 1..Len(Injects[c]), NEW p,
           Found(slots, c, i, p)
    PROVE  /\ p \in Visible[c][i] /\ Nearest(p, c, i)
           /\ \A q \in Visible[c][i] : Nearest(q, c, i) => q = p
<1> DEFINE w == Walks[c][i]
           D(q) == Len(Chain[At[q].context])
<1>0. i \in DOMAIN Injects[c] /\ i \in DOMAIN Walks[c]
  BY InjectFacts
<1>1. PICK j \in DOMAIN w : /\ p = slots[w[j]] /\ p # None
                            /\ \A k \in DOMAIN w : k < j => slots[w[k]] = None
  BY DEF Found
<1>2. \A k \in DOMAIN w : w[k] \in Slot /\ slots[w[k]] \in Provision \union {None}
  BY <1>0, SlotFacts DEF TypeOK
<1>3. p \in Provision /\ At[p] = w[j] /\ slots[At[p]] = p
  BY <1>1, <1>2 DEF StoreInv
<1>4. p \in Visible[c][i]
  BY <1>0, <1>3, WalkFacts
<1>5. PICK n \in Nat : DOMAIN w = 1..n
  BY <1>0, WalkFacts
<1>6. \A k, l \in DOMAIN w : k < l => Len(Chain[w[l].context]) < Len(Chain[w[k].context])
  BY <1>0, WalkFacts
<1>7. \A k \in DOMAIN w : Len(Chain[w[k].context]) \in Nat
  BY <1>0, WalkFacts, ChainFacts
<1> HIDE DEF w
<1>8. ASSUME NEW q \in Visible[c][i], slots[At[q]] = q
      PROVE  q = p \/ D(q) < D(p)
  <2>1. PICK k \in DOMAIN w : At[q] = w[k]
    BY <1>0, WalkFacts DEF w
  <2>2. q \in Provision
    BY <1>0, WalkFacts
  <2>3. slots[w[k]] # None
    BY <1>8, <2>1, <2>2, RegistryConstants
  <2>4. ~(k < j)
    BY <1>1, <2>3
  <2>5. k = j \/ j < k
    BY <1>5, <2>4
  <2>6. CASE k = j
    BY <1>3, <1>8, <2>1, <2>6
  <2>7. CASE j < k
    BY <1>3, <1>6, <2>1, <2>7
  <2> QED BY <2>5, <2>6, <2>7
<1>9. \A q \in Provision : Depth[q] = D(q)
  BY DEF Depth
<1>10. \A q \in Visible[c][i] : q \in Provision /\ D(q) \in Nat
  BY <1>0, <1>7, WalkFacts DEF w
<1> HIDE DEF D
<1>11. Nearest(p, c, i)
  BY <1>3, <1>4, <1>8, <1>9, <1>10 DEF Nearest
<1>12. ASSUME NEW q \in Visible[c][i], Nearest(q, c, i) PROVE q = p
  <2>1. slots[At[q]] = q /\ Depth[p] <= Depth[q]
    BY <1>3, <1>4, <1>12 DEF Nearest
  <2> QED BY <1>3, <1>4, <1>8, <1>9, <1>10, <2>1
<1> QED BY <1>4, <1>11, <1>12

(* An answer is what all slots give when they are read at once.               *)
LEMMA AnswerIsCurrent ==
    ASSUME TypeOK, StoreInv, NEW c \in Consumer, NEW e, Answers(slots, vital, c, e)
    PROVE  e = CurrentEpoch(c)
<1> DEFINE n == Len(Injects[c])
           Served(i) == \E p \in Visible[c][i] : Nearest(p, c, i) /\ vital[p]
           Best(i) == CHOOSE p \in Visible[c][i] : Nearest(p, c, i)
<1>0. n \in Nat \ {0} /\ DOMAIN Injects[c] = 1..n
  BY InjectFacts
<1>e. CurrentEpoch(c) = IF \A i \in 1..n : Served(i) THEN [i \in 1..n |-> Best(i)] ELSE None
  BY <1>0 DEF CurrentEpoch
<1>1. ASSUME e = None, NEW i \in 1..n, Lacks(slots, vital, c, i)
      PROVE  e = CurrentEpoch(c)
  <2>1. ASSUME Served(i) PROVE FALSE
    <3>1. PICK p \in Visible[c][i] : Nearest(p, c, i) /\ vital[p]
      BY <2>1
    <3>2. /\ p \in Provision /\ slots[At[p]] = p
          /\ \E j \in DOMAIN Walks[c][i] : At[p] = Walks[c][i][j]
      BY <1>0, <3>1, WalkFacts DEF Nearest
    <3>3. p # None
      BY <3>2, RegistryConstants
    <3>4. PICK q : Found(slots, c, i, q) /\ ~vital[q]
      BY <1>1, <3>2, <3>3 DEF Lacks
    <3>5. q = p
      BY <3>1, <3>4, FoundIsNearest
    <3> QED BY <3>1, <3>4, <3>5
  <2> HIDE DEF Served, Best
  <2> QED BY <1>1, <1>e, <2>1
<1>2. ASSUME e \in Seq(Provision), Len(e) = n,
             \A i \in 1..n : Found(slots, c, i, e[i]) /\ vital[e[i]]
      PROVE  e = CurrentEpoch(c)
  <2>1. ASSUME NEW i \in 1..n PROVE Served(i) /\ Best(i) = e[i]
    <3>1. /\ e[i] \in Visible[c][i] /\ Nearest(e[i], c, i) /\ vital[e[i]]
          /\ \A q \in Visible[c][i] : Nearest(q, c, i) => q = e[i]
      BY <1>2, FoundIsNearest
    <3>2. Served(i)
      BY <3>1
    <3>3. Best(i) = e[i]
      BY <3>1, Zenon
    <3> QED BY <3>2, <3>3
  <2> HIDE DEF Served, Best, n
  <2>2. e = [i \in 1..n |-> e[i]]
    BY <1>0, <1>2
  <2>3. [i \in 1..n |-> e[i]] = [i \in 1..n |-> Best(i)]
    BY <2>1, Zenon
  <2>4. \A i \in 1..n : Served(i)
    BY <2>1, Zenon
  <2> QED BY <1>e, <2>2, <2>3, <2>4, Zenon
<1> QED BY <1>1, <1>2 DEF Answers

-----------------------------------------------------------------------------
(* The protocol: what a watcher knows. *)

(* No change waits to be announced.                                           *)
Announced == \A p \in Provision : stage[p] \notin {"unannounced", "removed"}

(* Before a watcher subscribes it may miss a change, and says so in missed;   *)
(* once it has, a change it has not taken into account is either not yet      *)
(* announced or left on its edge.  Short of that, a walk has seen what the    *)
(* slots show and a published epoch is what they answer.                      *)
FreshInv ==
    \A c \in Consumer :
      /\ watcher[c].at = "first" /\ ~missed[c] =>
            Progress(slots, vital, c, watcher[c].walk)
      /\ watcher[c].at = "subscribing" /\ ~missed[c] =>
            Answers(slots, vital, c, published[c])
      /\ watcher[c].at = "computing" /\ ~edge[c] /\ Announced =>
            Progress(slots, vital, c, watcher[c].walk)
      /\ watcher[c].at = "parked" /\ ~missed[c] /\ ~edge[c] /\ Announced =>
            Answers(slots, vital, c, published[c])

(* A change of a slot or a vitality: every watcher is told of it or will be.  *)
LEMMA FreshChange ==
    ASSUME FreshInv, TypeOK, NEW p \in Provision, watcher' = watcher, Changed,
           stage' = [stage EXCEPT ![p] = "unannounced"]
             \/ stage' = [stage EXCEPT ![p] = "removed"]
    PROVE  FreshInv'
<1>1. stage'[p] \in {"unannounced", "removed"}
  BY DEF TypeOK
<1>2. ~Announced'
  BY <1>1 DEF Announced
<1>3. \A c \in Consumer : watcher[c].at \in {"first", "subscribing"} => missed'[c]
  BY DEF Changed
<1> QED BY <1>2, <1>3, Zenon DEF FreshInv

(* A step that leaves slots, vitalities and watchers alone, and takes no      *)
(* subscribed watcher's edge away.                                            *)
LEMMA FreshSame ==
    ASSUME FreshInv, UNCHANGED <<slots, vital, watcher, published, missed>>,
           \A c \in Consumer :
              watcher[c].at \in {"parked", "computing"} /\ ~edge'[c] /\ Announced'
                 => ~edge[c] /\ Announced
    PROVE  FreshInv'
BY DEF FreshInv

(* Bump leaves an edge to every subscribed watcher.                           *)
LEMMA BumpReaches ==
    ASSUME Bump, NEW c \in Consumer, watcher[c].at \in {"parked", "computing"}
    PROVE  edge'[c]
BY DEF Bump, Subscribed, Subscriber

(* A watcher's own steps.                                                     *)
LEMMA FreshWatcher ==
    ASSUME TypeOK, FreshInv, NEW c \in Consumer, WatcherStep(c)
    PROVE  FreshInv'
<1>0. /\ UNCHANGED <<slots, vital, stage>>
      /\ watcher \in [Consumer -> WatcherState] /\ published \in [Consumer -> Epoch]
      /\ missed \in [Consumer -> BOOLEAN] /\ edge \in [Subscriber -> BOOLEAN]
      /\ c \in Subscriber /\ watcher[c] \in WatcherState
  BY Zenon DEF TypeOK, WatcherState, WatcherStep, Probe, Located, PublishFirst,
               SubscribeWatcher, WakeWatcher, Publish, storeVars, providerVars, Subscriber
<1>a. Announced' <=> Announced
  BY <1>0 DEF Announced
<1>1. ASSUME NEW d \in Consumer, d # c
      PROVE  /\ watcher'[d] = watcher[d] /\ published'[d] = published[d]
             /\ missed'[d] = missed[d] /\ edge'[d] = edge[d]
  <2>1. d \in Subscriber
    BY DEF Subscriber
  <2>2. \E u : watcher' = [watcher EXCEPT ![c] = u]
    BY Zenon DEF WatcherStep, Probe, Located, PublishFirst, SubscribeWatcher, WakeWatcher, Publish
  <2>3. /\ published' = published \/ \E u : published' = [published EXCEPT ![c] = u]
        /\ missed' = missed \/ \E u : missed' = [missed EXCEPT ![c] = u]
        /\ edge' = edge \/ \E u : edge' = [edge EXCEPT ![c] = u]
    BY Zenon DEF WatcherStep, Probe, Located, PublishFirst, SubscribeWatcher, WakeWatcher, Publish
  <2> QED BY <1>0, <1>1, <2>1, <2>2, <2>3, Zenon
<1> DEFINE At1(a) == watcher[c].at = a
           w == watcher[c].walk
           Known == Progress(slots, vital, c, w)
<1>2. ASSUME NEW a, NEW u, watcher' = [watcher EXCEPT ![c] = [at |-> a, walk |-> u]]
      PROVE  watcher'[c].at = a /\ watcher'[c].walk = u
  BY <1>0, <1>2
<1>3. CASE Probe(c) \/ Located(c)
  <2>1. /\ UNCHANGED <<edge, published, missed>> /\ watcher[c].at \in {"first", "computing"}
        /\ InWalk(c, w)
    BY <1>3, Zenon DEF Probe, Located, Computing
  <2>2. watcher'[c].at = watcher[c].at /\ (Known => Progress(slots, vital, c, watcher'[c].walk))
    <3>1. CASE Probe(c)
      <4>1. watcher' = [watcher EXCEPT ![c].walk = NextFrame(w)] /\ slots[Frame(c, w)] = None
        BY <3>1, Zenon DEF Probe
      <4>2. watcher'[c].at = watcher[c].at /\ watcher'[c].walk = NextFrame(w)
        BY <1>0, <4>1, Zenon DEF WatcherState
      <4> QED BY <2>1, <4>1, <4>2, ProgressFrame
    <3>2. CASE Located(c)
      <4>1. PICK p : /\ p = slots[Frame(c, w)] /\ p # None /\ vital[p]
                     /\ watcher' = [watcher EXCEPT ![c].walk = NextService(w, p)]
        BY <3>2, Zenon DEF Located
      <4>2. watcher'[c].at = watcher[c].at /\ watcher'[c].walk = NextService(w, p)
        BY <1>0, <4>1, Zenon DEF WatcherState
      <4>3. p \in Provision
        BY <2>1, <4>1, FrameFacts
      <4> QED BY <2>1, <4>1, <4>2, <4>3, ProgressService
    <3> QED BY <1>3, <3>1, <3>2
  <2>3. watcher'[c].at # "subscribing" /\ watcher'[c].at # "parked"
    BY <2>1, <2>2
  <2> QED BY <1>0, <1>1, <1>a, <2>1, <2>2, <2>3, Zenon DEF FreshInv
<1>4. CASE PublishFirst(c) \/ Publish(c)
  <2>1. /\ UNCHANGED <<edge, missed>> /\ WalkEnds(c)
        /\ published' = [published EXCEPT ![c] = Computed(c)]
        /\ \/ At1("first") /\ watcher' = [watcher EXCEPT ![c] = [at |-> "subscribing", walk |-> Start]]
           \/ At1("computing") /\ watcher' = [watcher EXCEPT ![c] = [at |-> "parked", walk |-> Start]]
    BY <1>4, Zenon DEF PublishFirst, Publish
  <2>2. published'[c] = Computed(c)
    BY <1>0, <2>1, Zenon
  <2>3. Known => Answers(slots, vital, c, published'[c])
    <3>1. InWalk(c, w) => slots[Frame(c, w)] # None /\ ~vital[slots[Frame(c, w)]]
      BY <2>1, Zenon DEF WalkEnds
    <3> QED BY <2>2, <3>1, ProgressAnswers DEF Computed
  <2>4. \/ At1("first") /\ watcher'[c].at = "subscribing"
        \/ At1("computing") /\ watcher'[c].at = "parked"
    BY <1>2, <2>1
  <2>5. \/ /\ At1("first") /\ watcher'[c].at = "subscribing" /\ watcher'[c].at # "first"
           /\ watcher'[c].at # "computing" /\ watcher'[c].at # "parked"
        \/ /\ At1("computing") /\ watcher'[c].at = "parked" /\ watcher'[c].at # "first"
           /\ watcher'[c].at # "computing" /\ watcher'[c].at # "subscribing"
    BY <2>4
  <2>6. missed' = missed /\ edge' = edge
    BY <2>1, Zenon
  <2>7. CASE /\ At1("first") /\ watcher'[c].at = "subscribing" /\ watcher'[c].at # "first"
             /\ watcher'[c].at # "computing" /\ watcher'[c].at # "parked"
    BY <1>0, <1>1, <1>a, <2>3, <2>6, <2>7, Zenon DEF FreshInv
  <2>8. CASE /\ At1("computing") /\ watcher'[c].at = "parked" /\ watcher'[c].at # "first"
             /\ watcher'[c].at # "computing" /\ watcher'[c].at # "subscribing"
    BY <1>0, <1>1, <1>a, <2>3, <2>6, <2>8, Zenon DEF FreshInv
  <2> QED BY <2>5, <2>7, <2>8, Zenon
<1>5. CASE SubscribeWatcher(c)
  <2>1. /\ UNCHANGED <<edge, published, missed>> /\ watcher[c].at = "subscribing"
        /\ watcher' = [watcher EXCEPT ![c].at = "parked"]
    BY <1>5, Zenon DEF SubscribeWatcher
  <2>2. watcher'[c].at = "parked"
    BY <1>0, <2>1, Zenon DEF WatcherState
  <2>3. watcher'[c].at # "first" /\ watcher'[c].at # "subscribing" /\ watcher'[c].at # "computing"
    BY <2>2
  <2> QED BY <1>0, <1>1, <1>a, <2>1, <2>2, <2>3, Zenon DEF FreshInv
<1>6. CASE WakeWatcher(c)
  <2>1. /\ published' = published
        /\ watcher' = [watcher EXCEPT ![c] = [at |-> "computing", walk |-> Start]]
    BY <1>6, Zenon DEF WakeWatcher
  <2>2. watcher'[c].at = "computing" /\ watcher'[c].walk = Start
    BY <1>2, <2>1
  <2>3. watcher'[c].at # "first" /\ watcher'[c].at # "subscribing" /\ watcher'[c].at # "parked"
    BY <2>2
  <2>4. Progress(slots, vital, c, Start)
    BY ProgressStarts
  <2> QED BY <1>0, <1>1, <1>a, <2>2, <2>3, <2>4, Zenon DEF FreshInv
<1> QED BY <1>3, <1>4, <1>5, <1>6, Zenon DEF WatcherStep

LEMMA FreshStep ==
    ASSUME GrantInv, FreshInv, [Next]_vars
    PROVE  FreshInv'
<1>0. /\ TypeOK /\ GuardInv /\ stage \in [Provision -> Stage] /\ edge \in [Subscriber -> BOOLEAN]
      /\ watcher \in [Consumer -> WatcherState]
  BY Zenon DEF GrantInv, TypeOK, WatcherState
<1>1. ASSUME NEW p \in Provision, Insert(p) \/ ReportVitality(p) PROVE FreshInv'
  BY <1>0, <1>1, FreshChange, Zenon DEF Insert, ReportVitality
<1>2. ASSUME NEW p \in Provision, Refused(p) \/ Subscribe(p) \/ Woken(p) PROVE FreshInv'
  <2>1. /\ UNCHANGED <<slots, vital, watcher, published, missed>>
        /\ \A c \in Consumer : edge'[c] = edge[c]
    <3>1. \A c \in Consumer : c # p
      BY RegistryConstants
    <3>2. edge' = edge \/ edge' = [edge EXCEPT ![p] = FALSE]
      BY <1>2, Zenon DEF Refused, Subscribe, Woken
    <3> QED BY <1>0, <1>2, <3>1, <3>2, Zenon
            DEF Refused, Subscribe, Woken, storeVars, watcherVars, Subscriber
  <2>2. /\ stage[p] \in {"idle", "closed", "waiting"}
        /\ \A q \in Provision : q # p => stage'[q] = stage[q]
    BY <1>0, <1>2, Zenon DEF Refused, Subscribe, Woken, Read
  <2>3. Announced' => Announced
    BY <2>2 DEF Announced
  <2> QED BY <2>1, <2>3, FreshSame
<1>3. ASSUME NEW p \in Provision, Announce(p) \/ AnnounceRemoval(p) PROVE FreshInv'
  <2>1. UNCHANGED <<slots, vital, watcher, published, missed>> /\ Bump
    BY <1>3, Zenon DEF Announce, AnnounceRemoval, storeVars, watcherVars
  <2> QED BY <2>1, BumpReaches, FreshSame
<1>4. ASSUME NEW p \in Provision, NEW from \in {"drain", "undo"}, RemoveIf(p, from)
      PROVE  FreshInv'
  <2>1. CASE slots[At[p]] = p
    BY <1>0, <1>4, <2>1, FreshChange, Zenon DEF RemoveIf
  <2>2. CASE slots[At[p]] # p
    <3>1. /\ UNCHANGED <<slots, vital, watcher, published, missed, edge>>
          /\ stage' = [stage EXCEPT ![p] = "closed"] /\ stage[p] \in {"live", "inverses"}
      BY <1>4, <2>2, Zenon DEF RemoveIf, Begins
    <3>2. \A q \in Provision : q # p => stage'[q] = stage[q]
      BY <1>0, <3>1, Zenon
    <3>3. Announced' => Announced
      BY <3>1, <3>2 DEF Announced
    <3> QED BY <3>1, <3>3, FreshSame
  <2> QED BY <2>1, <2>2
<1>5. ASSUME NEW c \in Consumer, WatcherStep(c) PROVE FreshInv'
  BY <1>0, <1>5, FreshWatcher
<1>6. ASSUME NEW c \in Consumer, ActivationStep(c) PROVE FreshInv'
  <2>1. /\ edge' = edge \/ Bump
        /\ UNCHANGED <<slots, vital, stage, watcher, published, missed>>
    BY <1>0, <1>6, BodyMoves, Zenon
  <2>2. Announced' <=> Announced
    BY <2>1 DEF Announced
  <2> QED BY <2>1, <2>2, BumpReaches, FreshSame
<1>7. CASE UNCHANGED vars
  <2>1. UNCHANGED <<slots, vital, stage, watcher, published, missed, edge>>
    BY <1>7, Zenon DEF vars
  <2>2. Announced' <=> Announced
    BY <2>1 DEF Announced
  <2> QED BY <2>1, <2>2, FreshSame
<1> QED BY <1>1, <1>2, <1>3, <1>4, <1>5, <1>6, <1>7, Zenon
        DEF Next, WithdrawalStep, ActivationStep

LEMMA FreshInit ==
    ASSUME Init PROVE FreshInv
<1>1. \A c \in Consumer : watcher[c].at = "first" /\ watcher[c].walk = Start
  BY DEF Init
<1> QED BY <1>1, ProgressStarts DEF FreshInv

(* A consumer's readiness signal, once it is settled and its watcher had      *)
(* subscribed before the last change, is the epoch that the nearest visible   *)
(* and vital providers make up; and each provider's cell counts its guards,   *)
(* neither more nor less.                                                     *)
THEOREM GrantsStayCurrent == Spec => []GrantsAreCurrent
<1>1. Init => FreshInv
  BY FreshInit
<1>2. GrantInv /\ FreshInv /\ [Next]_vars => FreshInv'
  BY FreshStep
<1>3. Spec => []FreshInv
  BY <1>1, <1>2, GrantsHold, PTL DEF Spec
<1>4. GrantInv /\ FreshInv => GrantsAreCurrent
  <2> SUFFICES ASSUME GrantInv, FreshInv PROVE GrantsAreCurrent
    OBVIOUS
  <2>1. ASSUME NEW c \in Consumer, Settled(c), ~missed[c] PROVE published[c] = CurrentEpoch(c)
    <3>1. Answers(slots, vital, c, published[c])
      BY <2>1 DEF Settled, FreshInv, Announced
    <3> QED BY <3>1, AnswerIsCurrent DEF GrantInv
  <2>2. SettledIsCurrent
    BY <2>1 DEF SettledIsCurrent
  <2>3. LeasesAreCounted
    BY DEF GrantInv, CountInv, LeasesAreCounted
  <2> QED BY <2>2, <2>3 DEF GrantsAreCurrent
<1> QED BY <1>3, <1>4, GrantsHold, PTL

=============================================================================
