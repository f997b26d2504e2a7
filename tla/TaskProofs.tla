------------------------------ MODULE TaskProofs -----------------------------
(***************************************************************************)
(* The components that run tasks of their own, for every value of their    *)
(* constants: the safety of each is an invariant of its own next-state     *)
(* relation, so the composition of MCTasks, which never runs two of them   *)
(* in one behaviour, adds nothing to these proofs.                         *)
(***************************************************************************)
EXTENDS MCTasks, SequenceFacts

-----------------------------------------------------------------------------
(* Forward effects *)

ForwardSpec == ForwardInit /\ [][ForwardNext]_fvars

(* What stands of the effect is what the walk has yielded and nobody took.    *)
WalkInv ==
    /\ \A i \in 1..total : world[i] = "applied" <=> i <= yielded
    /\ driver \in {"boundary", "launched"} => yielded = step - 1 /\ end = "none"
    /\ driver = "landed" => yielded = step /\ end = "none"
    /\ driver = "unwinding" => end \in {"Diverted", "Failed"}
    /\ driver \in {"settling", "announcing", "done"} =>
          end = "Installed" \/ (end \in {"Diverted", "Failed"} /\ yielded = 0)
    /\ settled <=> driver = "done"

Standings ==
    {"idle", "diverting", "waiting", "detaching", "withdrawing", "awaiting", "undoing",
     "returned", "dropped", "lost"}

Holder(d) == Withdrawing(d) \/ caller[d] = "lost"

IsHeld == enrolled \/ \E d \in Caller : Holder(d)

(* What is left of an installed effect whose record is gone is spent: nothing *)
(* stands, or an inverse did not complete.                                    *)
Spent == yielded = 0 \/ \E i \in 1..total : world[i] = "stuck"

HoldInv ==
    /\ driver \in {"boundary", "launched", "landed", "unwinding", "settling"} => IsHeld
    /\ driver \in {"announcing", "done"} /\ end = "Installed" =>
          /\ IsHeld \/ Spent
          /\ slot \/ Spent \/ \E d \in Caller : caller[d] \in {"undoing", "lost"}
    /\ slot => driver \in {"announcing", "done"} /\ end = "Installed"
    /\ \A d \in Caller : caller[d] = "undoing" => driver = "done" /\ end = "Installed"
    /\ \A d, f \in Caller : Holder(d) /\ Holder(f) => d = f
    /\ enrolled => \A d \in Caller : ~Holder(d)

ForwardInv == TypeOK /\ WalkInv /\ HoldInv

LEMMA ForwardInitially == ForwardInit => ForwardInv
<1> SUFFICES ASSUME ForwardInit PROVE ForwardInv
  OBVIOUS
<1>1. TypeOK
  <2>1. total \in 1..MaxSteps
    BY ForwardBounds DEF ForwardInit
  <2>2. total \in Nat /\ total >= 1 /\ 0 \in 0..MaxDrops
    BY <2>1, ForwardBounds
  <2>3. world \in [1..total -> {"none", "applied"} \union Ended] /\ step \in 1..total /\ yielded \in 0..total
    BY <2>2 DEF ForwardInit
  <2> QED BY <2>1, <2>2, <2>3, Zenon DEF ForwardInit, TypeOK
<1>2. WalkInv
  BY ForwardBounds DEF ForwardInit, WalkInv
<1>3. HoldInv
  BY DEF ForwardInit, HoldInv, IsHeld, Holder, Withdrawing
<1> QED BY <1>1, <1>2, <1>3 DEF ForwardInv

LEMMA DriverKeeps ==
    ASSUME ForwardInv, DriverStep
    PROVE  ForwardInv'
<1> USE DEF ForwardInv
<1>0. /\ total \in Nat /\ yielded \in Nat /\ step \in Nat /\ yielded <= total /\ step <= total /\ step >= 1
      /\ yielded >= 0 /\ total <= MaxSteps /\ MaxSteps \in Nat
  BY ForwardBounds DEF TypeOK
<1>1. TypeOK'
  <2>1. CASE \E outcome \in Ended : UnwindOne(outcome)
    BY <1>0, <2>1 DEF TypeOK, UnwindOne, walkVars, boundVars, callerVars
  <2>2. CASE ActionLands
    BY <1>0, <2>2 DEF TypeOK, WalkInv, ActionLands, walkVars, boundVars, callerVars
  <2>3. CASE LaunchAction \/ Divert \/ ActionFails \/ NextAction
    <3>1. CASE LaunchAction \/ Divert
      BY <1>0, <3>1 DEF TypeOK, LaunchAction, Divert, walkVars, boundVars, callerVars
    <3>2. CASE ActionFails
      BY <1>0, <3>2 DEF TypeOK, ActionFails, walkVars, boundVars, callerVars
    <3>3. CASE NextAction
      BY <1>0, <3>3 DEF TypeOK, NextAction, walkVars, boundVars, callerVars
    <3> QED BY <2>3, <3>1, <3>2, <3>3
  <2>4. CASE Unwound \/ SettleWalk \/ Announce
    <3>1. CASE Unwound
      BY <3>1 DEF TypeOK, Unwound, walkVars, boundVars, callerVars
    <3>2. CASE SettleWalk
      BY <3>2 DEF TypeOK, SettleWalk, walkVars, callerVars
    <3>3. CASE Announce
      BY <3>3 DEF TypeOK, Announce, walkVars, callerVars
    <3> QED BY <2>4, <3>1, <3>2, <3>3
  <2> QED BY <2>1, <2>2, <2>3, <2>4 DEF DriverStep
<1>2. WalkInv'
  <2>1. CASE \E outcome \in Ended : UnwindOne(outcome)
    BY <1>0, <2>1 DEF TypeOK, WalkInv, UnwindOne, walkVars, boundVars, callerVars, Ended
  <2>2. CASE ActionLands
    BY <1>0, <2>2 DEF TypeOK, WalkInv, ActionLands, walkVars, boundVars, callerVars
  <2>3. CASE LaunchAction \/ Divert \/ ActionFails \/ NextAction
    BY <1>0, <2>3 DEF TypeOK, WalkInv, LaunchAction, Divert, ActionFails, NextAction, walkVars, boundVars, callerVars
  <2>4. CASE Unwound \/ SettleWalk \/ Announce
    BY <2>4 DEF TypeOK, WalkInv, Unwound, SettleWalk, Announce, walkVars, boundVars, callerVars
  <2> QED BY <2>1, <2>2, <2>3, <2>4 DEF DriverStep
<1>3. HoldInv'
  <2>0. caller' = caller /\ (enrolled' = enrolled \/ SettleWalk) /\ (slot' = slot \/ SettleWalk)
    BY DEF DriverStep, UnwindOne, ActionLands, LaunchAction, Divert, ActionFails, NextAction, Unwound,
           SettleWalk, Announce, boundVars, callerVars
  <2>1. CASE \E outcome \in Ended : UnwindOne(outcome)
    BY <2>0, <2>1 DEF HoldInv, UnwindOne, walkVars, boundVars, callerVars, IsHeld, Holder, Withdrawing, WalkInv
  <2>2. CASE ActionLands
    BY <2>0, <2>2 DEF HoldInv, ActionLands, walkVars, boundVars, callerVars, IsHeld, Holder, Withdrawing
  <2>3. CASE LaunchAction \/ Divert \/ ActionFails \/ NextAction
    BY <2>0, <2>3 DEF HoldInv, LaunchAction, Divert, ActionFails, NextAction, walkVars, boundVars, callerVars, IsHeld, Holder, Withdrawing
  <2>4. CASE Unwound
    BY <2>0, <2>4 DEF HoldInv, Unwound, walkVars, boundVars, callerVars, IsHeld, Holder, Withdrawing
  <2>5. CASE SettleWalk
    BY <2>0, <2>5 DEF HoldInv, SettleWalk, walkVars, boundVars, callerVars, IsHeld, Holder, Withdrawing, Spent
  <2>6. CASE Announce
    BY <2>0, <2>6 DEF HoldInv, Announce, walkVars, boundVars, callerVars, IsHeld, Holder, Withdrawing, Spent
  <2> QED BY <2>1, <2>2, <2>3, <2>4, <2>5, <2>6 DEF DriverStep
<1> QED BY <1>1, <1>2, <1>3

LEMMA CallersKeep ==
    ASSUME ForwardInv, NEW d \in Caller, Dispose(d) \/ CallerStep(d) \/ DropDispose(d)
    PROVE  ForwardInv'
<1> USE DEF ForwardInv
<1>0. /\ total \in Nat /\ yielded \in Nat /\ yielded <= total /\ drops \in Nat /\ MaxDrops \in Nat
      /\ drops <= MaxDrops
  BY ForwardBounds DEF TypeOK
<1>a. CASE \E outcome \in Ended : UndoOne(d, outcome)
  <2>0. PICK outcome \in Ended : UndoOne(d, outcome)
    BY <1>a
  <2>u. driver = "done" /\ end = "Installed"
    BY <2>0 DEF UndoOne, HoldInv
  <2>c. /\ caller' = [caller EXCEPT ![d] = IF outcome = "stuck" \/ yielded = 1 THEN "returned" ELSE "undoing"]
        /\ world' = [world EXCEPT ![yielded] = outcome] /\ yielded' = yielded - 1 /\ yielded > 0
        /\ UNCHANGED <<shape, total, step, end, driver, stale, slot, settled, enrolled, inPending, drops>>
        /\ caller[d] = "undoing"
    BY <2>0 DEF UndoOne, Become, walkVars, boundVars
  <2>1. TypeOK'
    BY <1>0, <2>c DEF TypeOK
  <2>2. WalkInv'
    BY <1>0, <2>c, <2>u DEF TypeOK, WalkInv, Ended
  <2>3. caller'[d] \in {"undoing", "returned"} /\ \A f \in Caller \ {d} : caller'[f] = caller[f]
    BY <2>c DEF TypeOK
  <2>4. caller'[d] = "returned" => Spent'
    BY <1>0, <2>c DEF TypeOK, Spent
  <2>5. HoldInv'
    BY <2>c, <2>u, <2>3, <2>4 DEF HoldInv, IsHeld, Holder, Withdrawing
  <2> QED BY <2>1, <2>2, <2>5
<1>b. CASE ~ \E outcome \in Ended : UndoOne(d, outcome)
  <2>0. /\ UNCHANGED <<shape, total, step, end, driver, world, yielded, settled>>
    BY <1>b DEF Dispose, CallerStep, DropDispose, CancelWalk, WalkSettled, DetachRecord, StartInverse, TakeInstalled,
                walkVars, boundVars
  <2>1. TypeOK'
    <3>1. caller' \in [Caller -> Standings]
      <4>0. caller \in [Caller -> Standings]
        BY DEF TypeOK, Standings
      <4> QED
        BY <1>b, <4>0 DEF Dispose, CallerStep, DropDispose, CancelWalk, WalkSettled, DetachRecord,
                          StartInverse, TakeInstalled, Become, Standings
    <3>2. /\ stale' \in BOOLEAN /\ slot' \in BOOLEAN /\ enrolled' \in BOOLEAN /\ inPending' \in BOOLEAN
      BY <1>b, Zenon DEF TypeOK, Dispose, CallerStep, DropDispose, CancelWalk, WalkSettled, DetachRecord,
                  StartInverse, TakeInstalled, boundVars
    <3>3. drops' \in 0..MaxDrops
      BY <1>0, <1>b DEF TypeOK, Dispose, CallerStep, DropDispose, CancelWalk, WalkSettled, DetachRecord,
                  StartInverse, TakeInstalled
    <3> QED BY <2>0, <3>1, <3>2, <3>3, Zenon DEF TypeOK, Standings
  <2>2. WalkInv'
    BY <2>0 DEF WalkInv
  <2>3. HoldInv'
    <3>0. PICK to : caller' = [caller EXCEPT ![d] = to]
      BY <1>b DEF Dispose, CallerStep, DropDispose, CancelWalk, WalkSettled, DetachRecord, StartInverse,
                      TakeInstalled, Become
    <3>c. caller'[d] = to /\ \A f \in Caller \ {d} : caller'[f] = caller[f]
      BY <3>0 DEF TypeOK
    <3>1. CASE Dispose(d) \/ CancelWalk(d) \/ WalkSettled(d)
      <4>1. /\ caller[d] \in {"idle", "diverting", "waiting"} /\ to \in {"diverting", "waiting", "detaching"}
            /\ enrolled' = enrolled /\ slot' = slot
        BY <3>0, <3>1 DEF Dispose, CancelWalk, WalkSettled, Become, boundVars, TypeOK
      <4> QED BY <2>0, <3>c, <4>1 DEF HoldInv, IsHeld, Holder, Withdrawing, Spent
    <3>2. CASE DetachRecord(d)
      BY <2>0, <3>c, <3>2 DEF HoldInv, DetachRecord, Become, IsHeld, Holder, Withdrawing, Spent, TypeOK
    <3>3. CASE StartInverse(d)
      BY <2>0, <3>c, <3>3 DEF HoldInv, StartInverse, Become, IsHeld, Holder, Withdrawing, Spent, TypeOK
    <3>4. CASE TakeInstalled(d)
      <4>1. /\ caller[d] = "awaiting" /\ driver = "done" /\ enrolled' = enrolled /\ ~slot'
            /\ \/ slot /\ to = "undoing"
               \/ ~slot /\ to = "returned"
        BY <3>c, <3>4 DEF TakeInstalled, Become, TypeOK, WalkInv
      <4>2. \A f \in Caller : Holder(f) => f = d
        BY <4>1 DEF HoldInv, Holder, Withdrawing
      <4>3. CASE slot /\ to = "undoing"
        BY <2>0, <3>c, <4>1, <4>2, <4>3 DEF HoldInv, IsHeld, Holder, Withdrawing, Spent
      <4>4. CASE ~slot /\ to = "returned"
        <5>1. end = "Installed" => Spent
          BY <4>1, <4>2, <4>4 DEF HoldInv, Holder, Withdrawing
        <5> QED BY <2>0, <3>c, <4>1, <4>2, <4>4, <5>1 DEF HoldInv, IsHeld, Holder, Withdrawing, Spent
      <4> QED BY <4>1, <4>3, <4>4
    <3>5. CASE DropDispose(d)
      BY <2>0, <3>c, <3>5 DEF HoldInv, DropDispose, Become, IsHeld, Holder, Withdrawing, Spent, TypeOK, boundVars
    <3> QED BY <1>b, <3>1, <3>2, <3>3, <3>4, <3>5 DEF CallerStep
  <2> QED BY <2>1, <2>2, <2>3
<1> QED BY <1>a, <1>b

LEMMA ForwardStep == ForwardInv /\ [ForwardNext]_fvars => ForwardInv'
<1> SUFFICES ASSUME ForwardInv, [ForwardNext]_fvars PROVE ForwardInv'
  OBVIOUS
<1>1. CASE UNCHANGED fvars
  BY <1>1 DEF fvars, ForwardInv, TypeOK, WalkInv, HoldInv, IsHeld, Holder, Withdrawing, Spent
<1> QED BY <1>1, DriverKeeps, CallersKeep DEF ForwardNext

(* ForwardWhole: whatever the steps do, wherever the caller goes away, and  *)
(* however many callers withdraw at once, a forward effect ends with every  *)
(* action applied or every applied one undone, and what is installed has    *)
(* one holder to undo it (jinnd-effects forward.rs advance, unwind,         *)
(* discharge; withdrawal.rs).                                               *)
THEOREM ForwardWhole == ForwardSpec => []InstalledWhole
<1>1. ForwardInv => InstalledWhole
  <2> SUFFICES ASSUME ForwardInv PROVE InstalledWhole
    OBVIOUS
  <2> USE DEF ForwardInv
  <2>0. DOMAIN world = 1..total /\ yielded \in Nat
    BY DEF TypeOK
  <2>1. Standing # {} => yielded # 0
    BY <2>0 DEF WalkInv, Standing
  <2>2. AllOrNone
    BY <2>1 DEF WalkInv, AllOrNone
  <2>3. settled /\ Standing # {} =>
          enrolled \/ (\E d \in Caller : Holder(d)) \/ \E i \in DOMAIN world : world[i] = "stuck"
    BY <2>0, <2>1 DEF WalkInv, HoldInv, IsHeld, Spent
  <2>4. Cardinality({d \in Caller : Holder(d)}) <= 1
    <3> DEFINE H == {d \in Caller : Holder(d)}
    <3>1. CASE H = {}
      BY <3>1, FS_EmptySet
    <3>2. CASE H # {}
      <4>1. PICK d : H = {d}
        BY <3>2 DEF HoldInv
      <4> QED BY <4>1, FS_Singleton
    <3> QED BY <3>1, <3>2
  <2> QED BY <2>2, <2>3, <2>4 DEF InstalledWhole, OneHolder, HoldInv, Holder
<1> QED BY <1>1, ForwardInitially, ForwardStep, PTL DEF ForwardSpec

-----------------------------------------------------------------------------
(* Sockets and alarms *)

(* A cancelled id was minted and has no row, and an id is minted once.        *)
AlarmInv ==
    /\ minted \in Nat /\ cancelled \subseteq AlarmIds
    /\ \A i \in cancelled : i <= minted
    /\ cancelled \intersect live = {}
    /\ wakes \in [AlarmIds -> Nat]

(* A socket that is being released has lost its row of the wake table.        *)
NetInv == ~Open => armed = "gone"

LEMMA AlarmStep ==
    ASSUME AlarmInv, [AlarmsNext]_avars
    PROVE  AlarmInv' /\ NoWakeAfterCancel
<1>1. ASSUME NEW i \in AlarmIds, MintRow(i) PROVE AlarmInv' /\ NoWakeAfterCancel
  BY <1>1 DEF MintRow, AlarmInv, NoWakeAfterCancel
<1>2. ASSUME NEW i \in AlarmIds, SpawnTimer(i) \/ Install(i) \/ Elapses(i) \/ WakeReturns(i) \/ AbortLands(i)
      PROVE  AlarmInv' /\ NoWakeAfterCancel
  BY <1>2 DEF SpawnTimer, Install, Elapses, WakeReturns, AbortLands, AlarmInv, NoWakeAfterCancel
<1>3. ASSUME NEW i \in AlarmIds, Cancel(i) PROVE AlarmInv' /\ NoWakeAfterCancel
  BY <1>3 DEF Cancel, AlarmInv, NoWakeAfterCancel
<1>4. ASSUME NEW i \in AlarmIds, ClaimWake(i) PROVE AlarmInv' /\ NoWakeAfterCancel
  <2>1. CASE i \in live
    <3>1. /\ wakes' = [wakes EXCEPT ![i] = @ + 1] /\ i \notin cancelled
          /\ UNCHANGED <<minted, live, cancelled>>
      BY <1>4, <2>1 DEF ClaimWake, AlarmInv
    <3> QED BY <3>1 DEF AlarmInv, NoWakeAfterCancel
  <2>2. CASE i \notin live
    BY <1>4, <2>2 DEF ClaimWake, AlarmInv, NoWakeAfterCancel
  <2> QED BY <2>1, <2>2
<1>5. ASSUME NEW i \in AlarmIds, Finish(i) PROVE AlarmInv' /\ NoWakeAfterCancel
  BY <1>5 DEF Finish, AlarmInv, NoWakeAfterCancel
<1>6. CASE UNCHANGED avars
  BY <1>6 DEF avars, AlarmInv, NoWakeAfterCancel
<1> QED BY <1>1, <1>2, <1>3, <1>4, <1>5, <1>6 DEF AlarmsNext

LEMMA NetStep ==
    ASSUME NetInv, [NetNext]_nvars
    PROVE  NetInv' /\ NoWakeAfterTake
<1>1. CASE Arrive \/ PeerCloses \/ DriverTurns \/ Accept \/ AcceptFails \/ ReadReady
  BY <1>1 DEF Arrive, PeerCloses, DriverTurns, Accept, AcceptFails, ReadReady, NetInv, NoWakeAfterTake, Open
<1>2. CASE Rearm \/ HandlerFails \/ HandlerReturns
  BY <1>2 DEF Rearm, HandlerFails, HandlerReturns, NetInv, NoWakeAfterTake, Open
<1>3. CASE LookAtRow \/ Kicked \/ SeesReadable \/ Deliver \/ Delivered \/ Aborted
  BY <1>3 DEF LookAtRow, Kicked, SeesReadable, Deliver, Delivered, Aborted, TaskRest,
              NetInv, NoWakeAfterTake, Open
<1>4. CASE Claim
  BY <1>4 DEF Claim, TaskRest, NetInv, NoWakeAfterTake, Open
<1>5. CASE TakeRow \/ Abort \/ Closed
  BY <1>5 DEF TakeRow, Abort, Closed, NetInv, NoWakeAfterTake, Open
<1>6. CASE UNCHANGED nvars
  BY <1>6 DEF nvars, NetInv, NoWakeAfterTake, Open
<1> QED BY <1>1, <1>2, <1>3, <1>4, <1>5, <1>6 DEF NetNext, TaskSteps

(* ReleasedIsSilent: after the take of a socket's row, and after the cancel *)
(* of an alarm, no step wakes the guest for it, for any number of arrivals, *)
(* faults and alarms (hostnet wake.rs claim_wake, alarms table.rs take).    *)
THEOREM ReleasedIsSilent ==
    NetInit /\ [][NetNext]_nvars /\ AlarmsInit /\ [][AlarmsNext]_avars => NoWakeAfterRelease
<1>1. NetInit => NetInv
  BY DEF NetInit, NetInv, Open
<1>2. AlarmsInit => AlarmInv
  BY DEF AlarmsInit, AlarmInv
<1>3. NetInv /\ [NetNext]_nvars => NetInv' /\ NoWakeAfterTake
  BY NetStep
<1>4. AlarmInv /\ [AlarmsNext]_avars => AlarmInv' /\ NoWakeAfterCancel
  BY AlarmStep
<1> QED BY <1>1, <1>2, <1>3, <1>4, PTL DEF NoWakeAfterRelease

-----------------------------------------------------------------------------
(* The lifecycle publish *)

DropSum(t, by) ==
    FoldSeq(LAMBDA x, n : IF x.kind = "dropped" /\ x.by = by THEN n + x.count ELSE n, 0, t)

(* What one row counts.                                                       *)
Counts(row, by) == IF row.kind = "dropped" /\ row.by = by THEN row.count ELSE 0

(* The transitions recorded so far, and the rows about them and the drops.    *)
Rowish == [kind : {"transition"}, of : [fiber : Fibers, nth : Nat]]
          \union [kind : {"dropped"}, count : Nat, by : {"queue", "lanes"}]
          \union [kind : {"error"}]

Weights(t, by) == [i \in 1..Len(t) |-> Counts(t[i], by)]

LEMMA DropSumIsAdditive ==
    ASSUME NEW t \in Seq(Rowish), NEW by, NEW g, Additive(g, 1..Len(t), Weights(t, by))
    PROVE  DropSum(t, by) = g[1..Len(t)]
<1> DEFINE S == 1..Len(t)
           W == Weights(t, by)
           d(x) == t[x].kind = "dropped" /\ t[x].by = by
           Rule(f) == f = [s \in SUBSET S |->
                             IF s = {} THEN 0
                             ELSE IF d(First(s)) THEN f[s \ {First(s)}] + t[First(s)].count
                                  ELSE f[s \ {First(s)}]]
           it == CHOOSE f : Rule(f)
<1>1. DropSum(t, by) = it[S]
  <2>1. DOMAIN t = S
    OBVIOUS
  <2>2. DropSum(t, by) = (CHOOSE f : f = [s \in SUBSET DOMAIN t |->
                             IF s = {} THEN 0
                             ELSE IF t[First(s)].kind = "dropped" /\ t[First(s)].by = by
                                  THEN f[s \ {First(s)}] + t[First(s)].count
                                  ELSE f[s \ {First(s)}]])[DOMAIN t]
    BY Zenon DEF DropSum, FoldSeq, FoldFunction, FoldFunctionOnSet, MapThenFoldSet, First
  <2> QED BY <2>1, <2>2, Zenon
<1>2. /\ IsFiniteSet(S) /\ W \in [S -> Int]
      /\ \A x \in S : W[x] = (IF d(x) THEN t[x].count ELSE 0)
  <2>1. IsFiniteSet(S)
    BY FS_Interval
  <2>2. \A x \in S : W[x] \in Int /\ W[x] = (IF d(x) THEN t[x].count ELSE 0)
    BY DEF Weights, Counts, Rowish
  <2>3. W = [x \in S |-> W[x]]
    BY DEF Weights
  <2> HIDE DEF W, d
  <2> QED BY <2>1, <2>2, <2>3
<1>0. \A s \in SUBSET S : s # {} => First(s) \in s
  BY DEF First
<1> HIDE DEF S, W
<1>3. Rule(g)
  <2>1. g = [s \in SUBSET S |-> g[s]]
    BY DEF Additive, S
  <2>2. ASSUME NEW s \in SUBSET S
        PROVE  g[s] = IF s = {} THEN 0
                      ELSE IF d(First(s)) THEN g[s \ {First(s)}] + t[First(s)].count
                      ELSE g[s \ {First(s)}]
    <3>1. CASE s = {}
      BY <3>1 DEF Additive
    <3>2. CASE s # {}
      <4> DEFINE x == First(s)
                 rest == s \ {x}
      <4>2. x \in S \ rest /\ rest \union {x} = s /\ rest \in SUBSET S /\ x \in S
        BY <1>0, <3>2
      <4> HIDE DEF x, rest
      <4>3. g[s] = g[rest] + W[x] /\ g[rest] \in Int
        BY <4>2 DEF Additive, S, W
      <4>4. W[x] = (IF d(x) THEN t[x].count ELSE 0)
        BY <1>2, <4>2
      <4> HIDE DEF d
      <4>5. g[s] = IF d(x) THEN g[rest] + t[x].count ELSE g[rest]
        BY <4>3, <4>4
      <4> QED BY <3>2, <4>5 DEF x, rest
    <3> QED BY <3>1, <3>2
  <2> HIDE DEF d
  <2> QED BY <2>1, <2>2, Zenon
<1>4. Rule(it)
  BY <1>3, Zenon
<1> HIDE DEF it
<1>5. it[{}] = 0
  <2>1. {} \in SUBSET S
    OBVIOUS
  <2> QED BY <1>4, <2>1, Zenon
<1>6. ASSUME NEW s \in SUBSET S, s # {}, it[s \ {First(s)}] \in Int
      PROVE  it[s] = it[s \ {First(s)}] + W[First(s)]
  <2>1. it[s] = IF d(First(s)) THEN it[s \ {First(s)}] + t[First(s)].count
                ELSE it[s \ {First(s)}]
    BY <1>4, <1>6, Zenon
  <2>2. W[First(s)] = (IF d(First(s)) THEN t[First(s)].count ELSE 0)
    BY <1>0, <1>2, <1>6
  <2> HIDE DEF d
  <2> QED BY <1>6, <2>1, <2>2
<1>7. it[S] = g[S]
  <2>1. Additive(g, S, W)
    BY DEF S, W
  <2>2. IsFiniteSet(S) /\ W \in [S -> Int]
    BY <1>2
  <2>3. \A s \in SUBSET S : s # {} => (it[s \ {First(s)}] \in Int =>
                                          it[s] = it[s \ {First(s)}] + W[First(s)])
    BY <1>6
  <2> HIDE DEF d, Rule
  <2>4. TakesOff(it, S, W)
    BY <1>5, <2>3, Zenon DEF TakesOff
  <2> QED BY <2>1, <2>2, <2>4, AdditiveUnique
<1> QED BY <1>1, <1>7 DEF S

(* A longer table of rows, of whose new rows all but one count nothing.       *)
Extends(u, t, e, by) ==
    /\ t \in Seq(Rowish) /\ u \in Seq(Rowish)
    /\ Len(t) < Len(u) /\ \A i \in 1..Len(t) : u[i] = t[i]
    /\ e \in (Len(t) + 1)..Len(u)
    /\ \A i \in (Len(t) + 1)..Len(u) : i # e => Counts(u[i], by) = 0

LEMMA DropSumExtended ==
    ASSUME NEW t, NEW u, NEW e, NEW by, Extends(u, t, e, by)
    PROVE  DropSum(u, by) = DropSum(t, by) + Counts(u[e], by) /\ DropSum(t, by) \in Int
<1> DEFINE S == 1..Len(t)
           T == 1..Len(u)
           W == Weights(t, by)
           V == Weights(u, by)
<1>1. /\ IsFiniteSet(S) /\ S \subseteq T /\ e \in T \ S
      /\ \A x \in T \ S : x \in (Len(t) + 1)..Len(u)
  <2>1. Len(t) \in Nat /\ Len(u) \in Nat
    BY DEF Extends
  <2>2. IsFiniteSet(S)
    BY <2>1, FS_Interval
  <2>3. S \subseteq T /\ e \in T \ S /\ \A x \in T \ S : x \in (Len(t) + 1)..Len(u)
    BY <2>1 DEF Extends
  <2> QED BY <2>2, <2>3
<1>2. W \in [S -> Int] /\ V \in [T -> Int]
  <2>0. \A q \in Rowish : Counts(q, by) \in Int
    BY DEF Counts, Rowish
  <2>1. /\ \A x \in S : W[x] \in Int
        /\ \A x \in T : V[x] \in Int
    <3>1. /\ \A x \in S : t[x] \in Rowish
          /\ \A x \in T : u[x] \in Rowish
      BY DEF Extends
    <3>2. /\ \A x \in S : W[x] = Counts(t[x], by)
          /\ \A x \in T : V[x] = Counts(u[x], by)
      BY DEF Weights
    <3> HIDE DEF S, T, W, V
    <3> QED BY <2>0, <3>1, <3>2
  <2>2. W = [x \in S |-> W[x]] /\ V = [x \in T |-> V[x]]
    BY DEF Weights
  <2> HIDE DEF W, V
  <2> QED BY <2>1, <2>2
<1>3. /\ \A x \in S : V[x] = W[x]
      /\ \A x \in T \ S : V[x] = Counts(u[x], by)
  BY <1>1 DEF Weights, Extends
<1>4. \A x \in T \ S : x # e => V[x] = 0
  BY <1>1, <1>3 DEF Extends
<1>5. PICK g : Additive(g, S, W)
  BY <1>1, <1>2, AdditiveExists
<1> HIDE DEF S, T, W, V
<1>6. PICK h : Additive(h, T, V) /\ h[T] = g[S] + V[e]
  <2>1. S \in SUBSET T /\ e \in T \ S
    BY <1>1
  <2>2. \A x \in S : V[x] = W[x]
    BY <1>3
  <2> QED BY <1>2, <1>4, <1>5, <2>1, <2>2, AdditiveExtended
<1>7. DropSum(t, by) = g[S] /\ DropSum(u, by) = h[T]
  BY <1>5, <1>6, DropSumIsAdditive DEF S, T, W, V, Extends
<1>8. g[S] \in Int
  BY <1>5 DEF Additive
<1> QED BY <1>1, <1>3, <1>6, <1>7, <1>8

Transition == [fiber : Fibers, nth : Nat]
QueueItem == [what : Transition, ordinal : Nat]
Delivery == [what : Transition, ordinal : Nat, mark : Nat]

LifeTypes ==
    /\ made \in [Fibers -> Nat] /\ recorded \in [Fibers -> Nat]
    /\ \A f \in Fibers : recorded[f] <= made[f]
    /\ offers \in [Syncers -> Seq(Transition)]
    /\ rows \in Seq(Rowish) /\ served \in 0..Len(rows)
    /\ pending \in [queue : Seq(QueueItem), published : Nat, dropped : Nat]
    /\ publisher \in [at : {"unborn", "drain", "asleep", "gone"}]
                     \union [at : {"barrier"}, batch : Seq(QueueItem), after : Nat]
                     \union [at : {"hand"}, batch : Seq(QueueItem), mark : Nat]
    /\ mounted \in [Listeners -> {"no", "first", "late", "gone"}]
    /\ inbox \in [Listeners -> Seq(Delivery)] /\ heard \in [Listeners -> Seq(Delivery)]
    /\ traps \in Nat

(* The rows of a transition are there, and none is past the n-th.             *)
Placed(table, t, n) ==
    /\ \E i \in 1..Len(table) : table[i] = TransitionRow(t)
    /\ \A i \in 1..Len(table) : table[i] = TransitionRow(t) => i <= n

RowsRecorded ==
    \A i \in 1..Len(rows) : rows[i].kind = "transition" =>
        rows[i].of.nth <= recorded[rows[i].of.fiber]

OffersPlaced ==
    alive => \A s \in Syncers : \A k \in 1..Len(offers[s]) : Placed(rows, offers[s][k], Len(rows))

QueuePlaced ==
    alive => \A k \in 1..Len(pending.queue) : Placed(rows, pending.queue[k].what, Len(rows))

BatchPlaced ==
    /\ publisher.at = "barrier" /\ alive =>
          \A k \in 1..Len(publisher.batch) : Placed(rows, publisher.batch[k].what, publisher.after)
    /\ publisher.at = "hand" =>
          /\ publisher.mark <= served
          /\ \A k \in 1..Len(publisher.batch) : Placed(rows, publisher.batch[k].what, publisher.mark)

LanePlaced(lane) ==
    \A l \in Listeners : \A k \in 1..Len(lane[l]) :
        lane[l][k].mark <= served /\ Placed(rows, lane[l][k].what, lane[l][k].mark)

(* LossIsCounted, of the rows as they were sent.                              *)
Sent(by) == DropSum(rows, by)
HandedOn ==
    pending.published - Len(pending.queue) - Len(InHand) - pending.dropped - Sent("queue")
Balanced ==
    alive =>
        /\ \A l \in Listeners : Reached(l) <= HandedOn
        /\ (\A l \in Listeners : mounted[l] = "first") =>
              FoldFunction(+, 0, [l \in Listeners |-> Reached(l)]) + traps + Sent("lanes")
                  = HandedOn * Cardinality(Listeners)

LifeInv ==
    /\ LifeTypes /\ RowsRecorded /\ OffersPlaced /\ QueuePlaced /\ BatchPlaced
    /\ LanePlaced(inbox) /\ LanePlaced(heard) /\ Balanced

-----------------------------------------------------------------------------
(* What the rows count *)

LEMMA SentIsSum ==
    ASSUME NEW by
    PROVE  Sent(by) = DropSum(rows, by) /\ Sent(by)' = DropSum(rows', by)
<1>1. Sent(by) = DropSum(rows, by)
  BY DEF Sent
<1>2. Sent(by)' = DropSum(rows', by)
  BY Zenon DEF Sent, DropSum, FoldSeq, FoldFunction, FoldFunctionOnSet, MapThenFoldSet
<1> QED BY <1>1, <1>2

LEMMA DropSumType ==
    ASSUME NEW t \in Seq(Rowish), NEW by
    PROVE  DropSum(t, by) \in Int
<1>1. IsFiniteSet(1..Len(t))
  BY FS_Interval
<1>2. Weights(t, by) \in [1..Len(t) -> Int]
  <2>1. \A x \in 1..Len(t) : Counts(t[x], by) \in Int
    BY DEF Counts, Rowish
  <2> QED BY <2>1 DEF Weights
<1>3. PICK g : Additive(g, 1..Len(t), Weights(t, by))
  BY <1>1, <1>2, AdditiveExists
<1>4. g[1..Len(t)] \in Int
  BY <1>3 DEF Additive
<1> QED BY <1>3, <1>4, DropSumIsAdditive

(* A row about a drop adds its count to the sum of its kind.                  *)
LEMMA DropSumAppend ==
    ASSUME NEW t \in Seq(Rowish), NEW n \in Nat, NEW l \in {"queue", "lanes"}, NEW by
    PROVE  DropSum(Append(t, DroppedRow(n, l)), by)
              = DropSum(t, by) + (IF by = l THEN n ELSE 0)
<1> DEFINE u == Append(t, DroppedRow(n, l))
           e == Len(t) + 1
<1>1. DroppedRow(n, l) \in Rowish
  BY DEF DroppedRow, Rowish
<1>2. /\ u \in Seq(Rowish) /\ Len(u) = e /\ u[e] = DroppedRow(n, l)
      /\ Len(t) \in Nat /\ \A i \in 1..Len(t) : u[i] = t[i]
  BY <1>1
<1> HIDE DEF u
<1>3. Extends(u, t, e, by)
  BY <1>2 DEF Extends
<1>4. Counts(u[e], by) = IF by = l THEN n ELSE 0
  BY <1>2 DEF Counts, DroppedRow
<1>5. DropSum(u, by) = DropSum(t, by) + Counts(u[e], by)
  BY <1>3, DropSumExtended
<1> QED BY <1>4, <1>5 DEF u

(* Rows about transitions add nothing.                                        *)
LEMMA DropSumConcat ==
    ASSUME NEW t \in Seq(Rowish), NEW u \in Seq(Rowish), NEW by,
           \A i \in 1..Len(u) : u[i].kind = "transition"
    PROVE  DropSum(t \o u, by) = DropSum(t, by)
<1> DEFINE v == t \o u
           e == Len(t) + 1
<1>1. /\ v \in Seq(Rowish) /\ Len(t) \in Nat /\ Len(u) \in Nat
      /\ Len(v) = Len(t) + Len(u)
      /\ \A i \in 1..Len(t) : v[i] = t[i]
      /\ \A i \in (Len(t) + 1)..Len(v) : v[i] = u[i - Len(t)]
  OBVIOUS
<1>2. CASE Len(u) = 0
  <2>1. v = t
    BY <1>1, <1>2
  <2> QED BY <2>1
<1>3. CASE Len(u) # 0
  <2> HIDE DEF v
  <2>1. \A i \in (Len(t) + 1)..Len(v) : Counts(v[i], by) = 0
    <3>1. \A i \in (Len(t) + 1)..Len(v) : i - Len(t) \in 1..Len(u)
      BY <1>1
    <3> QED BY <1>1, <3>1 DEF Counts
  <2>2. e \in (Len(t) + 1)..Len(v) /\ Len(t) < Len(v)
    BY <1>1, <1>3
  <2>3. Extends(v, t, e, by)
    BY <1>1, <2>1, <2>2 DEF Extends
  <2>4. DropSum(v, by) = DropSum(t, by) + 0 /\ DropSum(t, by) \in Int
    BY <2>1, <2>2, <2>3, DropSumExtended
  <2> QED BY <2>4 DEF v
<1> QED BY <1>2, <1>3

-----------------------------------------------------------------------------
(* What a row placed stays placed for *)

(* The table grows by rows of transitions that were not recorded before.      *)
Grown ==
    /\ rows' \in Seq(Rowish) /\ Len(rows) <= Len(rows') /\ served <= served'
    /\ \A i \in 1..Len(rows) : rows'[i] = rows[i]
    /\ \A i \in (Len(rows) + 1)..Len(rows') : rows'[i].kind = "transition" =>
          /\ rows'[i].of.nth > recorded[rows'[i].of.fiber]
          /\ rows'[i].of.nth <= recorded'[rows'[i].of.fiber]
    /\ recorded' \in [Fibers -> Nat] /\ \A f \in Fibers : recorded[f] <= recorded'[f]
    /\ alive' => alive

LEMMA PlacedStays ==
    ASSUME LifeTypes, RowsRecorded, Grown, NEW t \in Transition, NEW n, Placed(rows, t, n)
    PROVE  Placed(rows', t, n)
<1>1. Len(rows) \in Nat /\ Len(rows') \in Nat /\ Len(rows) <= Len(rows')
  BY DEF LifeTypes, Grown
<1>2. PICK k \in 1..Len(rows) : rows[k] = TransitionRow(t)
  BY DEF Placed
<1>3. recorded \in [Fibers -> Nat] /\ t.nth \in Nat /\ t.fiber \in Fibers
  BY DEF LifeTypes, Transition
<1>4. t.nth <= recorded[t.fiber]
  BY <1>2 DEF RowsRecorded, TransitionRow
<1>5. \A i \in (Len(rows) + 1)..Len(rows') : rows'[i] # TransitionRow(t)
  BY <1>3, <1>4 DEF Grown, TransitionRow
<1>6. \A i \in 1..Len(rows) : rows'[i] = rows[i]
  BY DEF Grown
<1>7. k \in 1..Len(rows') /\ rows'[k] = TransitionRow(t)
  BY <1>1, <1>2, <1>6
<1>8. \A i \in 1..Len(rows') : i \in 1..Len(rows) \/ i \in (Len(rows) + 1)..Len(rows')
  BY <1>1
<1> QED BY <1>5, <1>6, <1>7, <1>8 DEF Placed

LEMMA PlacedLonger ==
    ASSUME NEW table, NEW t, NEW n \in Int, NEW m \in Int, n <= m,
           Placed(table, t, n), Len(table) \in Nat
    PROVE  Placed(table, t, m)
BY DEF Placed

LEMMA RecordedStays ==
    ASSUME LifeTypes, RowsRecorded, Grown
    PROVE  RowsRecorded'
<1>1. Len(rows) \in Nat /\ Len(rows') \in Nat /\ Len(rows) <= Len(rows')
  BY DEF LifeTypes, Grown
<1>2. ASSUME NEW i \in 1..Len(rows'), rows'[i].kind = "transition"
      PROVE  rows'[i].of.nth <= recorded'[rows'[i].of.fiber]
  <2>1. CASE i \in 1..Len(rows)
    <3>1. rows'[i] = rows[i] /\ rows[i].of.nth <= recorded[rows[i].of.fiber]
      BY <1>2, <2>1 DEF RowsRecorded, Grown
    <3>2. rows[i].of.fiber \in Fibers /\ rows[i].of.nth \in Nat
      BY <1>2, <2>1, <3>1 DEF LifeTypes, Rowish
    <3>3. recorded[rows[i].of.fiber] \in Nat /\ recorded'[rows[i].of.fiber] \in Nat
          /\ recorded[rows[i].of.fiber] <= recorded'[rows[i].of.fiber]
      BY <3>2 DEF LifeTypes, Grown
    <3> QED BY <3>1, <3>2, <3>3
  <2>2. CASE i \in (Len(rows) + 1)..Len(rows')
    BY <1>2, <2>2 DEF Grown
  <2> QED BY <1>1, <2>1, <2>2
<1> QED BY <1>2 DEF RowsRecorded

LEMMA Shapes ==
    ASSUME LifeTypes
    PROVE  /\ pending.queue \in Seq(QueueItem) /\ pending.published \in Nat /\ pending.dropped \in Nat
           /\ publisher.at \in {"barrier", "hand"} => publisher.batch \in Seq(QueueItem)
           /\ publisher.at = "barrier" => publisher.after \in Nat
           /\ publisher.at = "hand" => publisher.mark \in Nat
           /\ \A it \in QueueItem : it.what \in Transition
BY DEF LifeTypes, QueueItem

(* The parts that stay when what they are about stays.                        *)
LEMMA OffersStay ==
    ASSUME LifeInv, Grown, UNCHANGED offers
    PROVE  OffersPlaced'
<1>1. ASSUME NEW s \in Syncers, NEW k \in 1..Len(offers[s]), alive
      PROVE  Placed(rows', offers[s][k], Len(rows'))
  <2>1. offers[s][k] \in Transition /\ Placed(rows, offers[s][k], Len(rows))
    BY <1>1 DEF LifeInv, LifeTypes, OffersPlaced
  <2>2. Placed(rows', offers[s][k], Len(rows))
    BY <2>1, PlacedStays DEF LifeInv
  <2> QED BY <2>2, PlacedLonger DEF Grown, LifeInv, LifeTypes
<1>2. alive' => alive
  BY DEF Grown
<1> QED BY <1>1, <1>2 DEF OffersPlaced

LEMMA QueueStays ==
    ASSUME LifeInv, Grown, UNCHANGED pending
    PROVE  QueuePlaced'
<1>1. ASSUME NEW k \in 1..Len(pending.queue), alive
      PROVE  Placed(rows', pending.queue[k].what, Len(rows'))
  <2>1. pending.queue[k].what \in Transition /\ Placed(rows, pending.queue[k].what, Len(rows))
    <3>1. pending.queue[k] \in QueueItem
      BY Shapes DEF LifeInv
    <3> QED BY <1>1, <3>1, Shapes DEF LifeInv, QueuePlaced
  <2>2. Placed(rows', pending.queue[k].what, Len(rows))
    BY <2>1, PlacedStays DEF LifeInv
  <2> QED BY <2>2, PlacedLonger DEF Grown, LifeInv, LifeTypes
<1>2. alive' => alive
  BY DEF Grown
<1> QED BY <1>1, <1>2 DEF QueuePlaced

LEMMA BatchStays ==
    ASSUME LifeInv, Grown, UNCHANGED publisher, served' \in Nat
    PROVE  BatchPlaced'
<1>1. ASSUME publisher.at = "barrier", alive, NEW k \in 1..Len(publisher.batch)
      PROVE  Placed(rows', publisher.batch[k].what, publisher.after)
  <2>1. /\ publisher.batch[k].what \in Transition
        /\ Placed(rows, publisher.batch[k].what, publisher.after)
    <3>1. publisher.batch[k] \in QueueItem
      BY <1>1, Shapes DEF LifeInv
    <3> QED BY <1>1, <3>1, Shapes DEF LifeInv, BatchPlaced
  <2> QED BY <2>1, PlacedStays DEF LifeInv
<1>2. ASSUME publisher.at = "hand"
      PROVE  /\ publisher.mark <= served'
             /\ \A k \in 1..Len(publisher.batch) :
                   Placed(rows', publisher.batch[k].what, publisher.mark)
  <2>1. publisher.mark <= served'
    BY <1>2, Shapes DEF LifeInv, LifeTypes, BatchPlaced, Grown
  <2>2. ASSUME NEW k \in 1..Len(publisher.batch)
        PROVE  Placed(rows', publisher.batch[k].what, publisher.mark)
    <3>1. /\ publisher.batch[k].what \in Transition
          /\ Placed(rows, publisher.batch[k].what, publisher.mark)
      <4>1. publisher.batch[k] \in QueueItem
        BY <1>2, Shapes DEF LifeInv
      <4> QED BY <1>2, <4>1, Shapes DEF LifeInv, BatchPlaced
    <3> QED BY <3>1, PlacedStays DEF LifeInv
  <2> QED BY <2>1, <2>2
<1>3. alive' => alive
  BY DEF Grown
<1> QED BY <1>1, <1>2, <1>3 DEF BatchPlaced

(* One delivery that has its row keeps it.                                    *)
LEMMA DeliveryStays ==
    ASSUME LifeInv, Grown, NEW d \in Delivery, d.mark <= served, Placed(rows, d.what, d.mark),
           served' \in Nat
    PROVE  d.mark <= served' /\ Placed(rows', d.what, d.mark)
<1>1. d.what \in Transition /\ d.mark \in Nat
  BY DEF Delivery
<1>2. Placed(rows', d.what, d.mark)
  BY <1>1, PlacedStays DEF LifeInv
<1> QED BY <1>1, <1>2 DEF Grown, LifeInv, LifeTypes

LEMMA LanesStay ==
    ASSUME LifeInv, Grown, served' \in Nat
    PROVE  /\ UNCHANGED inbox => LanePlaced(inbox)'
           /\ UNCHANGED heard => LanePlaced(heard)'
<1>1. ASSUME NEW l \in Listeners, NEW k \in 1..Len(inbox[l])
      PROVE  inbox[l][k].mark <= served' /\ Placed(rows', inbox[l][k].what, inbox[l][k].mark)
  <2>1. inbox[l][k] \in Delivery
    BY DEF LifeInv, LifeTypes
  <2>2. inbox[l][k].mark <= served /\ Placed(rows, inbox[l][k].what, inbox[l][k].mark)
    BY DEF LifeInv, LanePlaced
  <2> QED BY <2>1, <2>2, DeliveryStays
<1>2. ASSUME NEW l \in Listeners, NEW k \in 1..Len(heard[l])
      PROVE  heard[l][k].mark <= served' /\ Placed(rows', heard[l][k].what, heard[l][k].mark)
  <2>1. heard[l][k] \in Delivery
    BY DEF LifeInv, LifeTypes
  <2>2. heard[l][k].mark <= served /\ Placed(rows, heard[l][k].what, heard[l][k].mark)
    BY DEF LifeInv, LanePlaced
  <2> QED BY <2>1, <2>2, DeliveryStays
<1> QED BY <1>1, <1>2 DEF LanePlaced

(* What all listeners together hold and have heard.                           *)
Holds(lane, past) == [l \in Listeners |-> Len(lane[l]) + Len(past[l])]
SumHeld(lane, past) == FoldFunction(+, 0, Holds(lane, past))

LEMMA LossRead ==
    /\ Balanced <=>
         (alive => /\ \A l \in Listeners : Reached(l) <= HandedOn
                   /\ (\A l \in Listeners : mounted[l] = "first") =>
                         SumHeld(inbox, heard) + traps + Sent("lanes")
                            = HandedOn * Cardinality(Listeners))
    /\ Balanced' <=>
         (alive' => /\ \A l \in Listeners : Reached(l)' <= HandedOn'
                    /\ (\A l \in Listeners : mounted'[l] = "first") =>
                          SumHeld(inbox', heard') + traps' + Sent("lanes")'
                             = HandedOn' * Cardinality(Listeners))
<1>1. FoldFunction(+, 0, [l \in Listeners |-> Reached(l)]) = SumHeld(inbox, heard)
  BY Zenon DEF SumHeld, Holds, Reached
<1>2. FoldFunction(+, 0, [l \in Listeners |-> Reached(l)])' = SumHeld(inbox', heard')
  BY Zenon DEF SumHeld, Holds, Reached, FoldFunction, FoldFunctionOnSet, MapThenFoldSet
<1> QED BY <1>1, <1>2 DEF Balanced

(* The count of losses stays when nothing is handed on, delivered or lost.    *)
LEMMA LossStays ==
    ASSUME Balanced, UNCHANGED <<inbox, heard, traps>>, alive' => alive,
           HandedOn' = HandedOn, Sent("lanes")' = Sent("lanes"),
           (\A l \in Listeners : mounted'[l] = "first") => \A l \in Listeners : mounted[l] = "first"
    PROVE  Balanced'
<1>1. \A l \in Listeners : Reached(l)' = Reached(l)
  BY DEF Reached
<1>2. SumHeld(inbox', heard') = SumHeld(inbox, heard)
  OBVIOUS
<1> QED BY <1>1, <1>2, LossRead

LEMMA GrownSame ==
    ASSUME LifeTypes, UNCHANGED <<rows, recorded>>, served' \in Nat, served <= served',
           alive' => alive
    PROVE  Grown
BY DEF LifeTypes, Grown

LEMMA HandedOnRead ==
    /\ HandedOn = pending.published - Len(pending.queue) - Len(InHand) - pending.dropped
                   - DropSum(rows, "queue")
    /\ HandedOn' = pending'.published - Len(pending'.queue) - Len(InHand') - pending'.dropped
                   - DropSum(rows', "queue")
BY SentIsSum DEF HandedOn

(* The writer, and a fiber that moves.                                        *)
LEMMA WriterKeeps ==
    ASSUME LifeInv, WriterServes \/ WriterStops \/ (\E f \in Fibers : FiberMoves(f))
    PROVE  LifeInv'
<1>1. UNCHANGED <<recorded, offers, rows, pending, publisher, mounted, inbox, heard, traps>>
  BY DEF WriterServes, WriterCommits, WriterRefuses, WriterStops, FiberMoves
<1>2. /\ served' \in 0..Len(rows) /\ served <= served' /\ (alive' => alive)
      /\ made' \in [Fibers -> Nat] /\ \A f \in Fibers : made[f] <= made'[f]
  <2>1. CASE WriterServes
    BY <2>1 DEF WriterServes, WriterCommits, WriterRefuses, LifeInv, LifeTypes
  <2>2. CASE WriterStops
    BY <2>2 DEF WriterStops, LifeInv, LifeTypes
  <2>3. CASE \E f \in Fibers : FiberMoves(f)
    BY <2>3 DEF FiberMoves, LifeInv, LifeTypes
  <2> QED BY <2>1, <2>2, <2>3
<1>3. LifeTypes'
  <2>1. \A f \in Fibers : recorded[f] <= made'[f]
    BY <1>2 DEF LifeInv, LifeTypes
  <2> QED BY <1>1, <1>2, <2>1 DEF LifeInv, LifeTypes
<1>4. Grown /\ served' \in Nat
  <2>1. served' \in Nat
    BY <1>2 DEF LifeInv, LifeTypes
  <2> QED BY <1>1, <1>2, <2>1, GrownSame DEF LifeInv
<1>5. Balanced'
  <2>1. InHand' = InHand
    BY <1>1 DEF InHand
  <2>2. HandedOn' = HandedOn /\ Sent("lanes")' = Sent("lanes")
    BY <1>1, <2>1, HandedOnRead, SentIsSum
  <2> QED BY <1>1, <1>2, <2>2, LossStays DEF LifeInv
<1> QED BY <1>1, <1>3, <1>4, <1>5, RecordedStays, OffersStay, QueueStays, BatchStays, LanesStay
        DEF LifeInv

(* The steps of the publisher that move no row.                               *)
LEMMA TurnsKeep ==
    ASSUME LifeInv, Wake \/ Barrier \/ BatchDone
    PROVE  LifeInv'
<1>1. UNCHANGED <<made, recorded, offers, rows, served, alive, pending, mounted, inbox, heard, traps>>
  BY DEF Wake, Barrier, BatchDone
<1>2. served \in Nat /\ Grown
  BY <1>1, GrownSame DEF LifeInv, LifeTypes
<1>3. \/ publisher' \in {[at |-> "drain"], [at |-> "gone"]} /\ (publisher'.at = "gone" => ~alive)
         /\ (alive => InHand = <<>>)
      \/ /\ publisher.at = "barrier" /\ alive /\ served >= publisher.after
         /\ publisher' = [at |-> "hand", batch |-> publisher.batch, mark |-> publisher.after]
  BY DEF Wake, Barrier, BatchDone, MarkIsRead, InHand
<1>4. publisher' \in [at : {"unborn", "drain", "asleep", "gone"}]
                     \union [at : {"barrier"}, batch : Seq(QueueItem), after : Nat]
                     \union [at : {"hand"}, batch : Seq(QueueItem), mark : Nat]
  BY <1>3, Shapes DEF LifeInv
<1>5. LifeTypes'
  BY <1>1, <1>4 DEF LifeInv, LifeTypes
<1>6. BatchPlaced'
  BY <1>1, <1>3, Shapes DEF LifeInv, LifeTypes, BatchPlaced
<1>7. Balanced'
  <2>1. CASE alive
    <3>1. InHand' = InHand
      BY <1>3, <2>1 DEF InHand
    <3>2. HandedOn' = HandedOn /\ Sent("lanes")' = Sent("lanes")
      BY <1>1, <3>1, HandedOnRead, SentIsSum
    <3> QED BY <1>1, <3>2, LossStays DEF LifeInv
  <2>2. CASE ~alive
    BY <1>1, <2>2, LossRead
  <2> QED BY <2>1, <2>2
<1> QED BY <1>1, <1>2, <1>5, <1>6, <1>7, RecordedStays, OffersStay, QueueStays, LanesStay
        DEF LifeInv

(* Listeners come and go.                                                     *)
LEMMA MountsKeep ==
    ASSUME LifeInv, NEW l \in Listeners, Mount(l) \/ Unmount(l)
    PROVE  LifeInv'
<1>1. UNCHANGED <<made, recorded, offers, rows, served, alive, pending, publisher, inbox, heard, traps>>
  BY DEF Mount, Unmount
<1>2. served \in Nat /\ Grown
  BY <1>1, GrownSame DEF LifeInv, LifeTypes
<1>3. /\ mounted' \in [Listeners -> {"no", "first", "late", "gone"}]
      /\ mounted'[l] # "first"
  BY DEF Mount, Unmount, LifeInv, LifeTypes
<1>4. LifeTypes'
  BY <1>1, <1>3 DEF LifeInv, LifeTypes
<1>5. Balanced'
  <2>1. InHand' = InHand
    BY <1>1 DEF InHand
  <2>2. HandedOn' = HandedOn /\ Sent("lanes")' = Sent("lanes")
    BY <1>1, <2>1, HandedOnRead, SentIsSum
  <2> QED BY <1>1, <1>3, <2>2, LossStays DEF LifeInv
<1> QED BY <1>1, <1>2, <1>4, <1>5, RecordedStays, OffersStay, QueueStays, BatchStays, LanesStay
        DEF LifeInv

LEMMA HandedType ==
    ASSUME LifeTypes
    PROVE  HandedOn \in Int /\ Sent("lanes") \in Int /\ InHand \in Seq(QueueItem)
<1>1. InHand \in Seq(QueueItem)
  BY Shapes DEF InHand
<1>2. rows \in Seq(Rowish)
  BY DEF LifeTypes
<1>3. DropSum(rows, "queue") \in Int /\ DropSum(rows, "lanes") \in Int
  BY <1>2, DropSumType
<1> QED BY <1>1, <1>3, Shapes, HandedOnRead, SentIsSum

(* One offer: it is queued, or it is dropped and counted.                     *)
LEMMA OfferKeeps ==
    ASSUME LifeInv, NEW s \in Syncers, Offer(s)
    PROVE  LifeInv'
<1> DEFINE t == Head(offers[s])
           n == pending.published + 1
<1>1. /\ UNCHANGED <<made, recorded, rows, served, alive, mounted, inbox, heard, traps>>
      /\ offers[s] \in Seq(Transition) /\ offers[s] # <<>>
      /\ offers' = [offers EXCEPT ![s] = Tail(@)] /\ pending' = Enqueue(t)
      /\ publisher' = IF publisher.at = "unborn" THEN [at |-> "drain"] ELSE publisher
  BY DEF Offer, LifeInv, LifeTypes
<1>2. served \in Nat /\ Grown
  BY <1>1, GrownSame DEF LifeInv, LifeTypes
<1>3. /\ t \in Transition /\ t = offers[s][1] /\ Len(offers[s]) \in Nat \ {0}
      /\ Tail(offers[s]) \in Seq(Transition) /\ Len(Tail(offers[s])) = Len(offers[s]) - 1
      /\ \A k \in 1..(Len(offers[s]) - 1) : Tail(offers[s])[k] = offers[s][k + 1]
  BY <1>1
<1>4. alive => Placed(rows, t, Len(rows))
  BY <1>3 DEF LifeInv, OffersPlaced
<1> HIDE DEF t
<1>5. \/ /\ pending'.queue = pending.queue /\ pending'.dropped = pending.dropped + 1
         /\ pending' = [queue |-> pending.queue, published |-> n, dropped |-> pending.dropped + 1]
      \/ /\ pending'.queue = Append(pending.queue, [what |-> t, ordinal |-> n])
         /\ pending' = [queue |-> Append(pending.queue, [what |-> t, ordinal |-> n]),
                        published |-> n, dropped |-> pending.dropped]
  BY <1>1 DEF Enqueue, LifeInv, LifeTypes
<1>6. /\ pending.queue \in Seq(QueueItem) /\ n \in Nat /\ [what |-> t, ordinal |-> n] \in QueueItem
      /\ pending.published \in Nat /\ pending.dropped \in Nat /\ pending.dropped + 1 \in Nat
      /\ Append(pending.queue, [what |-> t, ordinal |-> n]) \in Seq(QueueItem)
      /\ Len(pending.queue) \in Nat
      /\ Len(Append(pending.queue, [what |-> t, ordinal |-> n])) = Len(pending.queue) + 1
  <2>1. /\ pending.queue \in Seq(QueueItem) /\ n \in Nat
        /\ pending.published \in Nat /\ pending.dropped \in Nat
    BY Shapes DEF LifeInv
  <2> HIDE DEF n
  <2>2. [what |-> t, ordinal |-> n] \in QueueItem
    BY <1>3, <2>1 DEF QueueItem
  <2> QED BY <2>1, <2>2
<1>7. LifeTypes'
  <2>1. offers' \in [Syncers -> Seq(Transition)]
    BY <1>1, <1>3 DEF LifeInv, LifeTypes
  <2>2. pending' \in [queue : Seq(QueueItem), published : Nat, dropped : Nat]
    <3> DEFINE longer == Append(pending.queue, [what |-> t, ordinal |-> n])
    <3> HIDE DEF n, longer
    <3>1. \/ pending' = [queue |-> pending.queue, published |-> n, dropped |-> pending.dropped + 1]
          \/ pending' = [queue |-> longer, published |-> n, dropped |-> pending.dropped]
      BY <1>5, Zenon DEF longer
    <3>2. longer \in Seq(QueueItem) /\ n \in Nat /\ pending.dropped + 1 \in Nat
          /\ pending.queue \in Seq(QueueItem) /\ pending.dropped \in Nat
      BY <1>6, Zenon DEF longer
    <3>3. \A q \in Seq(QueueItem), p \in Nat, d \in Nat :
             [queue |-> q, published |-> p, dropped |-> d]
                \in [queue : Seq(QueueItem), published : Nat, dropped : Nat]
      OBVIOUS
    <3> QED BY <3>1, <3>2, <3>3, Zenon
  <2>3. publisher' \in [at : {"unborn", "drain", "asleep", "gone"}]
                     \union [at : {"barrier"}, batch : Seq(QueueItem), after : Nat]
                     \union [at : {"hand"}, batch : Seq(QueueItem), mark : Nat]
    BY <1>1 DEF LifeInv, LifeTypes
  <2> QED BY <1>1, <2>1, <2>2, <2>3 DEF LifeInv, LifeTypes
<1>8. OffersPlaced'
  <2>1. ASSUME NEW z \in Syncers, NEW k \in 1..Len(offers'[z]), alive
        PROVE  Placed(rows, offers'[z][k], Len(rows))
    <3>1. CASE z = s
      <4>1. offers'[z] = Tail(offers[s])
        BY <1>1, <3>1 DEF LifeInv, LifeTypes
      <4>2. offers'[z][k] = offers[s][k + 1] /\ k + 1 \in 1..Len(offers[s])
        BY <1>3, <2>1, <4>1
      <4> QED BY <2>1, <4>2 DEF LifeInv, OffersPlaced
    <3>2. CASE z # s
      BY <1>1, <2>1, <3>2 DEF LifeInv, LifeTypes, OffersPlaced
    <3> QED BY <3>1, <3>2
  <2> QED BY <1>1, <2>1 DEF OffersPlaced
<1>9. QueuePlaced'
  <2>1. ASSUME NEW k \in 1..Len(pending'.queue), alive
        PROVE  Placed(rows, pending'.queue[k].what, Len(rows))
    <3>1. CASE pending'.queue = pending.queue
      BY <2>1, <3>1 DEF LifeInv, QueuePlaced
    <3>2. CASE pending'.queue = Append(pending.queue, [what |-> t, ordinal |-> n])
      <4>1. CASE k \in 1..Len(pending.queue)
        <5>1. pending'.queue[k] = pending.queue[k]
          BY <1>6, <3>2, <4>1
        <5> QED BY <2>1, <4>1, <5>1 DEF LifeInv, QueuePlaced
      <4>2. CASE k = Len(pending.queue) + 1
        <5>1. pending'.queue[k] = [what |-> t, ordinal |-> n]
          BY <1>6, <3>2, <4>2
        <5> QED BY <1>4, <2>1, <5>1
      <4> QED BY <1>6, <2>1, <3>2, <4>1, <4>2
    <3> QED BY <1>5, <3>1, <3>2
  <2> QED BY <1>1, <2>1 DEF QueuePlaced
<1>10. BatchPlaced'
  BY <1>1 DEF LifeInv, BatchPlaced
<1>11. Balanced'
  <2>1. InHand' = InHand
    BY <1>1 DEF InHand
  <2>2. DropSum(rows, "queue") \in Int /\ Len(InHand) \in Nat
    BY HandedType, DropSumType DEF LifeInv, LifeTypes
  <2>3. HandedOn' = HandedOn
    <3>0. Len(pending.queue) \in Nat /\ pending.published \in Nat /\ pending.dropped \in Nat
      BY <1>6, Zenon
    <3>1. /\ pending'.published = pending.published + 1
          /\ pending'.dropped \in Nat /\ Len(pending'.queue) \in Nat
          /\ Len(pending'.queue) + pending'.dropped = Len(pending.queue) + pending.dropped + 1
      <4>1. CASE pending' = [queue |-> pending.queue, published |-> n,
                             dropped |-> pending.dropped + 1]
        BY <1>6, <4>1
      <4>2. CASE pending' = [queue |-> Append(pending.queue, [what |-> t, ordinal |-> n]),
                             published |-> n, dropped |-> pending.dropped]
        <5>1. /\ pending'.queue = Append(pending.queue, [what |-> t, ordinal |-> n])
              /\ pending'.published = pending.published + 1 /\ pending'.dropped = pending.dropped
          BY <4>2
        <5>2. Len(pending'.queue) = Len(pending.queue) + 1
          BY <1>6, <5>1, Zenon
        <5>3. pending'.published = pending.published + 1 /\ pending'.dropped = pending.dropped
          BY <5>1, Zenon
        <5> QED BY <3>0, <5>2, <5>3
      <4> QED BY <1>5, <4>1, <4>2
    <3>2. /\ HandedOn = pending.published - Len(pending.queue) - Len(InHand) - pending.dropped
                         - DropSum(rows, "queue")
          /\ HandedOn' = pending'.published - Len(pending'.queue) - Len(InHand) - pending'.dropped
                         - DropSum(rows, "queue")
      BY <1>1, <2>1, HandedOnRead
    <3> DEFINE p2 == pending'.published  q2 == Len(pending'.queue)  d2 == pending'.dropped
               p1 == pending.published   q1 == Len(pending.queue)   d1 == pending.dropped
               h == Len(InHand)          e == DropSum(rows, "queue")
    <3>3. /\ HandedOn = p1 - q1 - h - d1 - e /\ HandedOn' = p2 - q2 - h - d2 - e
          /\ {p1, q1, d1, h, q2, d2} \subseteq Nat /\ e \in Int
          /\ p2 = p1 + 1 /\ q2 + d2 = q1 + d1 + 1
      BY <2>2, <3>0, <3>1, <3>2, Zenon
    <3> HIDE DEF p1, q1, d1, p2, q2, d2, h, e
    <3> QED BY <3>3
  <2>4. Sent("lanes")' = Sent("lanes")
    BY <1>1, SentIsSum
  <2> QED BY <1>1, <2>3, <2>4, LossStays DEF LifeInv
<1> QED BY <1>1, <1>2, <1>7, <1>8, <1>9, <1>10, <1>11, RecordedStays, LanesStay DEF LifeInv

(* The publisher takes the queue and reports the drops.                       *)
LEMMA DrainKeeps ==
    ASSUME LifeInv, Drain
    PROVE  LifeInv'
<1>1. /\ UNCHANGED <<made, recorded, offers, served, alive, mounted, inbox, heard, traps>>
      /\ publisher.at = "drain" /\ served \in Nat /\ rows \in Seq(Rowish) /\ Len(rows) \in Nat
      /\ pending.queue \in Seq(QueueItem) /\ pending.dropped \in Nat /\ pending.published \in Nat
  BY Shapes DEF Drain, LifeInv, LifeTypes
<1>2. CASE pending.queue = <<>> /\ pending.dropped = 0
  <2>1. publisher' = [at |-> "asleep"] /\ UNCHANGED <<pending, rows>>
    BY <1>2 DEF Drain
  <2>2. Grown
    BY <1>1, <2>1, GrownSame DEF LifeInv
  <2>3. LifeTypes' /\ BatchPlaced'
    BY <1>1, <2>1 DEF LifeInv, LifeTypes, BatchPlaced
  <2>4. InHand' = InHand
    BY <1>1, <2>1 DEF InHand
  <2>5. HandedOn' = HandedOn /\ Sent("lanes")' = Sent("lanes")
    BY <2>1, <2>4, HandedOnRead, SentIsSum
  <2>6. Balanced'
    BY <1>1, <2>5, LossStays DEF LifeInv
  <2> QED BY <1>1, <2>1, <2>2, <2>3, <2>6, RecordedStays, OffersStay, QueueStays, LanesStay
          DEF LifeInv
<1>3. CASE ~(pending.queue = <<>> /\ pending.dropped = 0)
  <2> DEFINE extra == IF pending.dropped > 0 THEN 1 ELSE 0
             row == DroppedRow(pending.dropped, "queue")
  <2>1. /\ publisher' = [at |-> "barrier", batch |-> pending.queue, after |-> Len(rows) + extra]
        /\ pending' = [pending EXCEPT !.queue = <<>>, !.dropped = 0]
        /\ rows' = IF pending.dropped > 0 /\ alive THEN Append(rows, row) ELSE rows
    BY <1>3 DEF Drain, RecordRow
  <2>2. row \in Rowish /\ row.kind = "dropped"
    BY <1>1 DEF DroppedRow, Rowish
  <2>3. extra \in Nat
    OBVIOUS
  <2> HIDE DEF row, extra
  <2>4. Grown
    BY <1>1, <2>1, <2>2 DEF Grown, LifeInv, LifeTypes
  <2>5. pending' = [queue |-> <<>>, published |-> pending.published, dropped |-> 0]
    BY <2>1 DEF LifeInv, LifeTypes
  <2>6. LifeTypes'
    <3>1. pending' \in [queue : Seq(QueueItem), published : Nat, dropped : Nat]
      BY <1>1, <2>5
    <3>2. publisher' \in [at : {"barrier"}, batch : Seq(QueueItem), after : Nat]
      BY <1>1, <2>1, <2>3
    <3>3. rows' \in Seq(Rowish) /\ served \in 0..Len(rows')
      BY <1>1, <2>4 DEF Grown, LifeInv, LifeTypes
    <3> QED BY <1>1, <3>1, <3>2, <3>3 DEF LifeInv, LifeTypes
  <2>7. QueuePlaced'
    BY <2>5 DEF QueuePlaced
  <2>8. BatchPlaced'
    <3>1. ASSUME NEW k \in 1..Len(pending.queue), alive
          PROVE  Placed(rows', pending.queue[k].what, Len(rows) + extra)
      <4>1. pending.queue[k].what \in Transition
        BY <1>1, Shapes DEF LifeInv
      <4>2. Placed(rows, pending.queue[k].what, Len(rows))
        BY <3>1 DEF LifeInv, QueuePlaced
      <4>3. Placed(rows, pending.queue[k].what, Len(rows) + extra)
        BY <1>1, <2>3, <4>2, PlacedLonger
      <4> QED BY <2>4, <4>1, <4>3, PlacedStays DEF LifeInv
    <3> QED BY <1>1, <2>1, <3>1 DEF BatchPlaced
  <2>9. Balanced'
    <3>1. CASE alive
      <4>1. InHand' = pending.queue /\ InHand = <<>>
        BY <1>1, <2>1 DEF InHand
      <4>2. DropSum(rows, "queue") \in Int
        BY <1>1, DropSumType
      <4>3. /\ DropSum(rows', "queue") = DropSum(rows, "queue") + pending.dropped
            /\ DropSum(rows', "lanes") = DropSum(rows, "lanes")
        <5>1. CASE pending.dropped > 0
          <6>1. rows' = Append(rows, DroppedRow(pending.dropped, "queue"))
            BY <2>1, <3>1, <5>1 DEF row
          <6>2. DropSum(rows, "lanes") \in Int
            BY <1>1, DropSumType
          <6>3. /\ DropSum(rows', "queue") = DropSum(rows, "queue") + pending.dropped
                /\ DropSum(rows', "lanes") = DropSum(rows, "lanes") + 0
            BY <1>1, <6>1, DropSumAppend
          <6> QED BY <6>2, <6>3
        <5>2. CASE ~(pending.dropped > 0)
          BY <1>1, <2>1, <4>2, <5>2
        <5> QED BY <5>1, <5>2
      <4>4. Len(<<>>) = 0 /\ Len(pending.queue) \in Nat
        BY <1>1
      <4>5. HandedOn' = HandedOn
        BY <1>1, <2>5, <4>1, <4>2, <4>3, <4>4, HandedOnRead
      <4>6. Sent("lanes")' = Sent("lanes")
        BY <4>3, SentIsSum
      <4> QED BY <1>1, <4>5, <4>6, LossStays DEF LifeInv
    <3>2. CASE ~alive
      BY <1>1, <3>2, LossRead
    <3> QED BY <3>1, <3>2
  <2> QED BY <1>1, <2>4, <2>6, <2>7, <2>8, <2>9, RecordedStays, OffersStay, LanesStay
          DEF LifeInv
<1> QED BY <1>2, <1>3

-----------------------------------------------------------------------------
(* The steps that change what is held *)

(* The listeners of D hold one more, the others what they held.               *)
Raises(lane, past, lane2, past2, D) ==
    /\ D \in SUBSET Listeners
    /\ \A x \in Listeners : Len(lane[x]) \in Nat /\ Len(past[x]) \in Nat
    /\ \A x \in Listeners : Len(lane2[x]) + Len(past2[x])
                                = Len(lane[x]) + Len(past[x]) + (IF x \in D THEN 1 ELSE 0)

LEMMA HeldRaised ==
    ASSUME NEW lane, NEW past, NEW lane2, NEW past2, NEW D, Raises(lane, past, lane2, past2, D)
    PROVE  /\ SumHeld(lane, past) \in Int /\ Cardinality(D) \in Nat
           /\ SumHeld(lane2, past2) = SumHeld(lane, past) + Cardinality(D)
<1> USE DEF Raises
<1> DEFINE W == Holds(lane, past)
<1>1. W \in [Listeners -> Int] /\ \A x \in Listeners : W[x] = Len(lane[x]) + Len(past[x])
  BY DEF Holds
<1>2. IsFiniteSet(Listeners)
  BY LifecycleAssumption
<1>3. Holds(lane2, past2) = [x \in Listeners |-> W[x] + (IF x \in D THEN 1 ELSE 0)]
  <2>1. \A x \in Listeners : Len(lane2[x]) + Len(past2[x]) = W[x] + (IF x \in D THEN 1 ELSE 0)
    BY <1>1
  <2> HIDE DEF W
  <2> QED BY <2>1, Zenon DEF Holds
<1>4. Cardinality(D) \in Nat
  BY <1>2, FS_Subset, FS_CardinalityType
<1> HIDE DEF W
<1>5. /\ FoldFunction(+, 0, W) \in Int
      /\ FoldFunction(+, 0, [x \in Listeners |-> W[x] + (IF x \in D THEN 1 ELSE 0)])
            = FoldFunction(+, 0, W) + Cardinality(D)
  BY <1>1, <1>2, SumRaised, Zenon
<1>6. FoldFunction(+, 0, W) = SumHeld(lane, past)
  BY Zenon DEF SumHeld, W
<1>7. SumHeld(lane2, past2) = FoldFunction(+, 0, W) + Cardinality(D)
  BY <1>3, <1>5, Zenon DEF SumHeld
<1> QED BY <1>4, <1>5, <1>6, <1>7, Zenon

(* A lane gives its first delivery to the listener, or loses it to a trap.    *)
LEMMA LaneKeeps ==
    ASSUME LifeInv, NEW l \in Listeners, LaneDelivers(l)
    PROVE  LifeInv'
<1> DEFINE d == Head(inbox[l])
<1>1. /\ UNCHANGED <<made, recorded, offers, rows, served, alive, pending, publisher, mounted>>
      /\ inbox[l] \in Seq(Delivery) /\ inbox[l] # <<>> /\ heard[l] \in Seq(Delivery)
      /\ inbox' = [inbox EXCEPT ![l] = Tail(@)]
      /\ \/ traps' = traps /\ heard' = [heard EXCEPT ![l] = Append(@, d)]
         \/ traps' = traps + 1 /\ heard' = heard
  BY DEF LaneDelivers, LifeInv, LifeTypes
<1>2. served \in Nat /\ Grown
  BY <1>1, GrownSame DEF LifeInv, LifeTypes
<1>3. /\ d \in Delivery /\ d = inbox[l][1] /\ Len(inbox[l]) \in Nat \ {0}
      /\ Tail(inbox[l]) \in Seq(Delivery) /\ Len(Tail(inbox[l])) = Len(inbox[l]) - 1
      /\ \A k \in 1..(Len(inbox[l]) - 1) : Tail(inbox[l])[k] = inbox[l][k + 1]
  BY <1>1
<1>4. d.mark <= served /\ Placed(rows, d.what, d.mark)
  BY <1>3 DEF LifeInv, LanePlaced
<1> HIDE DEF d
<1>5. /\ Append(heard[l], d) \in Seq(Delivery) /\ Len(heard[l]) \in Nat
      /\ Len(Append(heard[l], d)) = Len(heard[l]) + 1
      /\ Append(heard[l], d)[Len(heard[l]) + 1] = d
      /\ \A k \in 1..Len(heard[l]) : Append(heard[l], d)[k] = heard[l][k]
  BY <1>1, <1>3
<1>6. /\ inbox'[l] = Tail(inbox[l]) /\ \A x \in Listeners : x # l => inbox'[x] = inbox[x]
      /\ inbox' \in [Listeners -> Seq(Delivery)]
  BY <1>1, <1>3 DEF LifeInv, LifeTypes
<1>7. /\ heard' \in [Listeners -> Seq(Delivery)] /\ traps' \in Nat
      /\ \A x \in Listeners : x # l => heard'[x] = heard[x]
      /\ \/ traps' = traps /\ heard'[l] = Append(heard[l], d)
         \/ traps' = traps + 1 /\ heard'[l] = heard[l]
  <2>0. heard \in [Listeners -> Seq(Delivery)] /\ traps \in Nat
    BY DEF LifeInv, LifeTypes
  <2>1. CASE traps' = traps /\ heard' = [heard EXCEPT ![l] = Append(@, d)]
    <3> DEFINE more == Append(heard[l], d)
    <3>1. more \in Seq(Delivery) /\ heard' = [heard EXCEPT ![l] = more]
      BY <1>5, <2>1, Zenon
    <3> HIDE DEF more
    <3>2. heard'[l] = more /\ \A x \in Listeners : x # l => heard'[x] = heard[x]
      BY <2>0, <3>1
    <3> QED BY <2>0, <2>1, <3>1, <3>2 DEF more
  <2>2. CASE traps' = traps + 1 /\ heard' = heard
    BY <2>0, <2>2
  <2> QED BY <1>1, <2>1, <2>2
<1>8. LifeTypes'
  BY <1>1, <1>6, <1>7 DEF LifeInv, LifeTypes
<1>9. LanePlaced(inbox)'
  <2>1. ASSUME NEW x \in Listeners, NEW k \in 1..Len(inbox'[x])
        PROVE  inbox'[x][k].mark <= served /\ Placed(rows, inbox'[x][k].what, inbox'[x][k].mark)
    <3>1. CASE x = l
      <4>0. inbox'[x] = Tail(inbox[l]) /\ Len(inbox'[x]) = Len(inbox[l]) - 1
        BY <1>3, <1>6, <3>1, Zenon
      <4>1. inbox'[x][k] = inbox[l][k + 1] /\ k + 1 \in 1..Len(inbox[l])
        BY <1>3, <4>0
      <4> QED BY <4>1 DEF LifeInv, LanePlaced
    <3>2. CASE x # l
      BY <1>6, <3>2 DEF LifeInv, LanePlaced
    <3> QED BY <3>1, <3>2
  <2> QED BY <1>1, <2>1 DEF LanePlaced
<1>10. LanePlaced(heard)'
  <2>1. ASSUME NEW x \in Listeners, NEW k \in 1..Len(heard'[x])
        PROVE  heard'[x][k].mark <= served /\ Placed(rows, heard'[x][k].what, heard'[x][k].mark)
    <3>1. heard'[x][k] = d \/ (k \in 1..Len(heard[x]) /\ heard'[x][k] = heard[x][k])
      <4>1. CASE heard'[x] = heard[x]
        BY <4>1
      <4>2. CASE x = l /\ heard'[x] = Append(heard[l], d)
        BY <1>5, <4>2
      <4> QED BY <1>7, <4>1, <4>2
    <3> QED BY <1>4, <3>1 DEF LifeInv, LanePlaced
  <2> QED BY <1>1, <2>1 DEF LanePlaced
<1>11. Balanced'
  <2>1. InHand' = InHand
    BY <1>1 DEF InHand
  <2>2. HandedOn' = HandedOn /\ Sent("lanes")' = Sent("lanes")
    BY <1>1, <2>1, HandedOnRead, SentIsSum
  <2> DEFINE was(x) == Len(inbox[x]) + Len(heard[x])
             is(x) == Len(inbox'[x]) + Len(heard'[x])
  <2>3. /\ \A x \in Listeners : /\ Len(inbox[x]) \in Nat /\ Len(heard[x]) \in Nat
                                /\ Len(inbox'[x]) \in Nat /\ Len(heard'[x]) \in Nat
        /\ HandedOn \in Int /\ Sent("lanes") \in Int /\ traps \in Nat
    <3>1. /\ inbox \in [Listeners -> Seq(Delivery)] /\ heard \in [Listeners -> Seq(Delivery)]
          /\ LifeTypes /\ traps \in Nat
      BY DEF LifeInv, LifeTypes
    <3>2. \A x \in Listeners : /\ Len(inbox[x]) \in Nat /\ Len(heard[x]) \in Nat
                               /\ Len(inbox'[x]) \in Nat /\ Len(heard'[x]) \in Nat
      BY <1>6, <1>7, <3>1
    <3>3. HandedOn \in Int /\ Sent("lanes") \in Int
      BY <3>1, HandedType
    <3> QED BY <3>1, <3>2, <3>3, Zenon
  <2>6. /\ \A x \in Listeners : was(x) \in Int /\ is(x) \in Int
        /\ \A x \in Listeners : x # l => is(x) = was(x)
    <3>1. \A x \in Listeners : was(x) \in Int /\ is(x) \in Int
      BY <2>3
    <3>2. \A x \in Listeners : x # l => is(x) = was(x)
      BY <1>6, <1>7, Zenon
    <3> QED BY <3>1, <3>2, Zenon
  <2>7. /\ Len(inbox'[l]) = Len(inbox[l]) - 1
        /\ traps' = traps /\ heard'[l] = Append(heard[l], d) => Len(heard'[l]) = Len(heard[l]) + 1
    BY <1>3, <1>5, <1>6, Zenon
  <2>4. CASE traps' = traps /\ heard'[l] = Append(heard[l], d)
    <3>1. is(l) = was(l)
      <4> DEFINE i1 == Len(inbox[l])  i2 == Len(inbox'[l])
                 h1 == Len(heard[l])  h2 == Len(heard'[l])
      <4>1. i1 \in Nat /\ h1 \in Nat /\ i2 = i1 - 1 /\ h2 = h1 + 1
        BY <2>3, <2>4, <2>7, Zenon
      <4> HIDE DEF i1, i2, h1, h2
      <4>2. i2 + h2 = i1 + h1
        BY <4>1
      <4> QED BY <4>2 DEF i1, i2, h1, h2
    <3>2. Holds(inbox', heard') = Holds(inbox, heard)
      <4> HIDE DEF was, is
      <4>1. \A x \in Listeners : is(x) = was(x)
        BY <2>6, <3>1, Zenon
      <4> QED BY <4>1, Zenon DEF Holds, was, is
    <3>3. SumHeld(inbox', heard') = SumHeld(inbox, heard)
      BY <3>2, Zenon DEF SumHeld
    <3>4. \A x \in Listeners : Reached(x)' = Reached(x)
      BY <2>6, <3>1, Zenon DEF Reached
    <3> QED BY <1>1, <2>2, <2>4, <3>3, <3>4, LossRead DEF LifeInv
  <2>5. CASE traps' = traps + 1 /\ heard'[l] = heard[l]
    <3>0. was(l) = is(l) + 1
      <4> DEFINE i1 == Len(inbox[l])  i2 == Len(inbox'[l])
                 h1 == Len(heard[l])  h2 == Len(heard'[l])
      <4>1. i1 \in Nat /\ h1 \in Nat /\ i2 = i1 - 1 /\ h2 = h1
        BY <2>3, <2>5, <2>7, Zenon
      <4> HIDE DEF i1, i2, h1, h2
      <4>2. i1 + h1 = i2 + h2 + 1
        BY <4>1
      <4> QED BY <4>2 DEF i1, i2, h1, h2
    <3>1. \A x \in Listeners : Len(inbox[x]) + Len(heard[x])
                                 = Len(inbox'[x]) + Len(heard'[x]) + (IF x \in {l} THEN 1 ELSE 0)
      <4> HIDE DEF was, is
      <4>1. \A x \in Listeners : was(x) = is(x) + (IF x \in {l} THEN 1 ELSE 0)
        BY <2>6, <3>0
      <4> QED BY <4>1, Zenon DEF was, is
    <3>2. {l} \in SUBSET Listeners /\ Cardinality({l}) = 1
      BY FS_Singleton
    <3>3. /\ SumHeld(inbox', heard') \in Int
          /\ SumHeld(inbox, heard) = SumHeld(inbox', heard') + 1
      <4>1. \A x \in Listeners : Len(inbox'[x]) \in Nat /\ Len(heard'[x]) \in Nat
        BY <2>3, Zenon
      <4>2. /\ SumHeld(inbox', heard') \in Int
            /\ SumHeld(inbox, heard) = SumHeld(inbox', heard') + Cardinality({l})
        <5>1. Raises(inbox', heard', inbox, heard, {l})
          BY <3>1, <3>2, <4>1, Zenon DEF Raises
        <5> QED BY <5>1, HeldRaised
      <4> QED BY <3>2, <4>2, Zenon
    <3>5. alive => \A x \in Listeners : Reached(x)' <= HandedOn
      <4>1. alive => \A x \in Listeners : was(x) <= HandedOn
        BY LossRead, Zenon DEF LifeInv, Reached
      <4> HIDE DEF was, is
      <4>2. \A x \in Listeners : is(x) <= was(x)
        BY <2>6, <3>0
      <4>3. alive => \A x \in Listeners : is(x) <= HandedOn
        BY <2>3, <2>6, <4>1, <4>2
      <4> QED BY <4>3, Zenon DEF Reached, is
    <3>6. SumHeld(inbox', heard') + traps' + Sent("lanes")
             = SumHeld(inbox, heard) + traps + Sent("lanes")
      BY <2>3, <2>5, <3>3
    <3> QED BY <1>1, <2>2, <3>5, <3>6, LossRead DEF LifeInv
  <2> QED BY <1>7, <2>4, <2>5
<1> QED BY <1>1, <1>2, <1>8, <1>9, <1>10, <1>11, RecordedStays, OffersStay, QueueStays, BatchStays
        DEF LifeInv

(* The publisher hands one transition to every live lane that has room, and   *)
(* one row counts those that had none.                                        *)
LEMMA PublishKeeps ==
    ASSUME LifeInv, Publish
    PROVE  LifeInv'
<1> DEFINE it == Head(publisher.batch)
           lost == {l \in Live : Full(l)}
           D == Live \ lost
           d == [what |-> it.what, ordinal |-> it.ordinal, mark |-> publisher.mark]
           row == DroppedRow(Cardinality(lost), "lanes")
<1>1. /\ UNCHANGED <<made, recorded, offers, served, alive, pending, mounted, heard, traps>>
      /\ publisher.at = "hand" /\ publisher.batch \in Seq(QueueItem) /\ publisher.batch # <<>>
      /\ publisher.mark \in Nat /\ served \in Nat /\ publisher.mark <= served
      /\ publisher' = [publisher EXCEPT !.batch = Tail(@)]
      /\ inbox' = [l \in Listeners |-> IF l \in D THEN Append(inbox[l], d) ELSE inbox[l]]
      /\ rows' = IF lost # {} /\ alive THEN Append(rows, row) ELSE rows
  <2>1. /\ UNCHANGED <<made, recorded, offers, served, alive, pending, mounted, heard, traps>>
        /\ publisher.at = "hand" /\ publisher.batch # <<>>
        /\ publisher' = [publisher EXCEPT !.batch = Tail(@)]
    BY DEF Publish
  <2>2. inbox' = [l \in Listeners |-> IF l \in D THEN Append(inbox[l], d) ELSE inbox[l]]
    BY Zenon DEF Publish
  <2>3. rows' = IF lost # {} /\ alive THEN Append(rows, row) ELSE rows
    BY DEF Publish, RecordRow
  <2>4. publisher.batch \in Seq(QueueItem) /\ publisher.mark \in Nat
    BY <2>1, Shapes DEF LifeInv
  <2>5. served \in Nat /\ publisher.mark <= served
    BY <2>1 DEF LifeInv, LifeTypes, BatchPlaced
  <2> QED BY <2>1, <2>2, <2>3, <2>4, <2>5
<1>2. /\ it \in QueueItem /\ it = publisher.batch[1] /\ Len(publisher.batch) \in Nat \ {0}
      /\ Tail(publisher.batch) \in Seq(QueueItem) /\ Len(Tail(publisher.batch)) = Len(publisher.batch) - 1
      /\ \A k \in 1..(Len(publisher.batch) - 1) : Tail(publisher.batch)[k] = publisher.batch[k + 1]
  BY <1>1
<1>3. Placed(rows, it.what, publisher.mark)
  <2>1. \A k \in 1..Len(publisher.batch) : Placed(rows, publisher.batch[k].what, publisher.mark)
    BY <1>1 DEF LifeInv, BatchPlaced
  <2>2. 1 \in 1..Len(publisher.batch)
    BY <1>2
  <2> QED BY <1>2, <2>1, <2>2, Zenon
<1>4. d \in Delivery /\ d.what = it.what /\ d.mark = publisher.mark
  <2> HIDE DEF it
  <2> QED BY <1>1, <1>2 DEF QueueItem, Delivery
<1>5. /\ lost \in SUBSET Listeners /\ D \in SUBSET Listeners /\ D \cap lost = {} /\ D \cup lost = Live
      /\ IsFiniteSet(lost) /\ IsFiniteSet(D) /\ Cardinality(lost) \in Nat
  <2>1. /\ lost \in SUBSET Listeners /\ D \in SUBSET Listeners /\ D \cap lost = {}
        /\ D \cup lost = Live
    BY DEF Live
  <2>2. IsFiniteSet(Listeners)
    BY LifecycleAssumption
  <2> HIDE DEF lost, D
  <2>3. IsFiniteSet(lost) /\ IsFiniteSet(D)
    BY <2>1, <2>2, FS_Subset
  <2>4. Cardinality(lost) \in Nat
    BY <2>3, FS_CardinalityType
  <2> QED BY <2>1, <2>3, <2>4
<1>6. row \in Rowish /\ row.kind = "dropped"
  <2> HIDE DEF lost
  <2> QED BY <1>5 DEF DroppedRow, Rowish
<1>7. publisher' = [at |-> "hand", batch |-> Tail(publisher.batch), mark |-> publisher.mark]
  <2>1. publisher \in [at : {"hand"}, batch : Seq(QueueItem), mark : Nat]
    BY <1>1 DEF LifeInv, LifeTypes
  <2> QED BY <1>1, <2>1
<1> HIDE DEF it, lost, D, d, row
<1>8. /\ rows \in Seq(Rowish) /\ Len(rows) \in Nat /\ inbox \in [Listeners -> Seq(Delivery)]
      /\ heard \in [Listeners -> Seq(Delivery)] /\ traps \in Nat /\ LifeTypes
  BY DEF LifeInv, LifeTypes
<1>9. Grown
  BY <1>1, <1>6, <1>8, SMTT(30) DEF Grown, LifeInv, LifeTypes
<1>10. \A x \in Listeners : inbox'[x] = IF x \in D THEN Append(inbox[x], d) ELSE inbox[x]
  BY <1>1
<1>11. \A x \in Listeners :
          /\ Append(inbox[x], d) \in Seq(Delivery) /\ Len(inbox[x]) \in Nat
          /\ Len(Append(inbox[x], d)) = Len(inbox[x]) + 1
          /\ Append(inbox[x], d)[Len(inbox[x]) + 1] = d
          /\ \A k \in 1..Len(inbox[x]) : Append(inbox[x], d)[k] = inbox[x][k]
  BY <1>4, <1>8
<1>12. LifeTypes'
  <2>1. inbox' \in [Listeners -> Seq(Delivery)]
    BY <1>1, <1>8, <1>11
  <2>2. publisher' \in [at : {"hand"}, batch : Seq(QueueItem), mark : Nat]
    BY <1>1, <1>2, <1>7
  <2>3. rows' \in Seq(Rowish) /\ served \in 0..Len(rows')
    BY <1>1, <1>9 DEF Grown, LifeInv, LifeTypes
  <2> QED BY <1>1, <1>8, <2>1, <2>2, <2>3 DEF LifeTypes
<1>13. BatchPlaced'
  <2>1. publisher'.at = "hand" /\ publisher'.mark = publisher.mark
        /\ publisher'.batch = Tail(publisher.batch)
    BY <1>7
  <2>2. ASSUME NEW k \in 1..Len(publisher'.batch)
        PROVE  Placed(rows', publisher'.batch[k].what, publisher.mark)
    <3>1. publisher'.batch[k] = publisher.batch[k + 1] /\ k + 1 \in 1..Len(publisher.batch)
      <4>1. Len(publisher'.batch) = Len(publisher.batch) - 1
        BY <1>2, <2>1, Zenon
      <4> QED BY <1>2, <2>1, <4>1
    <3>2. publisher.batch[k + 1].what \in Transition
      BY <1>1, <3>1, Shapes DEF LifeInv
    <3>3. Placed(rows, publisher.batch[k + 1].what, publisher.mark)
      BY <1>1, <3>1 DEF LifeInv, BatchPlaced
    <3> QED BY <1>9, <3>1, <3>2, <3>3, PlacedStays DEF LifeInv
  <2> QED BY <1>1, <2>1, <2>2 DEF BatchPlaced
<1>14. LanePlaced(inbox)'
  <2>1. ASSUME NEW x \in Listeners, NEW k \in 1..Len(inbox'[x])
        PROVE  inbox'[x][k].mark <= served' /\ Placed(rows', inbox'[x][k].what, inbox'[x][k].mark)
    <3>1. inbox'[x][k] = d \/ (k \in 1..Len(inbox[x]) /\ inbox'[x][k] = inbox[x][k])
      <4>1. CASE inbox'[x] = inbox[x]
        BY <4>1
      <4>2. CASE inbox'[x] = Append(inbox[x], d)
        BY <1>11, <4>2
      <4> QED BY <1>10, <4>1, <4>2
    <3>2. inbox'[x][k] \in Delivery
      BY <1>4, <1>8, <3>1
    <3>3. inbox'[x][k].mark <= served /\ Placed(rows, inbox'[x][k].what, inbox'[x][k].mark)
      <4>1. CASE inbox'[x][k] = d
        BY <1>1, <1>3, <1>4, <4>1
      <4>2. CASE k \in 1..Len(inbox[x]) /\ inbox'[x][k] = inbox[x][k]
        BY <4>2 DEF LifeInv, LanePlaced
      <4> QED BY <3>1, <4>1, <4>2
    <3> QED BY <1>1, <1>9, <3>2, <3>3, DeliveryStays
  <2> QED BY <2>1 DEF LanePlaced
<1>15. Balanced'
  <2>1. CASE ~alive
    BY <1>1, <2>1, LossRead
  <2>2. CASE alive
    <3>1. InHand = publisher.batch /\ InHand' = Tail(publisher.batch)
      BY <1>1, <1>7 DEF InHand
    <3>2. DropSum(rows, "queue") \in Int /\ DropSum(rows, "lanes") \in Int
      BY <1>8, DropSumType
    <3>3. /\ DropSum(rows', "queue") = DropSum(rows, "queue")
          /\ DropSum(rows', "lanes") = DropSum(rows, "lanes") + Cardinality(lost)
      <4>1. CASE lost = {}
        <5>1. Cardinality(lost) = 0
          BY <4>1, FS_EmptySet
        <5>2. rows' = rows
          BY <1>1, <4>1
        <5> QED BY <3>2, <5>1, <5>2
      <4>2. CASE lost # {}
        <5>1. rows' = Append(rows, DroppedRow(Cardinality(lost), "lanes"))
          BY <1>1, <2>2, <4>2 DEF row
        <5>2. /\ DropSum(rows', "queue") = DropSum(rows, "queue") + 0
              /\ DropSum(rows', "lanes") = DropSum(rows, "lanes") + Cardinality(lost)
          BY <1>5, <1>8, <5>1, DropSumAppend
        <5> QED BY <3>2, <5>2
      <4> QED BY <4>1, <4>2
    <3>4. HandedOn' = HandedOn + 1 /\ HandedOn \in Int
      <4> DEFINE p == pending.published  q == Len(pending.queue)  dr == pending.dropped
                 h1 == Len(InHand)       h2 == Len(InHand')       e == DropSum(rows, "queue")
      <4>1. HandedOn = p - q - h1 - dr - e
        BY HandedOnRead, Zenon
      <4>2. HandedOn' = p - q - h2 - dr - e
        BY <1>1, <3>3, HandedOnRead
      <4>3. {p, q, dr} \subseteq Nat /\ e \in Int
        <5>1. p \in Nat /\ dr \in Nat /\ pending.queue \in Seq(QueueItem)
          BY <1>8, Shapes
        <5> QED BY <3>2, <5>1
      <4>4. h1 \in Nat /\ h2 = h1 - 1
        BY <1>2, <3>1
      <4> HIDE DEF p, q, dr, h1, h2, e
      <4> QED BY <4>1, <4>2, <4>3, <4>4
    <3>5. Raises(inbox, heard, inbox', heard', D)
      <4>1. \A x \in Listeners : Len(inbox[x]) \in Nat /\ Len(heard[x]) \in Nat
        BY <1>8
      <4>2. ASSUME NEW x \in Listeners
            PROVE  Len(inbox'[x]) + Len(heard'[x])
                      = Len(inbox[x]) + Len(heard[x]) + (IF x \in D THEN 1 ELSE 0)
        <5> DEFINE i1 == Len(inbox[x])  i2 == Len(inbox'[x])  h == Len(heard[x])
        <5>1. i1 \in Nat /\ h \in Nat
          BY <4>1, Zenon
        <5>2. i2 = i1 + (IF x \in D THEN 1 ELSE 0)
          <6>1. CASE x \in D
            <7>1. inbox'[x] = Append(inbox[x], d)
              BY <1>10, <6>1, Zenon
            <7>2. i2 = i1 + 1
              BY <1>11, <7>1, Zenon
            <7> QED BY <6>1, <7>2, Zenon
          <6>2. CASE x \notin D
            <7>1. inbox'[x] = inbox[x]
              BY <1>10, <6>2, Zenon
            <7>2. i2 = i1
              BY <7>1, Zenon
            <7> HIDE DEF i1, i2
            <7> QED BY <5>1, <6>2, <7>2
          <6> QED BY <6>1, <6>2
        <5>3. Len(heard'[x]) = h
          BY <1>1
        <5> HIDE DEF i1, i2, h
        <5>4. i2 + h = i1 + h + (IF x \in D THEN 1 ELSE 0)
          BY <5>1, <5>2
        <5> QED BY <5>3, <5>4 DEF i1, i2, h
      <4> QED BY <1>5, <4>1, <4>2, Zenon DEF Raises
    <3>6. /\ SumHeld(inbox, heard) \in Int /\ Cardinality(D) \in Nat
          /\ SumHeld(inbox', heard') = SumHeld(inbox, heard) + Cardinality(D)
      BY <3>5, HeldRaised
    <3>7. \A x \in Listeners : Reached(x)' <= HandedOn'
      <4> DEFINE was(x) == Len(inbox[x]) + Len(heard[x])
                 is(x) == Len(inbox'[x]) + Len(heard'[x])
      <4>1. \A x \in Listeners : was(x) <= HandedOn
        BY <2>2, LossRead, Zenon DEF LifeInv, Reached
      <4>2. \A x \in Listeners : was(x) \in Int
        BY <1>8
      <4>3. \A x \in Listeners : is(x) = was(x) + (IF x \in D THEN 1 ELSE 0)
        BY <3>5, Zenon DEF Raises
      <4> HIDE DEF was, is
      <4>4. \A x \in Listeners : is(x) <= HandedOn'
        BY <3>4, <4>1, <4>2, <4>3
      <4> QED BY <4>4, Zenon DEF Reached, is
    <3>8. ASSUME \A l \in Listeners : mounted[l] = "first"
          PROVE  SumHeld(inbox', heard') + traps + DropSum(rows', "lanes")
                    = HandedOn' * Cardinality(Listeners)
      <4>1. Live = Listeners
        BY <3>8 DEF Live
      <4>2. Cardinality(D) + Cardinality(lost) = Cardinality(Listeners)
        <5>1. Cardinality(D \cup lost) = Cardinality(D) + Cardinality(lost) - Cardinality(D \cap lost)
          BY <1>5, FS_Union
        <5>2. Cardinality(D \cap lost) = 0
          BY <1>5, FS_EmptySet
        <5>3. D \cup lost = Listeners
          BY <1>5, <4>1, Zenon
        <5>4. Cardinality(D) \in Nat /\ Cardinality(lost) \in Nat
          BY <1>5, <3>6, Zenon
        <5>5. Cardinality(Listeners) = Cardinality(D) + Cardinality(lost) - 0
          BY <5>1, <5>2, <5>3, Zenon
        <5> QED BY <5>4, <5>5
      <4>3. SumHeld(inbox, heard) + traps + DropSum(rows, "lanes") = HandedOn * Cardinality(Listeners)
        BY <2>2, <3>8, LossRead, SentIsSum DEF LifeInv
      <4> DEFINE c == Cardinality(Listeners)  w == SumHeld(inbox, heard)  m == DropSum(rows, "lanes")
                 x == Cardinality(D)  y == Cardinality(lost)  g == HandedOn
      <4>4. /\ w \in Int /\ m \in Int /\ x \in Nat /\ y \in Nat /\ g \in Int /\ traps \in Nat
            /\ x + y = c /\ w + traps + m = g * c
        BY <1>5, <1>8, <3>2, <3>4, <3>6, <4>2, <4>3
      <4> HIDE DEF c, w, m, x, y, g
      <4>5. (w + x) + traps + (m + y) = (g + 1) * c
        <5>1. c \in Int
          BY <4>4
        <5>2. (g + 1) * c = g * c + c
          BY <4>4, <5>1
        <5>3. g * c \in Int
          BY <4>4, <5>1
        <5> QED BY <4>4, <5>1, <5>2, <5>3
      <4> QED BY <3>3, <3>4, <3>6, <4>5 DEF c, w, m, x, y, g
    <3> QED BY <1>1, <3>7, <3>8, LossRead, SentIsSum
  <2> QED BY <2>1, <2>2
<1> QED BY <1>1, <1>9, <1>12, <1>13, <1>14, <1>15, RecordedStays, OffersStay, QueueStays, LanesStay
        DEF LifeInv

(* A caller of sync_transitions records what the fibers made since the last.  *)
LEMMA SyncKeeps ==
    ASSUME LifeInv, NEW s \in Syncers, SyncRecords(s)
    PROVE  LifeInv'
<1> DEFINE News == {t \in Transition : recorded[t.fiber] < t.nth /\ t.nth <= made[t.fiber]}
           Parts(o) == [i \in 1..Len(o) |-> Unseen(o[i])]
           Told(q) == [i \in 1..Len(q) |-> TransitionRow(q[i])]
<1>1. /\ UNCHANGED <<made, served, alive, pending, publisher, mounted, inbox, heard, traps>>
      /\ recorded' = made
      /\ \E order \in SetToSeqs(Fibers) :
            /\ offers' = [offers EXCEPT ![s] = FlattenSeq(Parts(order))]
            /\ rows' = IF alive THEN rows \o Told(FlattenSeq(Parts(order))) ELSE rows
  BY DEF SyncRecords, AppendAll
<1>2. PICK order \in SetToSeqs(Fibers) :
            /\ offers' = [offers EXCEPT ![s] = FlattenSeq(Parts(order))]
            /\ rows' = IF alive THEN rows \o Told(FlattenSeq(Parts(order))) ELSE rows
  BY <1>1
<1> DEFINE fresh == FlattenSeq(Parts(order))
           news == Told(fresh)
<1>3. /\ made \in [Fibers -> Nat] /\ recorded \in [Fibers -> Nat]
      /\ \A f \in Fibers : recorded[f] <= made[f]
      /\ offers \in [Syncers -> Seq(Transition)] /\ rows \in Seq(Rowish) /\ Len(rows) \in Nat
      /\ served \in Nat /\ served <= Len(rows)
  BY DEF LifeInv, LifeTypes
<1>4. fresh \in Seq(News)
  <2>1. order \in Seq(Fibers)
    <3>1. Cardinality(Fibers) \in Nat
      BY LifecycleAssumption, FS_CardinalityType
    <3>2. order \in [1..Cardinality(Fibers) -> Fibers]
      BY DEF SetToSeqs
    <3> QED BY <3>1, <3>2
  <2>2. ASSUME NEW f \in Fibers
        PROVE  Unseen(f) \in Seq(News)
    <3> DEFINE n == made[f] - recorded[f]
               now(k) == [fiber |-> f, nth |-> recorded[f] + k]
    <3>1. n \in Nat /\ recorded[f] \in Nat /\ made[f] \in Nat
      BY <1>3
    <3>2. \A k \in 1..n : now(k) \in News
      <4>1. \A k \in 1..n : recorded[f] + k \in Nat /\ recorded[f] < recorded[f] + k
                            /\ recorded[f] + k <= made[f]
        BY <3>1
      <4> QED BY <4>1 DEF Transition
    <3>3. Unseen(f) = [k \in 1..n |-> now(k)]
      BY DEF Unseen
    <3> HIDE DEF n, now, News
    <3> QED BY <3>1, <3>2, <3>3
  <2> HIDE DEF News
  <2>3. Parts(order) \in Seq(Seq(News))
    <3>1. \A i \in 1..Len(order) : Unseen(order[i]) \in Seq(News)
      BY <2>1, <2>2
    <3>2. Len(order) \in Nat
      BY <2>1
    <3> QED BY <3>1, <3>2
  <2> HIDE DEF Parts
  <2> QED BY <2>3, FlattenType
<1>5. /\ offers' = [offers EXCEPT ![s] = fresh]
      /\ rows' = IF alive THEN rows \o news ELSE rows
  BY <1>2, Zenon
<1> HIDE DEF fresh, Parts
<1>6. /\ Len(fresh) \in Nat /\ fresh \in Seq(Transition)
      /\ \A k \in 1..Len(fresh) : /\ fresh[k] \in Transition
                                  /\ recorded[fresh[k].fiber] < fresh[k].nth
                                  /\ fresh[k].nth <= made[fresh[k].fiber]
  <2>1. News \subseteq Transition
    OBVIOUS
  <2>2. \A k \in 1..Len(fresh) : fresh[k] \in News
    BY <1>4
  <2>3. fresh \in Seq(Transition) /\ Len(fresh) \in Nat
    <3> HIDE DEF News
    <3> QED BY <1>4, <2>1
  <2> QED BY <2>2, <2>3
<1> HIDE DEF News
<1>7. /\ news \in Seq(Rowish) /\ Len(news) = Len(fresh)
      /\ \A k \in 1..Len(fresh) : news[k] = TransitionRow(fresh[k])
      /\ \A k \in 1..Len(news) : news[k].kind = "transition"
  <2>1. \A k \in 1..Len(fresh) : TransitionRow(fresh[k]) \in Rowish
                                 /\ TransitionRow(fresh[k]).kind = "transition"
    BY <1>6 DEF TransitionRow, Rowish, Transition
  <2> QED BY <1>6, <2>1
<1> HIDE DEF news
<1>8. Grown
  <2>1. CASE ~alive
    BY <1>1, <1>3, <1>5, <2>1 DEF Grown
  <2>2. CASE alive
    <3>1. /\ rows' \in Seq(Rowish) /\ Len(rows') = Len(rows) + Len(news)
          /\ \A i \in 1..Len(rows) : rows'[i] = rows[i]
          /\ \A i \in (Len(rows) + 1)..Len(rows') : rows'[i] = news[i - Len(rows)]
      <4> DEFINE both == rows \o news
      <4>1. news \in Seq(Rowish) /\ rows \in Seq(Rowish) /\ Len(rows) \in Nat
        BY <1>3, <1>7
      <4>2. /\ both \in Seq(Rowish) /\ Len(both) = Len(rows) + Len(news)
            /\ \A i \in 1..Len(rows) : both[i] = rows[i]
            /\ \A i \in (Len(rows) + 1)..Len(both) : both[i] = news[i - Len(rows)]
        BY <4>1
      <4>3. rows' = both
        BY <1>5, <2>2, Zenon
      <4> HIDE DEF both
      <4> QED BY <4>2, <4>3
    <3>2. ASSUME NEW i \in (Len(rows) + 1)..Len(rows')
          PROVE  /\ rows'[i].of.nth > recorded[rows'[i].of.fiber]
                 /\ rows'[i].of.nth <= made[rows'[i].of.fiber]
      <4>1. i - Len(rows) \in 1..Len(fresh)
        BY <1>3, <1>6, <1>7, <3>1
      <4>2. rows'[i].of = fresh[i - Len(rows)]
        <5>1. rows'[i] = news[i - Len(rows)]
          BY <3>1, Zenon
        <5>2. news[i - Len(rows)] = TransitionRow(fresh[i - Len(rows)])
          BY <1>7, <4>1, Zenon
        <5> QED BY <5>1, <5>2 DEF TransitionRow
      <4>3. /\ fresh[i - Len(rows)].nth \in Nat /\ recorded[fresh[i - Len(rows)].fiber] \in Nat
            /\ recorded[fresh[i - Len(rows)].fiber] < fresh[i - Len(rows)].nth
            /\ fresh[i - Len(rows)].nth <= made[fresh[i - Len(rows)].fiber]
        BY <1>3, <1>6, <4>1 DEF Transition
      <4> QED BY <4>2, <4>3
    <3>3. Len(rows) <= Len(rows')
      <4>1. Len(news) \in Nat /\ Len(rows) \in Nat
        BY <1>3, <1>6, <1>7
      <4>2. Len(rows') = Len(rows) + Len(news)
        BY <3>1, Zenon
      <4> QED BY <4>1, <4>2
    <3>4. served <= served' /\ recorded' \in [Fibers -> Nat] /\ (alive' => alive)
          /\ \A f \in Fibers : recorded[f] <= recorded'[f]
      BY <1>1, <1>3
    <3>5. \A i \in (Len(rows) + 1)..Len(rows') :
             /\ rows'[i].of.nth > recorded[rows'[i].of.fiber]
             /\ rows'[i].of.nth <= recorded'[rows'[i].of.fiber]
      BY <1>1, <3>2, Zenon
    <3> QED BY <3>1, <3>3, <3>4, <3>5, Zenon DEF Grown
  <2> QED BY <2>1, <2>2
<1>9. LifeTypes'
  <2>1. offers' \in [Syncers -> Seq(Transition)]
    BY <1>3, <1>5, <1>6
  <2>2. rows' \in Seq(Rowish) /\ served \in 0..Len(rows')
    BY <1>1, <1>3, <1>8 DEF Grown
  <2>3. \A f \in Fibers : made[f] <= made[f]
    BY <1>3
  <2> QED BY <1>1, <1>3, <2>1, <2>2, <2>3 DEF LifeInv, LifeTypes
<1>10. OffersPlaced'
  <2>1. ASSUME NEW z \in Syncers, NEW k \in 1..Len(offers'[z]), alive
        PROVE  Placed(rows', offers'[z][k], Len(rows'))
    <3>1. CASE z = s
      <4>1. offers'[z] = fresh /\ k \in 1..Len(fresh)
        BY <1>3, <1>5, <2>1, <3>1
      <4>2. rows' = rows \o news /\ Len(news) \in Nat
        BY <1>5, <1>6, <1>7, <2>1
      <4>3. /\ Len(rows) + k \in 1..Len(rows') /\ rows'[Len(rows) + k] = news[k]
        BY <1>3, <1>6, <1>7, <4>1, <4>2
      <4>4. rows'[Len(rows) + k] = TransitionRow(fresh[k])
        BY <1>7, <4>1, <4>3
      <4> QED BY <4>1, <4>3, <4>4 DEF Placed
    <3>2. CASE z # s
      <4>1. offers'[z] = offers[z] /\ offers[z] \in Seq(Transition)
        BY <1>3, <1>5, <3>2
      <4>2. offers[z][k] \in Transition /\ Placed(rows, offers[z][k], Len(rows))
        BY <2>1, <4>1 DEF LifeInv, OffersPlaced
      <4>3. Placed(rows', offers[z][k], Len(rows))
        BY <1>8, <4>2, PlacedStays DEF LifeInv
      <4>4. Len(rows') \in Nat /\ Len(rows) <= Len(rows')
        BY <1>8 DEF Grown
      <4>5. Placed(rows', offers[z][k], Len(rows'))
        BY <1>3, <4>3, <4>4, PlacedLonger
      <4> QED BY <4>1, <4>5
    <3> QED BY <3>1, <3>2
  <2> QED BY <1>1, <2>1 DEF OffersPlaced
<1>11. Balanced'
  <2>1. InHand' = InHand
    BY <1>1 DEF InHand
  <2>2. \A by : DropSum(rows', by) = DropSum(rows, by)
    BY <1>3, <1>5, <1>7, DropSumConcat
  <2>3. HandedOn' = HandedOn /\ Sent("lanes")' = Sent("lanes")
    BY <1>1, <2>1, <2>2, HandedOnRead, SentIsSum
  <2> QED BY <1>1, <2>3, LossStays DEF LifeInv
<1> QED BY <1>1, <1>3, <1>8, <1>9, <1>10, <1>11, RecordedStays, QueueStays, BatchStays, LanesStay
        DEF LifeInv

-----------------------------------------------------------------------------
(* The whole component *)

LEMMA LifeStart ==
    ASSUME LifecycleInit
    PROVE  LifeInv
<1> USE DEF LifecycleInit
<1>1. LifeTypes
  <2>1. rows \in Seq(Rowish) /\ served \in 0..Len(rows)
    OBVIOUS
  <2>2. pending \in [queue : Seq(QueueItem), published : Nat, dropped : Nat]
    OBVIOUS
  <2>3. publisher \in [at : {"unborn", "drain", "asleep", "gone"}]
    OBVIOUS
  <2>4. mounted \in [Listeners -> {"no", "first", "late", "gone"}]
    OBVIOUS
  <2>5. inbox \in [Listeners -> Seq(Delivery)] /\ heard \in [Listeners -> Seq(Delivery)]
    OBVIOUS
  <2>6. offers \in [Syncers -> Seq(Transition)] /\ traps \in Nat
    OBVIOUS
  <2>7. /\ made \in [Fibers -> Nat] /\ recorded \in [Fibers -> Nat]
        /\ \A f \in Fibers : recorded[f] <= made[f]
    OBVIOUS
  <2> QED BY <2>1, <2>2, <2>3, <2>4, <2>5, <2>6, <2>7 DEF LifeTypes
<1>2. RowsRecorded /\ OffersPlaced /\ QueuePlaced /\ BatchPlaced
  BY DEF RowsRecorded, OffersPlaced, QueuePlaced, BatchPlaced
<1>3. LanePlaced(inbox) /\ LanePlaced(heard)
  BY DEF LanePlaced
<1>4. Balanced
  <2>1. DropSum(<<>>, "queue") = 0 /\ DropSum(<<>>, "lanes") = 0
    <3>1. ASSUME NEW by PROVE DropSum(<<>>, by) = 0
      <4> DEFINE none == [i \in 1..Len(<<>>) |-> 0]
      <4>1. <<>> \in Seq(Rowish) /\ 1..Len(<<>>) = {}
        OBVIOUS
      <4>2. PICK g : Additive(g, 1..Len(<<>>), Weights(<<>>, by))
        <5>1. Weights(<<>>, by) \in [1..Len(<<>>) -> Int]
          BY <4>1 DEF Weights
        <5>2. IsFiniteSet(1..Len(<<>>))
          BY <4>1, FS_EmptySet
        <5> QED BY <5>1, <5>2, AdditiveExists
      <4>3. g[{}] = 0
        BY <4>2 DEF Additive
      <4> QED BY <4>1, <4>2, <4>3, DropSumIsAdditive
    <3> QED BY <3>1
  <2>2. HandedOn = 0 /\ Sent("lanes") = 0
    <3>1. InHand = <<>>
      BY DEF InHand
    <3>2. pending.published = 0 /\ pending.queue = <<>> /\ pending.dropped = 0 /\ rows = <<>>
      OBVIOUS
    <3>3. Len(<<>>) = 0
      OBVIOUS
    <3> QED BY <2>1, <3>1, <3>2, <3>3, HandedOnRead, SentIsSum
  <2>3. \A x \in Listeners : Len(inbox[x]) = 0 /\ Len(heard[x]) = 0
    OBVIOUS
  <2>4. SumHeld(inbox, heard) = 0
    <3> DEFINE W == Holds(inbox, heard)
    <3>1. W \in [Listeners -> Int] /\ \A x \in Listeners : W[x] = 0
      BY <2>3 DEF Holds
    <3>2. IsFiniteSet(Listeners)
      BY LifecycleAssumption
    <3> HIDE DEF W
    <3>3. Additive([S \in SUBSET Listeners |-> 0], Listeners, W)
      BY <3>1 DEF Additive
    <3>4. FoldFunction(+, 0, W) = [S \in SUBSET Listeners |-> 0][Listeners]
      BY <3>1, <3>2, <3>3, SumIsAdditive
    <3>5. FoldFunction(+, 0, W) = 0
      BY <3>4
    <3> QED BY <3>5, Zenon DEF SumHeld, W
  <2>5. Cardinality(Listeners) \in Nat
    BY LifecycleAssumption, FS_CardinalityType
  <2>6. \A x \in Listeners : Reached(x) <= 0
    BY <2>3 DEF Reached
  <2>7. 0 * Cardinality(Listeners) = 0 /\ traps = 0
    BY <2>5
  <2> QED BY <2>2, <2>4, <2>6, <2>7, LossRead
<1> QED BY <1>1, <1>2, <1>3, <1>4 DEF LifeInv

LEMMA LifeStep ==
    ASSUME LifeInv, [LifecycleNext]_lvars
    PROVE  LifeInv'
<1>1. CASE UNCHANGED lvars
  <2>1. UNCHANGED <<made, recorded, offers, rows, served, alive, pending, publisher,
                    mounted, inbox, heard, traps>>
    BY <1>1 DEF lvars
  <2>2. served \in Nat /\ Grown
    BY <2>1, GrownSame DEF LifeInv, LifeTypes
  <2>3. LifeTypes'
    BY <2>1 DEF LifeInv, LifeTypes
  <2>4. Balanced'
    <3>1. InHand' = InHand
      BY <2>1 DEF InHand
    <3>2. HandedOn' = HandedOn /\ Sent("lanes")' = Sent("lanes")
      BY <2>1, <3>1, HandedOnRead, SentIsSum
    <3> QED BY <2>1, <3>2, LossStays DEF LifeInv
  <2> QED BY <2>1, <2>2, <2>3, <2>4, RecordedStays, OffersStay, QueueStays, BatchStays, LanesStay
          DEF LifeInv
<1>2. CASE LifecycleNext
  <2>1. CASE WriterServes \/ WriterStops \/ (\E f \in Fibers : FiberMoves(f))
    BY <2>1, WriterKeeps
  <2>2. CASE PublisherSteps
    BY <2>2, DrainKeeps, TurnsKeep, PublishKeeps DEF PublisherSteps
  <2>3. CASE \E s \in Syncers : SyncRecords(s) \/ Offer(s)
    BY <2>3, SyncKeeps, OfferKeeps
  <2>4. CASE \E l \in Listeners : Mount(l) \/ Unmount(l) \/ LaneDelivers(l)
    BY <2>4, MountsKeep, LaneKeeps
  <2> QED BY <1>2, <2>1, <2>2, <2>3, <2>4 DEF LifecycleNext
<1> QED BY <1>1, <1>2

(* What a row counts, the stream or what is missing there counts.             *)
LEMMA StreamSplits ==
    ASSUME rows \in Seq(Rowish), NEW by
    PROVE  Drops(by, Stream) + Drops(by, Missing) = DropSum(rows, by)
<1> DEFINE S == 1..Len(rows)
           W == Weights(rows, by)
           U == Weights(Stream, by)
           V == Weights(Missing, by)
<1>1. /\ Len(rows) \in Nat /\ \A i \in S : rows[i] \in Rowish
      /\ ErrorRow \in Rowish /\ Counts(ErrorRow, by) = 0
  BY DEF ErrorRow, Rowish, Counts
<1>2. /\ Stream \in Seq(Rowish) /\ Len(Stream) = Len(rows)
      /\ Missing \in Seq(Rowish) /\ Len(Missing) = Len(rows)
  BY <1>1 DEF Stream, Missing
<1>3. ASSUME NEW i \in S
      PROVE  /\ W[i] = Counts(rows[i], by) /\ W[i] \in Int
             /\ U[i] = (IF i \in denied THEN 0 ELSE W[i])
             /\ V[i] = (IF i \in denied THEN W[i] ELSE 0)
  <2>1. Counts(rows[i], by) \in Int
    BY <1>1, <1>3 DEF Counts, Rowish
  <2> QED BY <1>1, <1>2, <1>3, <2>1 DEF Weights, Stream, Missing
<1>4. W \in [S -> Int] /\ U \in [S -> Int] /\ V \in [S -> Int]
  <2>1. W = [i \in S |-> W[i]] /\ U = [i \in S |-> U[i]] /\ V = [i \in S |-> V[i]]
    BY <1>2 DEF Weights
  <2>2. \A i \in S : W[i] \in Int /\ U[i] \in Int /\ V[i] \in Int
    BY <1>3
  <2> HIDE DEF W, U, V
  <2> QED BY <2>1, <2>2
<1>5. \A i \in S : W[i] = U[i] + V[i]
  <2> HIDE DEF S, W, U, V
  <2> QED BY <1>3
<1>6. IsFiniteSet(S)
  BY <1>1, FS_Interval
<1> HIDE DEF S, W, U, V
<1>7. PICK g : Additive(g, S, U)
  BY <1>4, <1>6, AdditiveExists
<1>8. PICK h : Additive(h, S, V)
  BY <1>4, <1>6, AdditiveExists
<1> DEFINE k == [s \in SUBSET S |-> g[s] + h[s]]
<1>9. Additive(k, S, W)
  <2>1. g \in [SUBSET S -> Int] /\ h \in [SUBSET S -> Int] /\ g[{}] = 0 /\ h[{}] = 0
    BY <1>7, <1>8 DEF Additive
  <2>2. k \in [SUBSET S -> Int] /\ k[{}] = 0
    <3>1. \A s \in SUBSET S : g[s] \in Int /\ h[s] \in Int
      BY <2>1
    <3>2. \A s \in SUBSET S : g[s] + h[s] \in Int
      BY <3>1
    <3>3. k \in [SUBSET S -> Int]
      BY <3>2
    <3>4. {} \in SUBSET S /\ g[{}] + h[{}] = 0
      BY <2>1
    <3>5. k[{}] = g[{}] + h[{}]
      BY <3>4
    <3> QED BY <3>3, <3>4, <3>5, Zenon
  <2>3. ASSUME NEW s \in SUBSET S, NEW x \in S \ s PROVE k[s \union {x}] = k[s] + W[x]
    <3>1. s \union {x} \in SUBSET S /\ x \in S
      OBVIOUS
    <3>2. g[s \union {x}] = g[s] + U[x] /\ h[s \union {x}] = h[s] + V[x]
      BY <1>7, <1>8 DEF Additive
    <3>3. k[s \union {x}] = g[s \union {x}] + h[s \union {x}] /\ k[s] = g[s] + h[s]
      BY <3>1
    <3>4. /\ g[s] \in Int /\ h[s] \in Int /\ U[x] \in Int /\ V[x] \in Int
          /\ W[x] = U[x] + V[x]
      BY <1>4, <1>5, <2>1, <3>1
    <3> HIDE DEF k
    <3> QED BY <3>2, <3>3, <3>4
  <2> HIDE DEF k
  <2> QED BY <2>2, <2>3 DEF Additive
<1>10. k[S] = g[S] + h[S]
  OBVIOUS
<1> HIDE DEF k
<1>11. DropSum(rows, by) = k[S]
  BY <1>9, DropSumIsAdditive DEF S, W
<1>12. DropSum(Stream, by) = g[S] /\ DropSum(Missing, by) = h[S]
  BY <1>2, <1>7, <1>8, DropSumIsAdditive DEF S, U, V
<1>13. Drops(by, Stream) = DropSum(Stream, by) /\ Drops(by, Missing) = DropSum(Missing, by)
  BY DEF Drops, DropSum
<1> QED BY <1>10, <1>11, <1>12, <1>13

LEMMA LifeShows ==
    ASSUME LifeInv
    PROVE  DeliveryFollowsRow /\ LossIsCounted
<1> DEFINE Follows(d) ==
        /\ RowOf(d.what) \in 1..d.mark /\ d.mark <= served
        /\ Stream[RowOf(d.what)] = TransitionRow(d.what) \/ RowOf(d.what) \in denied
<1>1. ASSUME NEW d \in Delivery, d.mark <= served, Placed(rows, d.what, d.mark)
      PROVE  Follows(d)
  <2> DEFINE at == {i \in 1..Len(rows) : rows[i] = TransitionRow(d.what)}
  <2>1. at # {} /\ \A i \in at : i <= d.mark
    BY <1>1 DEF Placed
  <2>2. RowOf(d.what) = CHOOSE i \in at : TRUE
    BY <2>1 DEF RowOf
  <2>3. RowOf(d.what) \in at
    BY <2>1, <2>2
  <2>4. d.mark \in Nat
    BY DEF Delivery
  <2>5. Stream[RowOf(d.what)] = TransitionRow(d.what) \/ RowOf(d.what) \in denied
    BY <2>3 DEF Stream
  <2> QED BY <1>1, <2>1, <2>3, <2>4, <2>5
<1>2. ASSUME NEW l \in Listeners, NEW d \in ToSet(inbox[l]) \union ToSet(heard[l])
      PROVE  Follows(d)
  <2>1. inbox[l] \in Seq(Delivery) /\ heard[l] \in Seq(Delivery)
    BY DEF LifeInv, LifeTypes
  <2>2. CASE d \in ToSet(inbox[l])
    <3>1. PICK k \in 1..Len(inbox[l]) : d = inbox[l][k]
      BY <2>1, <2>2 DEF ToSet
    <3>2. d \in Delivery /\ d.mark <= served /\ Placed(rows, d.what, d.mark)
      BY <2>1, <3>1 DEF LifeInv, LanePlaced
    <3> QED BY <1>1, <3>2
  <2>3. CASE d \in ToSet(heard[l])
    <3>1. PICK k \in 1..Len(heard[l]) : d = heard[l][k]
      BY <2>1, <2>3 DEF ToSet
    <3>2. d \in Delivery /\ d.mark <= served /\ Placed(rows, d.what, d.mark)
      BY <2>1, <3>1 DEF LifeInv, LanePlaced
    <3> QED BY <1>1, <3>2
  <2> QED BY <2>2, <2>3
<1>3. DeliveryFollowsRow
  BY <1>2 DEF DeliveryFollowsRow
<1>4. LossIsCounted
  <2>1. rows \in Seq(Rowish)
    BY DEF LifeInv, LifeTypes
  <2>2. Reported("queue") = Sent("queue") /\ Reported("lanes") = Sent("lanes")
    BY <2>1, StreamSplits DEF Reported, Sent
  <2>3. Handed = HandedOn
    BY <2>2, Zenon DEF Handed, HandedOn
  <2> QED BY <2>2, <2>3, Zenon DEF LifeInv, Balanced, LossIsCounted
<1> QED BY <1>3, <1>4

(* PublishOnRecord: for every set of fibers and listeners, every capacity   *)
(* and every bound on the moves and on the rows refused, a listener is      *)
(* handed a transition only when its row is in the ledger or was refused    *)
(* there, and what a queue or a lane threw away is what the rows on the     *)
(* stream and the rows refused say was dropped (lifecycle.rs offer and      *)
(* drain, publish.rs, support.rs sync_transitions, writer.rs).              *)
THEOREM PublishOnRecord ==
    LifecycleInit /\ [][LifecycleNext]_lvars => []PublishedOnRecord
<1>1. LifecycleInit => LifeInv
  BY LifeStart
<1>2. LifeInv /\ [LifecycleNext]_lvars => LifeInv'
  BY LifeStep
<1>3. LifeInv => PublishedOnRecord
  BY LifeShows DEF PublishedOnRecord
<1> QED BY <1>1, <1>2, <1>3, PTL

-----------------------------------------------------------------------------
(* The profile watch *)

Profiles == [Id -> Config \union {None}]

WatchTypes ==
    /\ profile \in Text /\ baseline \in Document
    /\ DOMAIN op = Callers
    /\ \A c \in Callers : "at" \in DOMAIN op[c]
    /\ op["watch"].at \in {"boot", "idle", "deliver", "judge", "engaged", "renamed",
                           "written", "landing", "down"}
    /\ op["guest"].at \in {"idle", "engaged", "renamed", "written", "landing"}
    /\ op["guest"].at # "idle" => op["watch"].at \in {"idle", "deliver", "judge"}

Saving(c) ==
    /\ op[c].at \in {"engaged", "renamed", "written", "landing"} =>
          {"kind", "target"} \subseteq DOMAIN op[c] /\ op[c].target \in Profiles
    /\ op[c].at = "engaged" => ToSave(c) \in Document /\ Resolve(ToSave(c)) = op[c].target
    /\ op[c].at = "renamed" =>
          /\ "saved" \in DOMAIN op[c]
          /\ op[c].saved \in Document /\ Resolve(op[c].saved) = op[c].target
    /\ op[c].at = "written" => Resolve(baseline) = op[c].target
    /\ op[c].at = "landing" => Resolve(baseline) = record

RecordInv ==
    /\ written \in {None, Render(baseline)}
    /\ op["watch"].at \in {"idle", "deliver", "judge"} /\ op["guest"].at # "written" =>
          record = Resolve(baseline)
    /\ op["watch"].at = "boot" => record = None
    /\ op["watch"].at = "engaged" /\ record # None => record = Resolve(baseline)
    /\ op["watch"].at = "engaged" => op["watch"].kind = "reconcile"
    /\ op["guest"].at \in {"engaged", "renamed"} => op["guest"].target # record

FileInv ==
    /\ op["watch"].at \in {"renamed", "written", "landing"} => notified
    /\ op["watch"].at = "judge" /\ ~notified => op["watch"].text = profile
    /\ op["watch"].at = "judge" => op["watch"].text \in Text
    /\ op["guest"].at = "renamed" /\ ~restored => profile # written \/ written = None
    /\ op["watch"].at = "idle" /\ ~notified /\ ~refused /\ ~restored =>
          /\ op["guest"].at # "renamed"
          /\ Parses(profile) /\ Resolve(profile.doc) = Resolve(baseline)

WatchInv ==
    WatchTypes /\ Saving("watch") /\ Saving("guest") /\ RecordInv /\ FileInv

LEMMA ParsesRendered ==
    ASSUME NEW d \in Document PROVE Render(d) \in Text /\ Parses(Render(d))
BY WatchAssumption DEF Render, Text, Parses, Hands

LEMMA ResolveType ==
    ASSUME NEW d \in Document PROVE Resolve(d) \in Profiles
BY DEF Document, Resolve, ResolveEntry, Profiles, Item

LEMMA MergeResolves ==
    ASSUME NEW p \in Profiles, NEW base \in Document
    PROVE  MergeProfile(p, base) \in Document /\ Resolve(MergeProfile(p, base)) = p
<1> DEFINE merged(i) == [config |-> p[i], realm |-> "good",
                         extra |-> base.entries[i] # None /\ base.entries[i].extra]
<1>1. ASSUME NEW i \in Id, p[i] # None
      PROVE  merged(i) \in Item /\ merged(i) # None
  <2>1. p[i] \in Config
    BY <1>1 DEF Profiles
  <2>2. (base.entries[i] # None /\ base.entries[i].extra) \in BOOLEAN
    BY Zenon
  <2>3. merged(i) \in Item
    BY <2>1, <2>2, Zenon DEF Item
  <2> QED BY <2>3, WatchAssumption
<1>2. base.raw \subseteq Raw
  BY DEF Document
<1>3. MergeProfile(p, base).entries = [i \in Id |-> IF p[i] = None THEN None ELSE merged(i)]
  BY DEF MergeProfile
<1>4. MergeProfile(p, base).entries \in [Id -> Item \union {None}]
  BY <1>1, <1>3
<1>5. MergeProfile(p, base) \in Document
  BY <1>2, <1>3, <1>4 DEF MergeProfile, Document
<1>6. ASSUME NEW i \in Id PROVE Resolve(MergeProfile(p, base))[i] = p[i]
  BY <1>1, <1>3 DEF Resolve, ResolveEntry
<1>7. Resolve(MergeProfile(p, base)) = [i \in Id |-> Resolve(MergeProfile(p, base))[i]]
  BY DEF Resolve
<1>8. p = [i \in Id |-> p[i]]
  BY DEF Profiles
<1> QED BY <1>5, <1>6, <1>7, <1>8

LEMMA AmendResolves ==
    ASSUME NEW base \in Document, NEW i \in Id, NEW c \in Config, Resolve(base)[i] # None
    PROVE  /\ Amended(base, i, c) \in Document
           /\ Resolve(Amended(base, i, c)) = [Resolve(base) EXCEPT ![i] = c]
<1>1. /\ base.entries[i] \in Item /\ base.entries[i] # None
      /\ base.entries[i].realm = "good"
  BY DEF Document, Resolve, ResolveEntry, Item
<1> DEFINE item == [base.entries[i] EXCEPT !.config = c]
<1>2. item \in Item /\ item.realm = "good" /\ item.config = c
  BY <1>1 DEF Item
<1>3. item # None
  BY <1>2, WatchAssumption
<1>4. Amended(base, i, c).entries = [base.entries EXCEPT ![i] = item]
  BY DEF Amended, Document
<1>5. Amended(base, i, c) \in Document
  BY <1>2, <1>4 DEF Amended, Document
<1>6. ASSUME NEW j \in Id
      PROVE  Resolve(Amended(base, i, c))[j] = [Resolve(base) EXCEPT ![i] = c][j]
  BY <1>2, <1>3, <1>4 DEF Resolve, ResolveEntry, Document
<1> QED BY <1>5, <1>6 DEF Resolve

LEMMA SavingKept ==
    ASSUME NEW c \in Callers, Saving(c), op'[c] = op[c], UNCHANGED <<baseline, record>>
    PROVE  Saving(c)'
<1>1. op'[c].at = "engaged" => ToSave(c)' = ToSave(c)
  BY DEF ToSave
<1>2. Resolve(baseline)' = Resolve(baseline)
  OBVIOUS
<1> QED BY <1>1, <1>2 DEF Saving

\* A caller that is not inside an operation.
LEMMA SavingIdle ==
    ASSUME NEW c \in Callers,
           op'[c].at \notin {"engaged", "renamed", "written", "landing"}
    PROVE  Saving(c)'
BY DEF Saving

LEMMA SaveKeeps ==
    ASSUME WatchInv, NEW c \in Callers, Save(c)
    PROVE  WatchInv'
<1> DEFINE d == ToSave(c)
<1>1. /\ op[c].at = "engaged" /\ d \in Document /\ Resolve(d) = op[c].target
      /\ op[c].target \in Profiles /\ {"kind", "target"} \subseteq DOMAIN op[c]
      /\ DOMAIN op = Callers /\ "at" \in DOMAIN op[c]
  BY DEF WatchInv, Saving, WatchTypes, Save, Callers
<1>2. /\ DOMAIN op' = Callers /\ \A e \in Callers \ {c} : op'[e] = op[e]
      /\ DOMAIN op'[c] = DOMAIN op[c] \union {"saved"}
      /\ op'[c].at = "renamed" /\ op'[c].saved = d /\ op'[c].target = op[c].target
  BY <1>1 DEF Save
<1>3. profile' = Render(d) /\ notified' = TRUE /\ UNCHANGED <<baseline, written, record, refused, spent>>
  BY DEF Save
<1>4. c = "watch" => op["guest"].at = "idle"
  BY <1>1 DEF WatchInv, WatchTypes
<1>5. WatchTypes'
  <2>1. profile' \in Text
    BY <1>1, <1>3, ParsesRendered
  <2> QED BY <1>1, <1>2, <1>3, <1>4, <2>1 DEF WatchInv, WatchTypes, Callers
<1>6. \A e \in Callers : Saving(e)'
  <2>1. Saving(c)'
    BY <1>1, <1>2 DEF Saving
  <2>2. \A e \in Callers \ {c} : Saving(e)'
    BY <1>2, <1>3, SavingKept DEF WatchInv, Callers
  <2> QED BY <2>1, <2>2
<1>7. RecordInv'
  <2>1. Resolve(baseline)' = Resolve(baseline)
    BY <1>3
  <2> QED BY <1>1, <1>2, <1>3, <2>1 DEF WatchInv, WatchTypes, RecordInv, Callers
<1>8. FileInv'
  <2>1. c = "guest" => record = Resolve(baseline) /\ op["guest"].target # record
    BY <1>1 DEF WatchInv, WatchTypes, RecordInv
  <2>2. c = "guest" => d # baseline
    BY <1>1, <2>1
  <2>3. c = "guest" => profile' # written \/ written = None
    BY <1>3, <2>2 DEF WatchInv, RecordInv, Render
  <2> QED BY <1>1, <1>2, <1>3, <1>4, <2>3 DEF WatchInv, WatchTypes, FileInv, Callers
<1> QED BY <1>5, <1>6, <1>7, <1>8 DEF WatchInv, Callers

LEMMA SaveFailsKeeps ==
    ASSUME WatchInv, NEW c \in Callers, SaveFails(c)
    PROVE  WatchInv'
<1>1. /\ op[c].at = "engaged" /\ DOMAIN op = Callers
      /\ c = "watch" => op["guest"].at = "idle"
  BY DEF WatchInv, WatchTypes, SaveFails, Callers
<1>2. /\ DOMAIN op' = Callers /\ \A e \in Callers \ {c} : op'[e] = op[e]
      /\ op'[c] = IF c = "watch" /\ record = None THEN [at |-> "down"] ELSE [at |-> "idle"]
      /\ refused' = (refused \/ c = "watch")
      /\ UNCHANGED <<profile, notified, baseline, written, record, restored>>
  BY <1>1 DEF SaveFails, Idle
<1>3. WatchTypes'
  BY <1>1, <1>2 DEF WatchInv, WatchTypes, Callers
<1>4. \A e \in Callers : Saving(e)'
  BY <1>2, SavingKept, SavingIdle DEF WatchInv, Callers
<1>5. RecordInv'
  BY <1>1, <1>2 DEF WatchInv, WatchTypes, RecordInv, Callers
<1>6. FileInv'
  <2>1. CASE c = "watch"
    <3>0. refused'
      BY <1>2, <2>1, Zenon
    <3>1. op'["watch"].at \in {"down", "idle"} /\ op'["guest"].at = "idle"
      BY <1>1, <1>2, <2>1 DEF Callers
    <3> QED BY <3>0, <3>1 DEF FileInv
  <2>2. CASE c = "guest"
    <3>0. refused => refused'
      BY <1>2, <2>2, Zenon
    <3>1. op'["watch"] = op["watch"] /\ op'["guest"].at = "idle"
      BY <1>1, <1>2, <2>2 DEF WatchInv, WatchTypes, Callers
    <3> QED BY <1>2, <3>0, <3>1 DEF WatchInv, FileInv
  <2> QED BY <2>1, <2>2 DEF Callers
<1> QED BY <1>3, <1>4, <1>5, <1>6 DEF WatchInv, Callers

LEMMA LandingKeeps ==
    ASSUME WatchInv, NEW c \in Callers, Remember(c) \/ Commit(c) \/ Land(c)
    PROVE  WatchInv'
<1>0. /\ op[c].at \in {"renamed", "written", "landing"} /\ DOMAIN op = Callers
      /\ "at" \in DOMAIN op[c] /\ {"kind", "target"} \subseteq DOMAIN op[c]
      /\ op[c].target \in Profiles /\ UNCHANGED <<profile, notified, restored>>
      /\ c = "watch" => op["guest"].at = "idle" /\ notified
      /\ c = "guest" => op["watch"].at \in {"idle", "deliver", "judge"}
  BY DEF WatchInv, WatchTypes, Saving, FileInv, Remember, Commit, Land, Callers
<1>a. ASSUME NEW v, op' = Step(c, v)
      PROVE  /\ DOMAIN op' = Callers /\ \A e \in Callers \ {c} : op'[e] = op[e]
             /\ DOMAIN op'[c] = DOMAIN op[c] /\ op'[c].at = v
             /\ op'[c].target = op[c].target
             /\ "text" \in DOMAIN op[c] => op'[c].text = op[c].text
  BY <1>0, <1>a DEF Step
<1>1. CASE Remember(c)
  <2>1. /\ op[c].at = "renamed" /\ op' = Step(c, "written") /\ UNCHANGED <<record, refused>>
        /\ baseline' = op[c].saved /\ written' = Render(baseline')
        /\ baseline' \in Document /\ Resolve(baseline') = op[c].target
    BY <1>1 DEF Remember, WatchInv, Saving, Callers
  <2>2. WatchTypes'
    BY <1>0, <1>a, <2>1 DEF WatchInv, WatchTypes, Callers
  <2>3. \A e \in Callers : Saving(e)'
    <3>1. Saving(c)'
      BY <1>0, <1>a, <2>1 DEF Saving
    <3>2. \A e \in Callers \ {c} : op'[e].at \notin {"engaged", "renamed", "written", "landing"}
      BY <1>0, <1>a, <2>1 DEF Callers
    <3> QED BY <3>1, <3>2, SavingIdle
  <2>4. RecordInv'
    BY <1>0, <1>a, <2>1 DEF WatchInv, WatchTypes, RecordInv, Callers
  <2>5. FileInv'
    <3>1. c = "guest" /\ op["watch"].at = "idle" => notified \/ refused \/ restored
      BY <2>1 DEF WatchInv, FileInv
    <3> QED BY <1>0, <1>a, <2>1, <3>1 DEF WatchInv, WatchTypes, FileInv, Callers
  <2> QED BY <2>2, <2>3, <2>4, <2>5 DEF WatchInv, Callers
<1>2. CASE Commit(c)
  <2>1. /\ op[c].at = "written" /\ op' = Step(c, "landing") /\ UNCHANGED <<baseline, written, refused>>
        /\ record' = op[c].target /\ Resolve(baseline) = op[c].target
    BY <1>2 DEF Commit, WatchInv, Saving, Callers
  <2>2. WatchTypes'
    BY <1>0, <1>a, <2>1 DEF WatchInv, WatchTypes, Callers
  <2>3. \A e \in Callers : Saving(e)'
    <3>1. Saving(c)'
      BY <1>0, <1>a, <2>1 DEF Saving
    <3>2. \A e \in Callers \ {c} : op'[e].at \notin {"engaged", "renamed", "written", "landing"}
      BY <1>0, <1>a, <2>1 DEF Callers
    <3> QED BY <3>1, <3>2, SavingIdle
  <2>4. RecordInv'
    BY <1>0, <1>a, <2>1 DEF WatchInv, WatchTypes, RecordInv, Callers
  <2>5. FileInv'
    BY <1>0, <1>a, <2>1 DEF WatchInv, WatchTypes, FileInv, Callers
  <2> QED BY <2>2, <2>3, <2>4, <2>5 DEF WatchInv, Callers
<1>3. CASE Land(c)
  <2>1. /\ op[c].at = "landing" /\ UNCHANGED <<baseline, written, record>>
        /\ DOMAIN op' = Callers /\ \A e \in Callers \ {c} : op'[e] = op[e]
        /\ op'[c] = [at |-> "idle"]
        /\ refused' = (refused /\ c # "watch") /\ Resolve(baseline) = record
    BY <1>0, <1>3 DEF Land, Idle, WatchInv, Saving, Callers
  <2>2. WatchTypes'
    BY <1>0, <2>1 DEF WatchInv, WatchTypes, Callers
  <2>3. \A e \in Callers : Saving(e)'
    BY <2>1, SavingKept, SavingIdle DEF WatchInv, Callers
  <2>4. RecordInv'
    BY <1>0, <2>1 DEF WatchInv, WatchTypes, RecordInv, Callers
  <2>5. FileInv'
    <3>1. c = "guest" => (refused => refused')
      BY <2>1, Zenon
    <3>2. c = "watch" => notified' /\ op'["guest"].at = "idle"
      BY <1>0, <2>1 DEF Callers
    <3> QED BY <1>0, <2>1, <3>1, <3>2 DEF WatchInv, WatchTypes, FileInv, Callers
  <2> QED BY <2>2, <2>3, <2>4, <2>5 DEF WatchInv, Callers
<1> QED BY <1>1, <1>2, <1>3

LEMMA BootKeeps ==
    ASSUME WatchInv, Boot
    PROVE  WatchInv'
<1>1. /\ op["watch"].at = "boot" /\ op["guest"].at = "idle" /\ DOMAIN op = Callers
      /\ UNCHANGED <<profile, notified, record, refused, restored>>
  BY DEF WatchInv, WatchTypes, Boot, Callers
<1>2. CASE profile = Junk
  <2>1. /\ DOMAIN op' = Callers /\ op'["watch"] = [at |-> "down"] /\ op'["guest"] = op["guest"]
        /\ UNCHANGED <<baseline, written>>
    BY <1>1, <1>2 DEF Boot, Callers
  <2>2. WatchTypes'
    BY <1>1, <2>1 DEF WatchInv, WatchTypes, Callers
  <2>3. Saving("watch")' /\ Saving("guest")'
    BY <1>1, <2>1, SavingIdle DEF Callers
  <2>4. RecordInv' /\ FileInv'
    BY <1>1, <2>1 DEF WatchInv, RecordInv, FileInv
  <2> QED BY <2>2, <2>3, <2>4 DEF WatchInv
<1>3. CASE profile # Junk
  <2> DEFINE d == IF profile = Absent THEN EmptyDocument ELSE profile.doc
  <2>1. d \in Document
    BY <1>3 DEF WatchInv, WatchTypes, Text, EmptyDocument, Document
  <2>2. /\ DOMAIN op' = Callers /\ op'["watch"] = Reconcile(d) /\ op'["guest"] = op["guest"]
        /\ baseline' = d /\ written' = None
    BY <1>1, <1>3 DEF Boot, Callers
  <2>3. WatchTypes'
    BY <1>1, <2>1, <2>2 DEF WatchInv, WatchTypes, Callers, Reconcile
  <2>4. Saving("watch")' /\ Saving("guest")'
    <3>1. Saving("guest")'
      BY <1>1, <2>2, SavingIdle DEF Callers
    <3>2. ToSave("watch")' = MergeProfile(Resolve(d), d)
      BY <2>2 DEF ToSave, Reconcile
    <3>3. Saving("watch")'
      BY <2>1, <2>2, <3>2, ResolveType, MergeResolves DEF Saving, Reconcile
    <3> QED BY <3>1, <3>3
  <2>5. RecordInv'
    BY <1>1, <2>2 DEF WatchInv, RecordInv, Reconcile
  <2>6. FileInv'
    BY <1>1, <2>2 DEF FileInv, Reconcile
  <2> QED BY <2>3, <2>4, <2>5, <2>6 DEF WatchInv
<1> QED BY <1>2, <1>3

LEMMA ReadingKeeps ==
    ASSUME WatchInv, Settle \/ ReadFile
    PROVE  WatchInv'
<1>1. /\ op["watch"].at \in {"idle", "deliver"} /\ DOMAIN op = Callers
      /\ "at" \in DOMAIN op["watch"]
      /\ UNCHANGED <<profile, baseline, written, record, refused, restored>>
  BY DEF WatchInv, WatchTypes, Settle, ReadFile, Callers
<1>2. /\ DOMAIN op' = Callers /\ op'["guest"] = op["guest"]
      /\ \/ op'["watch"].at = "deliver" /\ "at" \in DOMAIN op'["watch"]
         \/ op'["watch"] = [at |-> "judge", text |-> profile]
  BY <1>1 DEF Settle, ReadFile, Step, Callers, WatchInv, WatchTypes
<1>3. WatchTypes'
  BY <1>1, <1>2 DEF WatchInv, WatchTypes, Callers
<1>4. Saving("watch")' /\ Saving("guest")'
  BY <1>1, <1>2, SavingKept, SavingIdle DEF WatchInv, Callers
<1>5. RecordInv'
  BY <1>1, <1>2 DEF WatchInv, WatchTypes, RecordInv
<1>6. FileInv'
  BY <1>1, <1>2 DEF WatchInv, WatchTypes, FileInv
<1> QED BY <1>3, <1>4, <1>5, <1>6 DEF WatchInv

LEMMA DeliveryKeeps ==
    ASSUME WatchInv, DeliverEcho \/ DeliverRefused \/ DeliverEdit
    PROVE  WatchInv'
<1>1. /\ op["watch"].at = "judge" /\ DOMAIN op = Callers
      /\ UNCHANGED <<profile, notified, baseline, record, restored>>
  BY DEF WatchInv, WatchTypes, DeliverEcho, DeliverRefused, DeliverEdit, Callers
<1>2. ASSUME op' = [op EXCEPT !["watch"] = Idle]
      PROVE  /\ DOMAIN op' = Callers /\ op'["guest"] = op["guest"]
             /\ op'["watch"] = [at |-> "idle"]
             /\ Saving("watch")' /\ Saving("guest")'
  <2>1. /\ DOMAIN op' = Callers /\ op'["guest"] = op["guest"] /\ op'["watch"] = [at |-> "idle"]
    BY <1>1, <1>2 DEF Idle, Callers
  <2> QED BY <1>1, <2>1, SavingKept, SavingIdle DEF WatchInv, Callers
<1>3. CASE DeliverEcho
  <2>1. /\ op' = [op EXCEPT !["watch"] = Idle] /\ written' = None /\ refused' = FALSE
        /\ op["watch"].text = written /\ written # None
    BY <1>3 DEF DeliverEcho, IsEcho
  <2>2. written = Render(baseline) /\ Parses(Render(baseline)) /\ Render(baseline).doc = baseline
    BY <2>1, ParsesRendered DEF WatchInv, WatchTypes, RecordInv, Render
  <2>3. ~notified /\ ~restored => op["guest"].at # "renamed" /\ profile = Render(baseline)
    BY <1>1, <2>1, <2>2 DEF WatchInv, FileInv
  <2>4. WatchTypes'
    BY <1>1, <1>2, <2>1 DEF WatchInv, WatchTypes, Callers
  <2>5. RecordInv'
    BY <1>1, <1>2, <2>1 DEF WatchInv, RecordInv
  <2>6. FileInv'
    BY <1>1, <1>2, <2>1, <2>2, <2>3 DEF WatchInv, FileInv
  <2> QED BY <1>2, <2>1, <2>4, <2>5, <2>6 DEF WatchInv
<1>4. CASE DeliverRefused
  <2>1. op' = [op EXCEPT !["watch"] = Idle] /\ refused' = TRUE /\ UNCHANGED written
    BY <1>4 DEF DeliverRefused
  <2>2. WatchTypes'
    BY <1>1, <1>2, <2>1 DEF WatchInv, WatchTypes, Callers
  <2>3. RecordInv' /\ FileInv'
    BY <1>1, <1>2, <2>1 DEF WatchInv, RecordInv, FileInv
  <2> QED BY <1>2, <2>1, <2>2, <2>3 DEF WatchInv
<1>5. CASE DeliverEdit
  <2> DEFINE d == op["watch"].text.doc
  <2>1. d \in Document
    BY <1>1, <1>5 DEF DeliverEdit, Parses, Text, WatchInv, FileInv
  <2>2. /\ DOMAIN op' = Callers /\ op'["guest"] = op["guest"] /\ op'["watch"] = Reconcile(d)
        /\ UNCHANGED <<written, refused>>
    BY <1>1, <1>5 DEF DeliverEdit, Callers
  <2>3. op["guest"].at = "idle"
    BY <1>5 DEF DeliverEdit, Engaged, WatchInv, WatchTypes, Callers
  <2>4. WatchTypes'
    BY <1>1, <2>2, <2>3 DEF WatchInv, WatchTypes, Callers, Reconcile
  <2>5. Saving("guest")'
    BY <2>2, <2>3, SavingIdle DEF Callers
  <2>6. Saving("watch")'
    <3>1. ToSave("watch")' = MergeProfile(Resolve(d), baseline)
      BY <1>1, <2>2 DEF ToSave, Reconcile
    <3>2. baseline \in Document
      BY DEF WatchInv, WatchTypes
    <3> QED BY <2>1, <2>2, <3>1, <3>2, ResolveType, MergeResolves DEF Saving, Reconcile
  <2>7. RecordInv'
    BY <1>1, <2>2, <2>3 DEF WatchInv, RecordInv, Reconcile
  <2>8. FileInv'
    BY <1>1, <2>2, <2>3 DEF FileInv, Reconcile
  <2> QED BY <2>4, <2>5, <2>6, <2>7, <2>8 DEF WatchInv
<1> QED BY <1>3, <1>4, <1>5

LEMMA GuestKeeps ==
    ASSUME WatchInv, GuestStarts
    PROVE  WatchInv'
<1>1. /\ op["guest"].at = "idle" /\ op["watch"].at \in {"idle", "deliver", "judge"}
      /\ DOMAIN op = Callers /\ baseline \in Document /\ record = Resolve(baseline)
      /\ UNCHANGED <<profile, notified, baseline, written, record, refused, restored>>
  BY DEF WatchInv, WatchTypes, RecordInv, GuestStarts
<1>2. record \in Profiles
  BY <1>1, ResolveType
<1>3. PICK i \in Id, act \in {"amend", "administer"}, c \in Config \union {None} :
          /\ record[i] # c
          /\ act = "amend" => record[i] # None /\ c # None
          /\ op' = [op EXCEPT !["guest"] =
                [at |-> "engaged", kind |-> act, entry |-> i,
                 target |-> [record EXCEPT ![i] = c]]]
  BY DEF GuestStarts
<1> DEFINE target == [record EXCEPT ![i] = c]
<1>4. target \in Profiles /\ target # record /\ target[i] = c
  BY <1>2, <1>3 DEF Profiles
<1>5. /\ DOMAIN op' = Callers /\ op'["watch"] = op["watch"]
      /\ op'["guest"] = [at |-> "engaged", kind |-> act, entry |-> i, target |-> target]
  BY <1>1, <1>3 DEF Callers
<1>6. ToSave("guest")' = IF act = "amend" THEN Amended(baseline, i, c)
                         ELSE MergeProfile(target, baseline)
  BY <1>1, <1>4, <1>5 DEF ToSave
<1>7. ToSave("guest")' \in Document /\ Resolve(ToSave("guest")') = target
  <2>1. CASE act = "amend"
    <3>1. c \in Config /\ Resolve(baseline)[i] # None
      BY <1>1, <1>3, <2>1
    <3> QED BY <1>1, <1>6, <2>1, <3>1, AmendResolves
  <2>2. CASE act # "amend"
    BY <1>1, <1>4, <1>6, <2>2, MergeResolves
  <2> QED BY <2>1, <2>2
<1>8. WatchTypes'
  BY <1>1, <1>5 DEF WatchInv, WatchTypes, Callers
<1>9. Saving("watch")'
  BY <1>1, <1>5, SavingKept DEF WatchInv, Callers
<1>10. Saving("guest")'
  BY <1>4, <1>5, <1>7 DEF Saving
<1>11. RecordInv'
  BY <1>1, <1>4, <1>5 DEF WatchInv, RecordInv
<1>12. FileInv'
  BY <1>1, <1>5 DEF WatchInv, FileInv
<1> QED BY <1>8, <1>9, <1>10, <1>11, <1>12 DEF WatchInv

LEMMA WorldKeeps ==
    ASSUME WatchInv, OperatorWrites \/ Crash
    PROVE  WatchInv'
<1>1. CASE OperatorWrites
  <2>1. /\ profile' \in Text /\ notified' = TRUE
        /\ UNCHANGED <<baseline, written, record, op, refused>>
        /\ op["guest"].at = "renamed" /\ ~restored' => profile' # written
    BY <1>1, WatchAssumption DEF OperatorWrites, RestoresOverSave
  <2>2. WatchTypes'
    BY <2>1 DEF WatchInv, WatchTypes
  <2>3. Saving("watch")' /\ Saving("guest")'
    BY <2>1, SavingKept DEF WatchInv, Callers
  <2>4. RecordInv'
    BY <2>1 DEF WatchInv, RecordInv
  <2>5. FileInv'
    BY <2>1 DEF WatchInv, FileInv
  <2> QED BY <2>2, <2>3, <2>4, <2>5 DEF WatchInv
<1>2. CASE Crash
  <2>1. /\ op'["watch"] = [at |-> "boot"] /\ op'["guest"] = [at |-> "idle"]
        /\ DOMAIN op' = Callers
        /\ notified' = FALSE /\ written' = None /\ record' = None /\ refused' = FALSE
        /\ UNCHANGED <<profile, baseline>>
    BY <1>2 DEF Crash, Idle, Callers
  <2>2. WatchTypes'
    BY <2>1 DEF WatchInv, WatchTypes, Callers
  <2>3. Saving("watch")' /\ Saving("guest")'
    BY <2>1, SavingIdle DEF Callers
  <2>4. RecordInv' /\ FileInv'
    BY <2>1 DEF RecordInv, FileInv
  <2> QED BY <2>2, <2>3, <2>4 DEF WatchInv
<1> QED BY <1>1, <1>2

LEMMA WatchInitially == WatchInit => WatchInv
<1> SUFFICES ASSUME WatchInit PROVE WatchInv
  OBVIOUS
<1>1. /\ op["watch"] = [at |-> "boot"] /\ op["guest"] = [at |-> "idle"] /\ DOMAIN op = Callers
      /\ profile \in Text /\ baseline \in Document
  BY WatchAssumption DEF WatchInit, Idle, Callers, EmptyDocument, Document
<1>2. WatchTypes
  BY <1>1 DEF WatchInit, WatchTypes, Callers
<1>3. Saving("watch") /\ Saving("guest")
  BY <1>1 DEF Saving
<1>4. RecordInv /\ FileInv
  BY <1>1 DEF WatchInit, RecordInv, FileInv
<1> QED BY <1>2, <1>3, <1>4 DEF WatchInv

LEMMA WatchStep == WatchInv /\ [WatchNext]_wvars => WatchInv'
<1> SUFFICES ASSUME WatchInv, [WatchNext]_wvars PROVE WatchInv'
  OBVIOUS
<1>1. CASE UNCHANGED wvars
  <2>1. UNCHANGED <<profile, notified, baseline, written, record, op, refused, restored>>
    BY <1>1 DEF wvars
  <2>2. Saving("watch")' /\ Saving("guest")'
    BY <2>1, SavingKept DEF WatchInv, Callers
  <2> QED BY <2>1, <2>2 DEF WatchInv, WatchTypes, RecordInv, FileInv
<1>2. CASE WatchNext
  BY <1>2, SaveKeeps, SaveFailsKeeps, LandingKeeps, BootKeeps, ReadingKeeps, DeliveryKeeps,
     GuestKeeps, WorldKeeps DEF WatchNext, DaemonSteps
<1> QED BY <1>1, <1>2

(* QuietFileKept: a file at rest that nobody has to read again, and that is *)
(* not a text put back to the byte between a guest's save and its memory of *)
(* it, is the profile on record, for all profiles, texts, crashes and       *)
(* faults (store.rs save_committed and retire_echo, watch.rs serve).        *)
THEOREM QuietFileKept == WatchInit /\ [][WatchNext]_wvars => []QuietFileIsRecord
<1>1. WatchInv => QuietFileIsRecord
  BY DEF WatchInv, WatchTypes, RecordInv, FileInv, QuietFileIsRecord, Quiet
<1> QED BY <1>1, WatchInitially, WatchStep, PTL

-----------------------------------------------------------------------------
(* The guest-call deadline.  The argument is an account: what the clock     *)
(* shows is what it showed when the call began plus the instants the call   *)
(* has spent with no guard held, and the depth of the clock is the number   *)
(* of guards.                                                               *)

Stages == {"idle", "look", "changed", "call", "timer", "judge", "asleep", "done", "dead"}

ClockType ==
    /\ time \in Nat /\ guards \in SUBSET Parks /\ unseen \in SUBSET Horizons
    /\ clock \in [depth : Nat, elapsed : Nat, resumed : Nat]
    /\ horizon \in [Horizons -> Stages]
    /\ since \in [Horizons -> Nat] /\ used \in [Horizons -> Nat]
    /\ timed \in [Horizons -> [expires : Nat, running : BOOLEAN]]

DepthCounts == clock.depth = Cardinality(guards) /\ clock.resumed <= time

Accounts == \A h \in Running : ElapsedAt(clock, time) = since[h] + used[h]

TimersAreSet ==
    \A h \in Horizons :
        /\ horizon[h] \in {"changed", "call", "timer", "asleep"}
        /\ h \notin unseen /\ guards = {}
        => /\ timed[h].running
           /\ timed[h].expires <= time + Monus(Deadline, used[h])

Fresh == \A h \in Horizons : horizon[h] = "idle" => used[h] = 0

ClockInv ==
    ClockType /\ DepthCounts /\ Fresh /\ Accounts /\ TimersAreSet /\ OnlyActiveTimeKills

-----------------------------------------------------------------------------
(* What the guards and the clock's readings are. *)

(* A set of guards is finite, and counts nothing exactly when it is empty.  *)
LEMMA GuardsCount ==
    ASSUME NEW G \in SUBSET Parks
    PROVE  /\ IsFiniteSet(G) /\ Cardinality(G) \in Nat
           /\ Cardinality(G) = 0 <=> G = {}
  BY ClockAssumption, FS_Subset, FS_CardinalityType, FS_EmptySet

(* One more guard is held after a park, one less after its drop.            *)
LEMMA GuardsChange ==
    ASSUME NEW G \in SUBSET Parks, NEW g \in Parks
    PROVE  /\ g \notin G => Cardinality(G \union {g}) = Cardinality(G) + 1
           /\ g \in G => Cardinality(G \ {g}) = Cardinality(G) - 1
  BY GuardsCount, FS_AddElement, FS_RemoveElement

(* The clock shows a natural number at every instant it has reached.        *)
LEMMA ElapsedIsNat ==
    ASSUME NEW c \in [depth : Nat, elapsed : Nat, resumed : Nat], NEW t \in Nat,
           c.resumed <= t
    PROVE  ElapsedAt(c, t) \in Nat
  BY DEF ElapsedAt

-----------------------------------------------------------------------------
(* The steps. *)

LEMMA ClockInitially == ClockInit => ClockInv
  BY FS_EmptySet, ClockAssumption
     DEF ClockInit, ClockInv, ClockType, DepthCounts, Fresh, Accounts, TimersAreSet,
         OnlyActiveTimeKills, Running, Stages

(* Time moves the clock and the account of every running call alike, or     *)
(* neither.                                                                 *)
LEMMA TickKeeps == ASSUME ClockInv, Tick PROVE ClockInv'
<1> USE DEF ClockInv
<1>1. guards = {} <=> clock.depth = 0
  BY GuardsCount DEF ClockType, DepthCounts
<1>2. ClockType' /\ DepthCounts'
  BY ClockAssumption DEF Tick, ClockType, DepthCounts
<1>3. Fresh' /\ OnlyActiveTimeKills'
  BY DEF Tick, ClockType, Fresh, OnlyActiveTimeKills, Running
<1>4. Accounts'
  BY <1>1 DEF Tick, ClockType, DepthCounts, Accounts, Running, ElapsedAt
<1>5. TimersAreSet'
  <2> SUFFICES ASSUME NEW h \in Horizons,
                      horizon[h] \in {"changed", "call", "timer", "asleep"},
                      h \notin unseen, guards = {}
               PROVE  /\ timed[h].running
                      /\ timed[h].expires <= time' + Monus(Deadline, used'[h])
    BY DEF Tick, TimersAreSet
  <2>1. /\ timed[h].running
        /\ timed[h].expires <= time + Monus(Deadline, used[h])
    BY DEF TimersAreSet
  <2>2. time' = time + 1 /\ used'[h] = used[h] + 1
    BY DEF Tick, Running, ClockType
  <2>3. timed[h].expires \in Nat /\ time \in Nat /\ used[h] \in Nat
    BY DEF ClockType
  <2> QED
    BY <2>1, <2>2, <2>3, ClockAssumption DEF Monus
<1> QED
  BY <1>2, <1>3, <1>4, <1>5

(* An edge that leaves the clock's reading as it is keeps the accounts; every *)
(* running horizon has it to see, so no timer is trusted.                    *)
LEMMA EdgeKeeps ==
    ASSUME ClockInv, unseen' = Running,
           UNCHANGED <<time, horizon, since, timed, used>>,
           guards' \in SUBSET Parks,
           clock' \in [depth : Nat, elapsed : Nat, resumed : Nat],
           clock'.depth = Cardinality(guards'), clock'.resumed <= time,
           ElapsedAt(clock', time) = ElapsedAt(clock, time)
    PROVE  ClockInv'
<1> USE DEF ClockInv
<1>1. ClockType' /\ DepthCounts'
  BY DEF ClockType, DepthCounts, Running
<1>2. Fresh' /\ OnlyActiveTimeKills'
  BY DEF Fresh, OnlyActiveTimeKills
<1>3. ElapsedAt(clock, time)' = ElapsedAt(clock, time)
  BY DEF ElapsedAt
<1>4. Accounts'
  BY <1>3 DEF Accounts, Running
<1>5. TimersAreSet'
  BY DEF TimersAreSet, Running
<1> QED
  BY <1>1, <1>2, <1>4, <1>5

(* A park freezes the reading.                                               *)
LEMMA ParkKeeps == ASSUME ClockInv, NEW g \in Parks, Park(g) PROVE ClockInv'
<1>1. ElapsedAt(clock, time) \in Nat
  BY ElapsedIsNat DEF ClockInv, ClockType, DepthCounts
<1>2. /\ clock' \in [depth : Nat, elapsed : Nat, resumed : Nat]
      /\ clock'.depth = clock.depth + 1 /\ clock'.resumed <= time
      /\ clock'.elapsed = ElapsedAt(clock, time)
  BY <1>1 DEF Park, Parked, ClockInv, ClockType, DepthCounts
<1>3. clock'.depth # 0
  BY <1>2 DEF ClockInv, ClockType
<1>4. ElapsedAt(clock', time) = ElapsedAt(clock, time)
  <2>1. ElapsedAt(clock', time) = clock'.elapsed + 0
    BY <1>3 DEF ElapsedAt
  <2> QED
    BY <2>1, <1>1, <1>2
<1>5. guards' \in SUBSET Parks /\ clock'.depth = Cardinality(guards')
  BY <1>2, GuardsChange DEF Park, ClockInv, ClockType, DepthCounts
<1>6. unseen' = Running /\ UNCHANGED <<time, horizon, since, timed, used>>
  BY DEF Park
<1> QED
  BY <1>2, <1>4, <1>5, <1>6, EdgeKeeps

(* The drop of a guard leaves the reading as it is: the interval that       *)
(* starts with the last one is still empty.                                 *)
LEMMA UnparkKeeps == ASSUME ClockInv, NEW g \in Parks, Unpark(g) PROVE ClockInv'
<1>1. /\ clock.depth \in Nat \ {0} /\ clock.elapsed \in Nat
      /\ clock.resumed \in Nat /\ time \in Nat /\ clock.resumed <= time
  BY GuardsCount DEF Unpark, ClockInv, ClockType, DepthCounts
<1>2. Monus(clock.depth, 1) = clock.depth - 1
  BY <1>1 DEF Monus
<1>3. /\ clock' \in [depth : Nat, elapsed : Nat, resumed : Nat]
      /\ clock'.depth = clock.depth - 1 /\ clock'.elapsed = clock.elapsed
      /\ clock'.resumed = IF clock.depth - 1 = 0 THEN time ELSE clock.resumed
  BY <1>1, <1>2 DEF Unpark, Resumed
<1>4. ElapsedAt(clock', time) = ElapsedAt(clock, time) /\ clock'.resumed <= time
  BY <1>1, <1>3 DEF ElapsedAt
<1>5. guards' \in SUBSET Parks /\ clock'.depth = Cardinality(guards')
  BY <1>3, GuardsChange DEF Unpark, ClockInv, ClockType, DepthCounts
<1>6. unseen' = Running /\ UNCHANGED <<time, horizon, since, timed, used>>
  BY DEF Unpark
<1> QED
  BY <1>3, <1>4, <1>5, <1>6, EdgeKeeps

(* A call begins with nothing spent and the clock's reading as its base.    *)
LEMMA StartKeeps == ASSUME ClockInv, NEW h \in Horizons, Start(h) PROVE ClockInv'
<1> USE DEF ClockInv
<1>1. ElapsedAt(clock, time) \in Nat
  BY ElapsedIsNat DEF ClockType, DepthCounts
<1>2. ClockType' /\ DepthCounts'
  BY <1>1 DEF Start, Goes, ClockType, DepthCounts, Stages
<1>3. Fresh' /\ OnlyActiveTimeKills' /\ TimersAreSet'
  BY DEF Start, Goes, ClockType, Fresh, OnlyActiveTimeKills, TimersAreSet
<1>4. ElapsedAt(clock, time)' = ElapsedAt(clock, time)
  BY DEF Start, ElapsedAt
<1>5. Accounts'
  BY <1>1, <1>4 DEF Start, Goes, ClockType, Fresh, Accounts, Running
<1> QED
  BY <1>2, <1>3, <1>5

(* A look sets the timer for what is left of the deadline.                   *)
LEMMA LookKeeps == ASSUME ClockInv, NEW h \in Horizons, Look(h) PROVE ClockInv'
<1> USE DEF ClockInv
<1> DEFINE remaining == Monus(Deadline, ElapsedAt(clock, time) - since[h])
<1>1. ElapsedAt(clock, time) - since[h] = used[h] /\ used[h] \in Nat /\ time \in Nat
  BY DEF Look, ClockType, Accounts, Running
<1>2. remaining \in Nat /\ remaining = Monus(Deadline, used[h])
  BY <1>1, ClockAssumption DEF Monus
<1>3. timed' = [timed EXCEPT ![h] = [expires |-> time + remaining,
                                     running |-> clock.depth = 0 \/ remaining = 0]]
  BY DEF Look
<1> HIDE DEF remaining
<1>4. ClockType' /\ DepthCounts'
  <2>1. [expires |-> time + remaining, running |-> clock.depth = 0 \/ remaining = 0]
            \in [expires : Nat, running : BOOLEAN]
    BY <1>1, <1>2
  <2> QED
    BY <1>3, <2>1 DEF Look, Goes, ClockType, DepthCounts, Stages
<1>5. Fresh' /\ OnlyActiveTimeKills'
  BY DEF Look, Goes, ClockType, Fresh, OnlyActiveTimeKills
<1>6. ElapsedAt(clock, time)' = ElapsedAt(clock, time)
  BY DEF Look, ElapsedAt
<1>7. Accounts'
  BY <1>6 DEF Look, Goes, ClockType, Accounts, Running
<1>8. TimersAreSet'
  <2>1. guards = {} => clock.depth = 0
    BY GuardsCount DEF ClockType, DepthCounts
  <2>2. /\ timed'[h].expires = time + Monus(Deadline, used[h])
        /\ guards = {} => timed'[h].running
    BY <1>2, <1>3, <2>1 DEF ClockType
  <2>3. time + Monus(Deadline, used[h]) \in Nat
    BY <1>1, <1>2
  <2>4. \A k \in Horizons \ {h} : timed'[k] = timed[k] /\ horizon'[k] = horizon[k]
    BY <1>3 DEF Look, Goes, ClockType
  <2> QED
    BY <2>2, <2>3, <2>4 DEF Look, TimersAreSet
<1> QED
  BY <1>4, <1>5, <1>7, <1>8

(* A step of a poll that touches nothing but the horizon's place, and gets   *)
(* to a place with a timer only from one.                                    *)
LEMMA PollKeeps ==
    ASSUME ClockInv, NEW h \in Horizons, NEW to \in Stages \ {"idle"}, Goes(h, to),
           UNCHANGED <<time, guards, clock, since, timed, unseen, used>>,
           h \in Running,
           to \in {"changed", "call", "timer", "asleep"} =>
               horizon[h] \in {"changed", "call", "timer", "asleep"},
           to = "dead" => used[h] >= Deadline
    PROVE  ClockInv'
<1> USE DEF ClockInv
<1>1. horizon' \in [Horizons -> Stages] /\ horizon'[h] = to
      /\ \A k \in Horizons \ {h} : horizon'[k] = horizon[k]
  BY DEF Goes, ClockType
<1>2. ClockType' /\ DepthCounts'
  BY <1>1 DEF ClockType, DepthCounts
<1>3. Fresh' /\ OnlyActiveTimeKills' /\ TimersAreSet'
  BY <1>1 DEF Fresh, OnlyActiveTimeKills, TimersAreSet
<1>4. Running' \subseteq Running
  BY <1>1 DEF Running
<1>5. ElapsedAt(clock, time)' = ElapsedAt(clock, time)
  BY DEF ElapsedAt
<1>6. Accounts'
  BY <1>4, <1>5 DEF Accounts
<1> QED
  BY <1>2, <1>3, <1>6

LEMMA ClockStep == ASSUME ClockInv, [ClockNext]_cvars PROVE ClockInv'
<1>1. CASE Tick
  BY <1>1, TickKeeps
<1>2. CASE \E g \in Parks : Park(g) \/ Unpark(g)
  BY <1>2, ParkKeeps, UnparkKeeps
<1>3. ASSUME NEW h \in Horizons,
             Start(h) \/ Look(h) \/ PollChanged(h) \/ PollCall(h)
                 \/ PollTimer(h) \/ Judge(h) \/ Woken(h)
      PROVE  ClockInv'
  <2>1. CASE Start(h)
    BY <2>1, StartKeeps
  <2>2. CASE Look(h)
    BY <2>2, LookKeeps
  <2>3. CASE PollChanged(h) \/ PollCall(h) \/ PollTimer(h) \/ Woken(h)
    <3>1. /\ h \in Running
          /\ horizon[h] \in {"changed", "call", "timer", "asleep"}
          /\ UNCHANGED <<time, guards, clock, since, timed, unseen, used>>
      BY <2>3 DEF PollChanged, PollCall, PollTimer, Woken, Running
    <3>2. \E to \in Stages \ {"idle", "dead"} : Goes(h, to)
      BY <2>3 DEF PollChanged, PollCall, PollTimer, Woken, Stages
    <3> QED
      BY <3>1, <3>2, PollKeeps
  <2>4. CASE Judge(h)
    <3>1. /\ h \in Running /\ horizon[h] = "judge"
          /\ UNCHANGED <<time, guards, clock, since, timed, unseen, used>>
      BY <2>4 DEF Judge, Running
    <3>2. ElapsedAt(clock, time) - since[h] = used[h]
      BY <3>1 DEF ClockInv, ClockType, Accounts
    <3>3. PICK to \in {"dead", "look"} : Goes(h, to) /\ (to = "dead" => used[h] >= Deadline)
      BY <2>4, <3>2 DEF Judge
    <3>4. to \in Stages \ {"idle"}
      BY DEF Stages
    <3> QED
      BY <3>1, <3>3, <3>4, PollKeeps
  <2> QED
    BY <1>3, <2>1, <2>2, <2>3, <2>4
<1>4. CASE UNCHANGED cvars
  BY <1>4 DEF cvars, ClockInv, ClockType, DepthCounts, Fresh, Accounts, TimersAreSet,
              OnlyActiveTimeKills, Running, ElapsedAt
<1> QED
  BY <1>1, <1>2, <1>3, <1>4 DEF ClockNext

(* A call dies of its deadline exactly when it has spent it with no guard   *)
(* held (within), whatever the deadline, the guards and the edges.          *)
THEOREM DeadlineExact == ClockSpec => []DeadlineIsExact
<1>1. ClockInv => DeadlineIsExact
  BY DEF ClockInv, DeadlineIsExact, NeverOversleeps, TimersAreSet
<1> QED
  BY <1>1, ClockInitially, ClockStep, PTL DEF ClockSpec

-----------------------------------------------------------------------------
(* A child process and its streams.  A byte is the number of its place, so  *)
(* what the reader, the ring, the pump and the pipe hold are runs of        *)
(* consecutive numbers, one after the other (Chain): every step moves the   *)
(* front of one run to the end of the run before it.                        *)


(* A run of consecutive bytes after the first lo.                             *)
Span(s, lo) == s \in Seq(Nat) /\ \A i \in 1..Len(s) : s[i] = lo + i

(* Bytes that follow one another: read, in the ring, in the pump, in the pipe *)
(* (or given to the child, in the feeder, in the ring).                       *)
Chain(g, d, c, p, top) ==
    /\ Span(g, 0) /\ Span(d, Len(g)) /\ Span(c, Len(g) + Len(d))
    /\ Span(p, Len(g) + Len(d) + Len(c)) /\ top = Len(g) + Len(d) + Len(c) + Len(p)

(* What the reader of the output holds.                                       *)
Holding == IF plan.edition = "spawn" THEN guest.read ELSE run.bytes
AllClosed == child.life \notin {"unborn", "alive"} /\ ~heir

(* Nothing of the output was thrown away: only the cut of a run does that.    *)
Kept ==
    \/ plan.edition = "spawn" \/ run.at \in {"idle", "loop", "finish", "cut"}
    \/ run.answer = "data"

(* The end of the output has been reached.                                    *)
Drained ==
    /\ ring["out"].closed /\ ring["out"].data = <<>>
    /\ pump.at = "done" /\ pump.chunk = <<>>
    /\ pump.torn \/ (pipe = <<>> /\ AllClosed)

Shape ==
    /\ DOMAIN child = {"life", "out", "got", "eof", "kill"}
    /\ DOMAIN ring = {"in", "out"} /\ \A s \in {"in", "out"} : DOMAIN ring[s] = {"data", "closed"}
    /\ DOMAIN space = {"in", "out"}
    /\ DOMAIN pump = {"at", "chunk", "torn"} /\ DOMAIN feed = {"at", "chunk"}
    /\ DOMAIN guest = {"read", "wrote", "eof", "owes"}
    /\ DOMAIN run = {"at", "exit", "output", "drain", "bytes", "stop", "answer", "detached"}

Editions ==
    /\ plan.edition \in {"run", "spawn"}
    /\ plan.edition = "run" =>
          /\ ~held /\ rel = "no" /\ guest.read = <<>> /\ ~guest.eof
          /\ run.at \notin {"spawning", "spawned"}
    /\ plan.edition = "spawn" =>
          run.at \in {"idle", "spawning", "spawned"} /\ run.bytes = <<>> /\ run.answer = "none"
    /\ held => rel = "no"
    /\ child.life = "unborn" => pump.at = "off" /\ feed.at = "off" /\ rel = "no" /\ run.at = "idle"
    /\ run.at = "finish" => run.output = "ok"
    /\ run.answer = "data" => run.at = "done" /\ run.output = "ok" /\ ~pump.torn

Output ==
    /\ child.out \in Nat /\ Span(Holding, 0) /\ Len(Holding) <= child.out
    /\ ring["out"].data \in Seq(Nat) /\ Len(ring["out"].data) <= RingCap
    /\ pump.chunk \in Seq(Nat) /\ pipe \in Seq(Nat)
    /\ Kept =>
          /\ pump.at # "cut"
          /\ Chain(Holding, ring["out"].data, pump.chunk, pipe, child.out)

Pumping ==
    /\ pump.at \in {"off", "read", "close"} => pump.chunk = <<>>
    /\ ring["out"].closed => pump.at \in {"done", "cut"} \/ rel \notin {"no", "close"}
    /\ pump.at = "close" /\ ~pump.torn => pipe = <<>> /\ AllClosed
    /\ pump.at = "done" /\ Kept /\ rel \in {"no", "close"} =>
          pump.chunk = <<>> /\ (pump.torn \/ (pipe = <<>> /\ AllClosed))
    /\ guest.eof \/ run.output = "ok" => Drained

Input ==
    /\ guest.wrote \in Nat /\ Span(child.got, 0) /\ Len(child.got) <= guest.wrote
    /\ ring["in"].data \in Seq(Nat) /\ feed.chunk \in Seq(Nat)
    /\ Len(ring["in"].data) <= RingCap
    /\ feed.at # "done" \/ child.eof =>
          Chain(child.got, feed.chunk, ring["in"].data, <<>>, guest.wrote)
    /\ feed.at # "write" => feed.chunk = <<>>
    /\ feed.at = "shutdown" \/ child.eof => ring["in"].closed /\ ring["in"].data = <<>>
    /\ child.eof => feed.at = "done"

Sleeping ==
    /\ pump.at = "wait" /\ ring["out"].closed => space["out"]
    /\ pump.at \in {"check", "wait"} /\ Len(ring["out"].data) < RingCap /\ ~ring["out"].closed
          => space["out"]
    /\ feed.at = "idle" /\ (ring["in"].closed \/ ring["in"].data # <<>>) => space["in"]

StreamInv == Shape /\ Editions /\ Output /\ Pumping /\ Input /\ Sleeping

-----------------------------------------------------------------------------
(* Runs of consecutive bytes *)

LEMMA SpanSplit ==
    ASSUME NEW s, NEW lo \in Nat, Span(s, lo), NEW n \in Nat
    PROVE  /\ Span(FirstN(s, n), lo) /\ Span(AfterN(s, n), lo + Len(FirstN(s, n)))
           /\ FirstN(s, n) \in Seq(Nat) /\ AfterN(s, n) \in Seq(Nat)
           /\ Len(FirstN(s, n)) \in Nat /\ Len(AfterN(s, n)) \in Nat
           /\ Len(FirstN(s, n)) + Len(AfterN(s, n)) = Len(s)
           /\ Len(FirstN(s, n)) = IF n < Len(s) THEN n ELSE Len(s)
<1>1. s \in Seq(Nat) /\ Len(s) \in Nat /\ \A i \in 1..Len(s) : s[i] = lo + i /\ s[i] \in Nat
  BY DEF Span
<1> DEFINE m == IF n < Len(s) THEN n ELSE Len(s)
           F == SubSeq(s, 1, m)
           T == SubSeq(s, n + 1, Len(s))
<1>2. m \in Nat /\ m <= Len(s)
  BY <1>1
<1>3. /\ F \in Seq(Nat) /\ Len(F) = m /\ \A i \in 1..m : F[i] = s[i]
  BY <1>1, <1>2
<1>4. T \in Seq(Nat) /\ Len(T) = Len(s) - m /\ \A i \in 1..(Len(s) - m) : T[i] = s[m + i]
  <2>1. CASE n < Len(s)
    <3>1. m = n
      BY <2>1
    <3>2. T \in Seq(Nat) /\ Len(T) = Len(s) - n /\ \A i \in 1..(Len(s) - n) : T[i] = s[n + i]
      BY <1>1, <2>1
    <3> QED BY <3>1, <3>2
  <2>2. CASE ~(n < Len(s))
    <3>1. m = Len(s) /\ n + 1 > Len(s)
      BY <1>1, <2>2
    <3>2. T = <<>>
      BY <1>1, <3>1
    <3> HIDE DEF T, m
    <3>3. Len(<<>>) = 0 /\ <<>> \in Seq(Nat) /\ Len(s) - m = 0
      BY <1>1, <3>1
    <3>4. \A i \in 1..(Len(s) - m) : FALSE
      BY <3>3
    <3> QED BY <3>2, <3>3, <3>4
  <2> QED BY <2>1, <2>2
<1>5. F = FirstN(s, n) /\ T = AfterN(s, n)
  BY DEF FirstN, AfterN
<1> HIDE DEF F, T, m
<1>6. Span(F, lo)
  <2>1. ASSUME NEW i \in 1..Len(F) PROVE F[i] = lo + i
    <3>1. i \in 1..m /\ i \in 1..Len(s)
      BY <1>1, <1>2, <1>3
    <3> QED BY <1>1, <1>3, <3>1
  <2> QED BY <1>3, <2>1 DEF Span
<1>7. Span(T, lo + m)
  <2>1. ASSUME NEW i \in 1..Len(T) PROVE T[i] = lo + m + i
    <3>1. m + i \in 1..Len(s) /\ T[i] = s[m + i]
      BY <1>1, <1>2, <1>4
    <3>2. s[m + i] = lo + (m + i)
      BY <1>1, <3>1
    <3> QED BY <1>2, <3>1, <3>2
  <2> QED BY <1>4, <2>1 DEF Span
<1>8. /\ m = IF n < Len(s) THEN n ELSE Len(s)
      /\ Len(F) \in Nat /\ Len(T) \in Nat /\ Len(F) + Len(T) = Len(s)
  <2>1. m = IF n < Len(s) THEN n ELSE Len(s)
    BY DEF m
  <2>2. Len(F) = m /\ Len(T) = Len(s) - m /\ Len(s) \in Nat
    BY <1>1, <1>3, <1>4, Zenon
  <2> QED BY <1>2, <2>1, <2>2
<1>9. Len(F) = m /\ F \in Seq(Nat) /\ T \in Seq(Nat)
  BY <1>3, <1>4, Zenon
<1>10. /\ Span(F, lo) /\ Span(T, lo + Len(F)) /\ F \in Seq(Nat) /\ T \in Seq(Nat)
       /\ Len(F) \in Nat /\ Len(T) \in Nat /\ Len(F) + Len(T) = Len(s)
       /\ Len(F) = IF n < Len(s) THEN n ELSE Len(s)
  BY <1>6, <1>7, <1>8, <1>9
<1> QED BY <1>5, <1>10

LEMMA SpanConcat ==
    ASSUME NEW s, NEW t, NEW lo \in Nat, Span(s, lo), Span(t, lo + Len(s))
    PROVE  /\ Span(s \o t, lo) /\ Len(s \o t) = Len(s) + Len(t) /\ Len(s) \in Nat /\ Len(t) \in Nat
           /\ s \o t \in Seq(Nat)
<1>1. /\ s \in Seq(Nat) /\ Len(s) \in Nat /\ \A i \in 1..Len(s) : s[i] = lo + i
      /\ t \in Seq(Nat) /\ Len(t) \in Nat /\ \A i \in 1..Len(t) : t[i] = lo + Len(s) + i
  BY DEF Span
<1> DEFINE u == s \o t
<1>2. /\ u \in Seq(Nat) /\ Len(u) = Len(s) + Len(t)
      /\ \A i \in 1..Len(s) : u[i] = s[i]
      /\ \A i \in (Len(s) + 1)..Len(u) : u[i] = t[i - Len(s)]
  BY <1>1
<1> HIDE DEF u
<1>3. ASSUME NEW i \in 1..Len(u) PROVE u[i] = lo + i
  <2>1. CASE i \in 1..Len(s)
    BY <1>1, <1>2, <2>1
  <2>2. CASE i \in (Len(s) + 1)..Len(u)
    <3>1. i - Len(s) \in 1..Len(t) /\ u[i] = t[i - Len(s)]
      BY <1>1, <1>2, <2>2
    <3>2. t[i - Len(s)] = lo + Len(s) + (i - Len(s))
      BY <1>1, <3>1
    <3> QED BY <1>1, <3>1, <3>2
  <2> QED BY <1>1, <1>2, <2>1, <2>2
<1>4. Span(u, lo)
  BY <1>2, <1>3 DEF Span
<1> QED BY <1>1, <1>2, <1>4 DEF u

LEMMA SpanOne ==
    ASSUME NEW lo \in Nat
    PROVE  Span(<<lo + 1>>, lo) /\ Len(<<lo + 1>>) = 1 /\ Span(<<>>, lo) /\ Len(<<>>) = 0
BY DEF Span

LEMMA SpanIsBytes ==
    ASSUME NEW s, Span(s, 0), NEW n \in Nat, Len(s) <= n
    PROVE  IsPrefix(s, Bytes(n)) /\ (Len(s) = n => s = Bytes(n))
<1>1. s \in Seq(Nat) /\ Len(s) \in Nat /\ \A i \in 1..Len(s) : s[i] = i
  BY DEF Span
<1>2. Bytes(n) \in Seq(Nat) /\ Len(Bytes(n)) = n /\ \A i \in 1..n : Bytes(n)[i] = i
  BY DEF Bytes
<1>3. IsPrefix(s, Bytes(n))
  <2> DEFINE b == Bytes(n)
  <2>1. b \in Seq(Nat) /\ Len(b) = n /\ \A i \in 1..Len(s) : b[i] = s[i]
    BY <1>1, <1>2
  <2> HIDE DEF b
  <2>2. SubSeq(s, 1, Len(s)) = SubSeq(b, 1, Len(s))
    BY <1>1, <2>1
  <2> QED BY <1>1, <2>1, <2>2 DEF IsPrefix, b
<1>4. Len(s) = n => s = Bytes(n)
  <2> DEFINE b == Bytes(n)
  <2>1. b \in Seq(Nat) /\ Len(b) = n /\ \A i \in 1..Len(s) : b[i] = s[i]
    BY <1>1, <1>2
  <2> HIDE DEF b
  <2>2. Len(s) = n => s = b
    BY <1>1, <2>1
  <2> QED BY <2>2 DEF b
<1> QED BY <1>3, <1>4

LEMMA PartsAreSeqs ==
    ASSUME NEW s \in Seq(Nat), NEW n \in Nat
    PROVE  /\ FirstN(s, n) \in Seq(Nat) /\ AfterN(s, n) \in Seq(Nat)
           /\ Len(FirstN(s, n)) \in Nat
           /\ Len(FirstN(s, n)) = IF n < Len(s) THEN n ELSE Len(s)
           /\ Len(s) <= n => AfterN(s, n) = <<>>
<1>1. CASE n < Len(s)
  <2>1. /\ SubSeq(s, 1, n) \in Seq(Nat) /\ Len(SubSeq(s, 1, n)) = n
        /\ SubSeq(s, n + 1, Len(s)) \in Seq(Nat)
    BY <1>1
  <2>2. FirstN(s, n) = SubSeq(s, 1, n) /\ AfterN(s, n) = SubSeq(s, n + 1, Len(s))
    BY <1>1 DEF FirstN, AfterN
  <2> QED BY <1>1, <2>1, <2>2
<1>2. CASE ~(n < Len(s))
  <2>1. /\ SubSeq(s, 1, Len(s)) \in Seq(Nat) /\ Len(SubSeq(s, 1, Len(s))) = Len(s)
        /\ Len(s) \in Nat
    OBVIOUS
  <2>2. SubSeq(s, n + 1, Len(s)) = <<>>
    BY <1>2
  <2>3. FirstN(s, n) = SubSeq(s, 1, Len(s)) /\ AfterN(s, n) = SubSeq(s, n + 1, Len(s))
    BY <1>2 DEF FirstN, AfterN
  <2> QED BY <1>2, <2>1, <2>2, <2>3
<1> QED BY <1>1, <1>2

(* Moving the first bytes of a run to the end of the run before it.           *)
LEMMA Moved ==
    ASSUME NEW s, NEW t, NEW lo \in Nat, Span(s, lo), Span(t, lo + Len(s)), NEW n \in Nat
    PROVE  /\ Span(s \o FirstN(t, n), lo) /\ Span(AfterN(t, n), lo + Len(s \o FirstN(t, n)))
           /\ Len(s \o FirstN(t, n)) + Len(AfterN(t, n)) = Len(s) + Len(t)
           /\ n < Len(t) => Len(s \o FirstN(t, n)) = Len(s) + n
           /\ n >= Len(t) => Len(s \o FirstN(t, n)) = Len(s) + Len(t)
           /\ Len(s) \in Nat /\ Len(t) \in Nat /\ Len(s \o FirstN(t, n)) \in Nat
           /\ Len(AfterN(t, n)) \in Nat
           /\ s \o FirstN(t, n) \in Seq(Nat) /\ AfterN(t, n) \in Seq(Nat)
<1>1. s \in Seq(Nat) /\ t \in Seq(Nat) /\ Len(s) \in Nat /\ Len(t) \in Nat
  BY DEF Span
<1>2. lo + Len(s) \in Nat
  BY <1>1
<1> DEFINE f == FirstN(t, n)
           rest == AfterN(t, n)
<1>3. /\ Span(f, lo + Len(s)) /\ Span(rest, lo + Len(s) + Len(f))
      /\ f \in Seq(Nat) /\ rest \in Seq(Nat) /\ Len(f) \in Nat /\ Len(rest) \in Nat
      /\ Len(f) + Len(rest) = Len(t) /\ Len(f) = IF n < Len(t) THEN n ELSE Len(t)
  BY <1>2, SpanSplit
<1> HIDE DEF f, rest
<1> DEFINE u == s \o f
<1>4. /\ Span(u, lo) /\ Len(u) = Len(s) + Len(f) /\ u \in Seq(Nat)
  BY <1>3, SpanConcat
<1> HIDE DEF u
<1>5. lo + Len(s) + Len(f) = lo + Len(u) /\ Len(u) \in Nat
      /\ Len(u) + Len(rest) = Len(s) + Len(t)
      /\ (n < Len(t) => Len(u) = Len(s) + n) /\ (n >= Len(t) => Len(u) = Len(s) + Len(t))
  <2> DEFINE a1 == Len(s)
             b1 == Len(t)
             f1 == Len(f)
             r1 == Len(rest)
             u1 == Len(u)
  <2>1. /\ a1 \in Nat /\ b1 \in Nat /\ f1 \in Nat /\ r1 \in Nat /\ u1 = a1 + f1
        /\ f1 + r1 = b1 /\ f1 = IF n < b1 THEN n ELSE b1
    BY <1>1, <1>3, <1>4, Zenon
  <2> HIDE DEF a1, b1, f1, r1, u1
  <2>2. /\ lo + a1 + f1 = lo + u1 /\ u1 \in Nat /\ u1 + r1 = a1 + b1
        /\ (n < b1 => u1 = a1 + n) /\ (n >= b1 => u1 = a1 + b1)
    BY <2>1
  <2> QED BY <2>2 DEF a1, b1, f1, r1, u1
<1>6. /\ Span(u, lo) /\ Span(rest, lo + Len(u))
      /\ Len(u) + Len(rest) = Len(s) + Len(t)
      /\ (n < Len(t) => Len(u) = Len(s) + n) /\ (n >= Len(t) => Len(u) = Len(s) + Len(t))
      /\ Len(s) \in Nat /\ Len(t) \in Nat /\ Len(u) \in Nat
      /\ Len(rest) \in Nat /\ u \in Seq(Nat) /\ rest \in Seq(Nat)
  BY <1>1, <1>3, <1>4, <1>5, Zenon
<1> QED BY <1>6, Zenon DEF u, f, rest

LEMMA Pushed ==
    ASSUME NEW s, NEW lo \in Nat, Span(s, lo)
    PROVE  /\ Span(Append(s, lo + Len(s) + 1), lo)
           /\ Len(Append(s, lo + Len(s) + 1)) = Len(s) + 1 /\ Len(s) \in Nat
<1>1. s \in Seq(Nat) /\ Len(s) \in Nat
  BY DEF Span
<1> DEFINE k == lo + Len(s)
<1>2. k \in Nat
  BY <1>1
<1>3. Span(<<k + 1>>, k) /\ Len(<<k + 1>>) = 1
  BY <1>2, SpanOne
<1>4. Span(s \o <<k + 1>>, lo) /\ Len(s \o <<k + 1>>) = Len(s) + Len(<<k + 1>>)
  BY <1>3, SpanConcat
<1>5. Append(s, k + 1) = s \o <<k + 1>>
  BY <1>1, <1>2
<1> QED BY <1>1, <1>3, <1>4, <1>5


LEMMA WholeSub ==
    ASSUME NEW s \in Seq(Nat)
    PROVE  SubSeq(s, 1, Len(s)) = s /\ SubSeq(s, 1, 0) = <<>>
<1> DEFINE t == SubSeq(s, 1, Len(s))
<1>1. /\ t \in Seq(Nat) /\ Len(t) = Len(s) /\ \A i \in 1..Len(s) : t[i] = s[i]
      /\ Len(s) \in Nat
  OBVIOUS
<1> HIDE DEF t
<1>2. t = s
  BY <1>1
<1>3. SubSeq(s, 1, 0) = <<>>
  OBVIOUS
<1> QED BY <1>2, <1>3 DEF t

LEMMA OneByte ==
    ASSUME NEW x \in Nat, NEW n \in Nat
    PROVE  (n > 0 => FirstN(<<x>>, n) = <<x>>) /\ (n = 0 => FirstN(<<x>>, n) = <<>>)
<1>1. SubSeq(<<x>>, 1, 1) = <<x>> /\ SubSeq(<<x>>, 1, 0) = <<>> /\ Len(<<x>>) = 1
  <2> DEFINE s == <<x>>
  <2>1. s \in Seq(Nat) /\ Len(s) = 1
    OBVIOUS
  <2> HIDE DEF s
  <2>2. SubSeq(s, 1, Len(s)) = s /\ SubSeq(s, 1, 0) = <<>>
    BY <2>1, WholeSub
  <2>3. SubSeq(s, 1, 1) = s
    BY <2>1, <2>2, Zenon
  <2> QED BY <2>1, <2>2, <2>3, Zenon DEF s
<1>2. CASE n > 1 \/ n = 1
  <2>1. (IF n < Len(<<x>>) THEN n ELSE Len(<<x>>)) = 1
    BY <1>1, <1>2
  <2> QED BY <1>1, <1>2, <2>1 DEF FirstN
<1>3. CASE n = 0
  <2>1. (IF n < Len(<<x>>) THEN n ELSE Len(<<x>>)) = 0
    BY <1>1, <1>3
  <2> QED BY <1>1, <1>3, <2>1 DEF FirstN
<1> QED BY <1>2, <1>3

LEMMA ChainTypes ==
    ASSUME NEW g, NEW d, NEW c, NEW p, NEW top, Chain(g, d, c, p, top)
    PROVE  /\ g \in Seq(Nat) /\ d \in Seq(Nat) /\ c \in Seq(Nat) /\ p \in Seq(Nat)
           /\ Len(g) \in Nat /\ Len(d) \in Nat /\ Len(c) \in Nat /\ Len(p) \in Nat
           /\ top \in Nat /\ Len(g) <= top /\ Span(g, 0)
           /\ (d = <<>> /\ c = <<>> /\ p = <<>>) => Len(g) = top
<1>1. /\ g \in Seq(Nat) /\ d \in Seq(Nat) /\ c \in Seq(Nat) /\ p \in Seq(Nat)
      /\ top = Len(g) + Len(d) + Len(c) + Len(p)
  BY DEF Chain, Span
<1>2. Len(g) \in Nat /\ Len(d) \in Nat /\ Len(c) \in Nat /\ Len(p) \in Nat
  BY <1>1
<1>3. top \in Nat /\ Len(g) <= top
  BY <1>1, <1>2
<1>4. (d = <<>> /\ c = <<>> /\ p = <<>>) => Len(g) = top
  BY <1>1, <1>2
<1>5. Span(g, 0)
  BY DEF Chain
<1> QED BY <1>1, <1>2, <1>3, <1>4, <1>5

LEMMA ChainWritten ==
    ASSUME NEW g, NEW d, NEW c, NEW p, NEW top, Chain(g, d, c, p, top)
    PROVE  Chain(g, d, c, Append(p, top + 1), top + 1)
<1> DEFINE lo == Len(g) + Len(d) + Len(c)
           q == Append(p, top + 1)
<1>1. Len(g) \in Nat /\ Len(d) \in Nat /\ Len(c) \in Nat /\ Len(p) \in Nat
  BY ChainTypes
<1>2. /\ Span(p, lo) /\ top = lo + Len(p)
      /\ Span(g, 0) /\ Span(d, Len(g)) /\ Span(c, Len(g) + Len(d))
  BY DEF Chain
<1>3. lo \in Nat
  BY <1>1
<1> HIDE DEF lo
<1>4. Span(q, lo) /\ Len(q) = Len(p) + 1
  BY <1>2, <1>3, Pushed, Zenon
<1> HIDE DEF q
<1>5. top + 1 = lo + Len(q)
  BY <1>1, <1>2, <1>3, <1>4
<1> QED BY <1>2, <1>4, <1>5, Zenon DEF Chain, lo, q

LEMMA ChainTaken ==
    ASSUME NEW g, NEW d, NEW c, NEW p, NEW top, NEW n \in Nat, Chain(g, d, c, p, top)
    PROVE  /\ Chain(g \o FirstN(d, n), AfterN(d, n), c, p, top)
           /\ Len(AfterN(d, n)) <= Len(d)
<1> DEFINE u == g \o FirstN(d, n)
           rest == AfterN(d, n)
<1>1. Len(g) \in Nat /\ Len(d) \in Nat /\ Len(c) \in Nat /\ Len(p) \in Nat
  BY ChainTypes
<1>2. /\ Span(g, 0) /\ Span(d, 0 + Len(g))
      /\ Span(c, Len(g) + Len(d)) /\ Span(p, Len(g) + Len(d) + Len(c))
      /\ top = Len(g) + Len(d) + Len(c) + Len(p)
  <2>1. 0 + Len(g) = Len(g)
    BY <1>1
  <2> QED BY <2>1, Zenon DEF Chain
<1>3. /\ Span(u, 0) /\ Span(rest, 0 + Len(u)) /\ Len(u) + Len(rest) = Len(g) + Len(d)
      /\ Len(u) \in Nat /\ Len(rest) \in Nat
      /\ (n < Len(d) => Len(u) = Len(g) + n) /\ (n >= Len(d) => Len(u) = Len(g) + Len(d))
  <2>1. 0 \in Nat
    OBVIOUS
  <2> QED BY <1>2, <2>1, Moved
<1> HIDE DEF u, rest
<1>4. 0 + Len(u) = Len(u) /\ Len(rest) <= Len(d)
  BY <1>1, <1>3
<1>5. Chain(u, rest, c, p, top) /\ Len(rest) <= Len(d)
  BY <1>2, <1>3, <1>4, Zenon DEF Chain
<1> QED BY <1>5, Zenon DEF u, rest

LEMMA ChainOffered ==
    ASSUME NEW g, NEW d, NEW c, NEW p, NEW top, NEW n \in Nat, Chain(g, d, c, p, top)
    PROVE  /\ Chain(g, d \o FirstN(c, n), AfterN(c, n), p, top)
           /\ Len(d \o FirstN(c, n)) <= Len(d) + n
           /\ n < Len(c) => Len(d \o FirstN(c, n)) = Len(d) + n
           /\ Len(c) <= n => AfterN(c, n) = <<>>
<1> DEFINE u == d \o FirstN(c, n)
           rest == AfterN(c, n)
<1>1. Len(g) \in Nat /\ Len(d) \in Nat /\ Len(c) \in Nat /\ Len(p) \in Nat
  BY ChainTypes
<1>2. /\ Span(g, 0) /\ Span(d, Len(g))
      /\ Span(c, Len(g) + Len(d)) /\ Span(p, Len(g) + Len(d) + Len(c))
      /\ top = Len(g) + Len(d) + Len(c) + Len(p)
  BY Zenon DEF Chain
<1>3. /\ Span(u, Len(g)) /\ Span(rest, Len(g) + Len(u)) /\ Len(u) + Len(rest) = Len(d) + Len(c)
      /\ Len(u) \in Nat /\ Len(rest) \in Nat /\ rest \in Seq(Nat)
      /\ (n < Len(c) => Len(u) = Len(d) + n) /\ (n >= Len(c) => Len(u) = Len(d) + Len(c))
  BY <1>1, <1>2, Moved
<1> HIDE DEF u, rest
<1>4. /\ Len(g) + Len(u) + Len(rest) = Len(g) + Len(d) + Len(c)
      /\ Len(u) <= Len(d) + n /\ (n < Len(c) => Len(u) = Len(d) + n)
      /\ Len(c) <= n => Len(rest) = 0
  BY <1>1, <1>3, SMTT(30)
<1>5. Len(c) <= n => rest = <<>>
  BY <1>3, <1>4
<1>6. Chain(g, u, rest, p, top)
  BY <1>2, <1>3, <1>4, Zenon DEF Chain
<1>7. /\ Chain(g, u, rest, p, top) /\ Len(u) <= Len(d) + n
      /\ (n < Len(c) => Len(u) = Len(d) + n) /\ (Len(c) <= n => rest = <<>>)
  BY <1>4, <1>5, <1>6, Zenon
<1> QED BY <1>7, Zenon DEF u, rest

LEMMA EmptyFirst ==
    ASSUME NEW s \in Seq(Nat), NEW n \in Nat
    PROVE  <<>> \o FirstN(s, n) = FirstN(s, n)
<1>1. FirstN(s, n) \in Seq(Nat)
  BY DEF FirstN
<1> QED BY <1>1

LEMMA ChainPumped ==
    ASSUME NEW g, NEW d, NEW p, NEW top, NEW n \in Nat, Chain(g, d, <<>>, p, top)
    PROVE  Chain(g, d, FirstN(p, n), AfterN(p, n), top)
<1> DEFINE lo == Len(g) + Len(d)
           e == <<>>
           u == e \o FirstN(p, n)
           rest == AfterN(p, n)
<1>1. Len(g) \in Nat /\ Len(d) \in Nat /\ Len(p) \in Nat /\ p \in Seq(Nat) /\ Len(e) \in Nat
  BY ChainTypes, Zenon
<1>2. /\ Span(g, 0) /\ Span(d, Len(g)) /\ Span(e, lo) /\ Span(p, lo + Len(e))
      /\ top = lo + Len(e) + Len(p)
  BY Zenon DEF Chain
<1>3. lo \in Nat
  BY <1>1
<1> HIDE DEF lo, e
<1>4. /\ Span(u, lo) /\ Span(rest, lo + Len(u)) /\ Len(u) + Len(rest) = Len(e) + Len(p)
      /\ Len(u) \in Nat /\ Len(rest) \in Nat
  BY <1>2, <1>3, Moved
<1>5. u = FirstN(p, n)
  BY <1>1, EmptyFirst, Zenon DEF e
<1> HIDE DEF u, rest
<1>6. top = lo + Len(u) + Len(rest)
  <2> DEFINE z1 == Len(e)
             p1 == Len(p)
             u1 == Len(u)
             r1 == Len(rest)
  <2>1. /\ z1 \in Nat /\ p1 \in Nat /\ u1 \in Nat /\ r1 \in Nat
        /\ u1 + r1 = z1 + p1 /\ top = lo + z1 + p1
    BY <1>1, <1>2, <1>4, Zenon
  <2> HIDE DEF z1, p1, u1, r1
  <2>2. top = lo + u1 + r1
    BY <1>3, <2>1
  <2> QED BY <2>2 DEF u1, r1
<1>7. Chain(g, d, u, rest, top)
  BY <1>2, <1>4, <1>6, Zenon DEF Chain, lo
<1> QED BY <1>5, <1>7, Zenon DEF rest

LEMMA ChainFed ==
    ASSUME NEW g, NEW d, NEW c, NEW top, Chain(g, d, c, <<>>, top)
    PROVE  Chain(g, d, Append(c, top + 1), <<>>, top + 1)
<1> DEFINE lo == Len(g) + Len(d)
           q == Append(c, top + 1)
<1>1. Len(g) \in Nat /\ Len(d) \in Nat /\ Len(c) \in Nat /\ Len(<<>>) = 0
  BY ChainTypes
<1>2. /\ Span(c, lo) /\ top = lo + Len(c) + Len(<<>>)
      /\ Span(g, 0) /\ Span(d, Len(g))
  BY Zenon DEF Chain
<1>3. lo \in Nat
  BY <1>1
<1> HIDE DEF lo
<1>4. top = lo + Len(c)
  BY <1>1, <1>2, <1>3
<1>5. Span(q, lo) /\ Len(q) = Len(c) + 1
  BY <1>2, <1>3, <1>4, Pushed, Zenon
<1> HIDE DEF q
<1>6. top + 1 = lo + Len(q) + Len(<<>>) /\ lo + Len(q) \in Nat
  BY <1>1, <1>3, <1>4, <1>5
<1>7. Span(<<>>, lo + Len(q))
  BY <1>6, SpanOne
<1>8. Chain(g, d, q, <<>>, top + 1)
  BY <1>2, <1>5, <1>6, <1>7, Zenon DEF Chain, lo
<1> QED BY <1>8 DEF q

LEMMA ChainGiven ==
    ASSUME NEW g, NEW d, NEW c, NEW p, NEW top, Chain(g, d, c, p, top)
    PROVE  Chain(g \o d, <<>>, c, p, top)
<1> DEFINE u == g \o d
<1>1. /\ Len(g) \in Nat /\ Len(d) \in Nat /\ Len(c) \in Nat /\ Len(p) \in Nat
      /\ g \in Seq(Nat) /\ d \in Seq(Nat) /\ Len(<<>>) = 0
  BY ChainTypes
<1>2. /\ Span(g, 0) /\ Span(d, Len(g))
      /\ Span(c, Len(g) + Len(d)) /\ Span(p, Len(g) + Len(d) + Len(c))
      /\ top = Len(g) + Len(d) + Len(c) + Len(p)
  BY Zenon DEF Chain
<1>3. 0 + Len(g) = Len(g) /\ 0 \in Nat
  BY <1>1
<1>4. Span(u, 0) /\ Len(u) = Len(g) + Len(d)
  BY <1>2, <1>3, SpanConcat, Zenon
<1> HIDE DEF u
<1>5. Len(u) + Len(<<>>) = Len(g) + Len(d) /\ Len(u) \in Nat
  BY <1>1, <1>4
<1>6. Span(<<>>, Len(u))
  BY <1>5, SpanOne
<1>7. Chain(u, <<>>, c, p, top)
  BY <1>2, <1>4, <1>5, <1>6, Zenon DEF Chain
<1> QED BY <1>7 DEF u

-----------------------------------------------------------------------------
(* Steps that move no byte of either stream *)

(* What the output is made of is as it was.                                   *)
OutputAsWas ==
    /\ child'.out = child.out /\ Holding' = Holding
    /\ ring'["out"].data = ring["out"].data /\ pump'.chunk = pump.chunk /\ pipe' = pipe
    /\ Kept' => Kept
    /\ pump'.at = "cut" => pump.at = "cut"

LEMMA OutputStays ==
    ASSUME Output, OutputAsWas
    PROVE  Output'
BY Zenon DEF Output, OutputAsWas

(* What the input is made of is as it was; the ring may close.                *)
InputAsWas ==
    /\ guest'.wrote = guest.wrote /\ child'.got = child.got /\ child'.eof = child.eof
    /\ ring'["in"].data = ring["in"].data /\ feed' = feed
    /\ ring["in"].closed => ring'["in"].closed

LEMMA InputStays ==
    ASSUME Input, InputAsWas
    PROVE  Input'
BY Zenon DEF Input, InputAsWas

LEMMA ChildExitsStep ==
    ASSUME StreamInv, ChildExits
    PROVE  StreamInv'
<1>1. Shape'
  BY DEF StreamInv, Shape, ChildExits, ChildEnds
<1>2. Editions'
  BY DEF StreamInv, Editions, Shape, ChildExits, ChildEnds
<1>3. Pumping'
  BY DEF StreamInv, Pumping, Shape, Kept, Editions, AllClosed, Drained, ChildExits, ChildEnds
<1>4. Sleeping'
  BY DEF StreamInv, Sleeping, Shape, ChildExits, ChildEnds
<1>5. OutputAsWas
  BY DEF StreamInv, Shape, Editions, Kept, Holding, OutputAsWas, ChildExits, ChildEnds
<1>6. InputAsWas
  BY DEF StreamInv, Shape, InputAsWas, ChildExits, ChildEnds
<1> QED BY <1>1, <1>2, <1>3, <1>4, <1>5, <1>6, OutputStays, InputStays DEF StreamInv

LEMMA ChildKilledStep ==
    ASSUME StreamInv, ChildKilled
    PROVE  StreamInv'
<1>1. Shape'
  BY DEF StreamInv, Shape, ChildKilled, ChildEnds
<1>2. Editions'
  BY DEF StreamInv, Editions, Shape, ChildKilled, ChildEnds
<1>3. Pumping'
  BY DEF StreamInv, Pumping, Shape, Kept, Editions, AllClosed, Drained, ChildKilled, ChildEnds
<1>4. Sleeping'
  BY DEF StreamInv, Sleeping, Shape, ChildKilled, ChildEnds
<1>5. OutputAsWas
  BY DEF StreamInv, Shape, Editions, Kept, Holding, OutputAsWas, ChildKilled, ChildEnds
<1>6. InputAsWas
  BY DEF StreamInv, Shape, InputAsWas, ChildKilled, ChildEnds
<1> QED BY <1>1, <1>2, <1>3, <1>4, <1>5, <1>6, OutputStays, InputStays DEF StreamInv

LEMMA HeirEndsStep ==
    ASSUME StreamInv, HeirEnds
    PROVE  StreamInv'
<1>1. Shape'
  BY DEF StreamInv, Shape, HeirEnds
<1>2. Editions'
  BY DEF StreamInv, Editions, Shape, HeirEnds
<1>3. Pumping'
  BY DEF StreamInv, Pumping, Shape, Kept, Editions, AllClosed, Drained, HeirEnds
<1>4. Sleeping'
  BY DEF StreamInv, Sleeping, Shape, HeirEnds
<1>5. OutputAsWas
  BY DEF StreamInv, Shape, Editions, Kept, Holding, OutputAsWas, HeirEnds
<1>6. InputAsWas
  BY DEF StreamInv, Shape, InputAsWas, HeirEnds
<1> QED BY <1>1, <1>2, <1>3, <1>4, <1>5, <1>6, OutputStays, InputStays DEF StreamInv

LEMMA PumpCheckStep ==
    ASSUME StreamInv, PumpCheck
    PROVE  StreamInv'
<1>1. Shape'
  BY DEF StreamInv, Shape, PumpCheck
<1>2. Editions'
  BY DEF StreamInv, Editions, Shape, PumpCheck
<1>3. Pumping'
  BY DEF StreamInv, Pumping, Shape, Kept, Editions, AllClosed, Drained, PumpCheck
<1>4. Sleeping'
  BY DEF StreamInv, Sleeping, Shape, PumpCheck
<1>5. OutputAsWas
  BY DEF StreamInv, Shape, Editions, Kept, Holding, OutputAsWas, PumpCheck
<1>6. InputAsWas
  BY DEF StreamInv, Shape, InputAsWas, PumpCheck
<1> QED BY <1>1, <1>2, <1>3, <1>4, <1>5, <1>6, OutputStays, InputStays DEF StreamInv

LEMMA PumpWakesStep ==
    ASSUME StreamInv, PumpWakes
    PROVE  StreamInv'
<1>1. Shape'
  BY DEF StreamInv, Shape, PumpWakes
<1>2. Editions'
  BY DEF StreamInv, Editions, Shape, PumpWakes
<1>3. Pumping'
  BY DEF StreamInv, Pumping, Shape, Kept, Editions, AllClosed, Drained, PumpWakes
<1>4. Sleeping'
  BY DEF StreamInv, Sleeping, Shape, PumpWakes
<1>5. OutputAsWas
  BY DEF StreamInv, Shape, Editions, Kept, Holding, OutputAsWas, PumpWakes
<1>6. InputAsWas
  BY DEF StreamInv, Shape, InputAsWas, PumpWakes
<1> QED BY <1>1, <1>2, <1>3, <1>4, <1>5, <1>6, OutputStays, InputStays DEF StreamInv

LEMMA PumpCloseStep ==
    ASSUME StreamInv, PumpClose
    PROVE  StreamInv'
<1>1. Shape'
  BY DEF StreamInv, Shape, PumpClose
<1>2. Editions'
  BY DEF StreamInv, Editions, Shape, PumpClose
<1>3. Pumping'
  BY DEF StreamInv, Pumping, Shape, Kept, Editions, AllClosed, Drained, PumpClose
<1>4. Sleeping'
  BY DEF StreamInv, Sleeping, Shape, PumpClose
<1>5. OutputAsWas
  BY DEF StreamInv, Shape, Editions, Kept, Holding, OutputAsWas, PumpClose
<1>6. InputAsWas
  BY DEF StreamInv, Shape, InputAsWas, PumpClose
<1> QED BY <1>1, <1>2, <1>3, <1>4, <1>5, <1>6, OutputStays, InputStays DEF StreamInv

LEMMA SpawnRowStep ==
    ASSUME StreamInv, SpawnRow
    PROVE  StreamInv'
<1>1. Shape'
  BY DEF StreamInv, Shape, SpawnRow
<1>2. Editions'
  BY DEF StreamInv, Editions, Shape, SpawnRow
<1>3. Pumping'
  BY DEF StreamInv, Pumping, Shape, Kept, Editions, AllClosed, Drained, SpawnRow
<1>4. Sleeping'
  BY DEF StreamInv, Sleeping, Shape, SpawnRow
<1>5. OutputAsWas
  BY DEF StreamInv, Shape, Editions, Kept, Holding, OutputAsWas, SpawnRow
<1>6. InputAsWas
  BY DEF StreamInv, Shape, InputAsWas, SpawnRow
<1> QED BY <1>1, <1>2, <1>3, <1>4, <1>5, <1>6, OutputStays, InputStays DEF StreamInv

LEMMA SuperviseStep ==
    ASSUME StreamInv, Supervise \/ SuperviseFails
    PROVE  StreamInv'
<1>1. Shape'
  BY DEF StreamInv, Shape, Supervise, SuperviseFails
<1>2. Editions'
  BY DEF StreamInv, Editions, Shape, Supervise, SuperviseFails
<1>3. Pumping'
  BY DEF StreamInv, Pumping, Shape, Kept, Editions, AllClosed, Drained, Supervise, SuperviseFails
<1>4. Sleeping'
  BY DEF StreamInv, Sleeping, Shape, Supervise, SuperviseFails
<1>5. OutputAsWas
  BY DEF StreamInv, Shape, Editions, Kept, Holding, OutputAsWas, Supervise, SuperviseFails
<1>6. InputAsWas
  BY DEF StreamInv, Shape, InputAsWas, Supervise, SuperviseFails
<1> QED BY <1>1, <1>2, <1>3, <1>4, <1>5, <1>6, OutputStays, InputStays DEF StreamInv

LEMMA ExitRowStep ==
    ASSUME StreamInv, ExitRow
    PROVE  StreamInv'
<1>1. Shape'
  BY DEF StreamInv, Shape, ExitRow
<1>2. Editions'
  BY DEF StreamInv, Editions, Shape, ExitRow
<1>3. Pumping'
  BY DEF StreamInv, Pumping, Shape, Kept, Editions, AllClosed, Drained, ExitRow
<1>4. Sleeping'
  BY DEF StreamInv, Sleeping, Shape, ExitRow
<1>5. OutputAsWas
  BY DEF StreamInv, Shape, Editions, Kept, Holding, OutputAsWas, ExitRow
<1>6. InputAsWas
  BY DEF StreamInv, Shape, InputAsWas, ExitRow
<1> QED BY <1>1, <1>2, <1>3, <1>4, <1>5, <1>6, OutputStays, InputStays DEF StreamInv

LEMMA ExitSendStep ==
    ASSUME StreamInv, ExitSend
    PROVE  StreamInv'
<1>1. Shape'
  BY DEF StreamInv, Shape, ExitSend
<1>2. Editions'
  BY DEF StreamInv, Editions, Shape, ExitSend
<1>3. Pumping'
  BY DEF StreamInv, Pumping, Shape, Kept, Editions, AllClosed, Drained, ExitSend
<1>4. Sleeping'
  BY DEF StreamInv, Sleeping, Shape, ExitSend
<1>5. OutputAsWas
  BY DEF StreamInv, Shape, Editions, Kept, Holding, OutputAsWas, ExitSend
<1>6. InputAsWas
  BY DEF StreamInv, Shape, InputAsWas, ExitSend
<1> QED BY <1>1, <1>2, <1>3, <1>4, <1>5, <1>6, OutputStays, InputStays DEF StreamInv

LEMMA CloseStdinStep ==
    ASSUME StreamInv, CloseStdin
    PROVE  StreamInv'
<1>1. Shape'
  BY DEF StreamInv, Shape, CloseStdin, Serves
<1>2. Editions'
  BY DEF StreamInv, Editions, Shape, CloseStdin, Serves
<1>3. Pumping'
  BY DEF StreamInv, Pumping, Shape, Kept, Editions, AllClosed, Drained, CloseStdin, Serves
<1>4. Sleeping'
  BY DEF StreamInv, Sleeping, Shape, CloseStdin, Serves
<1>5. OutputAsWas
  BY DEF StreamInv, Shape, Editions, Kept, Holding, OutputAsWas, CloseStdin, Serves
<1>6. InputAsWas
  BY DEF StreamInv, Shape, InputAsWas, CloseStdin, Serves
<1> QED BY <1>1, <1>2, <1>3, <1>4, <1>5, <1>6, OutputStays, InputStays DEF StreamInv

LEMMA KillStep ==
    ASSUME StreamInv, Kill
    PROVE  StreamInv'
<1>1. Shape'
  BY DEF StreamInv, Shape, Kill, Serves
<1>2. Editions'
  BY DEF StreamInv, Editions, Shape, Kill, Serves
<1>3. Pumping'
  BY DEF StreamInv, Pumping, Shape, Kept, Editions, AllClosed, Drained, Kill, Serves
<1>4. Sleeping'
  BY DEF StreamInv, Sleeping, Shape, Kill, Serves
<1>5. OutputAsWas
  BY DEF StreamInv, Shape, Editions, Kept, Holding, OutputAsWas, Kill, Serves
<1>6. InputAsWas
  BY DEF StreamInv, Shape, InputAsWas, Kill, Serves
<1> QED BY <1>1, <1>2, <1>3, <1>4, <1>5, <1>6, OutputStays, InputStays DEF StreamInv

LEMMA KillRowStep ==
    ASSUME StreamInv, KillRow
    PROVE  StreamInv'
<1>1. Shape'
  BY DEF StreamInv, Shape, KillRow
<1>2. Editions'
  BY DEF StreamInv, Editions, Shape, KillRow
<1>3. Pumping'
  BY DEF StreamInv, Pumping, Shape, Kept, Editions, AllClosed, Drained, KillRow
<1>4. Sleeping'
  BY DEF StreamInv, Sleeping, Shape, KillRow
<1>5. OutputAsWas
  BY DEF StreamInv, Shape, Editions, Kept, Holding, OutputAsWas, KillRow
<1>6. InputAsWas
  BY DEF StreamInv, Shape, InputAsWas, KillRow
<1> QED BY <1>1, <1>2, <1>3, <1>4, <1>5, <1>6, OutputStays, InputStays DEF StreamInv

LEMMA WithdrawStep ==
    ASSUME StreamInv, Withdraw
    PROVE  StreamInv'
<1>1. Shape'
  BY DEF StreamInv, Shape, Withdraw
<1>2. Editions'
  BY DEF StreamInv, Editions, Shape, Withdraw
<1>3. Pumping'
  BY DEF StreamInv, Pumping, Shape, Kept, Editions, AllClosed, Drained, Withdraw
<1>4. Sleeping'
  BY DEF StreamInv, Sleeping, Shape, Withdraw
<1>5. OutputAsWas
  BY DEF StreamInv, Shape, Editions, Kept, Holding, OutputAsWas, Withdraw
<1>6. InputAsWas
  BY DEF StreamInv, Shape, InputAsWas, Withdraw
<1> QED BY <1>1, <1>2, <1>3, <1>4, <1>5, <1>6, OutputStays, InputStays DEF StreamInv

LEMMA ReleaseStreamsStep ==
    ASSUME StreamInv, ReleaseStreams
    PROVE  StreamInv'
<1>1. Shape'
  BY DEF StreamInv, Shape, ReleaseStreams
<1>2. Editions'
  BY DEF StreamInv, Editions, Shape, ReleaseStreams
<1>3. Pumping'
  BY DEF StreamInv, Pumping, Shape, Kept, Editions, AllClosed, Drained, ReleaseStreams
<1>4. Sleeping'
  BY DEF StreamInv, Sleeping, Shape, ReleaseStreams
<1>5. OutputAsWas
  BY DEF StreamInv, Shape, Editions, Kept, Holding, OutputAsWas, ReleaseStreams
<1>6. InputAsWas
  BY DEF StreamInv, Shape, InputAsWas, ReleaseStreams
<1> QED BY <1>1, <1>2, <1>3, <1>4, <1>5, <1>6, OutputStays, InputStays DEF StreamInv

LEMMA ReleaseSignalStep ==
    ASSUME StreamInv, ReleaseSignal
    PROVE  StreamInv'
<1>1. Shape'
  BY DEF StreamInv, Shape, ReleaseSignal
<1>2. Editions'
  BY DEF StreamInv, Editions, Shape, ReleaseSignal
<1>3. Pumping'
  BY DEF StreamInv, Pumping, Shape, Kept, Editions, AllClosed, Drained, ReleaseSignal
<1>4. Sleeping'
  BY DEF StreamInv, Sleeping, Shape, ReleaseSignal
<1>5. OutputAsWas
  BY DEF StreamInv, Shape, Editions, Kept, Holding, OutputAsWas, ReleaseSignal
<1>6. InputAsWas
  BY DEF StreamInv, Shape, InputAsWas, ReleaseSignal
<1> QED BY <1>1, <1>2, <1>3, <1>4, <1>5, <1>6, OutputStays, InputStays DEF StreamInv

LEMMA ReleaseEndsStep ==
    ASSUME StreamInv, ReleaseEnds
    PROVE  StreamInv'
<1>1. Shape'
  BY DEF StreamInv, Shape, ReleaseEnds
<1>2. Editions'
  BY DEF StreamInv, Editions, Shape, ReleaseEnds
<1>3. Pumping'
  BY DEF StreamInv, Pumping, Shape, Kept, Editions, AllClosed, Drained, ReleaseEnds
<1>4. Sleeping'
  BY DEF StreamInv, Sleeping, Shape, ReleaseEnds
<1>5. OutputAsWas
  BY DEF StreamInv, Shape, Editions, Kept, Holding, OutputAsWas, ReleaseEnds
<1>6. InputAsWas
  BY DEF StreamInv, Shape, InputAsWas, ReleaseEnds
<1> QED BY <1>1, <1>2, <1>3, <1>4, <1>5, <1>6, OutputStays, InputStays DEF StreamInv

LEMMA RunStartStep ==
    ASSUME StreamInv, RunStart
    PROVE  StreamInv'
<1>1. Shape'
  BY DEF StreamInv, Shape, RunStart
<1>2. Editions'
  BY DEF StreamInv, Editions, Shape, RunStart
<1>3. Pumping'
  BY DEF StreamInv, Pumping, Shape, Kept, Editions, AllClosed, Drained, RunStart
<1>4. Sleeping'
  BY DEF StreamInv, Sleeping, Shape, RunStart
<1>5. OutputAsWas
  BY DEF StreamInv, Shape, Editions, Kept, Holding, OutputAsWas, RunStart
<1>6. InputAsWas
  BY DEF StreamInv, Shape, InputAsWas, RunStart
<1> QED BY <1>1, <1>2, <1>3, <1>4, <1>5, <1>6, OutputStays, InputStays DEF StreamInv

LEMMA RunReadyStep ==
    ASSUME StreamInv, RunReady
    PROVE  StreamInv'
<1>1. Shape'
  BY DEF StreamInv, Shape, RunReady
<1>2. Editions'
  BY DEF StreamInv, Editions, Shape, RunReady
<1>3. Pumping'
  BY DEF StreamInv, Pumping, Shape, Kept, Editions, AllClosed, Drained, RunReady
<1>4. Sleeping'
  BY DEF StreamInv, Sleeping, Shape, RunReady
<1>5. OutputAsWas
  BY DEF StreamInv, Shape, Editions, Kept, Holding, OutputAsWas, RunReady
<1>6. InputAsWas
  BY DEF StreamInv, Shape, InputAsWas, RunReady
<1> QED BY <1>1, <1>2, <1>3, <1>4, <1>5, <1>6, OutputStays, InputStays DEF StreamInv

LEMMA RunBoundStep ==
    ASSUME StreamInv, RunBound
    PROVE  StreamInv'
<1>1. Shape'
  BY DEF StreamInv, Shape, RunBound
<1>2. Editions'
  BY DEF StreamInv, Editions, Shape, RunBound
<1>3. Pumping'
  BY DEF StreamInv, Pumping, Shape, Kept, Editions, AllClosed, Drained, RunBound
<1>4. Sleeping'
  BY DEF StreamInv, Sleeping, Shape, RunBound
<1>5. OutputAsWas
  BY DEF StreamInv, Shape, Editions, Kept, Holding, OutputAsWas, RunBound
<1>6. InputAsWas
  BY DEF StreamInv, Shape, InputAsWas, RunBound
<1> QED BY <1>1, <1>2, <1>3, <1>4, <1>5, <1>6, OutputStays, InputStays DEF StreamInv

LEMMA RunFinishStep ==
    ASSUME StreamInv, RunFinish
    PROVE  StreamInv'
<1>1. Shape'
  BY DEF StreamInv, Shape, RunFinish
<1>2. Editions'
  BY DEF StreamInv, Editions, Shape, RunFinish
<1>3. Pumping'
  BY DEF StreamInv, Pumping, Shape, Kept, Editions, AllClosed, Drained, RunFinish
<1>4. Sleeping'
  BY DEF StreamInv, Sleeping, Shape, RunFinish
<1>5. OutputAsWas
  BY DEF StreamInv, Shape, Editions, Kept, Holding, OutputAsWas, RunFinish
<1>6. InputAsWas
  BY DEF StreamInv, Shape, InputAsWas, RunFinish
<1> QED BY <1>1, <1>2, <1>3, <1>4, <1>5, <1>6, OutputStays, InputStays DEF StreamInv

LEMMA RunSettleStep ==
    ASSUME StreamInv, RunSettle
    PROVE  StreamInv'
<1>1. Shape'
  BY DEF StreamInv, Shape, RunSettle
<1>2. Editions'
  BY DEF StreamInv, Editions, Shape, RunSettle
<1>3. Pumping'
  BY DEF StreamInv, Pumping, Shape, Kept, Editions, AllClosed, Drained, RunSettle
<1>4. Sleeping'
  BY DEF StreamInv, Sleeping, Shape, RunSettle
<1>5. OutputAsWas
  BY DEF StreamInv, Shape, Editions, Kept, Holding, OutputAsWas, RunSettle
<1>6. InputAsWas
  BY DEF StreamInv, Shape, InputAsWas, RunSettle
<1> QED BY <1>1, <1>2, <1>3, <1>4, <1>5, <1>6, OutputStays, InputStays DEF StreamInv

LEMMA RunKillStep ==
    ASSUME StreamInv, RunKill
    PROVE  StreamInv'
<1>1. Shape'
  BY DEF StreamInv, Shape, RunKill
<1>2. Editions'
  BY DEF StreamInv, Editions, Shape, RunKill
<1>3. Pumping'
  BY DEF StreamInv, Pumping, Shape, Kept, Editions, AllClosed, Drained, RunKill
<1>4. Sleeping'
  BY DEF StreamInv, Sleeping, Shape, RunKill
<1>5. OutputAsWas
  BY DEF StreamInv, Shape, Editions, Kept, Holding, OutputAsWas, RunKill
<1>6. InputAsWas
  BY DEF StreamInv, Shape, InputAsWas, RunKill
<1> QED BY <1>1, <1>2, <1>3, <1>4, <1>5, <1>6, OutputStays, InputStays DEF StreamInv

LEMMA DetachedReapStep ==
    ASSUME StreamInv, DetachedReap
    PROVE  StreamInv'
<1>1. Shape'
  BY DEF StreamInv, Shape, DetachedReap, Reaped
<1>2. Editions'
  BY DEF StreamInv, Editions, Shape, DetachedReap, Reaped
<1>3. Pumping'
  BY DEF StreamInv, Pumping, Shape, Kept, Editions, AllClosed, Drained, DetachedReap, Reaped
<1>4. Sleeping'
  BY DEF StreamInv, Sleeping, Shape, DetachedReap, Reaped
<1>5. OutputAsWas
  BY DEF StreamInv, Shape, Editions, Kept, Holding, OutputAsWas, DetachedReap, Reaped
<1>6. InputAsWas
  BY DEF StreamInv, Shape, InputAsWas, DetachedReap, Reaped
<1> QED BY <1>1, <1>2, <1>3, <1>4, <1>5, <1>6, OutputStays, InputStays DEF StreamInv

LEMMA RunCancelStep ==
    ASSUME StreamInv, RunCancel
    PROVE  StreamInv'
<1>1. Shape'
  BY DEF StreamInv, Shape, RunCancel
<1>2. Editions'
  BY DEF StreamInv, Editions, Shape, RunCancel
<1>3. Pumping'
  BY DEF StreamInv, Pumping, Shape, Kept, Editions, AllClosed, Drained, RunCancel
<1>4. Sleeping'
  BY DEF StreamInv, Sleeping, Shape, RunCancel
<1>5. OutputAsWas
  BY DEF StreamInv, Shape, Editions, Kept, Holding, OutputAsWas, RunCancel
<1>6. InputAsWas
  BY DEF StreamInv, Shape, InputAsWas, RunCancel
<1> QED BY <1>1, <1>2, <1>3, <1>4, <1>5, <1>6, OutputStays, InputStays DEF StreamInv

-----------------------------------------------------------------------------
(* Steps that move bytes *)

LEMMA ChildWritesStep ==
    ASSUME StreamInv, ChildWrites
    PROVE  StreamInv'
<1>1. Shape'
  BY DEF StreamInv, Shape, ChildWrites
<1>2. Editions'
  BY DEF StreamInv, Editions, Shape, ChildWrites, Writers
<1>3. Pumping'
  BY DEF StreamInv, Pumping, Shape, Kept, AllClosed, Drained, ChildWrites, Writers, ReadEnd
<1>4. Sleeping'
  BY DEF StreamInv, Sleeping, Shape, ChildWrites
<1>5. Output'
  <2>1. /\ child'.out = child.out + 1 /\ pipe' = Append(pipe, child.out + 1)
        /\ Holding' = Holding /\ UNCHANGED <<ring, pump>> /\ Kept' = Kept
    BY DEF StreamInv, Shape, ChildWrites, Holding, Kept
  <2>2. /\ child.out \in Nat /\ Span(Holding, 0) /\ Len(Holding) <= child.out /\ pipe \in Seq(Nat)
        /\ ring["out"].data \in Seq(Nat) /\ Len(ring["out"].data) <= RingCap
        /\ pump.chunk \in Seq(Nat)
    BY DEF StreamInv, Output
  <2>3. Len(Holding) \in Nat
    BY <2>2 DEF Span
  <2>4. /\ child'.out \in Nat /\ Len(Holding) <= child'.out /\ pipe' \in Seq(Nat)
    BY <2>1, <2>2, <2>3
  <2>5. Kept => Chain(Holding, ring["out"].data, pump.chunk, pipe', child'.out) /\ pump.at # "cut"
    BY <2>1, ChainWritten, Zenon DEF StreamInv, Output
  <2> QED BY <2>1, <2>2, <2>4, <2>5, Zenon DEF Output
<1>6. InputAsWas
  BY DEF StreamInv, Shape, InputAsWas, ChildWrites
<1> QED BY <1>1, <1>2, <1>3, <1>4, <1>5, <1>6, InputStays DEF StreamInv

(* Stream::take moves bytes from the ring to the reader, be it the guest or   *)
(* the collector.                                                             *)
LEMMA TakeKeeps ==
    ASSUME StreamInv, Take(Chunk), Kept, Kept', UNCHANGED <<plan, pump, pipe>>,
           child'.out = child.out, Holding' = Holding \o FirstN(ring["out"].data, Chunk)
    PROVE  /\ Output'
           /\ ring'["out"].data = AfterN(ring["out"].data, Chunk)
           /\ (ring["out"].data = <<>> \/ TakeEof(Chunk)) => ring'["out"].data = <<>>
           /\ ring'["out"].closed = ring["out"].closed /\ ring'["in"] = ring["in"]
           /\ DOMAIN ring' = {"in", "out"} /\ DOMAIN ring'["out"] = {"data", "closed"}
           /\ DOMAIN space' = {"in", "out"} /\ space'["in"] = space["in"]
           /\ pump.at # "cut" /\ (ring["out"].data # <<>> \/ space["out"] => space'["out"])
<1> DEFINE d == ring["out"].data
           e == ring'["out"].data
<1>1. /\ e = AfterN(d, Chunk) /\ ring'["out"].closed = ring["out"].closed
      /\ ring'["in"] = ring["in"] /\ space'["in"] = space["in"]
      /\ DOMAIN ring' = {"in", "out"} /\ DOMAIN ring'["out"] = {"data", "closed"}
      /\ DOMAIN space' = {"in", "out"}
  BY DEF Take, StreamInv, Shape
<1>2. d # <<>> \/ space["out"] => space'["out"]
  BY Zenon DEF Take, StreamInv, Shape
<1>3. Chunk \in Nat /\ Chunk > 0 /\ RingCap \in Nat
  BY ProcessAssumption
<1>4. /\ Chain(Holding, d, pump.chunk, pipe, child.out) /\ pump.at # "cut"
      /\ d \in Seq(Nat) /\ Len(d) <= RingCap /\ pump.chunk \in Seq(Nat) /\ pipe \in Seq(Nat)
      /\ child.out \in Nat
  BY Zenon DEF StreamInv, Output
<1> HIDE DEF d
<1>5. /\ Chain(Holding \o FirstN(d, Chunk), AfterN(d, Chunk), pump.chunk, pipe, child.out)
      /\ Len(AfterN(d, Chunk)) <= Len(d)
  BY <1>3, <1>4, ChainTaken, Zenon
<1>6. Chain(Holding', e, pump'.chunk, pipe', child'.out) /\ Len(e) <= Len(d)
  BY <1>1, <1>5, Zenon DEF d
<1> HIDE DEF e
<1>7. /\ e \in Seq(Nat) /\ Len(Holding') <= child'.out /\ Span(Holding', 0)
  BY <1>6, ChainTypes, Zenon
<1>8. Len(e) <= RingCap
  <2>1. Len(e) \in Nat /\ Len(d) \in Nat
    BY <1>4, <1>7
  <2> QED BY <1>3, <1>4, <1>6, <2>1
<1>9. Output'
  BY <1>4, <1>6, <1>7, <1>8, Zenon DEF Output, e
<1>10. d = <<>> \/ Len(d) <= Chunk => AfterN(d, Chunk) = <<>>
  BY <1>3, <1>4 DEF AfterN
<1>11. d = <<>> \/ TakeEof(Chunk) => e = <<>>
  BY <1>1, <1>10 DEF TakeEof, d, e
<1> QED BY <1>1, <1>2, <1>4, <1>9, <1>11, Zenon DEF d, e

LEMMA ReadStep ==
    ASSUME StreamInv, Read
    PROVE  StreamInv'
<1>1. /\ plan.edition = "spawn" /\ Kept /\ Kept' /\ held /\ rel = "no" /\ run.bytes = <<>>
  BY DEF StreamInv, Editions, Kept, Read, Serves
<1>2. Holding' = Holding \o FirstN(ring["out"].data, Chunk) /\ DOMAIN guest' = DOMAIN guest
  BY <1>1 DEF Holding, Read, StreamInv, Shape
<1>3. guest'.eof => guest.eof \/ (ring["out"].data = <<>> /\ TakeEof(Chunk))
  BY Zenon DEF Read, StreamInv, Shape
<1>4. UNCHANGED <<plan, child, heir, pipe, ready, pump, feed, held, sup, exit, control, rel, run>>
      /\ Take(Chunk) /\ guest'.wrote = guest.wrote
  BY DEF Read, StreamInv, Shape
<1>5. /\ Output'
      /\ ring["out"].data = <<>> => ring'["out"].data = <<>>
      /\ ring'["out"].closed = ring["out"].closed /\ ring'["in"] = ring["in"]
      /\ DOMAIN ring' = {"in", "out"} /\ DOMAIN ring'["out"] = {"data", "closed"}
      /\ DOMAIN space' = {"in", "out"} /\ space'["in"] = space["in"]
      /\ (ring["out"].data # <<>> \/ space["out"] => space'["out"])
  BY <1>1, <1>2, <1>4, TakeKeeps, Zenon
<1>6. Shape'
  BY <1>2, <1>4, <1>5 DEF StreamInv, Shape
<1>7. Editions'
  BY <1>1, <1>4 DEF StreamInv, Editions
<1>8. Pumping'
  <2>1. guest'.eof => Drained'
    <3>1. CASE guest.eof
      BY <3>1, <1>4, <1>5 DEF StreamInv, Pumping, Drained, AllClosed
    <3>2. CASE ring["out"].data = <<>> /\ TakeEof(Chunk)
      BY <3>2, <1>1, <1>4, <1>5 DEF StreamInv, Pumping, Drained, AllClosed, Output, TakeEof
    <3> QED BY <1>3, <3>1, <3>2
  <2>2. run'.output = "ok" => Drained'
    BY <1>4, <1>5 DEF StreamInv, Pumping, Drained, AllClosed
  <2> QED BY <1>1, <1>4, <1>5, <2>1, <2>2 DEF StreamInv, Pumping, AllClosed
<1>9. Sleeping'
  BY <1>4, <1>5 DEF StreamInv, Sleeping, Output
<1>10. InputAsWas
  BY <1>4, <1>5 DEF InputAsWas
<1> QED BY <1>5, <1>6, <1>7, <1>8, <1>9, <1>10, InputStays DEF StreamInv

LEMMA RunDrainStep ==
    ASSUME StreamInv, RunDrain
    PROVE  StreamInv'
<1> DEFINE b == run.bytes \o FirstN(ring["out"].data, Chunk)
           q == [run EXCEPT !.bytes = b,
                   !.output = IF Len(b) > OutputCap THEN "over"
                              ELSE IF TakeEof(Chunk) THEN "ok" ELSE "none",
                   !.drain = IF Len(b) > OutputCap \/ TakeEof(Chunk) THEN "take" ELSE "ready"]
<1>1. /\ run.at = "loop" /\ run.output = "none" /\ Take(Chunk) /\ run' = Decided(q)
      /\ UNCHANGED <<plan, child, heir, pipe, ready, pump, feed, held, sup, exit, control,
                     guest, rel>>
  BY DEF RunDrain
<1>2. /\ plan.edition = "run" /\ rel = "no" /\ ~held /\ ~guest.eof /\ guest.read = <<>>
      /\ run.answer # "data" /\ Kept
  BY <1>1 DEF StreamInv, Editions, Kept
<1>3. /\ DOMAIN q = DOMAIN run /\ q.at = "loop" /\ q.bytes = b /\ q.answer = run.answer
      /\ q.output \in {"over", "ok", "none"} /\ (q.output = "ok" => TakeEof(Chunk))
  <2> HIDE DEF b
  <2> QED BY <1>1 DEF StreamInv, Shape
<1> HIDE DEF q
<1>4. /\ DOMAIN run' = DOMAIN run /\ run'.bytes = b /\ run'.answer = run.answer
      /\ run'.output = q.output /\ run'.at \in {"loop", "cut", "finish"}
      /\ run'.at = "finish" => run'.output = "ok"
  <2> HIDE DEF b
  <2> QED BY <1>1, <1>3 DEF StreamInv, Shape, Decided
<1>5. Kept' /\ Holding' = Holding \o FirstN(ring["out"].data, Chunk) /\ child'.out = child.out
  BY <1>1, <1>2, <1>4 DEF Kept, Holding
<1>6. /\ Output'
      /\ ring["out"].data = <<>> \/ TakeEof(Chunk) => ring'["out"].data = <<>>
      /\ ring'["out"].closed = ring["out"].closed /\ ring'["in"] = ring["in"]
      /\ DOMAIN ring' = {"in", "out"} /\ DOMAIN ring'["out"] = {"data", "closed"}
      /\ DOMAIN space' = {"in", "out"} /\ space'["in"] = space["in"] /\ pump.at # "cut"
      /\ (ring["out"].data # <<>> \/ space["out"] => space'["out"])
  BY <1>1, <1>2, <1>5, TakeKeeps, Zenon
<1> HIDE DEF b
<1>7. Shape'
  BY <1>1, <1>4, <1>6 DEF StreamInv, Shape
<1>8. Editions'
  BY <1>1, <1>2, <1>4 DEF StreamInv, Editions
<1>9. Pumping'
  <2>1. run'.output = "ok" => Drained'
    BY <1>1, <1>2, <1>3, <1>4, <1>6 DEF StreamInv, Pumping, Drained, AllClosed, TakeEof
  <2> QED BY <1>1, <1>2, <1>6, <2>1 DEF StreamInv, Pumping, AllClosed
<1>10. Sleeping'
  BY <1>1, <1>6 DEF StreamInv, Sleeping, Output
<1>11. InputAsWas
  BY <1>1, <1>6 DEF InputAsWas
<1> QED BY <1>6, <1>7, <1>8, <1>9, <1>10, <1>11, InputStays DEF StreamInv

LEMMA PumpReadStep ==
    ASSUME StreamInv, PumpRead
    PROVE  StreamInv'
<1>0. /\ pump.at = "read" /\ pump.chunk = <<>> /\ Chunk \in Nat /\ ~(guest.eof \/ run.output = "ok")
      /\ UNCHANGED <<plan, child, heir, ring, space, ready, feed, held, sup, exit, control,
                     guest, rel, run, story>>
  BY ProcessAssumption DEF PumpRead, StreamInv, Pumping, Drained
<1>1. CASE /\ pipe # <<>> /\ pipe' = AfterN(pipe, Chunk)
           /\ pump' = [pump EXCEPT !.at = "offer", !.chunk = FirstN(pipe, Chunk)]
  <2>1. /\ DOMAIN pump' = DOMAIN pump /\ pump'.at = "offer" /\ pump'.torn = pump.torn
        /\ pump'.chunk = FirstN(pipe, Chunk)
    BY <1>1 DEF StreamInv, Shape
  <2>2. Shape' /\ Editions'
    BY <1>0, <2>1 DEF StreamInv, Shape, Editions
  <2>3. Pumping'
    BY <1>0, <2>1 DEF StreamInv, Pumping
  <2>4. Sleeping'
    BY <1>0, <2>1 DEF StreamInv, Sleeping
  <2>5. InputAsWas
    BY <1>0 DEF InputAsWas
  <2>6. Output'
    <3>1. Holding' = Holding /\ Kept' = Kept
      BY <1>0 DEF Holding, Kept
    <3>2. pipe' \in Seq(Nat) /\ pump'.chunk \in Seq(Nat)
      BY <1>0, <1>1, <2>1, PartsAreSeqs DEF StreamInv, Output
    <3>3. Kept => Chain(Holding, ring["out"].data, pump'.chunk, pipe', child.out)
      BY <1>0, <1>1, <2>1, ChainPumped, Zenon DEF StreamInv, Output
    <3>4. pump'.at # "cut"
      BY <2>1
    <3> QED BY <1>0, <3>1, <3>2, <3>3, <3>4, Zenon DEF Output, StreamInv
  <2> QED BY <2>2, <2>3, <2>4, <2>5, <2>6, InputStays DEF StreamInv
<1>2. CASE /\ UNCHANGED pipe
           /\ \/ pipe = <<>> /\ ~Writers /\ pump' = [pump EXCEPT !.at = "close"]
              \/ pump' = [pump EXCEPT !.at = "close", !.torn = TRUE]
  <2>1. /\ DOMAIN pump' = DOMAIN pump /\ pump'.at = "close" /\ pump'.chunk = pump.chunk
    BY <1>2 DEF StreamInv, Shape
  <2>2. ~pump'.torn => pipe = <<>> /\ ~Writers
    BY <1>2 DEF StreamInv, Shape
  <2>3. Shape'
    BY <1>0, <2>1 DEF StreamInv, Shape
  <2>4. child.life # "unborn" /\ run.answer # "data"
    BY <1>0 DEF StreamInv, Editions, Pumping, Drained
  <2>5. Editions'
    BY <1>0, <2>1, <2>4 DEF StreamInv, Editions
  <2>6. Pumping'
    BY <1>0, <1>2, <2>1, <2>2, <2>4 DEF StreamInv, Pumping, AllClosed, Writers
  <2>7. Sleeping'
    BY <1>0, <2>1 DEF StreamInv, Sleeping
  <2>8. InputAsWas /\ OutputAsWas
    BY <1>0, <1>2, <2>1 DEF InputAsWas, OutputAsWas, Kept, Holding
  <2> QED BY <2>3, <2>5, <2>6, <2>7, <2>8, InputStays, OutputStays DEF StreamInv
<1> QED BY <1>1, <1>2 DEF PumpRead

LEMMA PumpOfferStep ==
    ASSUME StreamInv, PumpOffer
    PROVE  StreamInv'
<1> DEFINE n == Room("out")
           d == ring["out"].data
           c == pump.chunk
<1>1. /\ n \in Nat /\ (ring["out"].closed => n = 0) /\ (~ring["out"].closed => n = RingCap - Len(d))
      /\ Len(d) \in Nat /\ d \in Seq(Nat) /\ c \in Seq(Nat) /\ Len(c) \in Nat /\ RingCap \in Nat
  <2>1. RingCap \in Nat /\ d \in Seq(Nat) /\ Len(d) <= RingCap /\ c \in Seq(Nat)
    BY ProcessAssumption DEF StreamInv, Output
  <2>2. Len(d) \in Nat /\ Len(c) \in Nat
    BY <2>1
  <2>3. n = IF ring["out"].closed THEN 0 ELSE RingCap - Len(d)
    BY DEF Room
  <2> HIDE DEF n, d, c
  <2> QED BY <2>1, <2>2, <2>3
<1>2. /\ ring'["out"].data = d \o FirstN(c, n) /\ ring'["out"].closed = ring["out"].closed
      /\ ring'["in"] = ring["in"] /\ DOMAIN ring' = {"in", "out"}
      /\ DOMAIN ring'["out"] = {"data", "closed"}
      /\ DOMAIN pump' = DOMAIN pump /\ pump'.torn = pump.torn /\ pump'.chunk = AfterN(c, n)
      /\ pump'.at = IF Len(c) <= n THEN "read" ELSE "check"
      /\ pump.at = "offer"
      /\ UNCHANGED <<plan, child, heir, pipe, space, feed, held, sup, exit, control,
                     guest, rel, run, story>>
  <2> HIDE DEF n
  <2> QED BY DEF PumpOffer, StreamInv, Shape, n
<1>3. /\ ~(guest.eof \/ run.output = "ok") /\ child.life # "unborn" /\ run.answer # "data"
      /\ (ring["out"].closed => rel \notin {"no", "close"})
  BY <1>2 DEF StreamInv, Editions, Pumping, Drained
<1>4. Kept' = Kept /\ Holding' = Holding
  BY <1>2 DEF Kept, Holding
<1> HIDE DEF n, d, c
<1> DEFINE u == d \o FirstN(c, n)
           rest == AfterN(c, n)
<1>5. /\ u \in Seq(Nat) /\ rest \in Seq(Nat) /\ Len(u) <= Len(d) + n
      /\ (n < Len(c) => Len(u) = Len(d) + n) /\ (Len(c) <= n => rest = <<>>)
  <2> DEFINE f == FirstN(c, n)
  <2>2. f \in Seq(Nat) /\ Len(f) \in Nat /\ Len(f) = IF n < Len(c) THEN n ELSE Len(c)
    BY <1>1, PartsAreSeqs
  <2> HIDE DEF f
  <2>3. d \o f \in Seq(Nat) /\ Len(d \o f) = Len(d) + Len(f)
    <3>1. d \in Seq(Nat) /\ f \in Seq(Nat)
      BY <1>1, <2>2, Zenon
    <3> QED BY <3>1
  <2>4. Len(d \o f) <= Len(d) + n /\ (n < Len(c) => Len(d \o f) = Len(d) + n)
    BY <1>1, <2>2, <2>3
  <2>5. rest \in Seq(Nat) /\ (Len(c) <= n => rest = <<>>)
    BY <1>1, PartsAreSeqs
  <2> QED BY <2>3, <2>4, <2>5 DEF f
<1>6. Kept => Chain(Holding, u, rest, pipe, child.out) /\ pump.at # "cut"
  BY <1>1, ChainOffered, Zenon DEF StreamInv, Output, d, c
<1>7. Len(u) \in Nat /\ Len(u) <= RingCap
  <2> HIDE DEF u
  <2>1. Len(u) \in Nat
    BY <1>5
  <2>2. n + Len(d) <= RingCap
    <3>1. Len(d) <= RingCap
      BY DEF StreamInv, Output, d
    <3> QED BY <1>1, <3>1
  <2> QED BY <1>1, <1>5, <2>1, <2>2
<1>8. ~(Len(c) <= n) => ring["out"].closed \/ Len(u) = RingCap
  <2> HIDE DEF u
  <2> QED BY <1>1, <1>5
<1>9. Shape'
  BY <1>2 DEF StreamInv, Shape
<1>10. Editions'
  BY <1>2, <1>3 DEF StreamInv, Editions
<1>11. Output'
  <2>1. ring'["out"].data = u /\ pump'.chunk = rest /\ pump'.at # "cut"
    BY <1>2
  <2> HIDE DEF u, rest
  <2> QED BY <1>2, <1>4, <1>5, <1>6, <1>7, <2>1, Zenon DEF StreamInv, Output
<1>12. Pumping'
  <2>1. pump'.at \in {"read", "check"} /\ (pump'.at = "read" => pump'.chunk = <<>>)
    BY <1>2, <1>5
  <2> QED BY <1>2, <1>3, <2>1 DEF StreamInv, Pumping
<1>13. Sleeping'
  <2>1. pump'.at = "check" => ring["out"].closed \/ Len(ring'["out"].data) = RingCap
    BY <1>2, <1>8
  <2>2. pump'.at \in {"read", "check"}
    BY <1>2
  <2> QED BY <1>1, <1>2, <2>1, <2>2 DEF StreamInv, Sleeping
<1>14. InputAsWas
  BY <1>2 DEF InputAsWas
<1> QED BY <1>9, <1>10, <1>11, <1>12, <1>13, <1>14, InputStays DEF StreamInv

LEMMA FeedTakeStep ==
    ASSUME StreamInv, FeedTake
    PROVE  StreamInv'
<1> DEFINE d == ring["in"].data
<1>1. /\ feed.at = "take" /\ ring'["in"].data = AfterN(d, Chunk)
      /\ ring'["in"].closed = ring["in"].closed /\ ring'["out"] = ring["out"]
      /\ DOMAIN ring' = {"in", "out"} /\ DOMAIN ring'["in"] = {"data", "closed"}
      /\ feed'.chunk = FirstN(d, Chunk) /\ DOMAIN feed' = {"at", "chunk"}
      /\ feed'.at = IF d # <<>> THEN "write" ELSE IF ring["in"].closed THEN "shutdown" ELSE "idle"
      /\ UNCHANGED <<plan, child, heir, pipe, space, ready, pump, held, sup, exit, control,
                     guest, rel, run, story>>
  BY DEF FeedTake, StreamInv, Shape
<1>2. /\ d \in Seq(Nat) /\ Len(d) <= RingCap /\ Chunk \in Nat /\ RingCap \in Nat
      /\ feed.chunk = <<>> /\ ~child.eof /\ child.life # "unborn"
      /\ Chain(child.got, feed.chunk, d, <<>>, guest.wrote)
  BY <1>1, ProcessAssumption DEF StreamInv, Input, Editions
<1> HIDE DEF d
<1>3. /\ FirstN(d, Chunk) \in Seq(Nat) /\ AfterN(d, Chunk) \in Seq(Nat)
      /\ d = <<>> => FirstN(d, Chunk) = <<>> /\ AfterN(d, Chunk) = <<>>
  <2>1. /\ FirstN(d, Chunk) \in Seq(Nat) /\ AfterN(d, Chunk) \in Seq(Nat)
        /\ Len(FirstN(d, Chunk)) = IF Chunk < Len(d) THEN Chunk ELSE Len(d)
        /\ Len(d) <= Chunk => AfterN(d, Chunk) = <<>>
    BY <1>2, PartsAreSeqs
  <2>2. d = <<>> => Len(d) = 0
    OBVIOUS
  <2>3. d = <<>> => Len(FirstN(d, Chunk)) = 0 /\ Len(d) <= Chunk
    BY <1>2, <2>1, <2>2
  <2>4. d = <<>> => FirstN(d, Chunk) = <<>>
    BY <2>1, <2>3
  <2> QED BY <2>1, <2>3, <2>4
<1>4. Chain(child.got, feed'.chunk, ring'["in"].data, <<>>, guest.wrote)
      /\ Len(ring'["in"].data) <= RingCap
  <2>1. Chain(child.got, feed.chunk \o FirstN(d, Chunk), AfterN(d, Chunk), <<>>, guest.wrote)
    BY <1>2, ChainOffered, Zenon
  <2>2. feed.chunk \o FirstN(d, Chunk) = FirstN(d, Chunk)
    BY <1>2, EmptyFirst, Zenon
  <2>3. Len(AfterN(d, Chunk)) <= Len(d)
    <3>1. Len(AfterN(d, Chunk)) = IF Chunk < Len(d) THEN Len(d) - Chunk ELSE 0
      <4>1. CASE Chunk < Len(d)
        BY <1>2, <4>1 DEF AfterN
      <4>2. CASE ~(Chunk < Len(d))
        <5>1. AfterN(d, Chunk) = <<>>
          BY <1>2, <4>2, PartsAreSeqs
        <5> QED BY <4>2, <5>1
      <4> QED BY <4>1, <4>2
    <3>2. Len(d) \in Nat
      BY <1>2
    <3> QED BY <1>2, <3>1, <3>2
  <2>4. Len(AfterN(d, Chunk)) <= RingCap
    <3>1. Len(d) \in Nat /\ Len(AfterN(d, Chunk)) \in Nat
      BY <1>2, <1>3
    <3> QED BY <1>2, <2>3, <3>1
  <2> QED BY <1>1, <2>1, <2>2, <2>4, Zenon
<1>5. Input'
  <2>1. ring'["in"].data \in Seq(Nat) /\ feed'.chunk \in Seq(Nat)
    BY <1>1, <1>3
  <2>2. /\ feed'.at # "write" => feed'.chunk = <<>>
        /\ feed'.at = "shutdown" => ring'["in"].closed /\ ring'["in"].data = <<>>
        /\ feed'.at # "done"
    BY <1>1, <1>3
  <2> QED BY <1>1, <1>2, <1>4, <2>1, <2>2, Zenon DEF StreamInv, Input
<1>6. Shape'
  BY <1>1 DEF StreamInv, Shape
<1>7. Editions' /\ Pumping'
  BY <1>1, <1>2 DEF StreamInv, Editions, Pumping, Kept, AllClosed, Drained
<1>8. Sleeping'
  <2>1. feed'.at = "idle" => ~ring'["in"].closed /\ ring'["in"].data = <<>>
    BY <1>1, <1>3
  <2> QED BY <1>1, <2>1 DEF StreamInv, Sleeping
<1>9. OutputAsWas
  BY <1>1 DEF OutputAsWas, Kept, Holding
<1> QED BY <1>5, <1>6, <1>7, <1>8, <1>9, OutputStays DEF StreamInv

LEMMA FeedWriteStep ==
    ASSUME StreamInv, FeedWrite
    PROVE  StreamInv'
<1>1. /\ feed.at = "write" /\ feed'.chunk = <<>> /\ DOMAIN feed' = {"at", "chunk"}
      /\ UNCHANGED <<plan, heir, pipe, space, ready, pump, held, sup, exit, control, guest,
                     rel, run, story>>
  <2>1. feed'.chunk = <<>> /\ DOMAIN feed' = {"at", "chunk"}
    <3>1. CASE child.life = "alive"
      BY <3>1 DEF FeedWrite
    <3>2. CASE child.life # "alive"
      BY <3>2 DEF FeedWrite
    <3> QED BY <3>1, <3>2
  <2> QED BY <2>1, Zenon DEF FeedWrite
<1>2. /\ Chain(child.got, feed.chunk, ring["in"].data, <<>>, guest.wrote)
      /\ ~child.eof /\ ring["in"].data \in Seq(Nat) /\ Len(ring["in"].data) <= RingCap
      /\ child.life # "unborn" /\ Span(child.got, 0) /\ Len(child.got) <= guest.wrote
      /\ guest.wrote \in Nat
  BY <1>1 DEF StreamInv, Input, Editions
<1>3. CASE child.life = "alive"
  <2>1. /\ child'.got = child.got \o feed.chunk /\ feed'.at = "take" /\ ring' = ring
        /\ DOMAIN child' = DOMAIN child /\ child'.eof = child.eof /\ child'.life = child.life
        /\ child'.out = child.out
    BY <1>3 DEF FeedWrite, StreamInv, Shape
  <2>2. Chain(child'.got, <<>>, ring["in"].data, <<>>, guest.wrote)
    BY <1>2, <2>1, ChainGiven, Zenon
  <2>3. Span(child'.got, 0) /\ Len(child'.got) <= guest.wrote /\ <<>> \in Seq(Nat)
    BY <2>2, ChainTypes, Zenon
  <2>4. Input'
    BY <1>1, <1>2, <2>1, <2>2, <2>3, Zenon DEF StreamInv, Input
  <2>5. Shape'
    BY <1>1, <2>1 DEF StreamInv, Shape
  <2>6. Editions' /\ Pumping'
    BY <1>1, <1>2, <2>1 DEF StreamInv, Editions, Pumping, Kept, AllClosed, Drained
  <2>7. Sleeping'
    BY <1>1, <2>1 DEF StreamInv, Sleeping
  <2>8. OutputAsWas
    BY <1>1, <2>1 DEF OutputAsWas, Kept, Holding
  <2> QED BY <2>4, <2>5, <2>6, <2>7, <2>8, OutputStays DEF StreamInv
<1>4. CASE child.life # "alive"
  <2>1. /\ child' = child /\ feed'.at = "done" /\ ring'["out"] = ring["out"]
        /\ ring'["in"].data = ring["in"].data /\ ring'["in"].closed
        /\ DOMAIN ring' = {"in", "out"} /\ DOMAIN ring'["in"] = {"data", "closed"}
    BY <1>4 DEF FeedWrite, StreamInv, Shape
  <2>2. <<>> \in Seq(Nat)
    OBVIOUS
  <2>3. Input'
    BY <1>1, <1>2, <2>1, <2>2, Zenon DEF StreamInv, Input
  <2>4. Shape'
    BY <1>1, <2>1 DEF StreamInv, Shape
  <2>5. Editions' /\ Pumping'
    BY <1>1, <1>2, <2>1 DEF StreamInv, Editions, Pumping, Kept, AllClosed, Drained
  <2>6. Sleeping'
    BY <1>1, <2>1 DEF StreamInv, Sleeping
  <2>7. OutputAsWas
    BY <1>1, <2>1 DEF OutputAsWas, Kept, Holding
  <2> QED BY <2>3, <2>4, <2>5, <2>6, <2>7, OutputStays DEF StreamInv
<1> QED BY <1>3, <1>4

LEMMA FeedWakesStep ==
    ASSUME StreamInv, FeedWakes
    PROVE  StreamInv'
<1>1. /\ feed.at = "idle" /\ feed'.at = "take" /\ feed'.chunk = feed.chunk
      /\ DOMAIN feed' = DOMAIN feed /\ DOMAIN space' = DOMAIN space /\ space'["out"] = space["out"]
      /\ UNCHANGED <<plan, child, heir, pipe, ring, ready, pump, held, sup, exit, control,
                     guest, rel, run, story>>
  BY DEF FeedWakes, StreamInv, Shape
<1>2. Input'
  <2>1. ~child.eof /\ feed'.at \notin {"done", "write", "shutdown"}
    BY <1>1 DEF StreamInv, Input
  <2> QED BY <1>1, <2>1, Zenon DEF StreamInv, Input
<1>3. Shape'
  BY <1>1 DEF StreamInv, Shape
<1>4. Editions' /\ Pumping'
  BY <1>1 DEF StreamInv, Editions, Pumping, Kept, AllClosed, Drained
<1>5. Sleeping'
  BY <1>1 DEF StreamInv, Sleeping
<1>6. OutputAsWas
  BY <1>1 DEF OutputAsWas, Kept, Holding
<1> QED BY <1>2, <1>3, <1>4, <1>5, <1>6, OutputStays DEF StreamInv

LEMMA FeedShutdownStep ==
    ASSUME StreamInv, FeedShutdown
    PROVE  StreamInv'
<1>1. /\ feed.at = "shutdown" /\ feed'.at = "done" /\ feed'.chunk = feed.chunk
      /\ DOMAIN feed' = DOMAIN feed /\ DOMAIN child' = DOMAIN child /\ child'.got = child.got
      /\ child'.out = child.out /\ child'.life = child.life
      /\ UNCHANGED <<plan, heir, pipe, ring, space, ready, pump, held, sup, exit, control,
                     guest, rel, run, story>>
  BY DEF FeedShutdown, StreamInv, Shape
<1>2. Input'
  <2>1. feed.at # "done" /\ feed.chunk = <<>> /\ feed'.at # "shutdown"
    BY <1>1 DEF StreamInv, Input
  <2> QED BY <1>1, <2>1, Zenon DEF StreamInv, Input
<1>3. Shape'
  BY <1>1 DEF StreamInv, Shape
<1>4. Editions' /\ Pumping'
  BY <1>1 DEF StreamInv, Editions, Pumping, Kept, AllClosed, Drained
<1>5. Sleeping'
  BY <1>1 DEF StreamInv, Sleeping
<1>6. OutputAsWas
  BY <1>1 DEF OutputAsWas, Kept, Holding
<1> QED BY <1>2, <1>3, <1>4, <1>5, <1>6, OutputStays DEF StreamInv

LEMMA WriteStdinStep ==
    ASSUME StreamInv, WriteStdin
    PROVE  StreamInv'
<1> DEFINE d == ring["in"].data
           n == Len(FirstN(<<1>>, Room("in")))
           w == guest.wrote
<1>1. /\ held /\ run.at = "spawned" /\ ~ring["in"].closed
      /\ ring'["in"].data = d \o FirstN(<<w + 1>>, n) /\ guest'.wrote = w + n
      /\ ring'["in"].closed = ring["in"].closed /\ ring'["out"] = ring["out"]
      /\ DOMAIN ring' = {"in", "out"} /\ DOMAIN ring'["in"] = {"data", "closed"}
      /\ DOMAIN guest' = DOMAIN guest /\ guest'.read = guest.read /\ guest'.eof = guest.eof
      /\ DOMAIN space' = {"in", "out"} /\ space'["out"] = space["out"] /\ space'["in"]
      /\ UNCHANGED <<plan, child, heir, pipe, ready, pump, feed, held, sup, exit, control,
                     rel, run, story>>
  <2> HIDE DEF n
  <2> QED BY DEF WriteStdin, Serves, StreamInv, Shape, n
<1>2. /\ d \in Seq(Nat) /\ Len(d) <= RingCap /\ RingCap \in Nat /\ w \in Nat /\ Len(d) \in Nat
      /\ Room("in") = RingCap - Len(d) /\ Room("in") \in Nat
  <2>1. d \in Seq(Nat) /\ Len(d) <= RingCap /\ RingCap \in Nat /\ w \in Nat
    BY ProcessAssumption DEF StreamInv, Input
  <2>2. Len(d) \in Nat /\ Room("in") = RingCap - Len(d)
    BY <1>1, <2>1 DEF Room
  <2> HIDE DEF d
  <2> QED BY <2>1, <2>2
<1>3. /\ Room("in") > 0 => n = 1 /\ FirstN(<<w + 1>>, n) = <<w + 1>>
      /\ Room("in") = 0 => n = 0 /\ FirstN(<<w + 1>>, n) = <<>>
  <2>1. FirstN(<<w + 1>>, 1) = <<w + 1>> /\ FirstN(<<w + 1>>, 0) = <<>>
    BY <1>2, OneByte
  <2>2. Room("in") > 0 => FirstN(<<1>>, Room("in")) = <<1>>
    BY <1>2, OneByte
  <2>3. Room("in") = 0 => FirstN(<<1>>, Room("in")) = <<>>
    BY <1>2, OneByte
  <2>4. (Room("in") > 0 => n = 1) /\ (Room("in") = 0 => n = 0)
    BY <2>2, <2>3
  <2> HIDE DEF n
  <2> QED BY <2>1, <2>4
<1> HIDE DEF n
<1>4. Input'
  <2>1. CASE Room("in") = 0
    <3>1. d \o <<>> = d /\ w + 0 = w
      BY <1>2
    <3>2. ring'["in"].data = ring["in"].data /\ guest'.wrote = guest.wrote
      BY <1>1, <1>3, <2>1, <3>1
    <3> QED BY <1>1, <3>2, InputStays DEF InputAsWas, StreamInv
  <2>2. CASE Room("in") > 0
    <3>1. ring'["in"].data = Append(d, w + 1) /\ guest'.wrote = w + 1
      <4>1. ring'["in"].data = d \o <<w + 1>> /\ guest'.wrote = w + 1
        BY <1>1, <1>3, <2>2
      <4>2. d \o <<w + 1>> = Append(d, w + 1)
        BY <1>2
      <4> QED BY <4>1, <4>2
    <3>2. /\ Append(d, w + 1) \in Seq(Nat) /\ Len(Append(d, w + 1)) <= RingCap /\ w + 1 \in Nat
      <4>1. Append(d, w + 1) \in Seq(Nat) /\ Len(Append(d, w + 1)) = Len(d) + 1
        BY <1>2
      <4> QED BY <1>2, <2>2, <4>1
    <3>3. Len(child.got) <= w + 1
      <4>1. Len(child.got) \in Nat /\ Len(child.got) <= w
        BY DEF StreamInv, Input, Span
      <4> QED BY <1>2, <4>1
    <3>4. feed.at # "done" => Chain(child.got, feed.chunk, Append(d, w + 1), <<>>, w + 1)
      BY ChainFed, Zenon DEF StreamInv, Input
    <3>5. feed.at # "shutdown" /\ ~child.eof
      BY <1>1, Zenon DEF StreamInv, Input
    <3> HIDE DEF d, w
    <3> QED BY <1>1, <3>1, <3>2, <3>3, <3>4, <3>5, Zenon DEF StreamInv, Input
  <2> QED BY <1>2, <2>1, <2>2
<1>5. Shape'
  BY <1>1 DEF StreamInv, Shape
<1>6. Editions' /\ Pumping'
  BY <1>1 DEF StreamInv, Editions, Pumping, Kept, AllClosed, Drained
<1>7. Sleeping'
  BY <1>1 DEF StreamInv, Sleeping
<1>8. OutputAsWas
  BY <1>1 DEF OutputAsWas, Kept, Holding
<1> QED BY <1>4, <1>5, <1>6, <1>7, <1>8, OutputStays DEF StreamInv

LEMMA SpawnStep ==
    ASSUME StreamInv, Spawn
    PROVE  StreamInv'
<1>1. Shape'
  BY DEF StreamInv, Shape, Spawn
<1>2. Editions'
  BY DEF StreamInv, Editions, Shape, Spawn
<1>3. Pumping'
  BY DEF StreamInv, Pumping, Shape, Kept, Editions, AllClosed, Drained, Spawn
<1>4. Sleeping'
  BY DEF StreamInv, Sleeping, Shape, Spawn
<1>5. OutputAsWas
  BY DEF StreamInv, Shape, Editions, Kept, Holding, OutputAsWas, Spawn
<1>6. Input'
  <2>1. /\ feed.at = "off" /\ feed'.at = "take" /\ feed'.chunk = feed.chunk
        /\ child'.got = child.got /\ child'.eof = child.eof /\ UNCHANGED <<ring, guest>>
    BY DEF StreamInv, Shape, Editions, Spawn
  <2>2. ~child.eof /\ feed.at # "done" /\ feed'.at # "shutdown" /\ feed.chunk = <<>>
    BY <2>1 DEF StreamInv, Input
  <2> QED BY <2>1, <2>2, Zenon DEF StreamInv, Input
<1> QED BY <1>1, <1>2, <1>3, <1>4, <1>5, <1>6, OutputStays DEF StreamInv

LEMMA RunExitStep ==
    ASSUME StreamInv, RunExit \/ RunExitFails
    PROVE  StreamInv'
<1>1. /\ run.at = "loop"
      /\ UNCHANGED <<plan, heir, pipe, ring, space, ready, pump, feed, held, sup, exit, control,
                     guest, rel>>
  BY DEF RunExit, RunExitFails
<1>2. /\ child'.life = child.life \/ (child.life = "zombie" /\ child'.life = "reaped")
      /\ DOMAIN child' = DOMAIN child
      /\ child'.out = child.out /\ child'.got = child.got /\ child'.eof = child.eof
  BY DEF RunExit, RunExitFails, StreamInv, Shape
<1>3. /\ DOMAIN run' = DOMAIN run /\ run'.bytes = run.bytes /\ run'.answer = run.answer
      /\ run'.output = run.output /\ run'.at \in {"loop", "cut", "finish"}
      /\ run'.at = "finish" => run'.output = "ok"
  <2>1. \E v : run' = Decided([run EXCEPT !.exit = v])
    BY Zenon DEF RunExit, RunExitFails
  <2>2. PICK v : run' = Decided([run EXCEPT !.exit = v])
    BY <2>1
  <2> DEFINE q == [run EXCEPT !.exit = v]
  <2>3. /\ DOMAIN q = DOMAIN run /\ q.at = "loop" /\ q.bytes = run.bytes
        /\ q.answer = run.answer /\ q.output = run.output
    BY <1>1 DEF StreamInv, Shape
  <2>4. run' = Decided(q)
    BY <2>2
  <2> HIDE DEF q
  <2> QED BY <2>3, <2>4 DEF StreamInv, Shape, Decided
<1>4. Shape'
  BY <1>1, <1>2, <1>3 DEF StreamInv, Shape
<1>5. Editions'
  BY <1>1, <1>2, <1>3 DEF StreamInv, Editions
<1>6. Pumping'
  BY <1>1, <1>2, <1>3 DEF StreamInv, Pumping, Editions, Kept, AllClosed, Drained
<1>7. Sleeping'
  BY <1>1 DEF StreamInv, Sleeping
<1>8. OutputAsWas
  BY <1>1, <1>2, <1>3 DEF StreamInv, Editions, OutputAsWas, Kept, Holding
<1>9. InputAsWas
  BY <1>1, <1>2 DEF InputAsWas
<1> QED BY <1>4, <1>5, <1>6, <1>7, <1>8, <1>9, OutputStays, InputStays DEF StreamInv

LEMMA RunReapStep ==
    ASSUME StreamInv, RunReap
    PROVE  StreamInv'
<1>1. /\ run.at = "reap" /\ run'.at = "done" /\ DOMAIN run' = DOMAIN run
      /\ run'.bytes = run.bytes /\ run'.answer = run.answer /\ run'.output = run.output
      /\ UNCHANGED <<plan, heir, pipe, ring, space, ready, pump, feed, held, sup, exit, control,
                     guest, rel>>
  BY DEF RunReap, StreamInv, Shape
<1>2. /\ child.life # "unborn" /\ child'.life # "unborn" /\ DOMAIN child' = DOMAIN child
      /\ (child.life \notin {"unborn", "alive"} => child'.life \notin {"unborn", "alive"})
      /\ child'.out = child.out /\ child'.got = child.got /\ child'.eof = child.eof
  BY <1>1 DEF RunReap, Reaped, StreamInv, Shape, Editions
<1>3. Shape'
  BY <1>1, <1>2 DEF StreamInv, Shape
<1>4. Editions'
  BY <1>1, <1>2 DEF StreamInv, Editions
<1>5. Pumping'
  BY <1>1, <1>2 DEF StreamInv, Pumping, Editions, Kept, AllClosed, Drained
<1>6. Sleeping'
  BY <1>1 DEF StreamInv, Sleeping
<1>7. OutputAsWas
  BY <1>1, <1>2 DEF StreamInv, Editions, OutputAsWas, Kept, Holding
<1>8. InputAsWas
  BY <1>1, <1>2 DEF InputAsWas
<1> QED BY <1>3, <1>4, <1>5, <1>6, <1>7, <1>8, OutputStays, InputStays DEF StreamInv

LEMMA RunCutStep ==
    ASSUME StreamInv, RunCut
    PROVE  StreamInv'
<1>1. Shape'
  BY DEF StreamInv, Shape, RunCut
<1>2. Editions'
  BY DEF StreamInv, Editions, Shape, RunCut
<1>3. Pumping'
  BY DEF StreamInv, Pumping, Shape, Kept, Editions, AllClosed, Drained, RunCut
<1>4. Sleeping'
  BY DEF StreamInv, Sleeping, Shape, RunCut
<1>5. Output'
  <2>1. ~Kept' /\ Holding' = Holding /\ child' = child
    BY DEF StreamInv, Shape, Editions, Kept, Holding, RunCut
  <2>2. ring'["out"].data = ring["out"].data /\ pump'.chunk = <<>> /\ pipe' = <<>>
    BY DEF StreamInv, Shape, RunCut
  <2>3. <<>> \in Seq(Nat)
    OBVIOUS
  <2> QED BY <2>1, <2>2, <2>3, Zenon DEF StreamInv, Output
<1>6. InputAsWas
  BY DEF StreamInv, Shape, InputAsWas, RunCut
<1> QED BY <1>1, <1>2, <1>3, <1>4, <1>5, <1>6, InputStays DEF StreamInv

-----------------------------------------------------------------------------
(* The streams are whole *)

LEMMA StreamInvHolds ==
    ProcessInit /\ [][ProcessNext]_pvars => []StreamInv
<1>1. ProcessInit => StreamInv
  <2> SUFFICES ASSUME ProcessInit PROVE StreamInv
    OBVIOUS
  <2>1. Shape /\ Pumping /\ Sleeping
    BY DEF ProcessInit, NewStream, Shape, Pumping, Sleeping
  <2>2. Editions
    BY ProcessAssumption DEF ProcessInit, PlanType, Editions
  <2>3. Chain(<<>>, <<>>, <<>>, <<>>, 0)
    BY DEF Chain, Span
  <2>4. /\ Holding = <<>> /\ ring["out"].data = <<>> /\ ring["in"].data = <<>> /\ pipe = <<>>
        /\ pump.chunk = <<>> /\ feed.chunk = <<>> /\ child.got = <<>> /\ child.out = 0
        /\ guest.wrote = 0 /\ pump.at = "off" /\ feed.at = "off" /\ ~child.eof
    BY DEF ProcessInit, NewStream, Holding
  <2>5. /\ <<>> \in Seq(Nat) /\ Len(<<>>) <= RingCap /\ 0 \in Nat
        /\ Len(<<>>) <= 0 /\ Span(<<>>, 0)
    BY ProcessAssumption DEF Span
  <2>6. Output
    BY <2>3, <2>4, <2>5 DEF Output
  <2>7. Input
    BY <2>3, <2>4, <2>5 DEF Input
  <2> QED BY <2>1, <2>2, <2>6, <2>7 DEF StreamInv
<1>2. StreamInv /\ [ProcessNext]_pvars => StreamInv'
  <2> SUFFICES ASSUME StreamInv, [ProcessNext]_pvars PROVE StreamInv'
    OBVIOUS
  <2>1. CASE Outside \/ ChildKilled
    BY <2>1, ChildWritesStep, ChildExitsStep, ChildKilledStep, HeirEndsStep, SuperviseStep,
       RunExitStep, Zenon DEF Outside
  <2>2. CASE Guest
    BY <2>2, SpawnStep, WriteStdinStep, CloseStdinStep, ReadStep, KillStep, WithdrawStep,
       RunStartStep, RunCancelStep, Zenon DEF Guest
  <2>3. CASE Timers
    BY <2>3, ReleaseEndsStep, RunBoundStep, RunReapStep, Zenon DEF Timers
  <2>4. CASE Streams
    BY <2>4, PumpReadStep, PumpOfferStep, PumpCheckStep, PumpWakesStep, PumpCloseStep,
       FeedTakeStep, FeedWriteStep, FeedWakesStep, FeedShutdownStep, Zenon DEF Streams
  <2>5. CASE Children
    BY <2>5, SpawnRowStep, SuperviseStep, ExitRowStep, ExitSendStep, KillRowStep,
       ReleaseStreamsStep, ReleaseSignalStep, Zenon DEF Children
  <2>6. CASE OneShot
    BY <2>6, RunExitStep, RunDrainStep, RunReadyStep, RunFinishStep, RunCutStep, RunSettleStep,
       RunKillStep, DetachedReapStep, Zenon DEF OneShot
  <2>7. CASE UNCHANGED pvars
    <3>1. /\ UNCHANGED <<plan, child, heir, pipe, ring, space, ready, pump, feed, held>>
          /\ UNCHANGED <<sup, exit, control, guest, rel, run, story>>
      BY <2>7, Zenon DEF pvars
    <3>2. Shape' /\ Editions' /\ Pumping' /\ Sleeping'
      BY <3>1 DEF StreamInv, Shape, Editions, Pumping, Sleeping, Kept, AllClosed, Drained
    <3>3. OutputAsWas /\ InputAsWas
      BY <3>1 DEF OutputAsWas, InputAsWas, Kept, Holding
    <3> QED BY <3>2, <3>3, OutputStays, InputStays DEF StreamInv
  <2> QED BY <2>1, <2>2, <2>3, <2>4, <2>5, <2>6, <2>7, Zenon DEF ProcessNext
<1> QED BY <1>1, <1>2, PTL

LEMMA StreamsFollow ==
    ASSUME StreamInv
    PROVE  StreamsAreWhole
<1>1. /\ child.out \in Nat /\ Span(Holding, 0) /\ Len(Holding) <= child.out
      /\ guest.wrote \in Nat /\ Span(child.got, 0) /\ Len(child.got) <= guest.wrote
      /\ ring["out"].data \in Seq(Nat) /\ RingCap \in Nat
  BY ProcessAssumption DEF StreamInv, Output, Input
<1>2. /\ IsPrefix(Holding, Bytes(child.out)) /\ IsPrefix(child.got, Bytes(guest.wrote))
      /\ Len(Holding) = child.out => Holding = Bytes(child.out)
      /\ Len(child.got) = guest.wrote => child.got = Bytes(guest.wrote)
  BY <1>1, SpanIsBytes, Zenon
<1>3. IsPrefix(<<>>, Bytes(child.out))
  <2>1. Span(<<>>, 0) /\ Len(<<>>) <= child.out
    BY <1>1 DEF Span
  <2> QED BY <1>1, <2>1, SpanIsBytes, Zenon
<1>4. /\ plan.edition = "spawn" => Holding = guest.read /\ run.bytes = <<>> /\ run.answer # "data"
      /\ plan.edition # "spawn" => Holding = run.bytes /\ guest.read = <<>> /\ ~guest.eof
  BY DEF Holding, StreamInv, Editions
<1>5. Drained /\ ~pump.torn /\ Kept => Holding = Bytes(child.out) /\ ~Writers
  <2>1. Drained /\ ~pump.torn /\ Kept => Len(Holding) = child.out
    BY ChainTypes DEF StreamInv, Output, Drained
  <2>2. Drained /\ ~pump.torn => ~Writers
    BY DEF Drained, AllClosed, Writers
  <2> QED BY <1>2, <2>1, <2>2, Zenon
<1>6. guest.eof /\ ~pump.torn => guest.read = Bytes(child.out) /\ ~Writers
  BY <1>4, <1>5 DEF StreamInv, Pumping, Kept
<1>7. run.answer = "data" => run.bytes = Bytes(child.out) /\ ~Writers
  BY <1>4, <1>5 DEF StreamInv, Pumping, Editions, Kept
<1>8. child.eof => child.got = Bytes(guest.wrote)
  <2>1. child.eof => Len(child.got) = guest.wrote
    BY ChainTypes DEF StreamInv, Input
  <2> QED BY <1>2, <2>1, Zenon
<1>9. IsPrefix(guest.read, Bytes(child.out)) /\ IsPrefix(run.bytes, Bytes(child.out))
  BY <1>2, <1>3, <1>4, Zenon
<1>10. OutputIsWhole
  BY <1>2, <1>6, <1>7, <1>8, <1>9, Zenon DEF OutputIsWhole
<1>11. NobodySleepsOnWork
  <2>1. Len(ring["out"].data) \in Nat
    BY <1>1
  <2>2. Room("out") > 0 => ~ring["out"].closed /\ Len(ring["out"].data) < RingCap
    BY <1>1, <2>1 DEF Room
  <2> QED BY <2>2 DEF NobodySleepsOnWork, StreamInv, Sleeping
<1> QED BY <1>10, <1>11 DEF StreamsAreWhole

(* StreamsWhole: in every run of a child, for every plan of it and every ring,*)
(* pipe and chunk, a reader holds a prefix of what was written, an end it is  *)
(* told of is the end, and neither the pump nor the feeder sleeps on work     *)
(* without the permit that wakes it (stream.rs pump and feed, ring.rs take,   *)
(* Collector::finish).                                                        *)
THEOREM StreamsWhole ==
    ProcessInit /\ [][ProcessNext]_pvars => []StreamsAreWhole
<1>1. StreamInv => StreamsAreWhole
  BY StreamsFollow
<1> QED BY <1>1, StreamInvHolds, PTL

-----------------------------------------------------------------------------
(* The exit on the record *)

RowKind == {"Spawned", "Exited", "Unknown", "Killed", "Pending", "Truncated"}

(* One exit is on the record: of known code once the child was reaped, of     *)
(* unknown code once a wait failed, after which nobody waits any more.        *)
ExitInv ==
    /\ story \in Seq(RowKind) /\ plan.edition \in {"run", "spawn"}
    /\ DOMAIN child = {"life", "out", "got", "eof", "kill"}
    /\ DOMAIN run = {"at", "exit", "output", "drain", "bytes", "stop", "answer", "detached"}
    /\ child.life = "unborn" => run.at = "idle" /\ sup = "off"
    /\ plan.edition = "run" =>
          /\ sup = "off" /\ rel = "no" /\ ~exit /\ ~held /\ run.at # "spawning"
          /\ run.detached => run.at = "done"
          /\ Rows("Exited") = IF child.life = "reaped" THEN 1 ELSE 0
          /\ \/ Rows("Unknown") = 0
             \/ /\ Rows("Unknown") = 1
                /\ run.at = "done" /\ ~run.detached /\ child.life # "reaped"
    /\ plan.edition = "spawn" =>
          /\ run.at \in {"idle", "spawning", "spawned"} /\ ~run.detached
          /\ sup \in {"off", "select", "row", "lost", "send", "done"}
          /\ sup = "row" => child.life = "reaped"
          /\ sup \in {"off", "select", "row", "lost"} => Rows("Exited") = 0 /\ Rows("Unknown") = 0
          /\ sup \in {"send", "done"} =>
                \/ Rows("Exited") = 1 /\ Rows("Unknown") = 0 /\ child.life = "reaped"
                \/ Rows("Exited") = 0 /\ Rows("Unknown") = 1
          /\ exit => sup = "done"
          /\ rel = "ok" => exit

LEMMA RowAppended ==
    ASSUME story \in Seq(RowKind), NEW row \in RowKind, story' = Append(story, row),
           NEW what \in RowKind
    PROVE  /\ story' \in Seq(RowKind)
           /\ row # what => Rows(what)' = Rows(what)
           /\ row = what /\ Rows(what) = 0 => Rows(what)' = 1
<1> DEFINE S == {i \in DOMAIN story : story[i] = what}
           T == {i \in DOMAIN story' : story'[i] = what}
           k == Len(story) + 1
<1>1. /\ Len(story) \in Nat /\ DOMAIN story = 1..Len(story) /\ DOMAIN story' = 1..k
      /\ \A i \in 1..Len(story) : story'[i] = story[i]
      /\ story'[k] = row /\ story' \in Seq(RowKind)
  <2> DEFINE s == story
             t == story'
  <2>1. s \in Seq(RowKind) /\ t = Append(s, row)
    OBVIOUS
  <2> HIDE DEF s, t
  <2>2. /\ Len(s) \in Nat /\ DOMAIN s = 1..Len(s) /\ DOMAIN t = 1..(Len(s) + 1)
        /\ \A i \in 1..Len(s) : t[i] = s[i]
        /\ t[Len(s) + 1] = row /\ t \in Seq(RowKind)
    <3>1. Len(s) \in Nat /\ DOMAIN s = 1..Len(s) /\ t \in Seq(RowKind) /\ Len(t) = Len(s) + 1
      BY <2>1
    <3>2. DOMAIN t = 1..(Len(s) + 1)
      BY <3>1
    <3>3. (\A i \in 1..Len(s) : t[i] = s[i]) /\ t[Len(s) + 1] = row
      BY <2>1
    <3> QED BY <3>1, <3>2, <3>3
  <2> QED BY <2>2 DEF s, t
<1>2. Rows(what) = Cardinality(S) /\ Rows(what)' = Cardinality(T)
  BY Zenon DEF Rows
<1>3. row # what => T = S
  BY <1>1
<1>4. row = what /\ S = {} => T = {k}
  BY <1>1
<1>5. Cardinality(S) = 0 => S = {}
  <2>1. IsFiniteSet(S)
    <3>1. S \subseteq 1..Len(story)
      BY <1>1
    <3>2. IsFiniteSet(1..Len(story))
      BY <1>1, FS_Interval
    <3> QED BY <3>1, <3>2, FS_Subset
  <2> QED BY <2>1, FS_EmptySet
<1>6. Cardinality({k}) = 1
  BY FS_Singleton
<1> QED BY <1>1, <1>2, <1>3, <1>4, <1>5, <1>6, Zenon

LEMMA ExitInvHolds ==
    ProcessInit /\ [][ProcessNext]_pvars => []ExitInv
<1>1. ProcessInit => ExitInv
  <2> SUFFICES ASSUME ProcessInit PROVE ExitInv
    OBVIOUS
  <2>1. story = <<>> /\ Rows("Exited") = 0 /\ Rows("Unknown") = 0
    <3>1. /\ {i \in DOMAIN story : story[i] = "Exited"} = {}
          /\ {i \in DOMAIN story : story[i] = "Unknown"} = {}
      BY DEF ProcessInit
    <3> QED BY <3>1, FS_EmptySet DEF ProcessInit, Rows
  <2>2. plan.edition \in {"run", "spawn"}
    BY ProcessAssumption DEF ProcessInit, PlanType
  <2> QED BY <2>1, <2>2 DEF ProcessInit, ExitInv
<1>2. ASSUME ExitInv, [ProcessNext]_pvars PROVE ExitInv'
  <2> DEFINE Unmoved == story' \in Seq(RowKind) /\ Rows("Exited")' = Rows("Exited")
                     /\ Rows("Unknown")' = Rows("Unknown")
  <2>t. story \in Seq(RowKind) /\ {"Exited", "Unknown"} \subseteq RowKind
    BY <1>2 DEF ExitInv, RowKind
  <2>s. ASSUME UNCHANGED story PROVE Unmoved
    BY <2>s, <2>t DEF Rows
  <2>rest. ASSUME Append1("Spawned") \/ Append1("Killed") \/ Append1("Pending") \/ Append1("Truncated")
        PROVE  Unmoved
    <3>1. PICK row \in RowKind : /\ row # "Exited" /\ row # "Unknown"
                                 /\ story' = Append(story, row)
      BY <2>rest DEF Append1, RowKind
    <3> QED BY <2>t, <3>1, RowAppended, Zenon
  <2>e. ASSUME Append1("Exited"), Rows("Exited") = 0
        PROVE  /\ story' \in Seq(RowKind) /\ Rows("Exited")' = 1
               /\ Rows("Unknown")' = Rows("Unknown")
    <3>1. story' = Append(story, "Exited") /\ "Exited" # "Unknown"
      BY <2>e DEF Append1
    <3> QED BY <2>e, <2>t, <3>1, RowAppended, Zenon
  <2>u. ASSUME Append1("Unknown"), Rows("Unknown") = 0
        PROVE  /\ story' \in Seq(RowKind) /\ Rows("Unknown")' = 1
               /\ Rows("Exited")' = Rows("Exited")
    <3>1. story' = Append(story, "Unknown") /\ "Exited" # "Unknown"
      BY <2>u DEF Append1
    <3> QED BY <2>u, <2>t, <3>1, RowAppended, Zenon
  <2> HIDE DEF Unmoved
  <2>1. CASE Outside \/ ChildKilled
    <3>1. CASE ChildWrites
      BY <1>2, <2>s, <3>1 DEF ExitInv, Unmoved, ChildWrites
    <3>2. CASE ChildExits \/ ChildKilled
      BY <1>2, <2>s, <3>2 DEF ExitInv, Unmoved, ChildExits, ChildKilled, ChildEnds
    <3>3. CASE HeirEnds
      BY <1>2, <2>s, <3>3 DEF ExitInv, Unmoved, HeirEnds
    <3>4. CASE SuperviseFails
      BY <1>2, <2>s, <3>4 DEF ExitInv, Unmoved, SuperviseFails, WaitFails
    <3>5. CASE RunExitFails
      <4>0. /\ plan.edition = "run" /\ run.at = "loop" /\ run' = Decided([run EXCEPT !.exit = "failed"])
            /\ UNCHANGED <<plan, child, held, sup, exit, rel, story>>
        BY <1>2, <3>5 DEF RunExitFails, ExitInv
      <4> DEFINE q == [run EXCEPT !.exit = "failed"]
      <4>1. DOMAIN q = DOMAIN run /\ q.at = "loop" /\ q.detached = run.detached
        BY <1>2, <4>0 DEF ExitInv
      <4>2. run' = Decided(q)
        BY <4>0
      <4> HIDE DEF q
      <4>3. /\ DOMAIN run' = DOMAIN run /\ run'.at \in {"loop", "cut", "finish"}
            /\ run'.detached = run.detached
        BY <1>2, <4>1, <4>2 DEF ExitInv, Decided
      <4> QED BY <1>2, <2>s, <4>0, <4>3 DEF ExitInv, Unmoved
    <3> QED BY <2>1, <3>1, <3>2, <3>3, <3>4, <3>5 DEF Outside
  <2>2. CASE Streams
    <3>1. /\ UNCHANGED <<plan, held, sup, exit, rel, run, story>>
      BY <2>2 DEF Streams, PumpRead, PumpOffer, PumpCheck, PumpWakes, PumpClose, FeedTake,
             FeedWrite, FeedWakes, FeedShutdown
    <3>2. child'.life = child.life /\ DOMAIN child' = DOMAIN child
      BY <1>2, <2>2 DEF ExitInv, Unmoved, Streams, PumpRead, PumpOffer, PumpCheck, PumpWakes, PumpClose,
             FeedTake, FeedWrite, FeedWakes, FeedShutdown
    <3> QED BY <1>2, <2>s, <3>1, <3>2 DEF ExitInv, Unmoved
  <2>3. CASE Guest
    <3>1. CASE Spawn
      BY <1>2, <2>s, <3>1 DEF ExitInv, Unmoved, Spawn
    <3>2. CASE WriteStdin \/ CloseStdin \/ Read \/ Kill
      <4>1. UNCHANGED <<plan, child, held, sup, exit, rel, run, story>>
        BY <3>2 DEF WriteStdin, CloseStdin, Read, Kill
      <4> QED BY <1>2, <2>s, <4>1 DEF ExitInv, Unmoved
    <3>3. CASE Withdraw
      <4>1. UNCHANGED <<plan, child, sup, exit, run>> /\ held /\ ~held' /\ rel' = "close"
        BY <3>3 DEF Withdraw
      <4>2. Unmoved
        BY <1>2, <2>rest, <2>s, <3>3, Zenon DEF Withdraw, Append1, ExitInv
      <4> QED BY <1>2, <4>1, <4>2 DEF ExitInv, Unmoved
    <3>4. CASE RunStart
      <4>1. Unmoved
        BY <2>rest, <3>4, Zenon DEF RunStart
      <4> QED BY <1>2, <3>4, <4>1 DEF ExitInv, Unmoved, RunStart
    <3>5. CASE RunCancel
      BY <1>2, <2>s, <3>5 DEF ExitInv, Unmoved, RunCancel
    <3> QED BY <2>3, <3>1, <3>2, <3>3, <3>4, <3>5 DEF Guest
  <2>4. CASE Timers
    <3>1. CASE ReleaseEnds
      BY <1>2, <2>s, <3>1 DEF ExitInv, Unmoved, ReleaseEnds
    <3>2. CASE RunBound
      BY <1>2, <2>s, <3>2 DEF ExitInv, Unmoved, RunBound
    <3>3. CASE RunReap
      <4>0. plan.edition = "run" /\ Rows("Unknown") = 0 /\ ~run.detached
        BY <1>2, <3>3 DEF RunReap, ExitInv
      <4>1. CASE child.life = "zombie" /\ child' = [child EXCEPT !.life = "reaped"] /\ Append1("Exited")
        <5>1. Rows("Exited") = 0
          BY <1>2, <4>0, <4>1 DEF ExitInv
        <5>2. story' \in Seq(RowKind) /\ Rows("Exited")' = 1 /\ Rows("Unknown")' = 0
          BY <2>e, <4>0, <4>1, <5>1, Zenon
        <5>3. CASE run'.at = "done" /\ DOMAIN run' = DOMAIN run
          BY <1>2, <3>3, <4>0, <4>1, <5>2, <5>3 DEF ExitInv, RunReap
        <5> QED BY <1>2, <3>3, <5>3 DEF RunReap, ExitInv
      <4>3. CASE WaitFails /\ Append1("Unknown") /\ UNCHANGED child /\ run' = [run EXCEPT !.at = "done"]
        <5>1. story' \in Seq(RowKind) /\ Rows("Unknown")' = 1 /\ Rows("Exited")' = Rows("Exited")
          BY <2>u, <4>0, <4>3, Zenon
        <5>2. child.life # "reaped"
          BY <4>3 DEF WaitFails
        <5> QED BY <1>2, <3>3, <4>0, <4>3, <5>1, <5>2 DEF ExitInv, RunReap
      <4>2. CASE Append1("Pending") /\ UNCHANGED child
        <5>1. Unmoved
          BY <2>rest, <4>2, Zenon
        <5>2. plan.edition = "run"
          BY <1>2, <3>3 DEF ExitInv, Unmoved, RunReap
        <5> QED BY <1>2, <3>3, <4>2, <5>1, <5>2 DEF ExitInv, Unmoved, RunReap
      <4> QED BY <3>3, <4>1, <4>2, <4>3 DEF RunReap, Reaped
    <3> QED BY <2>4, <3>1, <3>2, <3>3 DEF Timers
  <2>5. CASE Children
    <3>1. CASE SpawnRow
      <4>1. Unmoved
        BY <2>rest, <3>1, Zenon DEF SpawnRow
      <4> QED BY <1>2, <3>1, <4>1 DEF ExitInv, Unmoved, SpawnRow
    <3>2. CASE Supervise
      BY <1>2, <2>s, <3>2 DEF ExitInv, Unmoved, Supervise
    <3>3. CASE ExitRow
      <4>1. /\ plan.edition = "spawn" /\ Rows("Exited") = 0 /\ Rows("Unknown") = 0
            /\ sup \in {"row", "lost"}
        BY <1>2, <3>3 DEF ExitRow, ExitInv
      <4>2. CASE sup = "row"
        <5>1. story' \in Seq(RowKind) /\ Rows("Exited")' = 1 /\ Rows("Unknown")' = 0
          BY <2>e, <3>3, <4>1, <4>2, Zenon DEF ExitRow
        <5> QED BY <1>2, <3>3, <4>1, <4>2, <5>1 DEF ExitInv, ExitRow
      <4>3. CASE sup = "lost"
        <5>1. Append1("Unknown")
          BY <3>3, <4>3 DEF ExitRow
        <5>2. story' \in Seq(RowKind) /\ Rows("Exited")' = 0 /\ Rows("Unknown")' = 1
          BY <2>u, <4>1, <5>1, Zenon
        <5> QED BY <1>2, <3>3, <4>1, <4>3, <5>2 DEF ExitInv, ExitRow
      <4> QED BY <4>1, <4>2, <4>3
    <3>4. CASE ExitSend
      BY <1>2, <2>s, <3>4 DEF ExitInv, Unmoved, ExitSend
    <3>5. CASE KillRow
      <4>1. Unmoved
        BY <2>rest, <3>5, Zenon DEF KillRow
      <4> QED BY <1>2, <3>5, <4>1 DEF ExitInv, Unmoved, KillRow
    <3>6. CASE ReleaseStreams \/ ReleaseSignal
      BY <1>2, <2>s, <3>6 DEF ExitInv, Unmoved, ReleaseStreams, ReleaseSignal
    <3> QED BY <2>5, <3>1, <3>2, <3>3, <3>4, <3>5, <3>6 DEF Children
  <2>6. CASE OneShot
    <3>1. CASE RunExit
      <4>0. /\ plan.edition = "run" /\ run.at = "loop" /\ child.life = "zombie"
            /\ Rows("Exited") = 0 /\ Rows("Unknown") = 0
            /\ UNCHANGED <<plan, held, sup, exit, rel>>
            /\ child' = [child EXCEPT !.life = "reaped"] /\ Append1("Exited")
        BY <1>2, <3>1 DEF RunExit, ExitInv
      <4> DEFINE q == [run EXCEPT !.exit = "ok"]
      <4>1. DOMAIN q = DOMAIN run /\ q.at = "loop" /\ q.detached = run.detached
        BY <1>2, <4>0 DEF ExitInv
      <4>2. run' = Decided(q)
        BY <3>1 DEF RunExit
      <4> HIDE DEF q
      <4>3. /\ DOMAIN run' = DOMAIN run /\ run'.at \in {"loop", "cut", "finish"}
            /\ run'.detached = run.detached
        BY <1>2, <4>1, <4>2 DEF ExitInv, Decided
      <4>4. story' \in Seq(RowKind) /\ Rows("Exited")' = 1 /\ Rows("Unknown")' = 0
        BY <2>e, <4>0, Zenon
      <4> QED BY <1>2, <4>0, <4>3, <4>4 DEF ExitInv
    <3>2. CASE RunDrain
      <4> DEFINE b == run.bytes \o FirstN(ring["out"].data, Chunk)
                 q == [run EXCEPT !.bytes = b,
                         !.output = IF Len(b) > OutputCap THEN "over"
                                    ELSE IF TakeEof(Chunk) THEN "ok" ELSE "none",
                         !.drain = IF Len(b) > OutputCap \/ TakeEof(Chunk) THEN "take"
                                   ELSE "ready"]
      <4>1. /\ run.at = "loop" /\ run' = Decided(q)
            /\ UNCHANGED <<plan, child, held, sup, exit, rel, story>>
        BY <3>2 DEF RunDrain
      <4>2. DOMAIN q = DOMAIN run /\ q.at = "loop" /\ q.detached = run.detached
        <5> HIDE DEF b
        <5> QED BY <1>2, <4>1 DEF ExitInv, Unmoved
      <4> HIDE DEF q
      <4>3. /\ DOMAIN run' = DOMAIN run /\ run'.at \in {"loop", "cut", "finish"}
            /\ run'.detached = run.detached
        BY <1>2, <4>1, <4>2 DEF ExitInv, Unmoved, Decided
      <4> QED BY <1>2, <2>s, <4>1, <4>3 DEF ExitInv, Unmoved
    <3>3. CASE RunReady \/ RunFinish \/ RunCut
      <4>1. /\ UNCHANGED <<plan, child, held, sup, exit, rel, story>>
            /\ run.at \in {"loop", "finish", "cut"}
        BY <3>3 DEF RunReady, RunFinish, RunCut
      <4>2. /\ DOMAIN run' = DOMAIN run /\ run'.at \in {"loop", "done", "settle"}
            /\ run'.detached = run.detached
        <5>1. CASE RunReady
          BY <1>2, <5>1 DEF ExitInv, Unmoved, RunReady
        <5>2. CASE RunFinish \/ RunCut
          BY <1>2, <5>2 DEF ExitInv, Unmoved, RunFinish, RunCut
        <5> QED BY <3>3, <5>1, <5>2
      <4> QED BY <1>2, <2>s, <4>1, <4>2 DEF ExitInv, Unmoved
    <3>4. CASE RunSettle
      <4>1. Unmoved
        BY <1>2, <2>rest, <2>s, <3>4, Zenon DEF RunSettle, Append1, ExitInv
      <4> QED BY <1>2, <3>4, <4>1 DEF ExitInv, Unmoved, RunSettle
    <3>5. CASE RunKill
      <4>1. Unmoved
        BY <2>rest, <3>5, Zenon DEF RunKill
      <4> QED BY <1>2, <3>5, <4>1 DEF ExitInv, Unmoved, RunKill
    <3>6. CASE DetachedReap
      <4>1. /\ plan.edition = "run" /\ Rows("Unknown") = 0 /\ run.at = "done"
            /\ DOMAIN run' = DOMAIN run /\ run'.at = "done" /\ ~run'.detached
            /\ UNCHANGED <<plan, held, sup, exit, rel>> /\ Reaped
        BY <1>2, <3>6 DEF DetachedReap, ExitInv
      <4>2. CASE child.life = "zombie" /\ child' = [child EXCEPT !.life = "reaped"] /\ Append1("Exited")
        <5>1. Rows("Exited") = 0
          BY <1>2, <4>1, <4>2 DEF ExitInv
        <5>2. story' \in Seq(RowKind) /\ Rows("Exited")' = 1 /\ Rows("Unknown")' = 0
          BY <2>e, <4>1, <4>2, <5>1, Zenon
        <5> QED BY <1>2, <4>1, <4>2, <5>2 DEF ExitInv
      <4>3. CASE WaitFails /\ Append1("Unknown") /\ UNCHANGED child
        <5>1. story' \in Seq(RowKind) /\ Rows("Unknown")' = 1 /\ Rows("Exited")' = Rows("Exited")
          BY <2>u, <4>1, <4>3, Zenon
        <5>2. child.life # "reaped"
          BY <4>3 DEF WaitFails
        <5> QED BY <1>2, <4>1, <4>3, <5>1, <5>2 DEF ExitInv
      <4> QED BY <4>1, <4>2, <4>3 DEF Reaped
    <3> QED BY <2>6, <3>1, <3>2, <3>3, <3>4, <3>5, <3>6 DEF OneShot
  <2>7. CASE UNCHANGED pvars
    BY <1>2, <2>s, <2>7 DEF ExitInv, Unmoved, pvars
  <2> QED BY <1>2, <2>1, <2>2, <2>3, <2>4, <2>5, <2>6, <2>7, Zenon DEF ProcessNext
<1> QED BY <1>1, <1>2, PTL

(* OneExit: for every plan of a child, its exit is appended once, of known    *)
(* code only when the child was reaped, and a release that returns clean has  *)
(* the exit on the record, whichever waits fail: the safety half of           *)
(* EndsOnRecord (child.rs supervise and release, ops.rs run, reap.rs).        *)
THEOREM OneExit ==
    ProcessInit /\ [][ProcessNext]_pvars => []ExitOnRecord
<1>1. ExitInv => ExitOnRecord
  BY DEF ExitInv, ExitOnRecord, Exits
<1> QED BY <1>1, ExitInvHolds, PTL
=============================================================================
