------------------------------- MODULE Fiber --------------------------------
(***************************************************************************)
(* One fiber (crates/jinnd-fiber): its supervisor task, the handles that   *)
(* state targets, the readiness signal that gates it and the fault sinks   *)
(* its incarnations hold.                                                  *)
(*                                                                         *)
(* The supervisor is one sequential task; pc is where it stands.  A step   *)
(* of the model is one critical section of the steering cell together with *)
(* the supervisor's own writes around it: the supervisor is the only       *)
(* writer of committed, published and the scope, so a reader cannot be     *)
(* told apart from one that came a moment earlier or later.  Every other   *)
(* actor may act between any two steps.                                    *)
(***************************************************************************)
EXTENDS SteeringCell, Sequences

CONSTANTS
    MaxRestarts,   \* bound: calls of Fiber::restart
    MaxFlips,      \* bound: publications of the readiness signal
    MaxProbes      \* bound: calls of Fiber::quiesce

ASSUME BoundsAssumption ==
    /\ MaxRestarts \in Nat
    /\ MaxFlips \in Nat
    /\ MaxProbes \in Nat

VARIABLES
    cell,       \* Shared.steering
    signal,     \* the epoch the readiness source publishes
    edge,       \* ReadinessSignal::changed would resolve
    wake,       \* Shared.wake holds a permit
    pc,         \* where the supervisor stands
    step,       \* the step it runs
    observed,   \* the stamp of its last SteeringCell::observed
    asked,      \* the probe it read at the top of the round
    settled,    \* Shared.settled (exited stands for u64::MAX)
    asks,       \* Shared.probe is Len(asks); history: what became of probe p
    published,  \* Shared.state
    lastCause,  \* the cause of the last recorded transition
    cancelled,  \* the activation's cancellation token
    applied,    \* the activation's scope holds effects
    flips,      \* publications of the signal so far
    faultedBy,  \* history: the incarnation whose fault notice last acted
    lastFailed  \* history: the aim of the last failure, until one succeeds

cellVars    == <<cell>>
inputVars   == <<signal, edge, wake, flips>>
localVars   == <<step, observed, asked>>
handleVars  == <<settled, asks>>
shownVars   == <<published, lastCause>>
scopeVars   == <<cancelled, applied>>
historyVars == <<faultedBy, lastFailed>>

vars == <<cell, signal, edge, wake, pc, step, observed, asked, settled, asks,
          published, lastCause, cancelled, applied, flips, faultedBy,
          lastFailed>>

Withdrawals == {"failing", "unloading", "faulting", "finishing"}

PC == {"round", "sync", "observe", "load", "loading", "landed", "check",
       "announce", "unload", "finish", "rest", "settle", "wait", "exited"}
      \union Withdrawals

Probe == Len(asks)

Answered(p) == p <= settled \/ pc = "exited"

\* The state and the cause an observer reads after publish(to, cause).
Publish(to, cause) ==
    /\ published' = to
    /\ lastCause' = IF published = to THEN lastCause ELSE cause

\* No step is being run.  A local that goes out of scope is put back to this,
\* or to 0, so that it does not tell states apart.
NoStep == [kind |-> "None", aim |-> [epoch |-> NoEpoch, revision |-> 0],
           cause |-> "InitialLoad"]

EndOfStep == pc' = "round" /\ step' = NoStep

Init ==
    /\ signal \in Epochs \union {NoEpoch}
    /\ cell = New(signal)
    /\ edge = FALSE
    /\ wake = FALSE
    /\ pc = "round"
    /\ step = NoStep
    /\ observed = 0
    /\ asked = 0
    /\ settled = 0
    /\ asks = <<>>
    /\ published = "Pending"
    /\ lastCause = "InitialLoad"
    /\ cancelled = FALSE
    /\ applied = FALSE
    /\ flips = 0
    /\ faultedBy = 0
    /\ lastFailed = {}

-----------------------------------------------------------------------------
(* The inputs: handles, the readiness source, the incarnations' sinks. *)

\* Mutated form of Notify: the write is not followed by a notification.
NotifyLost == wake' = wake

\* Shared.wake.notify_one: one permit is kept for the next wait.
Notify == wake' = TRUE

AskRestart ==
    /\ cell.desired.aim.revision < MaxRestarts
    /\ \E cause \in RestartCauses : cell' = Restart(cell, cause)
    /\ Notify
    /\ UNCHANGED <<signal, edge, flips, pc, localVars, handleVars, shownVars,
                   scopeVars, historyVars>>

\* Fiber::dispose before its quiesce, and the drop of the last handle.
AskDispose ==
    /\ ~cell.desired.disposing
    /\ cell' = Dispose(cell)
    /\ Notify
    /\ UNCHANGED <<signal, edge, flips, pc, localVars, handleVars, shownVars,
                   scopeVars, historyVars>>

AskSuspend ==
    /\ ~cell.desired.suspending
    /\ cell' = Suspend(cell)
    /\ Notify
    /\ UNCHANGED <<signal, edge, flips, pc, localVars, handleVars, shownVars,
                   scopeVars, historyVars>>

\* Fiber::quiesce asks; it resolves once Answered(its probe).
AskQuiesce ==
    /\ Probe < MaxProbes
    /\ asks' = Append(asks, [disposing |-> cell.desired.disposing,
                             signalRead |-> FALSE, targetRead |-> FALSE])
    /\ Notify
    /\ UNCHANGED <<cell, signal, edge, flips, pc, localVars, settled,
                   shownVars, scopeVars, historyVars>>

\* FaultSink::fault, from the sink any incarnation so far was handed.
ReportFault(incarnation) ==
    /\ incarnation <= cell.launches
    /\ FaultActs(cell, incarnation)
    /\ cell' = Fault(cell, incarnation)
    /\ Notify
    /\ faultedBy' = incarnation
    /\ UNCHANGED <<signal, edge, flips, pc, localVars, handleVars, shownVars,
                   scopeVars, lastFailed>>

\* ReadinessSource::ready and ::withdraw.
SignalMoves ==
    /\ flips < MaxFlips
    /\ signal' \in (Epochs \union {NoEpoch}) \ {signal}
    /\ edge' = TRUE
    /\ flips' = flips + 1
    /\ UNCHANGED <<cell, wake, pc, localVars, handleVars, shownVars, scopeVars,
                   historyVars>>

-----------------------------------------------------------------------------
(* supervise: one round of the loop. *)

ReadProbe ==
    /\ pc = "round"
    /\ asked' = Probe
    /\ pc' = "sync"
    /\ UNCHANGED <<cell, inputVars, step, observed, handleVars, shownVars,
                   scopeVars, historyVars>>

SyncSignal ==
    /\ pc = "sync"
    /\ cell' = SetEpoch(cell, signal)
    /\ asks' = [p \in 1..Probe |-> [asks[p] EXCEPT !.signalRead = TRUE]]
    /\ pc' = "observe"
    /\ UNCHANGED <<inputVars, localVars, settled, shownVars, scopeVars,
                   historyVars>>

Observe ==
    /\ pc = "observe"
    /\ step' = Plan(cell.committed, cell.desired)
    /\ asks' = [p \in 1..Probe |-> [asks[p] EXCEPT !.targetRead = TRUE]]
    /\ \/ step'.kind = "None" /\ observed' = cell.moved /\ UNCHANGED asked
       \/ step'.kind # "None" /\ observed' = 0 /\ asked' = 0
    /\ pc' = CASE step'.kind = "None"   -> "rest"
               [] step'.kind = "Load"   -> "load"
               [] step'.kind = "Unload" -> "unload"
               [] step'.kind = "Finish" -> "finish"
    /\ UNCHANGED <<cell, inputVars, settled, shownVars, scopeVars, historyVars>>

RaiseRest ==
    /\ pc = "rest"
    /\ cell' = SettleRest(cell, observed)
    /\ pc' = "settle"
    /\ UNCHANGED <<inputVars, localVars, handleVars, shownVars, scopeVars,
                   historyVars>>

\* Mutated form of Settle: the probe is read when it is acknowledged.
SettleLateProbe ==
    /\ pc = "settle"
    /\ settled' = Probe
    /\ pc' = IF cell.committed.state = "Disposed" \/ cell.committed.disposalFailed
             THEN "exited" ELSE "wait"
    /\ observed' = 0 /\ asked' = 0
    /\ UNCHANGED <<cell, inputVars, step, asks, shownVars, scopeVars,
                   historyVars>>

\* Acknowledge the probe; a terminal fiber answers every later one and returns.
Settle ==
    /\ pc = "settle"
    /\ settled' = IF settled >= asked THEN settled ELSE asked
    /\ pc' = IF cell.committed.state = "Disposed" \/ cell.committed.disposalFailed
             THEN "exited" ELSE "wait"
    /\ observed' = 0 /\ asked' = 0
    /\ UNCHANGED <<cell, inputVars, step, asks, shownVars, scopeVars,
                   historyVars>>

\* One edge is consumed: the permit or the signal's, whichever select! takes.
TakeInput ==
    \/ wake /\ wake' = FALSE /\ UNCHANGED edge
    \/ edge /\ edge' = FALSE /\ UNCHANGED wake

Wait ==
    /\ pc = "wait"
    /\ TakeInput
    /\ pc' = "round"
    /\ UNCHANGED <<cell, signal, flips, localVars, handleVars, shownVars,
                   scopeVars, historyVars>>

\* Mutated form of Absorb: staleness is decided before the input is folded in.
AbsorbStaleFirst ==
    /\ pc \in {"loading"} \union Withdrawals
    /\ TakeInput
    /\ cell' = SetEpoch(cell, signal)
    /\ cancelled' = (cancelled \/ (pc = "loading" /\ Stale(cell)))
    /\ UNCHANGED <<signal, flips, pc, localVars, handleVars, shownVars,
                   applied, historyVars>>

\* landing.rs: an input that arrives while a transition is in flight.
Absorb ==
    /\ pc \in {"loading"} \union Withdrawals
    /\ TakeInput
    /\ cell' = SetEpoch(cell, signal)
    /\ cancelled' = (cancelled \/ (pc = "loading" /\ Stale(cell')))
    /\ UNCHANGED <<signal, flips, pc, localVars, handleVars, shownVars,
                   applied, historyVars>>

-----------------------------------------------------------------------------
(* load *)

LaunchBody ==
    /\ pc = "load"
    /\ cell' = Launch(cell, step.aim)
    /\ Publish("Loading", step.cause)
    /\ faultedBy' = 0
    /\ pc' = "loading"
    /\ UNCHANGED <<inputVars, localVars, handleVars, scopeVars, lastFailed>>

\* The body registers an effect in its scope (Setup::effect).
BodyApplies ==
    /\ pc = "loading"
    /\ ~applied
    /\ applied' = TRUE
    /\ UNCHANGED <<cell, inputVars, pc, localVars, handleVars, shownVars,
                   cancelled, historyVars>>

BodyOk ==
    /\ pc = "loading"
    /\ cell' = Activated(Land(cell), step.aim)
    /\ lastFailed' = {}
    /\ cancelled' = FALSE
    /\ pc' = "landed"
    /\ UNCHANGED <<inputVars, localVars, handleVars, shownVars, applied,
                   faultedBy>>

\* The body errs or panics: the doom is committed before the cleanup.
BodyErr ==
    /\ pc = "loading"
    /\ cell' = FailedFor(Land(cell), {step.aim})
    /\ lastFailed' = {step.aim}
    /\ Publish("Unloading", step.cause)
    /\ cancelled' = FALSE
    /\ pc' = "failing"
    /\ UNCHANGED <<inputVars, localVars, handleVars, applied, faultedBy>>

SyncLanded ==
    /\ pc = "landed"
    /\ cell' = SetEpoch(cell, signal)
    /\ pc' = "check"
    /\ UNCHANGED <<inputVars, localVars, handleVars, shownVars, scopeVars,
                   historyVars>>

CheckLanded ==
    /\ pc = "check"
    /\ \/ /\ Plan(cell.committed, cell.desired).kind = "None"
          /\ pc' = "announce"
          /\ UNCHANGED step
       \/ /\ Plan(cell.committed, cell.desired).kind # "None"
          /\ EndOfStep
    /\ UNCHANGED <<cell, inputVars, observed, asked, handleVars, shownVars, scopeVars,
                   historyVars>>

AnnounceActive ==
    /\ pc = "announce"
    /\ Publish("Active", step.cause)
    /\ EndOfStep
    /\ UNCHANGED <<cell, inputVars, observed, asked, handleVars, scopeVars, historyVars>>

-----------------------------------------------------------------------------
(* withdraw: the drain and replay of the activation's scope.  An empty    *)
(* scope has nothing to fail; any other may report residue.               *)

Replay(clean) ==
    /\ clean \in IF applied THEN BOOLEAN ELSE {TRUE}
    /\ applied' = FALSE

FailedCleanupLands ==
    /\ pc = "failing"
    /\ \E clean \in BOOLEAN : Replay(clean)
    /\ Publish("Failed", step.cause)
    /\ EndOfStep
    /\ UNCHANGED <<cell, inputVars, observed, asked, handleVars, cancelled, historyVars>>

StartUnload ==
    /\ pc = "unload"
    /\ step.cause # "BodyFaulted"
    /\ Publish("Unloading", step.cause)
    /\ pc' = "unloading"
    /\ UNCHANGED <<cell, inputVars, localVars, handleVars, scopeVars, historyVars>>

\* The mode of the replay is the planned step's; what lands is decided by the
\* target read after it.
UnloadLands ==
    /\ pc = "unloading"
    /\ \E clean \in BOOLEAN :
        /\ Replay(clean)
        /\ \/ /\ cell.desired.disposing \/ cell.desired.suspending
              /\ cell' = DisposalLanded(cell, clean)
              /\ Publish(IF clean THEN "Disposed" ELSE "Failed", step.cause)
              /\ UNCHANGED lastFailed
           \/ /\ ~cell.desired.disposing /\ ~cell.desired.suspending
              /\ clean
              /\ cell' = UnloadedCleanly(cell)
              /\ Publish("Pending", step.cause)
              /\ UNCHANGED lastFailed
           \/ /\ ~cell.desired.disposing /\ ~cell.desired.suspending
              /\ ~clean
              /\ cell' = FailedFor(cell, {cell.desired.aim})
              /\ Publish("Failed", step.cause)
              /\ lastFailed' = {cell.desired.aim}
    /\ EndOfStep
    /\ UNCHANGED <<inputVars, observed, asked, handleVars, cancelled, faultedBy>>

\* fault_unload: Unloading and then Failed are published before the replay.
StartFaultUnload ==
    /\ pc = "unload"
    /\ step.cause = "BodyFaulted"
    /\ cell' = FailedFor(cell, cell.committed.activeFor)
    /\ lastFailed' = cell.committed.activeFor
    /\ Publish("Failed", "BodyFaulted")
    /\ pc' = "faulting"
    /\ UNCHANGED <<inputVars, localVars, handleVars, scopeVars, faultedBy>>

FaultCleanupLands ==
    /\ pc = "faulting"
    /\ \E clean \in BOOLEAN : Replay(clean)
    /\ EndOfStep
    /\ UNCHANGED <<cell, inputVars, observed, asked, handleVars, shownVars, cancelled,
                   historyVars>>

StartFinish ==
    /\ pc = "finish"
    /\ step' = [step EXCEPT !.cause = IF cell.desired.disposing
                                      THEN "ExplicitDispose" ELSE "Suspend"]
    /\ pc' = "finishing"
    /\ UNCHANGED <<cell, inputVars, observed, asked, handleVars, shownVars,
                   scopeVars, historyVars>>

FinishLands ==
    /\ pc = "finishing"
    /\ \E clean \in BOOLEAN :
        /\ Replay(clean)
        /\ cell' = DisposalLanded(cell, clean)
        /\ Publish(IF clean THEN "Disposed" ELSE "Failed", step.cause)
    /\ EndOfStep
    /\ UNCHANGED <<inputVars, observed, asked, handleVars, cancelled, historyVars>>

-----------------------------------------------------------------------------
Inputs ==
    \/ AskRestart
    \/ AskDispose
    \/ AskSuspend
    \/ AskQuiesce
    \/ \E incarnation \in 1..cell.launches : ReportFault(incarnation)
    \/ SignalMoves

\* The steps the supervisor's own code takes without waiting on plugin code.
Supervise ==
    \/ ReadProbe
    \/ SyncSignal
    \/ Observe
    \/ RaiseRest
    \/ Settle
    \/ Wait
    \/ LaunchBody
    \/ SyncLanded
    \/ CheckLanded
    \/ AnnounceActive
    \/ StartUnload
    \/ StartFaultUnload
    \/ StartFinish

\* The returns of plugin code: the activation body, and the replayed inverses.
BodyLands == BodyOk \/ BodyErr

WithdrawalLands ==
    \/ FailedCleanupLands
    \/ UnloadLands
    \/ FaultCleanupLands
    \/ FinishLands

Next ==
    \/ Inputs
    \/ Supervise
    \/ Absorb
    \/ BodyApplies
    \/ BodyLands
    \/ WithdrawalLands

Spec == Init /\ [][Next]_vars

\* The runtime polls a runnable task again; plugin code may hang.
TaskFairness == WF_vars(Supervise) /\ WF_vars(Absorb)

FairSpec == Spec /\ TaskFairness

\* Plugin code returns: the wasm host ends a call at its deadline.
PluginReturns == WF_vars(BodyLands) /\ WF_vars(WithdrawalLands)

-----------------------------------------------------------------------------
(* The type invariant: what each cell and each local may hold. *)
TypeOK ==
    /\ cell \in Cell
    /\ signal \in Epochs \union {NoEpoch}
    /\ edge \in BOOLEAN
    /\ wake \in BOOLEAN
    /\ pc \in PC
    /\ step \in Step
    /\ observed \in Nat
    /\ asked \in Nat
    /\ settled \in Nat
    /\ asks \in Seq([disposing : BOOLEAN, signalRead : BOOLEAN,
                     targetRead : BOOLEAN])
    /\ published \in FiberState
    /\ lastCause \in TransitionCause
    /\ cancelled \in BOOLEAN
    /\ applied \in BOOLEAN
    /\ flips \in Nat
    /\ faultedBy \in Nat
    /\ lastFailed \in OptionAim

\* The places where the supervisor runs, or is about to run, a transition.
InTransition ==
    pc \in {"load", "loading", "landed", "check", "announce", "unload", "finish"}
           \union Withdrawals

(* A fiber that says it is at rest owes nothing: the planner has no step    *)
(* for it, no activation is in flight and the supervisor is not inside a    *)
(* transition, whatever was asked between the read of the target and the    *)
(* raise of the bit (Fiber::resting, SteeringCell::settle_rest).            *)
RestIsHonest ==
    cell.resting =>
        /\ Plan(cell.committed, cell.desired).kind = "None"
        /\ cell.inFlight = {}
        /\ ~InTransition

(* A launch never finds another activation in flight: the assertion of      *)
(* SteeringCell::launch never fires, and in-flight means exactly a body     *)
(* that has not landed.                                                     *)
SingleFlight == (cell.inFlight # {}) <=> (pc = "loading")

(* A quiesce that resolves was answered after the supervisor re-read every  *)
(* input made before the call, whichever transition swallowed its wake-up   *)
(* (Fiber::quiesce, the probe read at the top of supervise).                *)
QuiesceRereadsInputs ==
    \A p \in 1..Probe :
        p <= settled =>
            asks[p].signalRead /\ asks[p].targetRead

(* A dispose that resolves has withdrawn and reported: once the quiesce of  *)
(* a caller who had asked for disposal is answered, the fiber has landed    *)
(* Disposed, or Failed with its residue on record, and holds no effect.     *)
DisposeResolvesWithdrawn ==
    \A p \in 1..Probe :
        Answered(p) /\ asks[p].disposing =>
            /\ \/ cell.committed.state = "Disposed"
               \/ cell.committed.state = "Failed" /\ cell.committed.disposalFailed
            /\ published = cell.committed.state
            /\ ~applied

(* The death of one incarnation never dooms the next: a pending fault was   *)
(* reported by the incarnation launched last (FaultSink, SteeringCell::     *)
(* launch drops what an earlier one left).                                  *)
FaultNamesLiveIncarnation == cell.desired.faulted => faultedBy = cell.launches

(* R9: the body is never run for the aim it last failed under, whether the  *)
(* activation, its instance or its unload failed.                           *)
NoBlindRetry == pc = "loading" => cell.inFlight # lastFailed

(* A recorded fault is the live incarnation's own, and the body is never    *)
(* run again for the aim it last failed under (SteeringCell::fault, plan).  *)
FaultsAreHonest == FaultNamesLiveIncarnation /\ NoBlindRetry

(* A quiesce is answered after a look at every input that came before it,   *)
(* and a dispose only once everything is withdrawn (Fiber::quiesce,         *)
(* Fiber::dispose).                                                         *)
AnswersAreCurrent == QuiesceRereadsInputs /\ DisposeResolvesWithdrawn

(* A promised reload is taken back only by a new target, by a failing       *)
(* landing, or by a fault reported while the body was still loading.        *)
PromiseTakenBackForCause ==
    [][Owed(cell) = "Reload" /\ Owed(cell') = "Stalled" =>
        \/ cell'.moved # cell.moved
        \/ lastFailed' # lastFailed
        \/ cell.desired.faulted]_vars

-----------------------------------------------------------------------------

(* I3 for one fiber: once inputs stop, the fiber comes to rest at its       *)
(* target or ends.                                                          *)
Quiesces == PluginReturns => <>[](pc = "exited" \/ (pc = "wait" /\ cell.resting))

(* A body whose target moved is told so, even if it never returns.          *)
StaleBodyIsTold ==
    (pc = "loading" /\ Stale(cell)) ~> (cancelled \/ pc # "loading")

-----------------------------------------------------------------------------
(* Statements of the repository the code does not keep. *)

(* "A disposal requested at any point still lands as one" (fiber.rs): a     *)
(* fiber that lands Disposed with a disposal requested records it under     *)
(* ExplicitDispose.                                                         *)
DisposalLandsAsOne ==
    [][published' = "Disposed" /\ published # "Disposed" /\ cell.desired.disposing
        => lastCause' = "ExplicitDispose"]_vars

(* "A fault already reported for the incarnation lands Failed too, and      *)
(* stalls" (owed.rs): no caller is promised a reload for an activation in   *)
(* flight that has reported its death and whose target has not moved.       *)
FaultInFlightStalls ==
    cell.desired.faulted /\ cell.inFlight = {cell.desired.aim} =>
        Owed(cell) # "Reload"

(* "The last state the fiber committed to" (Fiber::state): at rest, the     *)
(* state shown is the state landed.                                         *)
RestShowsCommitted == cell.resting => published = cell.committed.state
=============================================================================
