---------------------------- MODULE FiberProofs -----------------------------
(***************************************************************************)
(* Theorems about one fiber, for every set of epochs, every set of restart *)
(* causes and every bound: its type invariant, the single-flight rule, the *)
(* honesty of the rest bit, of the recorded faults and of the answers to   *)
(* quiesce and dispose, and that a promised reload is kept.                *)
(***************************************************************************)
EXTENDS Fiber, TLAPS

(* A target write: the cell is left alone, or the stamp moves and rest is  *)
(* lowered in the same critical section; what has landed is never touched. *)
TargetWrite(c, d) ==
    \/ d = c
    \/ /\ d.committed = c.committed
       /\ d.inFlight = c.inFlight
       /\ ~d.resting
       /\ d.moved = c.moved + 1

-----------------------------------------------------------------------------
(* The methods of the cell. *)

(* Stir keeps the type of the cell and every field but the two it writes.   *)
LEMMA StirLemma ==
    ASSUME NEW c \in Cell
    PROVE  /\ Stir(c) \in Cell
           /\ Stir(c).committed = c.committed
           /\ Stir(c).inFlight = c.inFlight
           /\ ~Stir(c).resting
           /\ Stir(c).moved = c.moved + 1
<1>1. c.moved + 1 \in Nat
  BY DEF Cell
<1> QED BY <1>1, Zenon DEF Stir, Cell

(* SetEpoch mirrors the readiness signal: a target write.                   *)
LEMMA SetEpochLemma ==
    ASSUME NEW c \in Cell, NEW e \in Epochs \union {NoEpoch}
    PROVE  /\ SetEpoch(c, e) \in Cell
           /\ TargetWrite(c, SetEpoch(c, e))
<1>1. CASE c.desired.aim.epoch = e
  BY <1>1, Zenon DEF SetEpoch, TargetWrite
<1>2. CASE c.desired.aim.epoch # e
  <2> DEFINE b == [c EXCEPT !.desired.aim.epoch = e,
                            !.desired.cause = "DependencyChanged"]
  <2>1. "DependencyChanged" \in TransitionCause
    BY Zenon DEF TransitionCause
  <2>2. b \in Cell
    BY <2>1, Zenon DEF Cell, Desired, Aim
  <2>3. /\ b.committed = c.committed
        /\ b.inFlight = c.inFlight
        /\ b.moved = c.moved
    BY Zenon DEF Cell
  <2>4. SetEpoch(c, e) = Stir(b)
    BY <1>2, Zenon DEF SetEpoch
  <2> HIDE DEF b
  <2> QED BY <2>2, <2>3, <2>4, StirLemma, Zenon DEF TargetWrite
<1> QED BY <1>1, <1>2, Zenon

(* Restart moves the revision: a target write.                              *)
LEMMA RestartLemma ==
    ASSUME NEW c \in Cell, NEW why \in RestartCauses
    PROVE  /\ Restart(c, why) \in Cell
           /\ TargetWrite(c, Restart(c, why))
<1> DEFINE b == [c EXCEPT !.desired.aim.revision = c.desired.aim.revision + 1,
                          !.desired.cause = why]
<1>1. why \in TransitionCause
  BY RestartCausesAssumption DEF TransitionCause
<1>2. c.desired.aim.revision + 1 \in Nat
  BY DEF Cell, Desired, Aim
<1>3. b \in Cell
  BY <1>1, <1>2, Zenon DEF Cell, Desired, Aim
<1>4. /\ b.committed = c.committed
      /\ b.inFlight = c.inFlight
      /\ b.moved = c.moved
  BY Zenon DEF Cell
<1>5. Restart(c, why) = Stir(b)
  BY Zenon DEF Restart
<1> HIDE DEF b
<1> QED BY <1>3, <1>4, <1>5, StirLemma, Zenon DEF TargetWrite

(* Dispose and Suspend raise a sticky request: target writes.               *)
LEMMA RequestLemma ==
    ASSUME NEW c \in Cell
    PROVE  /\ Dispose(c) \in Cell /\ TargetWrite(c, Dispose(c))
           /\ Suspend(c) \in Cell /\ TargetWrite(c, Suspend(c))
<1> DEFINE b == [c EXCEPT !.desired.disposing = TRUE]
           s == [c EXCEPT !.desired.suspending = TRUE]
<1>1. b \in Cell /\ s \in Cell
  BY Zenon DEF Cell, Desired
<1>2. /\ b.committed = c.committed /\ s.committed = c.committed
      /\ b.inFlight = c.inFlight /\ s.inFlight = c.inFlight
      /\ b.moved = c.moved /\ s.moved = c.moved
  BY Zenon DEF Cell
<1>3. Dispose(c) = c \/ Dispose(c) = Stir(b)
  BY Zenon DEF Dispose
<1>4. Suspend(c) = c \/ Suspend(c) = Stir(s)
  BY Zenon DEF Suspend
<1> HIDE DEF b, s
<1>5. Stir(b) \in Cell /\ TargetWrite(c, Stir(b))
  BY <1>1, <1>2, StirLemma, Zenon DEF TargetWrite
<1>6. Stir(s) \in Cell /\ TargetWrite(c, Stir(s))
  BY <1>1, <1>2, StirLemma, Zenon DEF TargetWrite
<1>7. TargetWrite(c, c)
  BY Zenon DEF TargetWrite
<1> QED BY <1>3, <1>4, <1>5, <1>6, <1>7, Zenon

(* A fault notice is a target write, whether it acts or not.                *)
LEMMA FaultLemma ==
    ASSUME NEW c \in Cell, NEW incarnation
    PROVE  /\ Fault(c, incarnation) \in Cell
           /\ TargetWrite(c, Fault(c, incarnation))
<1> DEFINE b == [c EXCEPT !.desired.faulted = TRUE]
<1>1. b \in Cell
  BY Zenon DEF Cell, Desired
<1>2. /\ b.committed = c.committed
      /\ b.inFlight = c.inFlight
      /\ b.moved = c.moved
  BY Zenon DEF Cell
<1>3. Fault(c, incarnation) = c \/ Fault(c, incarnation) = Stir(b)
  BY Zenon DEF Fault
<1> HIDE DEF b
<1> QED BY <1>1, <1>2, <1>3, StirLemma, Zenon DEF TargetWrite

(* Launch marks the activation as in flight and leaves rest alone.          *)
LEMMA LaunchLemma ==
    ASSUME NEW c \in Cell, NEW aim \in Aim
    PROVE  /\ Launch(c, aim) \in Cell
           /\ Launch(c, aim).inFlight = {aim}
           /\ Launch(c, aim).resting = c.resting
<1>1. c.launches + 1 \in Nat
  BY DEF Cell
<1>2. {aim} \in OptionAim
  BY Zenon DEF OptionAim
<1> QED BY <1>1, <1>2, Zenon DEF Launch, Cell, Desired

(* Land clears the in-flight mark and nothing else.                         *)
LEMMA LandLemma ==
    ASSUME NEW c \in Cell
    PROVE  /\ Land(c) \in Cell
           /\ Land(c).inFlight = {}
           /\ Land(c).resting = c.resting
<1>1. {} \in OptionAim
  BY Zenon DEF OptionAim
<1> QED BY <1>1, Zenon DEF Land, Cell

(* A commit of the supervisor keeps the type and touches neither the        *)
(* in-flight mark nor rest.                                                 *)
LEMMA CommitLemma ==
    ASSUME NEW c \in Cell, NEW landed \in Committed
    PROVE  /\ Commit(c, landed) \in Cell
           /\ Commit(c, landed).inFlight = c.inFlight
           /\ Commit(c, landed).resting = c.resting
BY Zenon DEF Commit, Cell

(* The landings are commits.                                                *)
LEMMA LandingLemma ==
    ASSUME NEW c \in Cell, NEW d \in Cell,
           \/ \E aim \in Aim : d = Activated(c, aim)
           \/ \E under \in OptionAim : d = FailedFor(c, under)
           \/ d = UnloadedCleanly(c)
           \/ \E clean \in BOOLEAN : d = DisposalLanded(c, clean)
    PROVE  d.inFlight = c.inFlight /\ d.resting = c.resting
BY Zenon DEF Activated, FailedFor, UnloadedCleanly, DisposalLanded, Commit, Cell

(* The landings keep the type of the cell.                                  *)
LEMMA LandingTypeLemma ==
    ASSUME NEW c \in Cell
    PROVE  /\ \A aim \in Aim : Activated(c, aim) \in Cell
           /\ \A under \in OptionAim : FailedFor(c, under) \in Cell
           /\ UnloadedCleanly(c) \in Cell
           /\ \A clean \in BOOLEAN : DisposalLanded(c, clean) \in Cell
<1>1. {} \in OptionAim /\ \A aim \in Aim : {aim} \in OptionAim
  BY Zenon DEF OptionAim
<1>2. /\ "Active" \in FiberState /\ "Failed" \in FiberState
      /\ "Pending" \in FiberState /\ "Disposed" \in FiberState
  BY Zenon DEF FiberState
<1>3. c.committed \in Committed
  BY Zenon DEF Cell
<1>4. ASSUME NEW aim \in Aim PROVE Activated(c, aim) \in Cell
  BY <1>1, <1>2, <1>3, CommitLemma, Zenon DEF Activated, Committed
<1>5. ASSUME NEW under \in OptionAim PROVE FailedFor(c, under) \in Cell
  BY <1>1, <1>2, <1>3, CommitLemma, Zenon DEF FailedFor, Committed
<1>6. UnloadedCleanly(c) \in Cell
  BY <1>1, <1>2, <1>3, CommitLemma, Zenon DEF UnloadedCleanly, Unloaded, Committed
<1>7. ASSUME NEW clean \in BOOLEAN PROVE DisposalLanded(c, clean) \in Cell
  <2>1. /\ [c.committed EXCEPT !.state = "Disposed"] \in Committed
        /\ [c.committed EXCEPT !.state = "Failed", !.disposalFailed = TRUE] \in Committed
    BY <1>2, <1>3, Zenon DEF Committed
  <2> QED BY <2>1, CommitLemma, Zenon DEF DisposalLanded
<1> QED BY <1>4, <1>5, <1>6, <1>7, Zenon

(* The planner returns a step whose aim is the target's.                    *)
LEMMA PlanLemma ==
    ASSUME NEW c \in Cell
    PROVE  Plan(c.committed, c.desired) \in Step
BY Zenon DEF Plan, Step, PlanActive, PlanInert, Cell, Committed, Desired,
             TransitionCause, StepKind

-----------------------------------------------------------------------------
(* Type correctness. *)

Ask == [disposing : BOOLEAN, signalRead : BOOLEAN, targetRead : BOOLEAN]

(* Marking every probe as served by a read keeps the sequence of probes.    *)
LEMMA AsksLemma ==
    ASSUME NEW s \in Seq(Ask)
    PROVE  /\ [p \in 1..Len(s) |-> [s[p] EXCEPT !.signalRead = TRUE]] \in Seq(Ask)
           /\ [p \in 1..Len(s) |-> [s[p] EXCEPT !.targetRead = TRUE]] \in Seq(Ask)
           /\ \A b \in BOOLEAN :
                Append(s, [disposing |-> b, signalRead |-> FALSE,
                           targetRead |-> FALSE]) \in Seq(Ask)
<1>1. Len(s) \in Nat /\ \A p \in 1..Len(s) : s[p] \in Ask
  OBVIOUS
<1>2. \A p \in 1..Len(s) : /\ [s[p] EXCEPT !.signalRead = TRUE] \in Ask
                           /\ [s[p] EXCEPT !.targetRead = TRUE] \in Ask
  BY <1>1, Zenon DEF Ask
<1>3. \A b \in BOOLEAN : [disposing |-> b, signalRead |-> FALSE,
                          targetRead |-> FALSE] \in Ask
  BY Zenon DEF Ask
<1>4. \A f : (\E n \in Nat : f \in [1..n -> Ask]) => f \in Seq(Ask)
  OBVIOUS
<1>5. /\ [p \in 1..Len(s) |-> [s[p] EXCEPT !.signalRead = TRUE]] \in [1..Len(s) -> Ask]
      /\ [p \in 1..Len(s) |-> [s[p] EXCEPT !.targetRead = TRUE]] \in [1..Len(s) -> Ask]
  BY <1>2, Zenon
<1>6. \A x \in Ask : Append(s, x) \in Seq(Ask)
  OBVIOUS
<1> QED BY <1>1, <1>3, <1>4, <1>5, <1>6, Zenon

(* Every step keeps the type invariant.                                     *)
LEMMA TypeStep == TypeOK /\ [Next]_vars => TypeOK'
<1> SUFFICES ASSUME TypeOK, [Next]_vars PROVE TypeOK'
  OBVIOUS
<1> DEFINE Epoch == Epochs \union {NoEpoch}
<1>0. /\ cell \in Cell /\ signal \in Epoch /\ pc \in PC /\ step \in Step
      /\ published \in FiberState /\ lastCause \in TransitionCause
  BY Zenon DEF TypeOK
<1>asks. asks \in Seq(Ask)
  BY Zenon DEF TypeOK, Ask
<1>pub. ASSUME NEW to \in FiberState, NEW why \in TransitionCause, Publish(to, why)
        PROVE  published' \in FiberState /\ lastCause' \in TransitionCause
  BY <1>0, <1>pub, Zenon DEF Publish
<1>states. \A x \in {"Pending", "Loading", "Active", "Unloading", "Failed", "Disposed"} :
             x \in FiberState
  BY Zenon DEF FiberState
<1>1. CASE AskRestart
  <2>1. cell' \in Cell
    BY <1>0, <1>1, RestartLemma, Zenon DEF AskRestart
  <2> QED BY <1>1, <2>1, Zenon DEF AskRestart, Notify, TypeOK, localVars,
             handleVars, shownVars, scopeVars, historyVars
<1>2. CASE AskDispose
  <2>1. cell' \in Cell
    BY <1>0, <1>2, RequestLemma, Zenon DEF AskDispose
  <2> QED BY <1>2, <2>1, Zenon DEF AskDispose, Notify, TypeOK, localVars,
             handleVars, shownVars, scopeVars, historyVars
<1>3. CASE AskSuspend
  <2>1. cell' \in Cell
    BY <1>0, <1>3, RequestLemma, Zenon DEF AskSuspend
  <2> QED BY <1>3, <2>1, Zenon DEF AskSuspend, Notify, TypeOK, localVars,
             handleVars, shownVars, scopeVars, historyVars
<1>4. CASE AskQuiesce
  <2>1. cell.desired.disposing \in BOOLEAN
    BY <1>0, Zenon DEF Cell, Desired
  <2>2. asks' \in Seq(Ask)
    BY <1>asks, <1>4, <2>1, AsksLemma, Zenon DEF AskQuiesce
  <2> QED BY <1>4, <2>2, Zenon DEF AskQuiesce, Notify, TypeOK, Ask, localVars,
             shownVars, scopeVars, historyVars
<1>5. ASSUME NEW incarnation \in 1..cell.launches, ReportFault(incarnation)
      PROVE  TypeOK'
  <2>1. cell' \in Cell
    BY <1>0, <1>5, FaultLemma, Zenon DEF ReportFault
  <2>2. incarnation \in Nat
    BY <1>0 DEF Cell
  <2> QED BY <1>5, <2>1, <2>2, Zenon DEF ReportFault, Notify, TypeOK, localVars,
             handleVars, shownVars, scopeVars
<1>6. CASE SignalMoves
  <2>1. flips' \in Nat
    BY <1>6 DEF SignalMoves, TypeOK
  <2> QED BY <1>6, <2>1, Zenon DEF SignalMoves, TypeOK, localVars, handleVars,
             shownVars, scopeVars, historyVars
<1>7. CASE ReadProbe
  <2>1. asked' \in Nat
    BY <1>asks, <1>7 DEF ReadProbe, Probe
  <2>2. "sync" \in PC
    BY Zenon DEF PC
  <2> QED BY <1>7, <2>1, <2>2, Zenon DEF ReadProbe, TypeOK, inputVars, handleVars,
             shownVars, scopeVars, historyVars
<1>8. CASE SyncSignal
  <2>1. cell' \in Cell
    BY <1>0, <1>8, SetEpochLemma, Zenon DEF SyncSignal
  <2>2. asks' \in Seq(Ask)
    BY <1>asks, <1>8, AsksLemma, Zenon DEF SyncSignal, Probe
  <2>3. "observe" \in PC
    BY Zenon DEF PC
  <2> QED BY <1>8, <2>1, <2>2, <2>3, Zenon DEF SyncSignal, TypeOK, Ask, inputVars,
             localVars, shownVars, scopeVars, historyVars
<1>9. CASE Observe
  <2>1. step' \in Step
    BY <1>0, <1>9, PlanLemma, Zenon DEF Observe
  <2>2. asks' \in Seq(Ask)
    BY <1>asks, <1>9, AsksLemma, Zenon DEF Observe, Probe
  <2>3. pc' \in {"rest", "load", "unload", "finish"}
    BY <1>9, <2>1, Zenon DEF Observe, Step, StepKind
  <2>4. pc' \in PC
    BY <2>3, Zenon DEF PC
  <2>5. observed' \in Nat /\ asked' \in Nat
    BY <1>0, <1>9 DEF Observe, Cell, TypeOK
  <2> QED BY <1>9, <2>1, <2>2, <2>4, <2>5, Zenon DEF Observe, TypeOK, Ask, inputVars,
             shownVars, scopeVars, historyVars
<1>10. CASE RaiseRest
  <2>1. cell' \in Cell
    BY <1>0, <1>10, Zenon DEF RaiseRest, SettleRest, Cell
  <2>2. "settle" \in PC
    BY Zenon DEF PC
  <2> QED BY <1>10, <2>1, <2>2, Zenon DEF RaiseRest, TypeOK, inputVars, localVars, handleVars, shownVars,
             scopeVars, historyVars
<1>11. CASE Settle
  <2>1. settled' \in Nat /\ observed' \in Nat /\ asked' \in Nat
    BY <1>11 DEF Settle, TypeOK
  <2>2. pc' \in PC
    BY <1>11, Zenon DEF Settle, PC
  <2> QED BY <1>11, <2>1, <2>2, Zenon DEF Settle, TypeOK, inputVars, shownVars, scopeVars,
             historyVars
<1>12. CASE Wait
  <2>1. "round" \in PC
    BY Zenon DEF PC
  <2>2. wake' \in BOOLEAN /\ edge' \in BOOLEAN
    BY <1>12, Zenon DEF Wait, TakeInput, TypeOK
  <2> QED BY <1>12, <2>1, <2>2, Zenon DEF Wait, TypeOK, localVars, handleVars, shownVars,
             scopeVars, historyVars
<1>13. CASE Absorb
  <2>1. cell' \in Cell
    BY <1>0, <1>13, SetEpochLemma, Zenon DEF Absorb
  <2>2. wake' \in BOOLEAN /\ edge' \in BOOLEAN /\ cancelled' \in BOOLEAN
    BY <1>13, Zenon DEF Absorb, TakeInput, TypeOK
  <2> QED BY <1>13, <2>1, <2>2, Zenon DEF Absorb, TypeOK, localVars, handleVars, shownVars,
             historyVars
<1>14. CASE LaunchBody
  <2>1. cell' \in Cell
    BY <1>0, <1>14, LaunchLemma, Zenon DEF LaunchBody, Step
  <2>2. published' \in FiberState /\ lastCause' \in TransitionCause
    BY <1>0, <1>14, <1>pub, <1>states, Zenon DEF LaunchBody, Step
  <2>3. "loading" \in PC
    BY Zenon DEF PC
  <2>4. faultedBy' \in Nat
    BY <1>14 DEF LaunchBody
  <2> QED BY <1>14, <2>1, <2>2, <2>3, <2>4, Zenon DEF LaunchBody, TypeOK, inputVars, localVars, handleVars,
             scopeVars
<1>15. CASE BodyApplies
  <2> QED BY <1>15, Zenon DEF BodyApplies, TypeOK, inputVars, localVars, handleVars, shownVars,
             historyVars
<1>16. CASE BodyOk
  <2>1. cell' \in Cell
    BY <1>0, <1>16, LandLemma, LandingTypeLemma, Zenon DEF BodyOk, Step
  <2>2. lastFailed' \in OptionAim
    BY <1>16, Zenon DEF BodyOk, OptionAim
  <2>3. "landed" \in PC
    BY Zenon DEF PC
  <2> QED BY <1>16, <2>1, <2>2, <2>3, Zenon DEF BodyOk, TypeOK, inputVars, localVars, handleVars, shownVars
<1>17. CASE BodyErr
  <2>1. {step.aim} \in OptionAim
    BY <1>0, Zenon DEF Step, OptionAim
  <2>2. cell' \in Cell
    BY <1>0, <1>17, <2>1, LandLemma, LandingTypeLemma, Zenon DEF BodyErr
  <2>3. published' \in FiberState /\ lastCause' \in TransitionCause
    BY <1>0, <1>17, <1>pub, <1>states, Zenon DEF BodyErr, Step
  <2>4. "failing" \in PC
    BY Zenon DEF PC, Withdrawals
  <2> QED BY <1>17, <2>1, <2>2, <2>3, <2>4, Zenon DEF BodyErr, TypeOK, inputVars, localVars, handleVars
<1>18. CASE SyncLanded
  <2>1. cell' \in Cell
    BY <1>0, <1>18, SetEpochLemma, Zenon DEF SyncLanded
  <2>2. "check" \in PC
    BY Zenon DEF PC
  <2> QED BY <1>18, <2>1, <2>2, Zenon DEF SyncLanded, TypeOK, inputVars, localVars, handleVars, shownVars,
             scopeVars, historyVars
<1>end. ASSUME EndOfStep PROVE pc' \in PC /\ step' \in Step
  <2>1. NoStep \in Step
    BY Zenon DEF NoStep, Step, StepKind, Aim, TransitionCause
  <2>2. "round" \in PC
    BY Zenon DEF PC
  <2> QED BY <1>end, <2>1, <2>2, Zenon DEF EndOfStep
<1>19. CASE CheckLanded
  <2>1. "announce" \in PC
    BY Zenon DEF PC
  <2>2. pc' \in PC /\ step' \in Step
    BY <1>0, <1>19, <1>end, <2>1, Zenon DEF CheckLanded
  <2> QED BY <1>19, <2>1, <2>2, Zenon DEF CheckLanded, TypeOK, inputVars, handleVars, shownVars,
             scopeVars, historyVars
<1>20. CASE AnnounceActive
  <2>1. published' \in FiberState /\ lastCause' \in TransitionCause
    BY <1>0, <1>20, <1>pub, <1>states, Zenon DEF AnnounceActive, Step
  <2>2. pc' \in PC /\ step' \in Step
    BY <1>20, <1>end, Zenon DEF AnnounceActive
  <2> QED BY <1>20, <2>1, <2>2, Zenon DEF AnnounceActive, TypeOK, inputVars, handleVars, scopeVars, historyVars
<1>21. CASE FailedCleanupLands
  <2>1. published' \in FiberState /\ lastCause' \in TransitionCause
    BY <1>0, <1>21, <1>pub, <1>states, Zenon DEF FailedCleanupLands, Step
  <2>2. pc' \in PC /\ step' \in Step
    BY <1>21, <1>end, Zenon DEF FailedCleanupLands
  <2> QED BY <1>21, <2>1, <2>2, Zenon DEF FailedCleanupLands, TypeOK, Replay, inputVars, handleVars,
             historyVars
<1>22. CASE StartUnload
  <2>1. published' \in FiberState /\ lastCause' \in TransitionCause
    BY <1>0, <1>22, <1>pub, <1>states, Zenon DEF StartUnload, Step
  <2>2. "unloading" \in PC
    BY Zenon DEF PC, Withdrawals
  <2> QED BY <1>22, <2>1, <2>2, Zenon DEF StartUnload, TypeOK, inputVars, localVars, handleVars,
             scopeVars, historyVars
<1>23. CASE UnloadLands
  <2>1. {cell.desired.aim} \in OptionAim
    BY <1>0, Zenon DEF Cell, Desired, OptionAim
  <2>2. cell' \in Cell
    BY <1>0, <1>23, <2>1, LandingTypeLemma, Zenon DEF UnloadLands
  <2>3. lastFailed' \in OptionAim
    BY <1>23, <2>1, Zenon DEF UnloadLands, TypeOK
  <2>4. step.cause \in TransitionCause
    BY <1>0, Zenon DEF Step
  <2>5. \E to \in FiberState : Publish(to, step.cause)
    BY <1>23, <1>states, Zenon DEF UnloadLands
  <2>6. published' \in FiberState /\ lastCause' \in TransitionCause
    BY <1>pub, <2>4, <2>5, Zenon
  <2>7. pc' \in PC /\ step' \in Step
    BY <1>23, <1>end, Zenon DEF UnloadLands
  <2>8. applied' \in BOOLEAN
    BY <1>23, Zenon DEF UnloadLands, Replay
  <2> QED BY <1>23, <2>2, <2>3, <2>6, <2>7, <2>8, Zenon DEF UnloadLands, TypeOK,
             inputVars, handleVars
<1>24. CASE StartFaultUnload
  <2>1. cell.committed.activeFor \in OptionAim
    BY <1>0, Zenon DEF Cell, Committed
  <2>2. cell' \in Cell
    BY <1>0, <1>24, <2>1, LandingTypeLemma, Zenon DEF StartFaultUnload
  <2>3. "BodyFaulted" \in TransitionCause
    BY Zenon DEF TransitionCause
  <2>4. published' \in FiberState /\ lastCause' \in TransitionCause
    BY <1>0, <1>24, <1>pub, <1>states, <2>3, Zenon DEF StartFaultUnload
  <2>5. "faulting" \in PC
    BY Zenon DEF PC, Withdrawals
  <2> QED BY <1>24, <2>1, <2>2, <2>3, <2>4, <2>5, Zenon DEF StartFaultUnload, TypeOK, inputVars, localVars, handleVars,
             scopeVars
<1>25. CASE FaultCleanupLands
  <2>1. pc' \in PC /\ step' \in Step
    BY <1>25, <1>end, Zenon DEF FaultCleanupLands
  <2> QED BY <1>25, <2>1, Zenon DEF FaultCleanupLands, TypeOK, Replay, inputVars, handleVars,
             shownVars, historyVars
<1>26. CASE StartFinish
  <2>1. step' \in Step
    BY <1>0, <1>26, Zenon DEF StartFinish, Step, TransitionCause
  <2>2. "finishing" \in PC
    BY Zenon DEF PC, Withdrawals
  <2> QED BY <1>26, <2>1, <2>2, Zenon DEF StartFinish, TypeOK, inputVars, handleVars, shownVars,
             scopeVars, historyVars
<1>27. CASE FinishLands
  <2>1. cell' \in Cell
    BY <1>0, <1>27, LandingTypeLemma, Zenon DEF FinishLands
  <2>2. step.cause \in TransitionCause
    BY <1>0, Zenon DEF Step
  <2>3. \E to \in FiberState : Publish(to, step.cause)
    BY <1>27, <1>states, Zenon DEF FinishLands
  <2>4. published' \in FiberState /\ lastCause' \in TransitionCause
    BY <1>pub, <2>2, <2>3, Zenon
  <2>5. pc' \in PC /\ step' \in Step
    BY <1>27, <1>end, Zenon DEF FinishLands
  <2>6. applied' \in BOOLEAN
    BY <1>27, Zenon DEF FinishLands, Replay
  <2> QED BY <1>27, <2>1, <2>4, <2>5, <2>6, Zenon DEF FinishLands, TypeOK,
             inputVars, handleVars, historyVars
<1>28. CASE UNCHANGED vars
  BY <1>28, Zenon DEF vars, TypeOK
<1> QED BY <1>1, <1>2, <1>3, <1>4, <1>5, <1>6, <1>7, <1>8, <1>9, <1>10, <1>11,
          <1>12, <1>13, <1>14, <1>15, <1>16, <1>17, <1>18, <1>19, <1>20, <1>21,
          <1>22, <1>23, <1>24, <1>25, <1>26, <1>27, <1>28, Zenon
          DEF Next, Inputs, Supervise, BodyLands, WithdrawalLands

(* The fiber's state always has its type, whatever the constants.           *)
THEOREM TypeCorrect == Spec => []TypeOK
<1>1. Init => TypeOK
  <2> SUFFICES ASSUME Init PROVE TypeOK
    OBVIOUS
  <2>1. signal \in Epochs \union {NoEpoch}
    BY Zenon DEF Init
  <2>2. cell \in Cell
    BY <2>1 DEF Init, New, Cell, Desired, Committed, Aim, OptionAim, FiberState,
                TransitionCause
  <2>3. step \in Step
    BY Zenon DEF Init, NoStep, Step, StepKind, Aim, TransitionCause
  <2>4. asks \in Seq([disposing : BOOLEAN, signalRead : BOOLEAN, targetRead : BOOLEAN])
    BY DEF Init
  <2>5. /\ observed \in Nat /\ asked \in Nat /\ settled \in Nat
        /\ flips \in Nat /\ faultedBy \in Nat
    BY DEF Init
  <2>6. pc \in PC /\ lastFailed \in OptionAim
    BY Zenon DEF Init, PC, OptionAim
  <2> QED BY <2>1, <2>2, <2>3, <2>4, <2>5, <2>6, Zenon
             DEF Init, TypeOK, FiberState, TransitionCause
<1> QED BY <1>1, TypeStep, PTL DEF Spec

-----------------------------------------------------------------------------
(* Rest. *)

(* The inductive strengthening of RestIsHonest.  The bit is raised over the *)
(* stamp of an earlier read, so the argument needs what that read stands    *)
(* for: while the stamp has not moved, the planner still has no step.       *)
StampInv ==
    pc = "rest" =>
        /\ observed <= cell.moved
        /\ cell.moved = observed => Plan(cell.committed, cell.desired).kind = "None"

RestInv == RestIsHonest /\ SingleFlight /\ StampInv

(* A target write by any actor keeps the invariant wherever the supervisor  *)
(* stands: it lowers rest and outdates the stamp.                           *)
LEMMA TargetWriteKeepsRest ==
    ASSUME TypeOK, RestInv, TargetWrite(cell, cell'),
           pc' = pc, observed' = observed
    PROVE  RestInv'
<1>1. CASE cell' = cell
  BY <1>1, Zenon DEF RestInv, RestIsHonest, SingleFlight, StampInv, InTransition
<1>2. CASE /\ cell'.committed = cell.committed
           /\ cell'.inFlight = cell.inFlight
           /\ ~cell'.resting
           /\ cell'.moved = cell.moved + 1
  <2>1. RestIsHonest'
    BY <1>2, Zenon DEF RestIsHonest
  <2>2. SingleFlight'
    BY <1>2, Zenon DEF RestInv, SingleFlight
  <2>3. cell.moved \in Nat /\ observed \in Nat
    BY Zenon DEF TypeOK, Cell
  <2>4. StampInv'
    <3> SUFFICES ASSUME pc = "rest"
                 PROVE  observed <= cell'.moved /\ cell'.moved # observed
      BY Zenon DEF StampInv
    <3>1. observed <= cell.moved
      BY Zenon DEF RestInv, StampInv
    <3> HIDE DEF RestInv
    <3> QED BY <1>2, <2>3, <3>1
  <2> QED BY <2>1, <2>2, <2>4, Zenon DEF RestInv
<1> QED BY <1>1, <1>2, Zenon DEF TargetWrite

(* A step that leaves the cell alone and moves the supervisor to a place    *)
(* outside any transition and outside the settle keeps the invariant.       *)
LEMMA MoveKeepsRest ==
    ASSUME RestInv, cell' = cell, pc # "loading",
           pc' \in {"round", "sync", "settle", "wait", "exited"}
    PROVE  RestInv'
BY Zenon DEF RestInv, RestIsHonest, SingleFlight, StampInv, InTransition, Withdrawals

(* A step inside a transition that neither raises rest nor leaves an        *)
(* activation in flight keeps the invariant.                                *)
LEMMA TransitionKeepsRest ==
    ASSUME RestInv, InTransition,
           ~cell.resting => ~cell'.resting,
           cell'.inFlight = {}, pc' # "loading", pc' # "rest"
    PROVE  RestInv'
BY Zenon DEF RestInv, RestIsHonest, SingleFlight, StampInv, InTransition, Withdrawals

(* A fresh fiber is not at rest: it owes its first reconciliation pass.     *)
LEMMA RestInit == Init => RestInv
<1> SUFFICES ASSUME Init PROVE RestInv
  OBVIOUS
<1>1. ~cell.resting /\ cell.inFlight = {} /\ pc = "round"
  BY DEF Init, New
<1> QED BY <1>1, Zenon DEF RestInv, RestIsHonest, SingleFlight, StampInv

(* Every step keeps the rest invariant.                                     *)
LEMMA RestStep == TypeOK /\ RestInv /\ [Next]_vars => RestInv'
<1> SUFFICES ASSUME TypeOK, RestInv, [Next]_vars PROVE RestInv'
  OBVIOUS
<1>0. cell \in Cell /\ signal \in Epochs \union {NoEpoch} /\ step \in Step
  BY Zenon DEF TypeOK
<1>idle. pc # "loading" => cell.inFlight = {}
  BY Zenon DEF RestInv, SingleFlight
<1>1. CASE AskRestart
  BY <1>0, <1>1, RestartLemma, TargetWriteKeepsRest, Zenon DEF AskRestart, localVars
<1>2. CASE AskDispose
  BY <1>0, <1>2, RequestLemma, TargetWriteKeepsRest, Zenon DEF AskDispose, localVars
<1>3. CASE AskSuspend
  BY <1>0, <1>3, RequestLemma, TargetWriteKeepsRest, Zenon DEF AskSuspend, localVars
<1>same. ASSUME cell' = cell, pc' = pc, observed' = observed PROVE RestInv'
  BY <1>same, TargetWriteKeepsRest, Zenon DEF TargetWrite
<1>4. CASE AskQuiesce
  BY <1>4, <1>same, Zenon DEF AskQuiesce, localVars
<1>5. ASSUME NEW incarnation \in 1..cell.launches, ReportFault(incarnation)
      PROVE  RestInv'
  BY <1>0, <1>5, FaultLemma, TargetWriteKeepsRest, Zenon DEF ReportFault, localVars
<1>6. CASE SignalMoves
  BY <1>6, <1>same, Zenon DEF SignalMoves, localVars
<1>7. CASE ReadProbe
  BY <1>7, MoveKeepsRest, Zenon DEF ReadProbe
<1>8. CASE SyncSignal
  <2>1. TargetWrite(cell, cell')
    BY <1>0, <1>8, SetEpochLemma, Zenon DEF SyncSignal
  <2> QED BY <1>8, <2>1, <1>idle, Zenon DEF SyncSignal, TargetWrite, RestInv, RestIsHonest,
             SingleFlight, StampInv, InTransition, Withdrawals
<1>9. CASE Observe
  <2>1. cell' = cell /\ pc = "observe"
    BY <1>9, Zenon DEF Observe
  <2>2. step' \in Step
    BY <1>0, <1>9, PlanLemma, Zenon DEF Observe
  <2>3. CASE step'.kind = "None"
    <3>1. pc' = "rest" /\ observed' = cell.moved /\ cell.moved <= cell.moved
      BY <1>0, <1>9, <2>3 DEF Observe, Cell
    <3>2. Plan(cell.committed, cell.desired).kind = "None"
      BY <1>9, <2>3, Zenon DEF Observe
    <3> QED BY <1>idle, <2>1, <3>1, <3>2, Zenon DEF RestInv, RestIsHonest,
               SingleFlight, StampInv, InTransition, Withdrawals
  <2>4. CASE step'.kind # "None"
    <3>1. pc' \in {"load", "unload", "finish"}
      BY <1>9, <2>2, <2>4, Zenon DEF Observe, Step, StepKind
    <3>2. ~cell.resting
      BY <1>9, <2>4, Zenon DEF Observe, RestInv, RestIsHonest
    <3> QED BY <1>idle, <2>1, <3>1, <3>2, Zenon DEF RestInv, RestIsHonest,
               SingleFlight, StampInv
  <2> QED BY <2>3, <2>4
<1>10. CASE RaiseRest
  <2>1. pc = "rest" /\ pc' = "settle"
    BY <1>10, Zenon DEF RaiseRest
  <2>2. CASE cell.moved # observed
    BY <1>10, <2>1, <2>2, MoveKeepsRest, Zenon DEF RaiseRest, SettleRest
  <2>3. CASE cell.moved = observed
    <3>1. /\ cell'.committed = cell.committed
          /\ cell'.desired = cell.desired
          /\ cell'.inFlight = cell.inFlight
      BY <1>0, <1>10, <2>3, Zenon DEF RaiseRest, SettleRest, Cell
    <3>2. Plan(cell.committed, cell.desired).kind = "None"
      BY <2>1, <2>3, Zenon DEF RestInv, StampInv
    <3> QED BY <1>idle, <2>1, <3>1, <3>2, Zenon DEF RestInv, RestIsHonest,
               SingleFlight, StampInv, InTransition, Withdrawals
  <2> QED BY <2>2, <2>3
<1>11. CASE Settle
  BY <1>11, MoveKeepsRest, Zenon DEF Settle
<1>12. CASE Wait
  BY <1>12, MoveKeepsRest, Zenon DEF Wait
<1>13. CASE Absorb
  BY <1>0, <1>13, SetEpochLemma, TargetWriteKeepsRest, Zenon DEF Absorb, localVars
<1>14. CASE LaunchBody
  <2>1. pc = "load" /\ pc' = "loading" /\ ~cell.resting
    BY <1>14, Zenon DEF LaunchBody, RestInv, RestIsHonest, InTransition
  <2>2. cell'.inFlight = {step.aim} /\ cell'.resting = cell.resting
    BY <1>0, <1>14, LaunchLemma, Zenon DEF LaunchBody, Step
  <2> QED BY <2>1, <2>2, Zenon DEF RestInv, RestIsHonest, SingleFlight, StampInv
<1>15. CASE BodyApplies
  BY <1>15, <1>same, Zenon DEF BodyApplies, localVars
<1>land. Land(cell) \in Cell /\ Land(cell).inFlight = {} /\ Land(cell).resting = cell.resting
  BY <1>0, LandLemma, Zenon
<1>16. CASE BodyOk
  <2>1. cell' = Activated(Land(cell), step.aim) /\ step.aim \in Aim
    BY <1>0, <1>16, Zenon DEF BodyOk, Step
  <2>2. cell' \in Cell
    BY <2>1, <1>land, LandingTypeLemma, Zenon
  <2>3. cell'.inFlight = {} /\ cell'.resting = cell.resting
    BY <2>1, <2>2, <1>land, LandingLemma, Zenon
  <2> QED BY <1>16, <2>3, TransitionKeepsRest, Zenon DEF BodyOk, InTransition
<1>17. CASE BodyErr
  <2>1. cell' = FailedFor(Land(cell), {step.aim}) /\ {step.aim} \in OptionAim
    BY <1>0, <1>17, Zenon DEF BodyErr, Step, OptionAim
  <2>2. cell' \in Cell
    BY <2>1, <1>land, LandingTypeLemma, Zenon
  <2>3. cell'.inFlight = {} /\ cell'.resting = cell.resting
    BY <2>1, <2>2, <1>land, LandingLemma, Zenon
  <2> QED BY <1>17, <2>3, TransitionKeepsRest, Zenon DEF BodyErr, InTransition
<1>18. CASE SyncLanded
  <2>1. TargetWrite(cell, cell')
    BY <1>0, <1>18, SetEpochLemma, Zenon DEF SyncLanded
  <2>2. cell'.inFlight = {} /\ (~cell.resting => ~cell'.resting)
    BY <1>18, <1>idle, <2>1, Zenon DEF SyncLanded, TargetWrite
  <2> QED BY <1>18, <2>2, TransitionKeepsRest, Zenon DEF SyncLanded, InTransition
<1>19. CASE CheckLanded
  BY <1>19, <1>idle, TransitionKeepsRest, Zenon DEF CheckLanded, EndOfStep, InTransition
<1>20. CASE AnnounceActive
  BY <1>20, <1>idle, TransitionKeepsRest, Zenon DEF AnnounceActive, EndOfStep, InTransition
<1>21. CASE FailedCleanupLands
  BY <1>21, <1>idle, TransitionKeepsRest, Zenon DEF FailedCleanupLands, EndOfStep,
     InTransition, Withdrawals
<1>22. CASE StartUnload
  BY <1>22, <1>idle, TransitionKeepsRest, Zenon DEF StartUnload, InTransition
<1>23. CASE UnloadLands
  <2>1. {cell.desired.aim} \in OptionAim
    BY <1>0, Zenon DEF Cell, Desired, OptionAim
  <2>2. \/ cell' = UnloadedCleanly(cell)
        \/ cell' = FailedFor(cell, {cell.desired.aim})
        \/ \E clean \in BOOLEAN : cell' = DisposalLanded(cell, clean)
    BY <1>23, Zenon DEF UnloadLands
  <2>3. cell' \in Cell
    BY <1>0, <2>1, <2>2, LandingTypeLemma, Zenon
  <2>4. cell'.inFlight = cell.inFlight /\ cell'.resting = cell.resting
    BY <1>0, <2>1, <2>2, <2>3, LandingLemma, Zenon
  <2> QED BY <1>23, <1>idle, <2>4, TransitionKeepsRest, Zenon DEF UnloadLands,
             EndOfStep, InTransition, Withdrawals
<1>24. CASE StartFaultUnload
  <2>1. /\ cell' = FailedFor(cell, cell.committed.activeFor)
        /\ cell.committed.activeFor \in OptionAim
    BY <1>0, <1>24, Zenon DEF StartFaultUnload, Cell, Committed
  <2>2. cell' \in Cell
    BY <1>0, <2>1, LandingTypeLemma, Zenon
  <2>3. cell'.inFlight = cell.inFlight /\ cell'.resting = cell.resting
    BY <1>0, <2>1, <2>2, LandingLemma, Zenon
  <2> QED BY <1>24, <1>idle, <2>3, TransitionKeepsRest, Zenon DEF StartFaultUnload,
             InTransition
<1>25. CASE FaultCleanupLands
  BY <1>25, <1>idle, TransitionKeepsRest, Zenon DEF FaultCleanupLands, EndOfStep,
     InTransition, Withdrawals
<1>26. CASE StartFinish
  BY <1>26, <1>idle, TransitionKeepsRest, Zenon DEF StartFinish, InTransition
<1>27. CASE FinishLands
  <2>1. \E clean \in BOOLEAN : cell' = DisposalLanded(cell, clean)
    BY <1>27, Zenon DEF FinishLands
  <2>2. cell' \in Cell
    BY <1>0, <2>1, LandingTypeLemma, Zenon
  <2>3. cell'.inFlight = cell.inFlight /\ cell'.resting = cell.resting
    BY <1>0, <2>1, <2>2, LandingLemma, Zenon
  <2> QED BY <1>27, <1>idle, <2>3, TransitionKeepsRest, Zenon DEF FinishLands,
             EndOfStep, InTransition, Withdrawals
<1>28. CASE UNCHANGED vars
  BY <1>28, <1>same, Zenon DEF vars
<1> QED BY <1>1, <1>2, <1>3, <1>4, <1>5, <1>6, <1>7, <1>8, <1>9, <1>10, <1>11,
          <1>12, <1>13, <1>14, <1>15, <1>16, <1>17, <1>18, <1>19, <1>20, <1>21,
          <1>22, <1>23, <1>24, <1>25, <1>26, <1>27, <1>28, Zenon
          DEF Next, Inputs, Supervise, BodyLands, WithdrawalLands

(* A fiber at rest owes nothing, for every environment and every bound: no  *)
(* target written between the supervisor's read and its settle is hidden    *)
(* behind a raised rest bit.                                                *)
THEOREM RestHonest == Spec => []RestIsHonest
<1>1. RestInv => RestIsHonest
  BY Zenon DEF RestInv
<1> QED BY <1>1, RestInit, RestStep, TypeCorrect, PTL DEF Spec

(* At most one activation is in flight, and only while its body runs: the   *)
(* assertion of SteeringCell::launch never fires.                           *)
THEOREM LaunchIsSingle == Spec => []SingleFlight
<1>1. RestInv => SingleFlight
  BY Zenon DEF RestInv
<1> QED BY <1>1, RestInit, RestStep, TypeCorrect, PTL DEF Spec

-----------------------------------------------------------------------------
(* What an input may do to the cell, and what a landing may do to it. *)

(* An input steers: what has landed, what flies and the number of launches  *)
(* are left alone, requests to end are sticky, the cause stays one a reload *)
(* may have, and a cell that changes changes its stamp.                     *)
Steers(c, d) ==
    /\ d.committed = c.committed
    /\ d.inFlight = c.inFlight
    /\ d.launches = c.launches
    /\ c.desired.disposing => d.desired.disposing
    /\ c.desired.suspending => d.desired.suspending
    /\ ~Terminal(c.desired.cause) => ~Terminal(d.desired.cause)
    /\ d = c \/ d.moved # c.moved

(* Stir writes the stamp and the rest bit only.                             *)
LEMMA StirKeeps ==
    ASSUME NEW c \in Cell, NEW b \in Cell,
           b.committed = c.committed, b.inFlight = c.inFlight,
           b.launches = c.launches, b.moved = c.moved,
           c.desired.disposing => b.desired.disposing,
           c.desired.suspending => b.desired.suspending,
           ~Terminal(c.desired.cause) => ~Terminal(b.desired.cause)
    PROVE  Steers(c, Stir(b)) /\ Stir(b).desired = b.desired
<1>1. c.moved \in Nat
  BY Zenon DEF Cell
<1>2. c.moved + 1 # c.moved
  BY <1>1
<1>3. /\ Stir(b).desired = b.desired /\ Stir(b).launches = b.launches
      /\ Stir(b).committed = b.committed /\ Stir(b).inFlight = b.inFlight
      /\ Stir(b).moved = b.moved + 1
  BY Zenon DEF Stir, Cell
<1> QED BY <1>2, <1>3, Zenon DEF Steers

(* Every input steers, and only a fault notice touches the recorded fault.  *)
LEMMA SetEpochSteers ==
    ASSUME NEW c \in Cell, NEW e \in Epochs \union {NoEpoch}
    PROVE  /\ Steers(c, SetEpoch(c, e))
           /\ SetEpoch(c, e).desired.faulted = c.desired.faulted
<1>1. CASE c.desired.aim.epoch = e
  BY <1>1, Zenon DEF SetEpoch, Steers
<1>2. CASE c.desired.aim.epoch # e
  <2> DEFINE b == [c EXCEPT !.desired.aim.epoch = e,
                            !.desired.cause = "DependencyChanged"]
  <2>1. "DependencyChanged" \in TransitionCause /\ ~Terminal("DependencyChanged")
    BY Zenon DEF TransitionCause, Terminal
  <2>2. b \in Cell
    BY <2>1, Zenon DEF Cell, Desired, Aim
  <2>3. /\ b.committed = c.committed /\ b.inFlight = c.inFlight
        /\ b.moved = c.moved /\ b.launches = c.launches
        /\ b.desired.disposing = c.desired.disposing
        /\ b.desired.suspending = c.desired.suspending
        /\ b.desired.faulted = c.desired.faulted
        /\ b.desired.cause = "DependencyChanged"
    BY Zenon DEF Cell, Desired
  <2>4. SetEpoch(c, e) = Stir(b)
    BY <1>2, Zenon DEF SetEpoch
  <2> HIDE DEF b
  <2> QED BY <2>1, <2>2, <2>3, <2>4, StirKeeps, Zenon
<1> QED BY <1>1, <1>2, Zenon

(* A restart steers: the causes its callers state are not final.            *)
LEMMA RestartSteers ==
    ASSUME NEW c \in Cell, NEW why \in RestartCauses
    PROVE  /\ Steers(c, Restart(c, why))
           /\ Restart(c, why).desired.faulted = c.desired.faulted
<1> DEFINE b == [c EXCEPT !.desired.aim.revision = c.desired.aim.revision + 1,
                          !.desired.cause = why]
<1>1. why \in TransitionCause /\ ~Terminal(why)
  BY RestartCausesAssumption DEF TransitionCause, Terminal
<1>2. c.desired.aim.revision + 1 \in Nat
  BY DEF Cell, Desired, Aim
<1>3. b \in Cell
  BY <1>1, <1>2, Zenon DEF Cell, Desired, Aim
<1>4. /\ b.committed = c.committed /\ b.inFlight = c.inFlight
      /\ b.moved = c.moved /\ b.launches = c.launches
      /\ b.desired.disposing = c.desired.disposing
      /\ b.desired.suspending = c.desired.suspending
      /\ b.desired.faulted = c.desired.faulted
      /\ b.desired.cause = why
  BY Zenon DEF Cell, Desired
<1>5. Restart(c, why) = Stir(b)
  BY Zenon DEF Restart
<1> HIDE DEF b
<1> QED BY <1>1, <1>3, <1>4, <1>5, StirKeeps, Zenon

(* The two requests to end steer.                                           *)
LEMMA RequestSteers ==
    ASSUME NEW c \in Cell
    PROVE  /\ Steers(c, Dispose(c)) /\ Dispose(c).desired.faulted = c.desired.faulted
           /\ Steers(c, Suspend(c)) /\ Suspend(c).desired.faulted = c.desired.faulted
<1> DEFINE b == [c EXCEPT !.desired.disposing = TRUE]
           s == [c EXCEPT !.desired.suspending = TRUE]
<1>1. b \in Cell /\ s \in Cell
  BY Zenon DEF Cell, Desired
<1>2. /\ b.committed = c.committed /\ b.inFlight = c.inFlight
      /\ b.moved = c.moved /\ b.launches = c.launches
      /\ b.desired.disposing
      /\ b.desired.suspending = c.desired.suspending
      /\ b.desired.faulted = c.desired.faulted
      /\ b.desired.cause = c.desired.cause
  BY Zenon DEF Cell, Desired
<1>3. /\ s.committed = c.committed /\ s.inFlight = c.inFlight
      /\ s.moved = c.moved /\ s.launches = c.launches
      /\ s.desired.suspending
      /\ s.desired.disposing = c.desired.disposing
      /\ s.desired.faulted = c.desired.faulted
      /\ s.desired.cause = c.desired.cause
  BY Zenon DEF Cell, Desired
<1>4. Dispose(c) = c \/ Dispose(c) = Stir(b)
  BY Zenon DEF Dispose
<1>5. Suspend(c) = c \/ Suspend(c) = Stir(s)
  BY Zenon DEF Suspend
<1>6. Steers(c, c)
  BY Zenon DEF Steers
<1> HIDE DEF b, s
<1>7. Steers(c, Stir(b)) /\ Stir(b).desired = b.desired
  BY <1>1, <1>2, StirKeeps, Zenon
<1>8. Steers(c, Stir(s)) /\ Stir(s).desired = s.desired
  BY <1>1, <1>3, StirKeeps, Zenon
<1> QED BY <1>2, <1>3, <1>4, <1>5, <1>6, <1>7, <1>8, Zenon

(* A fault notice steers, and acts for the incarnation launched last only.  *)
LEMMA FaultSteers ==
    ASSUME NEW c \in Cell, NEW incarnation, FaultActs(c, incarnation)
    PROVE  /\ Steers(c, Fault(c, incarnation))
           /\ Fault(c, incarnation).launches = incarnation
<1> DEFINE b == [c EXCEPT !.desired.faulted = TRUE]
<1>1. b \in Cell
  BY Zenon DEF Cell, Desired
<1>2. /\ b.committed = c.committed /\ b.inFlight = c.inFlight
      /\ b.moved = c.moved /\ b.launches = c.launches
      /\ b.desired.disposing = c.desired.disposing
      /\ b.desired.suspending = c.desired.suspending
      /\ b.desired.cause = c.desired.cause
  BY Zenon DEF Cell, Desired
<1>3. Fault(c, incarnation) = Stir(b)
  BY Zenon DEF Fault
<1>4. c.launches = incarnation
  BY Zenon DEF FaultActs
<1> HIDE DEF b
<1>5. Steers(c, Stir(b))
  BY <1>1, <1>2, StirKeeps, Zenon
<1> QED BY <1>3, <1>4, <1>5, Zenon DEF Steers

(* A launch drops the fault an earlier incarnation left and keeps the rest  *)
(* of the target.                                                           *)
LEMMA LaunchTarget ==
    ASSUME NEW c \in Cell, NEW aim \in Aim
    PROVE  /\ Launch(c, aim).committed = c.committed
           /\ Launch(c, aim).resting = c.resting
           /\ Launch(c, aim).inFlight = {aim}
           /\ Launch(c, aim).desired = [c.desired EXCEPT !.faulted = FALSE]
BY Zenon DEF Launch, Cell, Desired

(* A landing commits, and writes nothing else but the in-flight mark.       *)
LEMMA CommitTarget ==
    ASSUME NEW c \in Cell, NEW landed
    PROVE  /\ Commit(c, landed).committed = landed
           /\ Commit(c, landed).desired = c.desired
           /\ Commit(c, landed).launches = c.launches
           /\ Commit(c, landed).resting = c.resting
           /\ Commit(c, landed).inFlight = c.inFlight
BY Zenon DEF Commit, Cell

(* The same for the landing of the activation in flight.                    *)
LEMMA LandTarget ==
    ASSUME NEW c \in Cell, NEW landed
    PROVE  /\ Commit(Land(c), landed).committed = landed
           /\ Commit(Land(c), landed).desired = c.desired
           /\ Commit(Land(c), landed).launches = c.launches
           /\ Commit(Land(c), landed).resting = c.resting
           /\ Commit(Land(c), landed).inFlight = {}
BY Zenon DEF Commit, Land, Cell

-----------------------------------------------------------------------------
(* What has landed, what has ended and what was asked. *)

Ending == cell.desired.disposing \/ cell.desired.suspending

Ended == cell.committed.state = "Disposed" \/ cell.committed.disposalFailed

(* What the committed state says of the last failure and of the place the   *)
(* supervisor stands at: a step is planned from it and it does not change   *)
(* before the step lands.                                                   *)
LandedInv ==
    /\ cell.committed.state \notin {"Loading", "Unloading"}
    /\ cell.committed.state = "Active" => cell.committed.activeFor # {}
    /\ cell.committed.state \in {"Pending", "Active"} => cell.committed.failedUnder = {}
    /\ lastFailed = cell.committed.failedUnder
    /\ pc \in {"load", "loading"} =>
         /\ cell.committed.failedUnder # {step.aim}
         /\ cell.committed.state \in {"Pending", "Failed"}
    /\ pc = "loading" => cell.inFlight = {step.aim}
    /\ pc \in {"unload", "unloading"} => cell.committed.state = "Active"
    /\ ~Terminal(cell.desired.cause)

(* A fiber ends because it was asked to, outside any transition, with its   *)
(* end shown and its scope empty; only an ended fiber's supervisor returns. *)
EndedInv ==
    /\ cell.committed.disposalFailed => cell.committed.state = "Failed" /\ Ending
    /\ pc \in {"finish", "finishing"} => Ending
    /\ Ended => ~InTransition /\ published = cell.committed.state /\ ~applied
    /\ pc = "exited" => Ended

(* The reads that came after the call are on record, and a caller who asked *)
(* for the end got it.                                                      *)
Served(p) ==
    /\ asks[p].signalRead
    /\ asks[p].targetRead
    /\ asks[p].disposing => Ended

(* The probe read at the top of a round counts calls made before the reads  *)
(* of that round: whoever it covers is served when the round settles.       *)
AskedInv ==
    /\ asked <= Probe
    /\ settled <= Probe
    /\ \A p \in 1..Probe : asks[p].disposing => cell.desired.disposing
    /\ pc = "observe" => \A p \in 1..asked : asks[p].signalRead
    /\ pc \in {"rest", "settle"} => \A p \in 1..asked : Served(p)
    /\ \A p \in 1..settled : Served(p)

(* What the planner's answer says of the state it planned from.             *)
LEMMA PlanFacts ==
    ASSUME NEW c \in Committed, NEW d \in Desired,
           c.state \notin {"Loading", "Unloading"}
    PROVE  LET p == Plan(c, d)
           IN  /\ p.kind \in StepKind
               /\ p.kind = "Load" =>
                    /\ c.state \in {"Pending", "Failed"}
                    /\ ~d.disposing /\ ~d.suspending
                    /\ d.aim.epoch # NoEpoch
                    /\ ~(c.state = "Failed" /\ c.failedUnder = {d.aim})
                    /\ p.aim = d.aim
               /\ p.kind = "Unload" => c.state = "Active"
               /\ p.kind = "Finish" =>
                    (d.disposing \/ d.suspending) /\ ~c.disposalFailed
               /\ p.kind \in {"Unload", "Finish", "Load"} =>
                    c.state # "Disposed"
               /\ p.kind = "None" /\ d.disposing =>
                    c.state = "Disposed" \/ c.disposalFailed
               /\ c.disposalFailed /\ c.state = "Failed"
                    /\ (d.disposing \/ d.suspending) => p.kind = "None"
BY Zenon DEF Plan, PlanActive, PlanInert, Committed, FiberState, StepKind

(* An input, wherever the supervisor stands, keeps what has landed.         *)
LEMMA SteerKeepsLanded ==
    ASSUME LandedInv, Steers(cell, cell'), lastFailed' = lastFailed, step' = step,
           \/ pc' = pc
           \/ pc' \notin {"load", "loading", "unload", "unloading"}
    PROVE  LandedInv'
BY Zenon DEF LandedInv, Steers

(* The same for what has ended.                                             *)
LEMMA SteerKeepsEnded ==
    ASSUME EndedInv, Steers(cell, cell'), published' = published, applied' = applied,
           \/ pc' = pc
           \/ pc' \in {"round", "sync", "observe", "rest", "settle", "wait"}
           \/ InTransition /\ pc' \notin {"finish", "finishing", "exited"}
    PROVE  EndedInv' /\ (Ended => Ended')
BY Zenon DEF EndedInv, Steers, Ended, Ending, InTransition, Withdrawals

(* The same for what was asked, when nobody asks.                           *)
LEMMA SteerKeepsAsked ==
    ASSUME AskedInv, asks' = asks, Ended => Ended',
           cell.desired.disposing => cell'.desired.disposing,
           asked' = asked, settled' = settled,
           pc' \in {"observe", "rest", "settle"} => pc' = pc
    PROVE  AskedInv'
BY Zenon DEF AskedInv, Probe, Served

(* A fresh fiber has landed nothing and was asked nothing.                  *)
LEMMA FateInit == Init => FaultNamesLiveIncarnation /\ LandedInv /\ EndedInv /\ AskedInv
<1> SUFFICES ASSUME Init
             PROVE  FaultNamesLiveIncarnation /\ LandedInv /\ EndedInv /\ AskedInv
  OBVIOUS
<1>1. /\ cell.committed = [state |-> "Pending", activeFor |-> {}, failedUnder |-> {},
                           disposalFailed |-> FALSE]
      /\ cell.desired.cause = "InitialLoad" /\ ~cell.desired.faulted
      /\ pc = "round" /\ lastFailed = {} /\ asks = <<>> /\ asked = 0 /\ settled = 0
  BY Zenon DEF Init, New
<1>2. Probe = 0 /\ 1..0 = {}
  BY <1>1 DEF Probe
<1>3. AskedInv
  BY <1>1, <1>2 DEF AskedInv
<1>4. /\ cell.committed.state = "Pending" /\ cell.committed.failedUnder = {}
      /\ ~cell.committed.disposalFailed
  BY <1>1
<1>5. LandedInv /\ EndedInv /\ FaultNamesLiveIncarnation
  BY <1>1, <1>4 DEF LandedInv, Terminal, EndedInv, FaultNamesLiveIncarnation, Ended
<1> QED BY <1>3, <1>5

(* Every step keeps the fault on record the live incarnation's.             *)
LEMMA FaultStep ==
    TypeOK /\ FaultNamesLiveIncarnation /\ [Next]_vars => FaultNamesLiveIncarnation'
<1> SUFFICES ASSUME TypeOK, FaultNamesLiveIncarnation, [Next]_vars
             PROVE  FaultNamesLiveIncarnation'
  OBVIOUS
<1>0. cell \in Cell /\ signal \in Epochs \union {NoEpoch} /\ step \in Step
  BY Zenon DEF TypeOK
<1>steer. ASSUME Steers(cell, cell'), cell'.desired.faulted = cell.desired.faulted,
                 faultedBy' = faultedBy
          PROVE  FaultNamesLiveIncarnation'
  BY <1>steer, Zenon DEF FaultNamesLiveIncarnation, Steers
<1>commit. ASSUME cell'.desired = cell.desired, cell'.launches = cell.launches,
                  faultedBy' = faultedBy
           PROVE  FaultNamesLiveIncarnation'
  BY <1>commit, Zenon DEF FaultNamesLiveIncarnation
<1>1. CASE AskRestart
  BY <1>0, <1>1, <1>steer, RestartSteers, Zenon DEF AskRestart, historyVars
<1>2. CASE AskDispose
  BY <1>0, <1>2, <1>steer, RequestSteers, Zenon DEF AskDispose, historyVars
<1>3. CASE AskSuspend
  BY <1>0, <1>3, <1>steer, RequestSteers, Zenon DEF AskSuspend, historyVars
<1>4. ASSUME NEW incarnation \in 1..cell.launches, ReportFault(incarnation)
      PROVE  FaultNamesLiveIncarnation'
  BY <1>0, <1>4, FaultSteers, Zenon DEF ReportFault, FaultNamesLiveIncarnation
<1>5. CASE SyncSignal \/ Absorb \/ SyncLanded
  BY <1>0, <1>5, <1>steer, SetEpochSteers, Zenon
     DEF SyncSignal, Absorb, SyncLanded, historyVars
<1>6. CASE LaunchBody
  <2>1. step.aim \in Aim
    BY <1>0, Zenon DEF Step
  <2>2. cell'.desired = [cell.desired EXCEPT !.faulted = FALSE]
    BY <1>0, <1>6, <2>1, LaunchTarget, Zenon DEF LaunchBody
  <2>3. cell.desired \in Desired
    BY <1>0, Zenon DEF Cell
  <2> QED BY <2>2, <2>3, Zenon DEF FaultNamesLiveIncarnation, Desired
<1>7. CASE BodyOk \/ BodyErr \/ UnloadLands \/ StartFaultUnload \/ FinishLands
  <2>1. \/ \E l : cell' = Commit(cell, l)
        \/ \E l : cell' = Commit(Land(cell), l)
    BY <1>7, Zenon DEF BodyOk, BodyErr, UnloadLands, StartFaultUnload, FinishLands,
       Activated, FailedFor, UnloadedCleanly, DisposalLanded
  <2>2. faultedBy' = faultedBy
    BY <1>7, Zenon DEF BodyOk, BodyErr, UnloadLands, StartFaultUnload, FinishLands,
       historyVars
  <2>3. cell'.desired = cell.desired /\ cell'.launches = cell.launches
    <3>1. CASE \E l : cell' = Commit(cell, l)
      <4>1. PICK l : cell' = Commit(cell, l)
        BY <3>1, Zenon
      <4> QED BY <1>0, <4>1, CommitTarget
    <3>2. CASE \E l : cell' = Commit(Land(cell), l)
      <4>1. PICK l : cell' = Commit(Land(cell), l)
        BY <3>2, Zenon
      <4> QED BY <1>0, <4>1, LandTarget
    <3> QED BY <2>1, <3>1, <3>2, Zenon
  <2> QED BY <1>commit, <2>2, <2>3, Zenon
<1>8. CASE RaiseRest
  <2>1. cell'.desired = cell.desired /\ cell'.launches = cell.launches
    BY <1>0, <1>8, Zenon DEF RaiseRest, SettleRest, Cell
  <2> QED BY <1>8, <2>1, <1>commit, Zenon DEF RaiseRest, historyVars
<1>9. CASE UNCHANGED <<cell, historyVars>>
  BY <1>9, <1>commit, Zenon DEF historyVars
<1>10. \/ AskQuiesce \/ SignalMoves \/ ReadProbe \/ Observe \/ Settle \/ Wait
       \/ BodyApplies \/ CheckLanded \/ AnnounceActive \/ FailedCleanupLands
       \/ StartUnload \/ FaultCleanupLands \/ StartFinish \/ UNCHANGED vars
       => UNCHANGED <<cell, historyVars>>
  BY Zenon DEF AskQuiesce, SignalMoves, ReadProbe, Observe, Settle, Wait, BodyApplies,
     CheckLanded, AnnounceActive, FailedCleanupLands, StartUnload, FaultCleanupLands,
     StartFinish, vars, historyVars
<1> QED BY <1>1, <1>2, <1>3, <1>4, <1>5, <1>6, <1>7, <1>8, <1>9, <1>10, Zenon
          DEF Next, Inputs, Supervise, BodyLands, WithdrawalLands

(* A landing that commits landed leaves the target alone.                   *)
LEMMA LandsAs ==
    ASSUME TypeOK
    PROVE  /\ BodyOk => /\ cell'.committed.state = "Active"
                        /\ cell'.committed.activeFor = {step.aim}
                        /\ cell'.committed.failedUnder = {}
                        /\ cell'.committed.disposalFailed = cell.committed.disposalFailed
           /\ BodyErr => /\ cell'.committed.state = "Failed"
                         /\ cell'.committed.failedUnder = {step.aim}
                         /\ cell'.committed.disposalFailed = cell.committed.disposalFailed
           /\ StartFaultUnload =>
                         /\ cell'.committed.state = "Failed"
                         /\ cell'.committed.failedUnder = cell.committed.activeFor
                         /\ cell'.committed.disposalFailed = cell.committed.disposalFailed
           /\ UnloadLands =>
                \/ /\ Ending
                   /\ cell'.committed.failedUnder = cell.committed.failedUnder
                   /\ lastFailed' = lastFailed
                   /\ published' = cell'.committed.state
                   /\ \/ /\ cell'.committed.state = "Disposed"
                         /\ cell'.committed.disposalFailed = cell.committed.disposalFailed
                      \/ /\ cell'.committed.state = "Failed"
                         /\ cell'.committed.disposalFailed
                \/ /\ ~Ending
                   /\ cell'.committed = Unloaded(cell.committed)
                   /\ cell'.committed.state = "Pending"
                   /\ cell'.committed.failedUnder = cell.committed.failedUnder
                   /\ lastFailed' = lastFailed
                   /\ cell'.committed.disposalFailed = cell.committed.disposalFailed
                \/ /\ ~Ending
                   /\ cell'.committed.state = "Failed"
                   /\ cell'.committed.failedUnder = {cell.desired.aim}
                   /\ lastFailed' = {cell.desired.aim}
                   /\ cell'.committed.disposalFailed = cell.committed.disposalFailed
           /\ FinishLands =>
                /\ cell'.committed.failedUnder = cell.committed.failedUnder
                /\ published' = cell'.committed.state
                /\ \/ /\ cell'.committed.state = "Disposed"
                      /\ cell'.committed.disposalFailed = cell.committed.disposalFailed
                   \/ /\ cell'.committed.state = "Failed"
                      /\ cell'.committed.disposalFailed
           /\ BodyOk \/ BodyErr => cell'.inFlight = {}
           /\ BodyOk \/ BodyErr \/ StartFaultUnload \/ UnloadLands \/ FinishLands =>
                cell'.desired = cell.desired /\ cell'.resting = cell.resting
<1>0. cell \in Cell /\ cell.committed \in Committed
  BY Zenon DEF TypeOK, Cell
<1>land. Land(cell).committed = cell.committed
  BY <1>0, Zenon DEF Land, Cell
<1>1. ASSUME BodyOk
      PROVE  /\ cell'.committed = [cell.committed EXCEPT !.state = "Active",
                    !.activeFor = {step.aim}, !.failedUnder = {}]
             /\ cell'.desired = cell.desired /\ cell'.resting = cell.resting
             /\ cell'.inFlight = {}
  <2>1. cell' = Commit(Land(cell), [cell.committed EXCEPT !.state = "Active",
                    !.activeFor = {step.aim}, !.failedUnder = {}])
    BY <1>1, <1>land, Zenon DEF BodyOk, Activated
  <2> QED BY <1>0, <2>1, LandTarget, Zenon
<1>2. ASSUME BodyErr
      PROVE  /\ cell'.committed = [cell.committed EXCEPT !.state = "Failed",
                    !.activeFor = {}, !.failedUnder = {step.aim}]
             /\ cell'.desired = cell.desired /\ cell'.resting = cell.resting
             /\ cell'.inFlight = {}
  <2>1. cell' = Commit(Land(cell), [cell.committed EXCEPT !.state = "Failed",
                    !.activeFor = {}, !.failedUnder = {step.aim}])
    BY <1>2, <1>land, Zenon DEF BodyErr, FailedFor
  <2> QED BY <1>0, <2>1, LandTarget, Zenon
<1>3. ASSUME StartFaultUnload
      PROVE  /\ cell'.committed = [cell.committed EXCEPT !.state = "Failed",
                    !.activeFor = {}, !.failedUnder = cell.committed.activeFor]
             /\ cell'.desired = cell.desired /\ cell'.resting = cell.resting
  BY <1>0, <1>3, CommitTarget, Zenon DEF StartFaultUnload, FailedFor
<1>4. ASSUME NEW clean \in BOOLEAN, cell' = DisposalLanded(cell, clean),
             Publish(IF clean THEN "Disposed" ELSE "Failed", step.cause)
      PROVE  /\ cell'.committed.failedUnder = cell.committed.failedUnder
             /\ published' = cell'.committed.state
             /\ \/ /\ cell'.committed.state = "Disposed"
                   /\ cell'.committed.disposalFailed = cell.committed.disposalFailed
                \/ /\ cell'.committed.state = "Failed"
                   /\ cell'.committed.disposalFailed
             /\ cell'.desired = cell.desired /\ cell'.resting = cell.resting
  <2>1. CASE clean
    <3>1. /\ cell'.committed = [cell.committed EXCEPT !.state = "Disposed"]
          /\ cell'.desired = cell.desired /\ cell'.resting = cell.resting
          /\ published' = "Disposed"
      BY <1>0, <1>4, <2>1, CommitTarget, Zenon DEF DisposalLanded, Publish
    <3> QED BY <1>0, <3>1, Zenon DEF Committed
  <2>2. CASE ~clean
    <3>1. /\ cell'.committed = [cell.committed EXCEPT !.state = "Failed",
                                                      !.disposalFailed = TRUE]
          /\ cell'.desired = cell.desired /\ cell'.resting = cell.resting
          /\ published' = "Failed"
      BY <1>0, <1>4, <2>2, CommitTarget, Zenon DEF DisposalLanded, Publish
    <3> QED BY <1>0, <3>1, Zenon DEF Committed
  <2> QED BY <2>1, <2>2
<1>5. ASSUME cell' = UnloadedCleanly(cell)
      PROVE  /\ cell'.committed = Unloaded(cell.committed)
             /\ cell'.desired = cell.desired /\ cell'.resting = cell.resting
  BY <1>0, <1>5, CommitTarget, Zenon DEF UnloadedCleanly
<1>6. ASSUME cell' = FailedFor(cell, {cell.desired.aim})
      PROVE  /\ cell'.committed = [cell.committed EXCEPT !.state = "Failed",
                    !.activeFor = {}, !.failedUnder = {cell.desired.aim}]
             /\ cell'.desired = cell.desired /\ cell'.resting = cell.resting
  BY <1>0, <1>6, CommitTarget, Zenon DEF FailedFor
<1>7. ASSUME UnloadLands
      PROVE  \/ /\ Ending /\ lastFailed' = lastFailed
                /\ \E clean \in BOOLEAN :
                     /\ cell' = DisposalLanded(cell, clean)
                     /\ Publish(IF clean THEN "Disposed" ELSE "Failed", step.cause)
             \/ /\ ~Ending /\ lastFailed' = lastFailed /\ cell' = UnloadedCleanly(cell)
             \/ /\ ~Ending /\ lastFailed' = {cell.desired.aim}
                /\ cell' = FailedFor(cell, {cell.desired.aim})
  BY <1>7, Zenon DEF UnloadLands, Ending
<1>8. ASSUME FinishLands
      PROVE  \E clean \in BOOLEAN :
                /\ cell' = DisposalLanded(cell, clean)
                /\ Publish(IF clean THEN "Disposed" ELSE "Failed", step.cause)
  BY <1>8, Zenon DEF FinishLands
<1>9. BodyOk => /\ cell'.committed.state = "Active"
                /\ cell'.committed.activeFor = {step.aim}
                /\ cell'.committed.failedUnder = {}
                /\ cell'.committed.disposalFailed = cell.committed.disposalFailed
  BY <1>0, <1>1, Zenon DEF Committed
<1>10. BodyErr => /\ cell'.committed.state = "Failed"
                  /\ cell'.committed.failedUnder = {step.aim}
                  /\ cell'.committed.disposalFailed = cell.committed.disposalFailed
  BY <1>0, <1>2, Zenon DEF Committed
<1>11. StartFaultUnload =>
          /\ cell'.committed.state = "Failed"
          /\ cell'.committed.failedUnder = cell.committed.activeFor
          /\ cell'.committed.disposalFailed = cell.committed.disposalFailed
  BY <1>0, <1>3, Zenon DEF Committed
<1>12. cell' = FailedFor(cell, {cell.desired.aim}) =>
          /\ cell'.committed.state = "Failed"
          /\ cell'.committed.failedUnder = {cell.desired.aim}
          /\ cell'.committed.disposalFailed = cell.committed.disposalFailed
  BY <1>0, <1>6, Zenon DEF Committed
<1>13. cell' = UnloadedCleanly(cell) =>
          /\ cell'.committed.state = "Pending"
          /\ cell'.committed.failedUnder = cell.committed.failedUnder
          /\ cell'.committed.disposalFailed = cell.committed.disposalFailed
  BY <1>0, <1>5, Zenon DEF Committed, Unloaded
<1> QED BY <1>1, <1>2, <1>3, <1>4, <1>5, <1>6, <1>7, <1>8, <1>9, <1>10, <1>11, <1>12,
          <1>13, Zenon

(* Every step keeps what has landed.                                        *)
LEMMA LandedStep == TypeOK /\ LandedInv /\ [Next]_vars => LandedInv'
<1> SUFFICES ASSUME TypeOK, LandedInv, [Next]_vars PROVE LandedInv'
  OBVIOUS
<1>0. cell \in Cell /\ signal \in Epochs \union {NoEpoch} /\ step \in Step
  BY Zenon DEF TypeOK
<1>1. CASE AskRestart
  BY <1>0, <1>1, RestartSteers, SteerKeepsLanded, Zenon DEF AskRestart, historyVars, localVars
<1>2. CASE AskDispose
  BY <1>0, <1>2, RequestSteers, SteerKeepsLanded, Zenon DEF AskDispose, historyVars, localVars
<1>3. CASE AskSuspend
  BY <1>0, <1>3, RequestSteers, SteerKeepsLanded, Zenon DEF AskSuspend, historyVars, localVars
<1>4. ASSUME NEW incarnation \in 1..cell.launches, ReportFault(incarnation)
      PROVE  LandedInv'
  BY <1>0, <1>4, FaultSteers, SteerKeepsLanded, Zenon DEF ReportFault, localVars
<1>5. CASE SyncSignal \/ Absorb \/ SyncLanded
  <2>1. Steers(cell, cell') /\ lastFailed' = lastFailed /\ step' = step
    BY <1>0, <1>5, SetEpochSteers, Zenon
       DEF SyncSignal, Absorb, SyncLanded, historyVars, localVars
  <2>2. pc' = pc \/ pc' \in {"observe", "check"}
    BY <1>5, Zenon DEF SyncSignal, Absorb, SyncLanded
  <2> QED BY <2>1, <2>2, SteerKeepsLanded, Zenon
<1>6. CASE Observe
  <2>1. /\ cell.committed \in Committed /\ cell.desired \in Desired
        /\ cell.committed.state \notin {"Loading", "Unloading"}
    BY <1>0, Zenon DEF Cell, LandedInv
  <2>2. /\ step' = Plan(cell.committed, cell.desired)
        /\ step'.kind \in StepKind
        /\ step'.kind = "None" => pc' = "rest"
        /\ step'.kind = "Load" => pc' = "load"
        /\ step'.kind = "Unload" => pc' = "unload"
        /\ step'.kind = "Finish" => pc' = "finish"
        /\ cell' = cell /\ lastFailed' = lastFailed
    BY <1>6, <2>1, PlanFacts, Zenon DEF Observe, historyVars
  <2>3. CASE step'.kind = "Load"
    <3>1. cell.committed.failedUnder # {step'.aim} /\ cell.committed.state \in {"Pending", "Failed"}
      BY <2>1, <2>2, <2>3, PlanFacts, Zenon DEF LandedInv
    <3> QED BY <2>2, <2>3, <3>1, Zenon DEF LandedInv
  <2>4. CASE step'.kind = "Unload"
    <3>1. cell.committed.state = "Active"
      BY <2>1, <2>2, <2>4, PlanFacts, Zenon
    <3> QED BY <2>2, <2>4, <3>1, Zenon DEF LandedInv
  <2>5. CASE step'.kind \in {"None", "Finish"}
    BY <2>2, <2>5, Zenon DEF LandedInv
  <2> QED BY <2>2, <2>3, <2>4, <2>5, Zenon DEF StepKind
<1>7. CASE RaiseRest
  <2>1. Steers(cell, [cell' EXCEPT !.resting = cell.resting]) /\ cell'.committed = cell.committed
        /\ cell'.desired = cell.desired
    BY <1>0, <1>7, Zenon DEF RaiseRest, SettleRest, Cell, Steers
  <2> QED BY <1>7, <2>1, Zenon DEF RaiseRest, LandedInv, historyVars
<1>8. CASE LaunchBody
  <2>1. step.aim \in Aim /\ cell.desired \in Desired
    BY <1>0, Zenon DEF Step, Cell
  <2>2. /\ cell'.committed = cell.committed /\ cell'.inFlight = {step.aim}
        /\ cell'.desired.cause = cell.desired.cause
    BY <1>0, <1>8, <2>1, LaunchTarget, Zenon DEF LaunchBody, Desired
  <2> QED BY <1>8, <2>2, Zenon DEF LaunchBody, LandedInv, localVars
<1>9. CASE BodyOk
  <2>1. pc' = "landed" /\ lastFailed' = {}
    BY <1>9, Zenon DEF BodyOk
  <2> QED BY <1>9, <2>1, LandsAs, Zenon DEF LandedInv
<1>10. CASE BodyErr
  <2>1. pc' = "failing" /\ lastFailed' = {step.aim}
    BY <1>10, Zenon DEF BodyErr
  <2> QED BY <1>10, <2>1, LandsAs, Zenon DEF LandedInv
<1>11. CASE StartFaultUnload
  <2>1. pc' = "faulting" /\ lastFailed' = cell.committed.activeFor
    BY <1>11, Zenon DEF StartFaultUnload
  <2> QED BY <1>11, <2>1, LandsAs, Zenon DEF LandedInv
<1>12. CASE UnloadLands
  <2>1. pc' = "round" /\ cell.committed.failedUnder = {}
    BY <1>12, Zenon DEF UnloadLands, EndOfStep, LandedInv
  <2> QED BY <1>12, <2>1, LandsAs, Zenon DEF LandedInv
<1>13. CASE FinishLands
  <2>1. pc' = "round" /\ lastFailed' = lastFailed
    BY <1>13, Zenon DEF FinishLands, EndOfStep, historyVars
  <2> QED BY <1>13, <2>1, LandsAs, Zenon DEF LandedInv
<1>14. ASSUME cell' = cell, lastFailed' = lastFailed,
              \/ pc' = pc /\ step' = step
              \/ pc' \notin {"load", "loading", "unload", "unloading"}
              \/ pc = "unload" /\ pc' = "unloading"
       PROVE  LandedInv'
  BY <1>14, Zenon DEF LandedInv
<1>15. ASSUME \/ AskQuiesce \/ SignalMoves \/ BodyApplies \/ UNCHANGED vars
       PROVE  LandedInv'
  BY <1>14, <1>15, Zenon DEF AskQuiesce, SignalMoves, BodyApplies, vars, localVars, historyVars
<1>16. ASSUME \/ ReadProbe \/ Settle \/ Wait \/ CheckLanded \/ AnnounceActive
              \/ FailedCleanupLands \/ StartUnload \/ FaultCleanupLands \/ StartFinish
       PROVE  LandedInv'
  <2>1. cell' = cell /\ lastFailed' = lastFailed
    BY <1>16, Zenon DEF ReadProbe, Settle, Wait, CheckLanded, AnnounceActive,
       FailedCleanupLands, StartUnload, FaultCleanupLands, StartFinish, historyVars
  <2>2. \/ pc' \in {"sync", "exited", "wait", "round", "announce", "finishing"}
        \/ pc = "unload" /\ pc' = "unloading"
    BY <1>16, Zenon DEF ReadProbe, Settle, Wait, CheckLanded, AnnounceActive,
       FailedCleanupLands, StartUnload, FaultCleanupLands, StartFinish, EndOfStep
  <2> QED BY <1>14, <2>1, <2>2, Zenon
<1> QED BY <1>1, <1>2, <1>3, <1>4, <1>5, <1>6, <1>7, <1>8, <1>9, <1>10, <1>11, <1>12,
          <1>13, <1>15, <1>16, Zenon
          DEF Next, Inputs, Supervise, BodyLands, WithdrawalLands

(* Every step keeps what has ended, and an end is never taken back.         *)
LEMMA EndedStep ==
    TypeOK /\ LandedInv /\ EndedInv /\ [Next]_vars => EndedInv' /\ (Ended => Ended')
<1> SUFFICES ASSUME TypeOK, LandedInv, EndedInv, [Next]_vars
             PROVE  EndedInv' /\ (Ended => Ended')
  OBVIOUS
<1>0. cell \in Cell /\ signal \in Epochs \union {NoEpoch} /\ step \in Step
  BY Zenon DEF TypeOK
<1>1. CASE AskRestart
  BY <1>0, <1>1, RestartSteers, SteerKeepsEnded, Zenon DEF AskRestart, shownVars, scopeVars
<1>2. CASE AskDispose
  BY <1>0, <1>2, RequestSteers, SteerKeepsEnded, Zenon DEF AskDispose, shownVars, scopeVars
<1>3. CASE AskSuspend
  BY <1>0, <1>3, RequestSteers, SteerKeepsEnded, Zenon DEF AskSuspend, shownVars, scopeVars
<1>4. ASSUME NEW incarnation \in 1..cell.launches, ReportFault(incarnation)
      PROVE  EndedInv' /\ (Ended => Ended')
  BY <1>0, <1>4, FaultSteers, SteerKeepsEnded, Zenon DEF ReportFault, shownVars, scopeVars
<1>5. CASE SyncSignal \/ Absorb \/ SyncLanded
  <2>1. Steers(cell, cell') /\ published' = published /\ applied' = applied
    BY <1>0, <1>5, SetEpochSteers, Zenon
       DEF SyncSignal, Absorb, SyncLanded, shownVars, scopeVars
  <2>2. \/ pc' = pc \/ pc' = "observe"
        \/ InTransition /\ pc' = "check"
    BY <1>5, Zenon DEF SyncSignal, Absorb, SyncLanded, InTransition
  <2> QED BY <2>1, <2>2, SteerKeepsEnded, Zenon
<1>same. Steers(cell, cell)
  BY Zenon DEF Steers
<1>6. CASE Observe
  <2>1. /\ cell.committed \in Committed /\ cell.desired \in Desired
        /\ cell.committed.state \notin {"Loading", "Unloading"}
    BY <1>0, Zenon DEF Cell, LandedInv
  <2>2. /\ step' = Plan(cell.committed, cell.desired)
        /\ step'.kind \in StepKind
        /\ step'.kind = "None" => pc' = "rest"
        /\ step'.kind = "Load" => pc' = "load"
        /\ step'.kind = "Unload" => pc' = "unload"
        /\ step'.kind = "Finish" => pc' = "finish"
        /\ cell' = cell /\ published' = published /\ applied' = applied
    BY <1>6, <2>1, PlanFacts, Zenon DEF Observe, shownVars, scopeVars
  <2>3. CASE step'.kind = "None"
    BY <1>same, <2>2, <2>3, SteerKeepsEnded, Zenon
  <2>4. CASE step'.kind # "None"
    <3>1. ~Ended /\ (step'.kind = "Finish" => Ending)
      BY <2>1, <2>2, <2>4, PlanFacts, Zenon DEF EndedInv, Ended, Ending, StepKind
    <3>2. ~Ended' /\ (Ending' <=> Ending)
      BY <2>2, <3>1, Zenon DEF Ended, Ending
    <3> QED BY <2>2, <2>4, <3>1, <3>2, Zenon DEF EndedInv, Ended, StepKind
  <2> QED BY <2>3, <2>4
<1>7. CASE RaiseRest
  <2>1. cell'.committed = cell.committed /\ cell'.desired = cell.desired
    BY <1>0, <1>7, Zenon DEF RaiseRest, SettleRest, Cell
  <2>2. pc' = "settle" /\ published' = published /\ applied' = applied
    BY <1>7, Zenon DEF RaiseRest, shownVars, scopeVars
  <2> QED BY <2>1, <2>2, Zenon DEF EndedInv, Ended, Ending, InTransition, Withdrawals
<1>8. CASE Settle
  <2>1. cell' = cell /\ published' = published /\ applied' = applied
    BY <1>8, Zenon DEF Settle, shownVars, scopeVars
  <2>2. pc' = "wait" \/ (pc' = "exited" /\ Ended)
    BY <1>8, Zenon DEF Settle, Ended
  <2> QED BY <2>1, <2>2, Zenon DEF EndedInv, Ended, Ending, InTransition, Withdrawals
<1>going. InTransition => ~Ended
  BY Zenon DEF EndedInv
<1>9. ASSUME InTransition, cell'.committed.disposalFailed = cell.committed.disposalFailed,
             cell'.committed.state # "Disposed",
             cell'.desired = cell.desired,
             pc' # "exited",
             pc' \in {"finish", "finishing"} => pc = "finish"
      PROVE  EndedInv' /\ (Ended => Ended')
  BY <1>9, <1>going, Zenon DEF EndedInv, Ended, Ending
<1>10. CASE LaunchBody
  <2>1. step.aim \in Aim /\ cell.desired \in Desired
    BY <1>0, Zenon DEF Step, Cell
  <2>2. cell'.committed = cell.committed
    BY <1>0, <1>10, <2>1, LaunchTarget, Zenon DEF LaunchBody
  <2>3. InTransition /\ pc' = "loading"
    BY <1>10, Zenon DEF LaunchBody, InTransition, Withdrawals
  <2>4. ~Ended
    BY <1>going, <2>3, Zenon
  <2>5. ~Ended'
    BY <2>2, <2>4 DEF Ended
  <2> QED BY <2>3, <2>4, <2>5, Zenon DEF EndedInv, Ended
<1>11. CASE BodyOk \/ BodyErr \/ StartFaultUnload
  <2>1. InTransition /\ pc' \in {"landed", "failing", "faulting"}
    BY <1>11, Zenon DEF BodyOk, BodyErr, StartFaultUnload, InTransition
  <2>2. /\ cell'.committed.disposalFailed = cell.committed.disposalFailed
        /\ cell'.committed.state # "Disposed"
        /\ cell'.desired = cell.desired
    BY <1>11, LandsAs, Zenon
  <2> QED BY <1>9, <2>1, <2>2, Zenon
<1>12. CASE UnloadLands
  <2>1. InTransition /\ pc' = "round" /\ applied' = FALSE
    BY <1>12, Zenon DEF UnloadLands, EndOfStep, Replay, InTransition, Withdrawals
  <2>2. CASE /\ Ending
             /\ published' = cell'.committed.state
             /\ \/ cell'.committed.state = "Disposed"
                   /\ cell'.committed.disposalFailed = cell.committed.disposalFailed
                \/ /\ cell'.committed.state = "Failed"
                   /\ cell'.committed.disposalFailed
    <3>1. cell'.desired = cell.desired
      BY <1>12, LandsAs, Zenon
    <3> QED BY <1>going, <2>1, <2>2, <3>1, Zenon
            DEF EndedInv, Ended, Ending, InTransition, Withdrawals
  <2>3. CASE /\ cell'.committed.disposalFailed = cell.committed.disposalFailed
             /\ cell'.committed.state # "Disposed"
    BY <1>9, <1>12, <2>1, <2>3, LandsAs, Zenon
  <2> QED BY <1>12, <2>2, <2>3, LandsAs, Zenon
<1>13. CASE FinishLands
  <2>1. InTransition /\ Ending /\ pc' = "round" /\ applied' = FALSE
    BY <1>13, Zenon DEF FinishLands, EndOfStep, Replay, InTransition, Withdrawals, EndedInv
  <2>2. /\ published' = cell'.committed.state
        /\ \/ cell'.committed.state = "Disposed"
              /\ cell'.committed.disposalFailed = cell.committed.disposalFailed
           \/ /\ cell'.committed.state = "Failed"
              /\ cell'.committed.disposalFailed
        /\ cell'.desired = cell.desired
    BY <1>13, LandsAs, Zenon
  <2> QED BY <1>going, <2>1, <2>2, Zenon
          DEF EndedInv, Ended, Ending, InTransition, Withdrawals
<1>14. CASE CheckLanded \/ AnnounceActive \/ FailedCleanupLands \/ StartUnload
            \/ FaultCleanupLands \/ StartFinish
  <2>1. cell' = cell /\ InTransition
    BY <1>14, Zenon DEF CheckLanded, AnnounceActive, FailedCleanupLands, StartUnload,
       FaultCleanupLands, StartFinish, InTransition, Withdrawals
  <2>2. pc' \in {"announce", "round", "unloading"} \/ (pc' = "finishing" /\ pc = "finish")
    BY <1>14, Zenon DEF CheckLanded, AnnounceActive, FailedCleanupLands, StartUnload,
       FaultCleanupLands, StartFinish, EndOfStep
  <2>3. cell'.committed.state # "Disposed"
    BY <1>going, <2>1, Zenon DEF Ended
  <2> QED BY <1>9, <2>1, <2>2, <2>3, Zenon
<1>15. CASE BodyApplies
  <2>1. cell' = cell /\ InTransition /\ pc' = pc
    BY <1>15, Zenon DEF BodyApplies, InTransition
  <2>2. pc = "loading"
    BY <1>15, Zenon DEF BodyApplies
  <2>3. cell'.committed.state # "Disposed"
    BY <1>going, <2>1, Zenon DEF Ended
  <2> QED BY <1>9, <2>1, <2>2, <2>3, Zenon
<1>16. CASE AskQuiesce \/ SignalMoves \/ ReadProbe \/ Wait \/ UNCHANGED vars
  <2>1. cell' = cell /\ published' = published /\ applied' = applied
    BY <1>16, Zenon DEF AskQuiesce, SignalMoves, ReadProbe, Wait, vars, shownVars, scopeVars
  <2>2. pc' = pc \/ pc' \in {"sync", "round"}
    BY <1>16, Zenon DEF AskQuiesce, SignalMoves, ReadProbe, Wait, vars
  <2> QED BY <1>same, <2>1, <2>2, SteerKeepsEnded, Zenon
<1> QED BY <1>1, <1>2, <1>3, <1>4, <1>5, <1>6, <1>7, <1>8, <1>10, <1>11, <1>12,
          <1>13, <1>14, <1>15, <1>16, Zenon
          DEF Next, Inputs, Supervise, BodyLands, WithdrawalLands

(* Marking every probe keeps the callers' requests and the earlier marks.   *)
LEMMA MarksKept ==
    ASSUME NEW s \in Seq(Ask), NEW t,
           \/ t = [p \in 1..Len(s) |-> [s[p] EXCEPT !.signalRead = TRUE]]
           \/ t = [p \in 1..Len(s) |-> [s[p] EXCEPT !.targetRead = TRUE]]
    PROVE  /\ Len(t) = Len(s)
           /\ \A p \in 1..Len(s) :
                /\ t[p].disposing = s[p].disposing
                /\ s[p].signalRead => t[p].signalRead
                /\ s[p].targetRead => t[p].targetRead
<1>1. Len(s) \in Nat /\ \A p \in 1..Len(s) : s[p] \in Ask
  OBVIOUS
<1>2. Len(t) = Len(s)
  BY <1>1
<1>3. \A p \in 1..Len(s) : \/ t[p] = [s[p] EXCEPT !.signalRead = TRUE]
                           \/ t[p] = [s[p] EXCEPT !.targetRead = TRUE]
  BY Zenon
<1> QED BY <1>1, <1>2, <1>3, Zenon DEF Ask

(* Every step keeps what was asked: a probe read at the top of a round is   *)
(* acknowledged at its end, after both reads.                               *)
LEMMA AskedStep ==
    TypeOK /\ LandedInv /\ EndedInv /\ AskedInv /\ [Next]_vars => AskedInv'
<1> SUFFICES ASSUME TypeOK, LandedInv, EndedInv, AskedInv, [Next]_vars PROVE AskedInv'
  OBVIOUS
<1>0. /\ cell \in Cell /\ signal \in Epochs \union {NoEpoch} /\ step \in Step
      /\ asked \in Nat /\ settled \in Nat
  BY Zenon DEF TypeOK
<1>asks. asks \in Seq(Ask) /\ Len(asks) \in Nat
  BY DEF TypeOK, Ask
<1>ended. Ended => Ended'
  BY EndedStep
<1>bounds. /\ asked <= Probe /\ settled <= Probe /\ Probe \in Nat
           /\ 1..asked \subseteq 1..Probe /\ 1..settled \subseteq 1..Probe
  BY <1>0, <1>asks DEF AskedInv, Probe
<1>steer. ASSUME Steers(cell, cell'), asks' = asks, asked' = asked, settled' = settled,
                 pc' \in {"observe", "rest", "settle"} => pc' = pc
          PROVE  AskedInv'
  BY <1>ended, <1>steer, SteerKeepsAsked, Zenon DEF Steers
<1>1. CASE AskRestart
  BY <1>0, <1>1, <1>steer, RestartSteers, Zenon DEF AskRestart, localVars, handleVars
<1>2. CASE AskDispose
  BY <1>0, <1>2, <1>steer, RequestSteers, Zenon DEF AskDispose, localVars, handleVars
<1>3. CASE AskSuspend
  BY <1>0, <1>3, <1>steer, RequestSteers, Zenon DEF AskSuspend, localVars, handleVars
<1>4. ASSUME NEW incarnation \in 1..cell.launches, ReportFault(incarnation)
      PROVE  AskedInv'
  BY <1>0, <1>4, <1>steer, FaultSteers, Zenon DEF ReportFault, localVars, handleVars
<1>5. CASE Absorb \/ SyncLanded
  <2>1. Steers(cell, cell') /\ asks' = asks /\ asked' = asked /\ settled' = settled
    BY <1>0, <1>5, SetEpochSteers, Zenon DEF Absorb, SyncLanded, localVars, handleVars
  <2>2. pc' = pc \/ pc' = "check"
    BY <1>5, Zenon DEF Absorb, SyncLanded
  <2> QED BY <1>steer, <2>1, <2>2, Zenon
<1>6. CASE AskQuiesce
  <2> DEFINE a == [disposing |-> cell.desired.disposing,
                   signalRead |-> FALSE, targetRead |-> FALSE]
  <2>1. /\ asks' = Append(asks, a) /\ cell' = cell /\ pc' = pc
        /\ asked' = asked /\ settled' = settled
    BY <1>6, Zenon DEF AskQuiesce, localVars
  <2>2. a.disposing => cell.desired.disposing
    BY Zenon
  <2> HIDE DEF a
  <2>3. /\ Probe' = Probe + 1 /\ asks'[Probe + 1] = a
        /\ \A p \in 1..Probe : asks'[p] = asks[p]
    BY <1>asks, <2>1 DEF Probe
  <2>4. asked' <= Probe' /\ settled' <= Probe'
    BY <1>0, <1>bounds, <2>1, <2>3
  <2>5. \A p \in 1..Probe' : p \in 1..Probe \/ p = Probe + 1
    BY <1>bounds, <2>3
  <2>6. \A p \in 1..Probe' : asks'[p].disposing => cell'.desired.disposing
    BY <2>1, <2>2, <2>3, <2>5, Zenon DEF AskedInv
  <2>7. \A p \in 1..Probe : Served(p) => Served(p)'
    BY <1>ended, <2>3, Zenon DEF Served
  <2> QED BY <1>bounds, <2>1, <2>3, <2>4, <2>6, <2>7, Zenon DEF AskedInv
<1>marked. ASSUME \/ asks' = [p \in 1..Probe |-> [asks[p] EXCEPT !.signalRead = TRUE]]
                  \/ asks' = [p \in 1..Probe |-> [asks[p] EXCEPT !.targetRead = TRUE]],
                  cell.desired.disposing => cell'.desired.disposing
           PROVE  /\ Probe' = Probe
                  /\ \A p \in 1..Probe : asks[p].disposing = asks'[p].disposing
                  /\ \A p \in 1..Probe : asks[p].signalRead => asks'[p].signalRead
                  /\ \A p \in 1..Probe : asks'[p].disposing => cell'.desired.disposing
                  /\ \A p \in 1..Probe : Served(p) => Served(p)'
  <2>1. /\ Len(asks') = Len(asks)
        /\ \A p \in 1..Len(asks) :
                /\ asks'[p].disposing = asks[p].disposing
                /\ asks[p].signalRead => asks'[p].signalRead
                /\ asks[p].targetRead => asks'[p].targetRead
    BY <1>asks, <1>marked, MarksKept, Zenon DEF Probe
  <2> QED BY <1>ended, <1>marked, <2>1, Zenon DEF AskedInv, Served, Probe
<1>7. CASE SyncSignal
  <2>1. /\ Steers(cell, cell') /\ asked' = asked /\ settled' = settled /\ pc' = "observe"
        /\ asks' = [p \in 1..Probe |-> [asks[p] EXCEPT !.signalRead = TRUE]]
    BY <1>0, <1>7, SetEpochSteers, Zenon DEF SyncSignal, localVars
  <2>2. cell.desired.disposing => cell'.desired.disposing
    BY <2>1, Zenon DEF Steers
  <2>3. \A p \in 1..Probe : asks[p] \in Ask
    BY <1>asks DEF Probe
  <2>4. \A p \in 1..Probe : asks'[p].signalRead
    BY <2>1, <2>3, Zenon DEF Ask
  <2> QED BY <1>bounds, <1>marked, <2>1, <2>2, <2>4, Zenon DEF AskedInv
<1>8. CASE Observe
  <2>1. /\ cell' = cell /\ settled' = settled
        /\ asks' = [p \in 1..Probe |-> [asks[p] EXCEPT !.targetRead = TRUE]]
        /\ step' = Plan(cell.committed, cell.desired) /\ pc = "observe"
        /\ \/ step'.kind = "None" /\ asked' = asked
           \/ step'.kind # "None" /\ asked' = 0
    BY <1>8, Zenon DEF Observe
  <2>2. /\ cell.committed \in Committed /\ cell.desired \in Desired
        /\ cell.committed.state \notin {"Loading", "Unloading"}
    BY <1>0, Zenon DEF Cell, LandedInv
  <2>3. step'.kind \in StepKind
    BY <2>1, <2>2, PlanFacts, Zenon
  <2>4. \A p \in 1..Probe : asks[p] \in Ask
    BY <1>asks DEF Probe
  <2>5. \A p \in 1..Probe : asks'[p].targetRead
    BY <2>1, <2>4, Zenon DEF Ask
  <2>6. CASE step'.kind = "None"
    <3>1. cell.desired.disposing => Ended
      BY <2>1, <2>2, <2>6, PlanFacts, Zenon DEF Ended
    <3>2. pc' = "rest" /\ asked' = asked
      BY <1>8, <2>1, <2>6, Zenon DEF Observe
    <3>3. \A p \in 1..asked : Served(p)'
      BY <1>bounds, <1>ended, <1>marked, <2>1, <2>5, <3>1, Zenon DEF AskedInv, Served
    <3> QED BY <1>bounds, <1>marked, <2>1, <3>2, <3>3, Zenon DEF AskedInv
  <2>7. CASE step'.kind # "None"
    <3>1. pc' \in {"load", "unload", "finish"}
      BY <1>8, <2>3, <2>7, Zenon DEF Observe, StepKind
    <3>2. asked' = 0 /\ 0 <= Probe
      BY <1>bounds, <2>1, <2>7
    <3> QED BY <1>bounds, <1>marked, <2>1, <3>1, <3>2, Zenon DEF AskedInv
  <2> QED BY <2>6, <2>7
<1>9. CASE RaiseRest
  <2>1. cell'.desired = cell.desired
    BY <1>0, <1>9, Zenon DEF RaiseRest, SettleRest, Cell
  <2>2. /\ pc = "rest" /\ pc' = "settle" /\ asks' = asks /\ asked' = asked
        /\ settled' = settled
    BY <1>9, Zenon DEF RaiseRest, localVars, handleVars
  <2> QED BY <1>ended, <2>1, <2>2, Zenon DEF AskedInv, Served, Probe
<1>10. CASE Settle
  <2>1. /\ cell' = cell /\ asks' = asks /\ pc' \in {"wait", "exited"} /\ asked' = 0
        /\ settled' = settled \/ settled' = asked
        /\ pc = "settle"
    BY <1>10, Zenon DEF Settle
  <2>2. asked' <= Probe /\ settled' <= Probe
    BY <1>bounds, <2>1
  <2>3. \A p \in 1..settled' : Served(p)
    BY <2>1, Zenon DEF AskedInv
  <2>4. \A p \in 1..settled' : Served(p)'
    BY <1>ended, <2>1, <2>3, Zenon DEF Served
  <2> QED BY <2>1, <2>2, <2>4, Zenon DEF AskedInv, Probe
<1>11. CASE ReadProbe
  <2>1. /\ cell' = cell /\ asks' = asks /\ pc' = "sync" /\ asked' = Probe
        /\ settled' = settled
    BY <1>11, Zenon DEF ReadProbe, handleVars
  <2>2. Probe <= Probe
    BY <1>bounds
  <2> QED BY <1>ended, <2>1, <2>2, Zenon DEF AskedInv, Probe, Served
<1>12. CASE \/ LaunchBody \/ BodyOk \/ BodyErr \/ UnloadLands \/ StartFaultUnload
            \/ FinishLands
  <2>1. asks' = asks /\ asked' = asked /\ settled' = settled
    BY <1>12, Zenon DEF LaunchBody, BodyOk, BodyErr, UnloadLands, StartFaultUnload,
       FinishLands, localVars, handleVars
  <2>2. pc' \in {"loading", "landed", "failing", "round", "faulting"}
    BY <1>12, Zenon DEF LaunchBody, BodyOk, BodyErr, UnloadLands, StartFaultUnload,
       FinishLands, EndOfStep
  <2>3. step.aim \in Aim /\ cell.desired \in Desired
    BY <1>0, Zenon DEF Step, Cell
  <2>4. ASSUME LaunchBody PROVE cell'.desired.disposing = cell.desired.disposing
    <3>1. cell'.desired = [cell.desired EXCEPT !.faulted = FALSE]
      BY <1>0, <2>3, <2>4, LaunchTarget, Zenon DEF LaunchBody
    <3> QED BY <2>3, <3>1, Zenon DEF Desired
  <2>5. cell'.desired.disposing = cell.desired.disposing
    BY <1>12, <2>4, LandsAs, Zenon
  <2> QED BY <1>ended, <2>1, <2>2, <2>5, SteerKeepsAsked, Zenon
<1>13. CASE \/ SignalMoves \/ Wait \/ BodyApplies \/ CheckLanded \/ AnnounceActive
            \/ FailedCleanupLands \/ StartUnload \/ FaultCleanupLands \/ StartFinish
            \/ UNCHANGED vars
  <2>1. cell' = cell /\ asks' = asks /\ asked' = asked /\ settled' = settled
    BY <1>13, Zenon DEF SignalMoves, Wait, BodyApplies, CheckLanded, AnnounceActive,
       FailedCleanupLands, StartUnload, FaultCleanupLands, StartFinish, vars,
       localVars, handleVars
  <2>2. pc' = pc \/ pc' \in {"round", "announce", "unloading", "finishing"}
    BY <1>13, Zenon DEF SignalMoves, Wait, BodyApplies, CheckLanded, AnnounceActive,
       FailedCleanupLands, StartUnload, FaultCleanupLands, StartFinish, vars, EndOfStep
  <2> QED BY <1>ended, <2>1, <2>2, SteerKeepsAsked, Zenon
<1> QED BY <1>1, <1>2, <1>3, <1>4, <1>5, <1>6, <1>7, <1>8, <1>9, <1>10, <1>11, <1>12,
          <1>13, Zenon
          DEF Next, Inputs, Supervise, BodyLands, WithdrawalLands

(* The fiber's inductive invariant beyond its type and its rest.            *)
FateInv == FaultNamesLiveIncarnation /\ LandedInv /\ EndedInv /\ AskedInv

(* It holds in every reachable state.                                       *)
LEMMA FateInvariant == Spec => []FateInv
<1>1. Init => FateInv
  BY FateInit, Zenon DEF FateInv
<1>2. TypeOK /\ FateInv /\ [Next]_vars => FateInv'
  BY FaultStep, LandedStep, EndedStep, AskedStep, Zenon DEF FateInv
<1> QED BY <1>1, <1>2, TypeCorrect, PTL DEF Spec

(* A recorded fault is the live incarnation's, and a body is never run for  *)
(* the aim it last failed under, for every environment and every bound.     *)
THEOREM FaultsHonest == Spec => []FaultsAreHonest
<1>1. FateInv => FaultsAreHonest
  BY Zenon DEF FateInv, LandedInv, FaultsAreHonest, NoBlindRetry
<1> QED BY <1>1, FateInvariant, PTL

(* A quiesce is answered after a re-read of every earlier input, and a      *)
(* dispose only once the fiber has landed its end, shown it and emptied its *)
(* scope, however many callers ask and whatever interleaves.                *)
THEOREM AnswersCurrent == Spec => []AnswersAreCurrent
<1>1. TypeOK /\ FateInv => AnswersAreCurrent
  <2> SUFFICES ASSUME TypeOK, FateInv PROVE AnswersAreCurrent
    OBVIOUS
  <2>1. \A p \in 1..Probe : p <= settled => p \in 1..settled
    BY DEF TypeOK
  <2>2. \A p \in 1..settled : Served(p)
    BY Zenon DEF FateInv, AskedInv
  <2>3. QuiesceRereadsInputs
    BY <2>1, <2>2, Zenon DEF QuiesceRereadsInputs, Served
  <2>4. \A p \in 1..Probe : Answered(p) /\ asks[p].disposing => Ended
    BY <2>1, <2>2, Zenon DEF FateInv, EndedInv, Answered, Served
  <2>5. Ended => /\ published = cell.committed.state /\ ~applied
                 /\ \/ cell.committed.state = "Disposed"
                    \/ cell.committed.state = "Failed" /\ cell.committed.disposalFailed
    BY Zenon DEF FateInv, EndedInv, Ended
  <2>6. DisposeResolvesWithdrawn
    BY <2>4, <2>5, Zenon DEF DisposeResolvesWithdrawn
  <2> QED BY <2>3, <2>6, Zenon DEF AnswersAreCurrent
<1> QED BY <1>1, FateInvariant, TypeCorrect, PTL

-----------------------------------------------------------------------------
(* What a caller is told the fiber owes. *)

(* A reload is promised only to a fiber that is not asked to end and whose  *)
(* environment is there.                                                    *)
LEMMA ReloadFacts ==
    ASSUME NEW c \in Committed, NEW d \in Desired,
           c.state \notin {"Loading", "Unloading"},
           c.disposalFailed => c.state = "Failed" /\ (d.disposing \/ d.suspending),
           OwedByGap(c, d) = "Reload"
    PROVE  ~d.disposing /\ ~d.suspending /\ d.aim.epoch # NoEpoch
<1>1. ReloadScheduled(c, d) /\ (~c.disposalFailed => ~d.disposing /\ ~d.suspending)
  BY DEF OwedByGap
<1>2. Plan(c, d).kind \in {"Load", "Unload"}
  BY <1>1, Zenon DEF ReloadScheduled
<1>3. ~c.disposalFailed
  BY <1>2, PlanFacts, Zenon
<1>4. CASE Plan(c, d).kind = "Load"
  BY <1>1, <1>3, <1>4, PlanFacts, Zenon
<1>5. CASE Plan(c, d).kind = "Unload"
  <2>1. Plan(Unloaded(c), d).kind = "Load"
    BY <1>1, <1>5, Zenon DEF ReloadScheduled
  <2>2. "Pending" \in FiberState /\ {} \in OptionAim
    BY Zenon DEF FiberState, OptionAim
  <2>3. Unloaded(c) \in Committed /\ Unloaded(c).state = "Pending"
    BY <2>2, Zenon DEF Committed, Unloaded
  <2> QED BY <1>1, <1>3, <2>1, <2>3, PlanFacts
<1> QED BY <1>2, <1>4, <1>5, Zenon

(* While that stays so and no fault is on record, a fiber that is active or *)
(* unloaded is never told that it stalls.                                   *)
LEMMA StillPromised ==
    ASSUME NEW c \in Committed, NEW d \in Desired,
           c.state \in {"Pending", "Active"}, ~d.disposing, ~d.suspending, ~d.faulted,
           d.aim.epoch # NoEpoch, ~Terminal(d.cause)
    PROVE  OwedByGap(c, d) # "Stalled"
<1>1. Unloaded(c).state = "Pending"
  BY Zenon DEF Committed, Unloaded
<1>2. Plan(Unloaded(c), d).kind = "Load"
  BY <1>1 DEF Plan, PlanInert
<1>3. c.state = "Pending" => Plan(c, d).kind = "Load"
  BY DEF Plan, PlanInert
<1>4. c.state = "Active" /\ c.activeFor # {d.aim} =>
        Plan(c, d).kind = "Unload" /\ Plan(c, d).cause = d.cause
  BY DEF Plan, PlanActive
<1>5. Serves(c, d) \/ ReloadScheduled(c, d)
  BY <1>2, <1>3, <1>4, Zenon DEF Serves, ReloadScheduled
<1> QED BY <1>5, Zenon DEF OwedByGap

(* A promise of a reload is taken back only for cause: a new target, a      *)
(* failure, or a fault reported while the body was still loading; never by  *)
(* the supervisor's own progress.                                           *)
THEOREM PromiseKept == Spec => PromiseTakenBackForCause
<1> DEFINE Kept == Owed(cell) = "Reload" /\ Owed(cell') = "Stalled" =>
                     \/ cell'.moved # cell.moved
                     \/ lastFailed' # lastFailed
                     \/ cell.desired.faulted
<1>1. TypeOK /\ FateInv /\ [Next]_vars => [Kept]_vars
  <2> SUFFICES ASSUME TypeOK, FateInv, [Next]_vars, Owed(cell) = "Reload",
                      Owed(cell') = "Stalled", cell'.moved = cell.moved,
                      lastFailed' = lastFailed, ~cell.desired.faulted
               PROVE  FALSE
    BY Zenon
  <2>0. /\ cell \in Cell /\ signal \in Epochs \union {NoEpoch} /\ step \in Step
        /\ cell.committed \in Committed /\ cell.desired \in Desired
    BY Zenon DEF TypeOK, Cell
  <2>inv. LandedInv /\ EndedInv
    BY Zenon DEF FateInv
  <2>cell. cell' # cell
    <3>1. "Reload" # "Stalled"
      OBVIOUS
    <3> QED BY <3>1, Zenon
  <2>rest. /\ ~cell.resting /\ OwedByGap(cell.committed, cell.desired) = "Reload"
           /\ ~cell'.resting /\ OwedByGap(cell'.committed, cell'.desired) = "Stalled"
    BY DEF Owed
  <2>open. ~Ending /\ cell.desired.aim.epoch # NoEpoch
    BY <2>0, <2>inv, <2>rest, ReloadFacts, Zenon DEF LandedInv, EndedInv, Ending
  <2>type. cell' \in Cell /\ cell'.committed \in Committed /\ cell'.desired \in Desired
    <3>1. cell' \in Cell
      BY TypeStep, Zenon DEF TypeOK
    <3> QED BY <3>1, Zenon DEF Cell
  <2>steer. ~Steers(cell, cell')
    BY <2>cell, Zenon DEF Steers
  <2>1. CASE AskRestart \/ AskDispose \/ AskSuspend
    BY <2>0, <2>1, <2>steer, RestartSteers, RequestSteers, Zenon
       DEF AskRestart, AskDispose, AskSuspend
  <2>2. ASSUME NEW incarnation \in 1..cell.launches, ReportFault(incarnation) PROVE FALSE
    BY <2>0, <2>2, <2>steer, FaultSteers, Zenon DEF ReportFault
  <2>3. CASE SyncSignal \/ Absorb \/ SyncLanded
    BY <2>0, <2>3, <2>steer, SetEpochSteers, Zenon DEF SyncSignal, Absorb, SyncLanded
  <2>4. CASE RaiseRest
    <3>1. cell' = cell \/ cell'.resting
      BY <2>0, <2>4, Zenon DEF RaiseRest, SettleRest, Cell
    <3> QED BY <2>cell, <2>rest, <3>1, Zenon
  <2>5. CASE LaunchBody
    <3>1. step.aim \in Aim
      BY <2>0, Zenon DEF Step
    <3>2. /\ cell'.committed = cell.committed
          /\ cell'.desired = [cell.desired EXCEPT !.faulted = FALSE]
      BY <2>0, <2>5, <3>1, LaunchTarget, Zenon DEF LaunchBody
    <3>3. cell.desired.faulted = FALSE
      BY <2>0, Zenon DEF Desired
    <3>4. cell'.desired = cell.desired
      BY <2>0, <3>2, <3>3 DEF Desired
    <3> QED BY <2>rest, <3>2, <3>4
  <2>6. CASE BodyOk
    <3>1. cell'.committed.state = "Active" /\ cell'.desired = cell.desired
      BY <2>6, LandsAs, Zenon
    <3> QED BY <2>0, <2>inv, <2>open, <2>rest, <2>type, <3>1, StillPromised, Zenon
            DEF Ending, LandedInv
  <2>7. CASE BodyErr
    <3>1. lastFailed' = {step.aim} /\ pc = "loading"
      BY <2>7, Zenon DEF BodyErr
    <3> QED BY <2>inv, <3>1, Zenon DEF LandedInv
  <2>8. CASE StartFaultUnload
    <3>1. lastFailed' = cell.committed.activeFor /\ pc = "unload"
      BY <2>8, Zenon DEF StartFaultUnload
    <3> QED BY <2>inv, <3>1, Zenon DEF LandedInv
  <2>9. CASE UnloadLands
    <3>1. pc = "unloading"
      BY <2>9, Zenon DEF UnloadLands
    <3>2. lastFailed = {}
      BY <2>inv, <3>1, Zenon DEF LandedInv
    <3>3. cell'.committed.state = "Pending" /\ cell'.desired = cell.desired
      BY <2>9, <2>open, <3>2, LandsAs, Zenon
    <3> QED BY <2>0, <2>inv, <2>open, <2>rest, <2>type, <3>3, StillPromised, Zenon
            DEF Ending, LandedInv
  <2>10. CASE FinishLands
    BY <2>10, <2>inv, <2>open, Zenon DEF FinishLands, EndedInv
  <2>11. CASE \/ AskQuiesce \/ SignalMoves \/ ReadProbe \/ Observe \/ Settle \/ Wait
              \/ BodyApplies \/ CheckLanded \/ AnnounceActive \/ FailedCleanupLands
              \/ StartUnload \/ FaultCleanupLands \/ StartFinish \/ UNCHANGED vars
    BY <2>11, <2>cell, Zenon DEF AskQuiesce, SignalMoves, ReadProbe, Observe, Settle,
       Wait, BodyApplies, CheckLanded, AnnounceActive, FailedCleanupLands, StartUnload,
       FaultCleanupLands, StartFinish, vars
  <2> QED BY <2>1, <2>2, <2>3, <2>4, <2>5, <2>6, <2>7, <2>8, <2>9, <2>10, <2>11, Zenon
          DEF Next, Inputs, Supervise, BodyLands, WithdrawalLands
<1> QED BY <1>1, FateInvariant, TypeCorrect, PTL DEF Spec, PromiseTakenBackForCause
=============================================================================
