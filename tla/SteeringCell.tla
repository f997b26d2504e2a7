---------------------------- MODULE SteeringCell ----------------------------
(***************************************************************************)
(* The inertia lock of a fiber (crates/jinnd-fiber): the one shared cell   *)
(* every input writes to, the planner that reads it, and the answer a      *)
(* caller gets about what the fiber owes.                                  *)
(*                                                                         *)
(* The cell is a value and its methods are operators from a cell to a      *)
(* cell.  Each method of the code holds the cell's mutex for its whole     *)
(* body and nothing else, so one application of an operator is one         *)
(* critical section.  Option<T> is a set of at most one element.           *)
(***************************************************************************)
EXTENDS Integers

CONSTANTS
    Epochs,        \* identities of a satisfied dependency set
    NoEpoch,       \* "some injected service is missing": Option::None
    RestartCauses  \* the causes callers of Fiber::restart state

ASSUME NoEpochAssumption == NoEpoch \notin Epochs

ASSUME RestartCausesAssumption ==
    RestartCauses \subseteq
        {"DependencyChanged", "ConfigChanged", "ExplicitRestart", "ParentDisposed"}

FiberState == {"Pending", "Loading", "Active", "Unloading", "Failed", "Disposed"}

TransitionCause ==
    {"InitialLoad", "DependencyChanged", "ConfigChanged", "ExplicitRestart",
     "ExplicitDispose", "ParentDisposed", "Suspend", "BodyFaulted"}

\* What the fiber should be active for: an environment, and a restart count.
Aim == [epoch : Epochs \union {NoEpoch}, revision : Nat]

OptionAim == {s \in SUBSET Aim : \A a, b \in s : a = b}

Desired == [aim : Aim, cause : TransitionCause,
            disposing : BOOLEAN, suspending : BOOLEAN, faulted : BOOLEAN]

Committed == [state : FiberState, activeFor : OptionAim,
              failedUnder : OptionAim, disposalFailed : BOOLEAN]

Cell == [desired : Desired, committed : Committed, inFlight : OptionAim,
         resting : BOOLEAN, moved : Nat, launches : Nat]

StepKind == {"None", "Load", "Unload", "Finish"}

Step == [kind : StepKind, aim : Aim, cause : TransitionCause]

-----------------------------------------------------------------------------
(* plan.rs: the one transition the gap between landed and wanted owes. *)

\* Plan::unloaded: what a clean unload commits.
Unloaded(c) == [c EXCEPT !.state = "Pending", !.activeFor = {}]

PlanActive(c, d) ==
    LET unload(why) == [kind |-> "Unload", aim |-> d.aim, cause |-> why]
    IN  IF d.disposing THEN unload("ExplicitDispose")
        ELSE IF d.suspending THEN unload("Suspend")
        ELSE IF d.faulted THEN unload("BodyFaulted")
        ELSE IF c.activeFor = {d.aim}
             THEN [kind |-> "None", aim |-> d.aim, cause |-> d.cause]
             ELSE unload(d.cause)

\* Mutated forms of PlanInert: retries the failed aim; looks at the environment
\* before the request to end.
PlanInertRetries(c, d) ==
    LET step(k) == [kind |-> k, aim |-> d.aim, cause |-> d.cause]
    IN  IF d.disposing \/ d.suspending
        THEN step(IF c.disposalFailed THEN "None" ELSE "Finish")
        ELSE step(IF d.aim.epoch = NoEpoch THEN "None" ELSE "Load")

PlanInertWaitsFirst(c, d) ==
    LET step(k) == [kind |-> k, aim |-> d.aim, cause |-> d.cause]
    IN  IF \/ d.aim.epoch = NoEpoch
           \/ c.state = "Failed" /\ c.failedUnder = {d.aim}
        THEN step("None")
        ELSE IF d.disposing \/ d.suspending
             THEN step(IF c.disposalFailed THEN "None" ELSE "Finish")
             ELSE step("Load")

PlanInert(c, d) ==
    LET step(k) == [kind |-> k, aim |-> d.aim, cause |-> d.cause]
    IN  IF d.disposing \/ d.suspending
        THEN step(IF c.disposalFailed THEN "None" ELSE "Finish")
        ELSE IF \/ d.aim.epoch = NoEpoch
                \/ c.state = "Failed" /\ c.failedUnder = {d.aim}
             THEN step("None")
             ELSE step("Load")

Plan(c, d) ==
    IF c.state = "Active" THEN PlanActive(c, d)
    ELSE IF c.state \in {"Pending", "Failed"} THEN PlanInert(c, d)
    ELSE [kind |-> "None", aim |-> d.aim, cause |-> d.cause]

-----------------------------------------------------------------------------
(* steering.rs: the methods of the cell. *)

New(epoch) ==
    [desired   |-> [aim |-> [epoch |-> epoch, revision |-> 0],
                    cause |-> "InitialLoad", disposing |-> FALSE,
                    suspending |-> FALSE, faulted |-> FALSE],
     committed |-> [state |-> "Pending", activeFor |-> {}, failedUnder |-> {},
                    disposalFailed |-> FALSE],
     inFlight  |-> {},
     resting   |-> FALSE,
     moved     |-> 0,
     launches  |-> 0]

\* Every target write lowers rest and moves the stamp with the write itself.
Stir(c) == [c EXCEPT !.resting = FALSE, !.moved = c.moved + 1]

SetEpoch(c, epoch) ==
    IF c.desired.aim.epoch = epoch
    THEN c
    ELSE Stir([c EXCEPT !.desired.aim.epoch = epoch,
                        !.desired.cause = "DependencyChanged"])

Restart(c, cause) ==
    Stir([c EXCEPT !.desired.aim.revision = c.desired.aim.revision + 1,
                   !.desired.cause = cause])

Dispose(c) ==
    IF c.desired.disposing THEN c
    ELSE Stir([c EXCEPT !.desired.disposing = TRUE])

Suspend(c) ==
    IF c.desired.suspending THEN c
    ELSE Stir([c EXCEPT !.desired.suspending = TRUE])

\* Mutated form of Launch: the fault an earlier incarnation left stays pending.
LaunchKeepsFault(c, aim) ==
    [c EXCEPT !.inFlight = {aim}, !.launches = c.launches + 1]

Launch(c, aim) ==
    [c EXCEPT !.inFlight = {aim}, !.launches = c.launches + 1,
              !.desired.faulted = FALSE]

\* Whether a fault notice of this incarnation acts.
FaultActs(c, incarnation) ==
    /\ c.launches = incarnation
    /\ ~c.desired.faulted
    /\ c.committed.state # "Disposed"

Fault(c, incarnation) ==
    IF FaultActs(c, incarnation)
    THEN Stir([c EXCEPT !.desired.faulted = TRUE])
    ELSE c

\* Mutated form of Land: the activation is never marked as landed.
LandForgets(c) == c

Land(c) == [c EXCEPT !.inFlight = {}]

\* Mutated form of SettleRest: the stamp is not compared.
SettleRestAnyStamp(c, observed) == [c EXCEPT !.resting = TRUE]

SettleRest(c, observed) ==
    IF c.moved # observed THEN c ELSE [c EXCEPT !.resting = TRUE]

Stale(c) ==
    /\ c.inFlight # {}
    /\ \/ c.desired.disposing
       \/ c.desired.suspending
       \/ c.inFlight # {c.desired.aim}

-----------------------------------------------------------------------------
(* supervisor/landed.rs: what a landed transition commits. *)

Commit(c, landed) == [c EXCEPT !.committed = landed]

Activated(c, aim) ==
    Commit(c, [c.committed EXCEPT !.state = "Active", !.activeFor = {aim},
                                  !.failedUnder = {}])

\* activation_failed, faulted and unload_failed write the same three fields.
FailedFor(c, under) ==
    Commit(c, [c.committed EXCEPT !.state = "Failed", !.activeFor = {},
                                  !.failedUnder = under])

UnloadedCleanly(c) == Commit(c, Unloaded(c.committed))

DisposalLanded(c, clean) ==
    Commit(c, IF clean
              THEN [c.committed EXCEPT !.state = "Disposed"]
              ELSE [c.committed EXCEPT !.state = "Failed", !.disposalFailed = TRUE])

-----------------------------------------------------------------------------
(* owed.rs: what a caller is told the fiber owes. *)

Serves(c, d) ==
    \/ c.state = "Disposed" /\ (d.disposing \/ d.suspending)
    \/ /\ c.state = "Active"
       /\ ~d.disposing /\ ~d.suspending /\ ~d.faulted
       /\ c.activeFor = {d.aim}

Terminal(cause) == cause \in {"ExplicitDispose", "Suspend", "BodyFaulted"}

\* Mutated form of ReloadScheduled: any restarting unload promises a reload.
ReloadScheduledByUnload(c, d) ==
    LET planned == Plan(c, d)
    IN  \/ planned.kind = "Load"
        \/ planned.kind = "Unload" /\ ~Terminal(planned.cause)

ReloadScheduled(c, d) ==
    LET planned == Plan(c, d)
        loadsOnceUnloaded == Plan(Unloaded(c), d).kind = "Load"
    IN  \/ planned.kind = "Load"
        \/ planned.kind = "Unload" /\ ~Terminal(planned.cause) /\ loadsOnceUnloaded
        \/ /\ planned.kind = "None"
           /\ c.state \in {"Loading", "Unloading"}
           /\ ~d.faulted
           /\ loadsOnceUnloaded

OwedByGap(c, d) ==
    IF Serves(c, d) THEN "None"
    ELSE IF ~c.disposalFailed /\ d.disposing THEN "Disposal"
    ELSE IF ~c.disposalFailed /\ d.suspending THEN "Suspension"
    ELSE IF ReloadScheduled(c, d) THEN "Reload"
    ELSE "Stalled"

Owed(c) == IF c.resting THEN "None" ELSE OwedByGap(c.committed, c.desired)
=============================================================================
