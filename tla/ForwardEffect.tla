--------------------------- MODULE ForwardEffect ----------------------------
(***************************************************************************)
(* One forward effect behind the kernel boundary: the driver task that      *)
(* walks its actions (crates/jinnd-effects/src/forward.rs), the record that *)
(* stands for it in the kernel scope, and the callers that dispose it       *)
(* (crates/jinnd-adapter/src/boundary.rs).                                  *)
(***************************************************************************)
EXTENDS Naturals, FiniteSets

CONSTANTS
    Caller,    \* concurrent calls of dispose_effect
    MaxSteps,  \* bound: actions of a stepwise effect
    MaxDrops   \* bound: dispose futures dropped before they return

ASSUME ForwardBounds == MaxSteps \in Nat \ {0} /\ MaxDrops \in Nat

VARIABLES
    shape,    \* ForwardEffect::Plain or ForwardEffect::Steps
    total,    \* how many actions it has
    world,    \* world[i]: what became of action i's contribution
    driver,   \* where the walk is
    step,     \* the action it is at
    yielded,  \* the inverses yielded and not yet taken, a stack 1..yielded
    end,      \* the ForwardEnd, "none" before
    stale,    \* the cancellation token
    slot,     \* the installed inverse waits in the slot
    settled,  \* the outcome was announced
    enrolled, \* the record is in the kernel scope's tree
    inPending, \* the effect is in the inPending map
    caller,   \* caller[d]: where a dispose is
    drops     \* dispose futures dropped so far

walkVars   == <<shape, total, step, end>>
boundVars  == <<stale, slot, settled, enrolled, inPending>>
callerVars == <<caller, drops>>
fvars == <<shape, total, world, driver, step, yielded, end, stale, slot, settled, enrolled,
          inPending, caller, drops>>

\* How one inverse ends: completed, or in any of the other ways.
Ended == {"undone", "stuck"}

-----------------------------------------------------------------------------
\* begin has registered the record and spawned the driver.
ForwardInit ==
    /\ shape \in {"plain", "steps"}
    /\ total \in 1..(IF shape = "plain" THEN 1 ELSE MaxSteps)
    /\ world = [i \in 1..total |-> "none"]
    /\ driver = "boundary"
    /\ step = 1
    /\ yielded = 0
    /\ end = "none"
    /\ stale = FALSE /\ slot = FALSE /\ settled = FALSE
    /\ enrolled = TRUE /\ inPending = TRUE
    /\ caller = [d \in Caller |-> "idle"]
    /\ drops = 0

-----------------------------------------------------------------------------
(* advance, advance_plain and unwind *)

\* A stepwise walk launches no step against a target known stale.
LaunchAction ==
    /\ driver = "boundary"
    /\ shape = "steps" => ~stale
    /\ driver' = "launched"
    /\ UNCHANGED <<walkVars, world, yielded, boundVars, callerVars>>

Divert ==
    /\ (shape = "steps" /\ driver = "boundary") \/ driver = "landed"
    /\ stale
    /\ driver' = "unwinding"
    /\ end' = "Diverted"
    /\ UNCHANGED <<shape, total, step, world, yielded, boundVars, callerVars>>

ActionLands ==
    /\ driver = "launched"
    /\ world' = [world EXCEPT ![step] = "applied"]
    /\ yielded' = yielded + 1
    /\ driver' = "landed"
    /\ UNCHANGED <<walkVars, boundVars, callerVars>>

\* Mutated form of ActionFails: nothing yielded so far is rolled back.
ActionFailsBare ==
    /\ driver = "launched"
    /\ end' = "Failed"
    /\ driver' = "settling"
    /\ UNCHANGED <<shape, total, step, world, yielded, boundVars, callerVars>>

\* An error or a panic of the action.
ActionFails ==
    /\ driver = "launched"
    /\ end' = "Failed"
    /\ driver' = "unwinding"
    /\ UNCHANGED <<shape, total, step, world, yielded, boundVars, callerVars>>

NextAction ==
    /\ driver = "landed" /\ ~stale
    /\ IF step = total
       THEN end' = "Installed" /\ driver' = "settling" /\ UNCHANGED step
       ELSE step' = step + 1 /\ driver' = "boundary" /\ UNCHANGED end
    /\ UNCHANGED <<shape, total, world, yielded, boundVars, callerVars>>

\* Every yielded inverse runs, last first, whatever the ones before it did.
UnwindOne(outcome) ==
    /\ driver = "unwinding" /\ yielded > 0
    /\ world' = [world EXCEPT ![yielded] = outcome]
    /\ yielded' = yielded - 1
    /\ UNCHANGED <<walkVars, driver, boundVars, callerVars>>

Unwound ==
    /\ driver = "unwinding" /\ yielded = 0
    /\ driver' = "settling"
    /\ UNCHANGED <<walkVars, world, yielded, boundVars, callerVars>>

-----------------------------------------------------------------------------
(* The driver task of begin *)

\* The inverse goes into the slot, or the record leaves the tree with nothing owed.
SettleWalk ==
    /\ driver = "settling"
    /\ IF end = "Installed" THEN slot' = TRUE /\ enrolled' = enrolled
                            ELSE enrolled' = FALSE /\ slot' = slot
    /\ driver' = "announcing"
    /\ UNCHANGED <<walkVars, world, yielded, stale, settled, inPending, callerVars>>

\* Mutated form of Announce: a failed walk returns without announcing.
AnnounceUnlessFailed ==
    /\ driver = "announcing"
    /\ settled' = (end # "Failed")
    /\ driver' = "done"
    /\ UNCHANGED <<walkVars, world, yielded, stale, slot, enrolled, inPending, callerVars>>

Announce ==
    /\ driver = "announcing"
    /\ settled' = TRUE
    /\ driver' = "done"
    /\ UNCHANGED <<walkVars, world, yielded, stale, slot, enrolled, inPending, callerVars>>

-----------------------------------------------------------------------------
(* dispose *)

Become(d, at) == caller' = [caller EXCEPT ![d] = at]

\* Only the first call finds the effect inPending; the others go straight on.
Dispose(d) ==
    /\ caller[d] = "idle"
    /\ inPending' = FALSE
    /\ Become(d, IF inPending THEN "diverting" ELSE "detaching")
    /\ UNCHANGED <<walkVars, driver, world, yielded, stale, slot, settled, enrolled, drops>>

CancelWalk(d) ==
    /\ caller[d] = "diverting"
    /\ stale' = TRUE
    /\ Become(d, "waiting")
    /\ UNCHANGED <<walkVars, driver, world, yielded, slot, settled, enrolled, inPending, drops>>

WalkSettled(d) ==
    /\ caller[d] = "waiting" /\ settled
    /\ Become(d, "detaching")
    /\ UNCHANGED <<walkVars, driver, world, yielded, boundVars, drops>>

DetachRecord(d) ==
    /\ caller[d] = "detaching"
    /\ enrolled' = FALSE
    /\ Become(d, IF enrolled THEN "withdrawing" ELSE "returned")
    /\ UNCHANGED <<walkVars, driver, world, yielded, stale, slot, settled, inPending, drops>>

\* The record's inverse: divert the walk, wait until it lands, take the slot.
StartInverse(d) ==
    /\ caller[d] = "withdrawing"
    /\ stale' = TRUE
    /\ Become(d, "awaiting")
    /\ UNCHANGED <<walkVars, driver, world, yielded, slot, settled, enrolled, inPending, drops>>

\* Mutated form of TakeInstalled: the slot is read without waiting for the walk.
TakeAtOnce(d) ==
    /\ caller[d] = "awaiting"
    /\ slot' = FALSE
    /\ Become(d, IF slot THEN "undoing" ELSE "returned")
    /\ UNCHANGED <<walkVars, driver, world, yielded, stale, settled, enrolled, inPending, drops>>

TakeInstalled(d) ==
    /\ caller[d] = "awaiting" /\ settled
    /\ slot' = FALSE
    /\ Become(d, IF slot THEN "undoing" ELSE "returned")
    /\ UNCHANGED <<walkVars, driver, world, yielded, stale, settled, enrolled, inPending, drops>>

\* installed: last yield first, stopping at the first that does not complete.
UndoOne(d, outcome) ==
    /\ caller[d] = "undoing" /\ yielded > 0
    /\ world' = [world EXCEPT ![yielded] = outcome]
    /\ yielded' = yielded - 1
    /\ Become(d, IF outcome = "stuck" \/ yielded = 1 THEN "returned" ELSE "undoing")
    /\ UNCHANGED <<walkVars, driver, boundVars, drops>>

\* The dispose future is dropped; what it holds is dropped with it.
DropDispose(d) ==
    /\ caller[d] \notin {"idle", "returned", "dropped", "lost"}
    /\ drops < MaxDrops
    /\ drops' = drops + 1
    /\ Become(d, IF caller[d] \in {"withdrawing", "awaiting", "undoing"} THEN "lost"
                 ELSE "dropped")
    /\ UNCHANGED <<walkVars, driver, world, yielded, boundVars>>

-----------------------------------------------------------------------------
DriverStep ==
    \/ LaunchAction \/ Divert \/ ActionLands \/ ActionFails \/ NextAction
    \/ \E outcome \in Ended : UnwindOne(outcome)
    \/ Unwound \/ SettleWalk \/ Announce

CallerStep(d) ==
    \/ CancelWalk(d) \/ WalkSettled(d) \/ DetachRecord(d) \/ StartInverse(d)
    \/ TakeInstalled(d)
    \/ \E outcome \in Ended : UndoOne(d, outcome)

ForwardNext ==
    \/ DriverStep
    \/ \E d \in Caller : Dispose(d) \/ CallerStep(d) \/ DropDispose(d)

(* The driver is a spawned task and every launched action lands (R1); a      *)
(* dispose in progress is polled by whoever awaits it.                       *)
ForwardFairness == WF_fvars(DriverStep) /\ \A d \in Caller : WF_fvars(CallerStep(d))

-----------------------------------------------------------------------------
(* The type invariant of the walk, the boundary and the callers.             *)
TypeOK ==
    /\ shape \in {"plain", "steps"}
    /\ total \in 1..MaxSteps
    /\ world \in [1..total -> {"none", "applied"} \union Ended]
    /\ driver \in {"boundary", "launched", "landed", "unwinding", "settling",
                   "announcing", "done"}
    /\ step \in 1..total
    /\ yielded \in 0..total
    /\ end \in {"none", "Installed", "Diverted", "Failed"}
    /\ stale \in BOOLEAN /\ slot \in BOOLEAN /\ settled \in BOOLEAN
    /\ enrolled \in BOOLEAN /\ inPending \in BOOLEAN
    /\ caller \in [Caller -> {"idle", "diverting", "waiting", "detaching", "withdrawing",
                              "awaiting", "undoing", "returned", "dropped", "lost"}]
    /\ drops \in 0..MaxDrops

Standing == {i \in DOMAIN world : world[i] = "applied"}

(* Definitions 51 and 52: at settlement the effect is installed whole, or    *)
(* every action that landed has had its inverse run.                         *)
AllOrNone ==
    settled => \/ end = "Installed"
               \/ (end \in {"Diverted", "Failed"} /\ Standing = {})

Withdrawing(d) == caller[d] \in {"withdrawing", "awaiting", "undoing"}

(* Nothing installed is ever without an owner (its record is enrolled, a dispose *)
(* holds it, a dispose that held it was dropped, or an inverse of the effect *)
(* did not complete), and it never has two: one dispose withdraws it, once   *)
(* the record is out of the tree, so no inverse runs twice.                  *)
OneHolder ==
    /\ settled /\ Standing # {} =>
        \/ enrolled
        \/ \E d \in Caller : Withdrawing(d) \/ caller[d] = "lost"
        \/ \E i \in DOMAIN world : world[i] = "stuck"
    /\ Cardinality({d \in Caller : Withdrawing(d) \/ caller[d] = "lost"}) <= 1
    /\ enrolled => \A d \in Caller : ~Withdrawing(d)

(* A dispose that is not dropped returns, however the walk and the other     *)
(* callers interleave.                                                       *)
DisposeReturns ==
    []<>(\A d \in Caller : caller[d] \in {"idle", "returned", "dropped", "lost"})
=============================================================================
