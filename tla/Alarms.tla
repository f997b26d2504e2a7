------------------------------- MODULE Alarms -------------------------------
(****************************************************************************)
(* The alarm registry (jinnd-wasm alarms.rs, alarms/table.rs): a row from   *)
(* arm until somebody takes it, and a timer task that claims every wake     *)
(* from the row under the table's lock.  Arming is three steps, mint,       *)
(* spawn and install, so a cancel or the task itself may take the row       *)
(* before the task's abort handle reaches it.                               *)
(****************************************************************************)
EXTENDS Naturals, FiniteSets

CONSTANTS
    AlarmIds,    \* the ids, in the order they are minted: 1..n
    MaxWakes     \* bound: the wakes of a periodic alarm

ASSUME AlarmAssumption ==
    AlarmIds = 1..Cardinality(AlarmIds) /\ MaxWakes \in Nat

VARIABLES
    minted,      \* how many ids are minted
    live,        \* the ids that have a row
    handles,     \* the rows that have an abort handle
    spec,        \* spec[a]: "at" or "every"
    arming,      \* arming[a]: "no", "minted", "spawned", "installed"
    timer,       \* timer[a]: where its task is
    abortion,    \* the tasks told to abort
    wakes,       \* wakes[a]: its AlarmWake rows
    cancelled    \* the ids whose cancel or rebind has returned

avars == <<minted, live, handles, spec, arming, timer, abortion, wakes, cancelled>>

\* AlarmSpec: one wake at an instant, or a wake every period.
Specs == {"at", "every"}

-----------------------------------------------------------------------------
(* Alarms::arm *)

MintRow(a) ==
    /\ a = minted + 1
    /\ minted' = a
    /\ live' = live \union {a}
    /\ \E s \in Specs : spec' = [spec EXCEPT ![a] = s]
    /\ arming' = [arming EXCEPT ![a] = "minted"]
    /\ UNCHANGED <<handles, timer, abortion, wakes, cancelled>>

SpawnTimer(a) ==
    /\ arming[a] = "minted"
    /\ arming' = [arming EXCEPT ![a] = "spawned"]
    /\ timer' = [timer EXCEPT ![a] = "sleep"]
    /\ UNCHANGED <<minted, live, handles, spec, abortion, wakes, cancelled>>

\* Mutated form: a row that is gone is not noticed.
InstallForgets(a) ==
    /\ arming[a] = "spawned"
    /\ arming' = [arming EXCEPT ![a] = "installed"]
    /\ handles' = handles \union ({a} \intersect live)
    /\ UNCHANGED <<minted, live, spec, timer, abortion, wakes, cancelled>>

\* AlarmTable::install: whoever took the row had no handle to abort with.
Install(a) ==
    /\ arming[a] = "spawned"
    /\ arming' = [arming EXCEPT ![a] = "installed"]
    /\ handles' = handles \union ({a} \intersect live)
    /\ abortion' = IF a \in live THEN abortion ELSE abortion \union {a}
    /\ UNCHANGED <<minted, live, spec, timer, wakes, cancelled>>

-----------------------------------------------------------------------------
(* Alarms::cancel, and the old ids of a rebind *)

Cancel(a) ==
    /\ a <= minted /\ a \notin cancelled
    /\ live' = live \ {a}
    /\ abortion' = IF a \in live \intersect handles THEN abortion \union {a} ELSE abortion
    /\ cancelled' = cancelled \union {a}
    /\ UNCHANGED <<minted, handles, spec, arming, timer, wakes>>

-----------------------------------------------------------------------------
(* The timer task *)

Elapses(a) ==
    /\ timer[a] = "sleep"
    /\ timer' = [timer EXCEPT ![a] = "claim"]
    /\ UNCHANGED <<minted, live, handles, spec, arming, abortion, wakes, cancelled>>

\* Mutated form: the row was live when the timer elapsed, and the append is outside the lock.
ClaimWakeUnlocked(a) ==
    /\ timer[a] = "claim" /\ wakes[a] < MaxWakes
    /\ wakes' = [wakes EXCEPT ![a] = @ + 1]
    /\ timer' = [timer EXCEPT ![a] = "deliver"]
    /\ UNCHANGED <<minted, live, handles, spec, arming, abortion, cancelled>>

\* AlarmTable::claim_wake.
ClaimWake(a) ==
    /\ timer[a] = "claim"
    /\ IF a \in live
       THEN /\ wakes[a] < MaxWakes
            /\ wakes' = [wakes EXCEPT ![a] = @ + 1]
            /\ timer' = [timer EXCEPT ![a] = "deliver"]
       ELSE /\ timer' = [timer EXCEPT ![a] = IF spec[a] = "at" THEN "finish" ELSE "done"]
            /\ UNCHANGED wakes
    /\ UNCHANGED <<minted, live, handles, spec, arming, abortion, cancelled>>

\* The handler answers; it may also never answer.
WakeReturns(a) ==
    /\ timer[a] = "deliver"
    /\ timer' = [timer EXCEPT ![a] = IF spec[a] = "at" THEN "finish" ELSE "sleep"]
    /\ UNCHANGED <<minted, live, handles, spec, arming, abortion, wakes, cancelled>>

\* A one-shot takes its own row.
Finish(a) ==
    /\ timer[a] = "finish"
    /\ live' = live \ {a}
    /\ timer' = [timer EXCEPT ![a] = "done"]
    /\ UNCHANGED <<minted, handles, spec, arming, abortion, wakes, cancelled>>

AbortLands(a) ==
    /\ a \in abortion /\ timer[a] \in {"sleep", "deliver"}
    /\ timer' = [timer EXCEPT ![a] = "done"]
    /\ UNCHANGED <<minted, live, handles, spec, arming, abortion, wakes, cancelled>>

AlarmsInit ==
    /\ minted = 0 /\ live = {} /\ handles = {}
    /\ spec = [a \in AlarmIds |-> "at"]
    /\ arming = [a \in AlarmIds |-> "no"]
    /\ timer = [a \in AlarmIds |-> "none"]
    /\ abortion = {} /\ cancelled = {}
    /\ wakes = [a \in AlarmIds |-> 0]

AlarmsNext ==
    \E a \in AlarmIds :
        \/ MintRow(a) \/ SpawnTimer(a) \/ Install(a) \/ Cancel(a)
        \/ Elapses(a) \/ ClaimWake(a) \/ WakeReturns(a) \/ Finish(a) \/ AbortLands(a)

\* An arm that started goes on, and the runtime runs its timers and its aborts.
AlarmsFairness ==
    \A a \in AlarmIds :
        /\ WF_avars(SpawnTimer(a)) /\ WF_avars(Install(a))
        /\ WF_avars(Elapses(a)) /\ WF_avars(ClaimWake(a))
        /\ WF_avars(Finish(a)) /\ WF_avars(AbortLands(a))

-----------------------------------------------------------------------------
(* Properties *)

(* NoWakeAfterCancel: once a cancel or a rebind has returned, no wake of the  *)
(* id is appended, also when it came before the task's handle was installed   *)
(* or while the timer had elapsed (Alarms::cancel, "After this returns, no    *)
(* wake of `id` is ever appended again").                                     *)
NoWakeAfterCancel == \A a \in cancelled : wakes'[a] = wakes[a]

(* CancelledEnds: the task of a cancelled alarm ends, also if its handler     *)
(* never answers (Alarms::arm, "Taken between arm and spawn").                *)
CancelledEnds == []<>(\A a \in cancelled : timer[a] = "done")
=============================================================================
