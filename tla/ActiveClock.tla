---------------------------- MODULE ActiveClock ----------------------------
(****************************************************************************)
(* The guest-call deadline (jinnd-wasm settle.rs): a clock that stands      *)
(* while an event walk of the instance is parked, and the horizons that run *)
(* a call under it, the supervisor's own and a delivery's caller-side one.  *)
(* A horizon learns of the clock's edges from a watch channel that          *)
(* coalesces them, and holds a timer timed from its last look; the edges    *)
(* fall between any two steps of its poll, and time passes everywhere.      *)
(****************************************************************************)
EXTENDS Naturals, FiniteSets

CONSTANTS
    Horizons,    \* the calls of `within` that share the clock
    Parks,       \* the park guards that may be held at once
    Deadline,    \* the active time a call may spend
    MaxTime      \* bound: the instants

ASSUME ClockAssumption ==
    Deadline \in Nat \ {0} /\ MaxTime \in Nat /\ IsFiniteSet(Parks)

VARIABLES
    time,        \* the instant
    guards,      \* the park guards alive
    clock,       \* the ActiveClock: depth, elapsed, resumed
    horizon,     \* horizon[h]: where its poll is
    since,       \* since[h]: the clock when the call began
    timed,       \* timed[h]: when its timer expires, and whether select polls it
    unseen,      \* the horizons whose receiver has an edge to see
    used         \* history: used[h], the instants since the call began with no guard

cvars == <<time, guards, clock, horizon, since, timed, unseen, used>>

Monus(x, y) == IF x > y THEN x - y ELSE 0

ElapsedAt(c, t) == c.elapsed + (IF c.depth = 0 THEN t - c.resumed ELSE 0)

\* DeadlineControl::new.
ClockInit ==
    /\ time = 0 /\ guards = {} /\ unseen = {}
    /\ clock = [depth |-> 0, elapsed |-> 0, resumed |-> 0]
    /\ horizon = [h \in Horizons |-> "idle"]
    /\ since = [h \in Horizons |-> 0]
    /\ timed = [h \in Horizons |-> [expires |-> 0, running |-> FALSE]]
    /\ used = [h \in Horizons |-> 0]

Running == {h \in Horizons : horizon[h] \notin {"idle", "done", "dead"}}

\* An instant passes; the guest's own time is what passes with no guard held.
Tick ==
    /\ time < MaxTime
    /\ time' = time + 1
    /\ used' = [h \in Horizons |-> IF h \in Running /\ guards = {} THEN used[h] + 1
                                    ELSE used[h]]
    /\ UNCHANGED <<guards, clock, horizon, since, timed, unseen>>

-----------------------------------------------------------------------------
(* The edges *)

\* ActiveClock::park.
Parked(c, t) ==
    [depth |-> c.depth + 1, elapsed |-> ElapsedAt(c, t), resumed |-> c.resumed]

\* DeadlineControl::park: an emit is about to wait for its listeners.
Park(g) ==
    /\ g \notin guards
    /\ guards' = guards \union {g}
    /\ clock' = Parked(clock, time)
    /\ unseen' = Running
    /\ UNCHANGED <<time, horizon, since, timed, used>>

\* Mutated form: the interval is not started again.
ResumedUnmoved(c, t) ==
    [depth |-> Monus(c.depth, 1), elapsed |-> c.elapsed, resumed |-> c.resumed]

\* ActiveClock::resume.
Resumed(c, t) ==
    [depth |-> Monus(c.depth, 1), elapsed |-> c.elapsed,
     resumed |-> IF Monus(c.depth, 1) = 0 THEN t ELSE c.resumed]

\* DeadlinePark::drop: the walk is over, or its emit was cancelled.
Unpark(g) ==
    /\ g \in guards
    /\ guards' = guards \ {g}
    /\ clock' = Resumed(clock, time)
    /\ unseen' = Running
    /\ UNCHANGED <<time, horizon, since, timed, used>>

-----------------------------------------------------------------------------
(* within: one poll asks for an edge, polls the call, and asks the timer *)

Goes(h, to) == horizon' = [horizon EXCEPT ![h] = to]

Start(h) ==
    /\ horizon[h] = "idle"
    /\ since' = [since EXCEPT ![h] = ElapsedAt(clock, time)]
    /\ Goes(h, "look")
    /\ UNCHANGED <<time, guards, clock, timed, unseen, used>>

Look(h) ==
    /\ horizon[h] = "look"
    /\ LET remaining == Monus(Deadline, ElapsedAt(clock, time) - since[h])
       IN  timed' = [timed EXCEPT ![h] =
                         [expires |-> time + remaining,
                          running |-> clock.depth = 0 \/ remaining = 0]]
    /\ unseen' = unseen \ {h}
    /\ Goes(h, "changed")
    /\ UNCHANGED <<time, guards, clock, since, used>>

PollChanged(h) ==
    /\ horizon[h] = "changed"
    /\ Goes(h, IF h \in unseen THEN "look" ELSE "call")
    /\ UNCHANGED <<time, guards, clock, since, timed, unseen, used>>

\* Polling the call may itself take and drop guards: those are steps beside it.
PollCall(h) ==
    /\ horizon[h] = "call"
    /\ \E to \in {"done", "timer"} : Goes(h, to)
    /\ UNCHANGED <<time, guards, clock, since, timed, unseen, used>>

Due(h) == timed[h].running /\ time >= timed[h].expires

PollTimer(h) ==
    /\ horizon[h] = "timer"
    /\ Goes(h, IF Due(h) THEN "judge" ELSE "asleep")
    /\ UNCHANGED <<time, guards, clock, since, timed, unseen, used>>

\* Mutated form: a timer that fired is believed.
JudgeBlindly(h) ==
    /\ horizon[h] = "judge"
    /\ Goes(h, "dead")
    /\ UNCHANGED <<time, guards, clock, since, timed, unseen, used>>

\* The clock is read again before the timer is believed.
Judge(h) ==
    /\ horizon[h] = "judge"
    /\ Goes(h, IF ElapsedAt(clock, time) - since[h] >= Deadline THEN "dead" ELSE "look")
    /\ UNCHANGED <<time, guards, clock, since, timed, unseen, used>>

\* The task is woken by an edge, by its timer, or by whatever the call waits for.
Woken(h) ==
    /\ horizon[h] = "asleep"
    /\ Goes(h, "changed")
    /\ UNCHANGED <<time, guards, clock, since, timed, unseen, used>>

ClockNext ==
    \/ Tick
    \/ \E g \in Parks : Park(g) \/ Unpark(g)
    \/ \E h \in Horizons :
          \/ Start(h) \/ Look(h) \/ PollChanged(h) \/ PollCall(h)
          \/ PollTimer(h) \/ Judge(h) \/ Woken(h)

ClockSpec == ClockInit /\ [][ClockNext]_cvars

-----------------------------------------------------------------------------
(* Properties *)

(* OnlyActiveTimeKills: a call ended by its deadline has spent the whole     *)
(* deadline with no guard held, whatever edges fell between its timer's      *)
(* arming and its firing (within, "Recheck the clock before accepting that   *)
(* stale timer"; "Runs `call` under active guest time only").                *)
OnlyActiveTimeKills ==
    \A h \in Horizons : horizon[h] = "dead" => used[h] >= Deadline

(* NeverOversleeps: a horizon that sleeps with no edge to see and no guard   *)
(* held has its timer set for no later than the instant its call will have   *)
(* spent the deadline, however the edges before were coalesced (within, "A   *)
(* nested park extends the sleep once for the union of the parked span").    *)
NeverOversleeps ==
    \A h \in Horizons :
        horizon[h] = "asleep" /\ h \notin unseen /\ guards = {} =>
            /\ timed[h].running
            /\ timed[h].expires <= time + Monus(Deadline, used[h])

(* DeadlineIsExact: a call dies of its deadline when it has spent it, never   *)
(* before and, as soon as its task is polled, never after (the two above).    *)
DeadlineIsExact == OnlyActiveTimeKills /\ NeverOversleeps
=============================================================================
