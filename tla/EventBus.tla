------------------------------ MODULE EventBus ------------------------------
(***************************************************************************)
(* The event bus (crates/jinnd-events): one event type's listener table,    *)
(* registrations and their undo, and concurrent dispatches in the mode the  *)
(* type declares.                                                           *)
(***************************************************************************)
EXTENDS Naturals, Sequences, FiniteSets, SequencesExt, Selection

CONSTANTS
    Listener,  \* registrations; an identity is never reused
    Dispatch,  \* calls of EventBus::dispatch
    Mode,      \* the dispatch modes to explore, a subset of DispatchMode
    OnceSets,  \* the sets of once-registrations to explore
    None,      \* no listener
    MaxPanics, \* bound: filters that panic in one dispatch
    MaxDrops   \* bound: dispatch futures dropped before they return

DispatchMode == {"Emit", "Parallel", "Serial", "Bail", "Waterfall"}

ASSUME BusConstants ==
    /\ Mode \subseteq DispatchMode /\ OnceSets \subseteq SUBSET Listener
    /\ None \notin Listener
    /\ MaxPanics \in Nat /\ MaxDrops \in Nat

VARIABLES
    mode,      \* E::MODE
    once,      \* the once-registrations
    order,     \* every registration made, in order
    table,     \* the live registrations, in order
    undone,    \* the registrations whose undo observed the removal
    calls,     \* calls[l]: how often the listener was called or handed to its task
    at,        \* at[d]: where a dispatch is
    selected,  \* selected[d]: what the payload selected, in order
    todo,      \* todo[d]: the selections not reached
    taken,     \* taken[d]: the selections it claimed, a history variable
    current,   \* current[d]: the listener being called by a sequential walk
    tasks,     \* tasks[d]: the tasks of a parallel walk, in order
    outputs,   \* outputs[d]: whose output the report holds, in order
    failed,    \* failed[d]: listeners with a recorded failure
    drops

tableVars == <<order, table, undone>>
walkVars  == <<selected, todo, taken, current, tasks, outputs, failed>>
vars == <<mode, once, tableVars, calls, at, walkVars, drops>>

\* The listener of a task, its outcome and whether the gathering loop saw it.
Task == [listener : Listener, state : {"running", "ok", "err"}]

-----------------------------------------------------------------------------
Init ==
    /\ mode \in Mode
    /\ once \in OnceSets
    /\ order = <<>> /\ table = <<>> /\ undone = {}
    /\ calls = [l \in Listener |-> 0]
    /\ at = [d \in Dispatch |-> "idle"]
    /\ selected = [d \in Dispatch |-> <<>>]
    /\ todo = [d \in Dispatch |-> <<>>]
    /\ taken = [d \in Dispatch |-> {}]
    /\ current = [d \in Dispatch |-> None]
    /\ tasks = [d \in Dispatch |-> <<>>]
    /\ outputs = [d \in Dispatch |-> <<>>]
    /\ failed = [d \in Dispatch |-> {}]
    /\ drops = 0

-----------------------------------------------------------------------------
(* The listener table *)

Live(l) == Contains(table, l)

\* ListenerTable::remove: the entry is looked up and taken out by its index.
Without(l) == RemoveAt(table, CHOOSE i \in DOMAIN table : table[i] = l)

Listen(l) ==
    /\ ~Contains(order, l)
    /\ order' = Append(order, l)
    /\ table' = Append(table, l)
    /\ UNCHANGED <<mode, once, undone, calls, at, walkVars, drops>>

\* Registration::remove, from the scope's undo; a second removal changes nothing.
Withdraw(l) ==
    /\ Live(l)
    /\ table' = Without(l)
    /\ undone' = undone \union {l}
    /\ UNCHANGED <<mode, once, order, calls, at, walkVars, drops>>

-----------------------------------------------------------------------------
(* walk: the snapshot, the selection and the claim *)

\* The payload keeps some listeners of the snapshot; a filter that panics for
\* a listener records a failure and skips it.
Start(d, kept, panics) ==
    /\ at[d] = "idle"
    /\ kept \subseteq ToSet(table) /\ panics \subseteq ToSet(table) \ kept
    /\ Cardinality(panics) <= MaxPanics
    /\ at' = [at EXCEPT ![d] = "walking"]
    /\ selected' = [selected EXCEPT ![d] = Select(table, kept)]
    /\ todo' = [todo EXCEPT ![d] = selected'[d]]
    /\ failed' = [failed EXCEPT ![d] = panics]
    /\ UNCHANGED <<mode, once, tableVars, calls, taken, current, tasks, outputs, drops>>

Next1(d) == Head(todo[d])

\* The claim withdraws a once-registration; one already gone is passed over.
Consumed(l) == l \in once /\ ~Live(l)

Skip(d) ==
    /\ at[d] = "walking" /\ todo[d] # <<>>
    /\ Consumed(Next1(d))
    /\ todo' = [todo EXCEPT ![d] = Tail(@)]
    /\ UNCHANGED <<mode, once, tableVars, calls, at, selected, taken, current, tasks,
                   outputs, failed, drops>>

\* The walk goes on with the selection in its hand.
Takes(d) ==
    /\ todo' = [todo EXCEPT ![d] = Tail(@)]
    /\ taken' = [taken EXCEPT ![d] = @ \union {Next1(d)}]

\* Mutated form of Claim: the registration is looked up and not withdrawn.
ClaimKeeping(d) == ~Consumed(Next1(d)) /\ UNCHANGED table /\ Takes(d)

Claim(d) ==
    /\ ~Consumed(Next1(d))
    /\ table' = IF Next1(d) \in once THEN Without(Next1(d)) ELSE table
    /\ Takes(d)

Called(l) == calls' = [calls EXCEPT ![l] = @ + 1]

Fails(d, l) == failed' = [failed EXCEPT ![d] = @ \union {l}]

\* A sequential walk claims, clones the payload and calls, in one poll.  A parallel
\* walk outside a runtime is a serial one.
Call(d) ==
    /\ at[d] = "walking" /\ todo[d] # <<>> /\ mode # "Parallel"
    /\ Claim(d) /\ Called(Next1(d))
    /\ current' = [current EXCEPT ![d] = Next1(d)]
    /\ at' = [at EXCEPT ![d] = "calling"]
    /\ UNCHANGED <<mode, once, order, undone, selected, tasks, outputs, failed, drops>>

\* The clone of the payload panics after the claim: the listener is not called, the
\* failure is recorded and the walk continues, the registration spent.
ClonePanics(d) ==
    /\ at[d] = "walking" /\ todo[d] # <<>> /\ mode # "Parallel"
    /\ Claim(d) /\ Fails(d, Next1(d))
    /\ UNCHANGED <<mode, once, order, undone, calls, at, selected, current, tasks, outputs,
                   drops>>

-----------------------------------------------------------------------------
(* The sequential walks *)

Yields(d, l) == outputs' = [outputs EXCEPT ![d] = Append(@, l)]

Settles(d, to) ==
    /\ at[d] = "calling"
    /\ at' = [at EXCEPT ![d] = to]
    /\ current' = [current EXCEPT ![d] = None]
    /\ UNCHANGED <<mode, once, tableVars, calls, selected, taken, tasks, drops>>

\* A walk that stops releases what it did not reach, without claiming it.
Discard(d) == todo' = [todo EXCEPT ![d] = <<>>]

\* An error or a panic is recorded and the walk continues, in every mode.
Errs(d) ==
    /\ Settles(d, "walking")
    /\ Fails(d, current[d])
    /\ UNCHANGED <<todo, outputs>>

Answers(d) ==
    /\ mode \in {"Emit", "Serial"}
    /\ Settles(d, "walking")
    /\ IF mode = "Serial" THEN Yields(d, current[d]) ELSE UNCHANGED outputs
    /\ UNCHANGED <<todo, failed>>

\* Bail: the resolved value is judged; the judge may panic.
Judged(d, verdict) ==
    /\ mode = "Bail"
    /\ CASE verdict = "decisive"   -> /\ Settles(d, "done") /\ Discard(d)
                                      /\ Yields(d, current[d]) /\ UNCHANGED failed
         [] verdict = "indecisive" -> /\ Settles(d, "walking")
                                      /\ UNCHANGED <<todo, outputs, failed>>
         [] verdict = "panic"      -> /\ Settles(d, "walking") /\ Fails(d, current[d])
                                      /\ UNCHANGED <<todo, outputs>>

\* Waterfall: the output is absorbed; a refusal or a panic of absorb ends the walk.
Absorbed(d, verdict) ==
    /\ mode = "Waterfall"
    /\ CASE verdict = "onward" -> /\ Settles(d, "walking")
                                  /\ UNCHANGED <<todo, outputs, failed>>
         [] verdict = "stop"   -> /\ Settles(d, "done") /\ Discard(d)
                                  /\ UNCHANGED <<outputs, failed>>
         [] verdict = "panic"  -> /\ Settles(d, "done") /\ Discard(d)
                                  /\ Fails(d, current[d]) /\ UNCHANGED outputs

-----------------------------------------------------------------------------
(* The parallel walk *)

\* The payload's clone comes before the claim, so its failure consumes nothing.
CloneFails(d) ==
    /\ at[d] = "walking" /\ todo[d] # <<>> /\ mode = "Parallel"
    /\ Fails(d, Next1(d))
    /\ todo' = [todo EXCEPT ![d] = Tail(@)]
    /\ UNCHANGED <<mode, once, tableVars, calls, at, selected, taken, current, tasks,
                   outputs, drops>>

SpawnTask(d) ==
    /\ at[d] = "walking" /\ todo[d] # <<>> /\ mode = "Parallel"
    /\ Claim(d) /\ Called(Next1(d))
    /\ tasks' = [tasks EXCEPT ![d] =
                    Append(@, [listener |-> Next1(d), state |-> "running"])]
    /\ UNCHANGED <<mode, once, order, undone, at, selected, current, outputs, failed, drops>>

\* A task settles when it will, whether or not its dispatch still waits.
TaskEnds(d, i, state) ==
    /\ i \in DOMAIN tasks[d] /\ tasks[d][i].state = "running"
    /\ tasks' = [tasks EXCEPT ![d][i].state = state]
    /\ UNCHANGED <<mode, once, tableVars, calls, at, selected, todo, taken, current,
                   outputs, failed, drops>>

\* Mutated form of Gather: a task that failed is never joined.
GatherOkOnly(d) ==
    /\ at[d] = "walking" /\ todo[d] = <<>> /\ tasks[d] # <<>>
    /\ Head(tasks[d]).state = "ok"
    /\ Yields(d, Head(tasks[d]).listener)
    /\ tasks' = [tasks EXCEPT ![d] = Tail(@)]
    /\ UNCHANGED <<mode, once, tableVars, calls, at, selected, todo, taken, current, failed,
                   drops>>

\* The tasks are awaited in the order of their spawn.
Gather(d) ==
    /\ at[d] = "walking" /\ todo[d] = <<>> /\ tasks[d] # <<>>
    /\ LET task == Head(tasks[d])
       IN  /\ task.state # "running"
           /\ IF task.state = "ok"
              THEN Yields(d, task.listener) /\ UNCHANGED failed
              ELSE Fails(d, task.listener) /\ UNCHANGED outputs
    /\ tasks' = [tasks EXCEPT ![d] = Tail(@)]
    /\ UNCHANGED <<mode, once, tableVars, calls, at, selected, todo, taken, current, drops>>

-----------------------------------------------------------------------------
\* Mutated form of Finish: a parallel walk reports before its tasks settled.
FinishEarly(d) ==
    /\ at[d] = "walking" /\ todo[d] = <<>>
    /\ at' = [at EXCEPT ![d] = "done"]
    /\ UNCHANGED <<mode, once, tableVars, calls, walkVars, drops>>

Finish(d) ==
    /\ at[d] = "walking" /\ todo[d] = <<>> /\ tasks[d] = <<>>
    /\ at' = [at EXCEPT ![d] = "done"]
    /\ UNCHANGED <<mode, once, tableVars, calls, walkVars, drops>>

\* The dispatch future is dropped; spawned tasks run on by themselves.
DropDispatch(d) ==
    /\ at[d] \in {"walking", "calling"} /\ drops < MaxDrops
    /\ drops' = drops + 1
    /\ at' = [at EXCEPT ![d] = "dropped"]
    /\ todo' = [todo EXCEPT ![d] = <<>>]
    /\ current' = [current EXCEPT ![d] = None]
    /\ UNCHANGED <<mode, once, tableVars, calls, selected, taken, tasks, outputs, failed>>

-----------------------------------------------------------------------------
Settled(d) ==
    \/ Errs(d) \/ Answers(d)
    \/ \E verdict \in {"decisive", "indecisive", "panic"} : Judged(d, verdict)
    \/ \E verdict \in {"onward", "stop", "panic"} : Absorbed(d, verdict)
    \/ \E i \in DOMAIN tasks[d], state \in {"ok", "err"} : TaskEnds(d, i, state)

Advance(d) ==
    \/ Skip(d) \/ Call(d) \/ ClonePanics(d)
    \/ CloneFails(d) \/ SpawnTask(d) \/ Gather(d) \/ Finish(d)

Next ==
    \/ \E l \in Listener : Listen(l) \/ Withdraw(l)
    \/ \E d \in Dispatch :
        \/ \E kept, panics \in SUBSET ToSet(table) : Start(d, kept, panics)
        \/ Advance(d) \/ Settled(d) \/ DropDispatch(d)

Spec == Init /\ [][Next]_vars

(* A dispatch in progress is polled by its caller and its tasks by the       *)
(* runtime; a listener's future resolves.                                    *)
FairSpec == Spec /\ \A d \in Dispatch : WF_vars(Advance(d)) /\ WF_vars(Settled(d))

-----------------------------------------------------------------------------
(* The type invariant of the table and of the walks.                         *)
TypeOK ==
    /\ mode \in DispatchMode /\ once \subseteq Listener /\ undone \subseteq Listener
    /\ order \in Seq(Listener) /\ table \in Seq(Listener)
    /\ calls \in [Listener -> Nat]
    /\ at \in [Dispatch -> {"idle", "walking", "calling", "done", "dropped"}]
    /\ selected \in [Dispatch -> Seq(Listener)] /\ todo \in [Dispatch -> Seq(Listener)]
    /\ taken \in [Dispatch -> SUBSET Listener]
    /\ current \in [Dispatch -> Listener \union {None}]
    /\ \A d \in Dispatch : at[d] = "calling" <=> current[d] # None
    /\ tasks \in [Dispatch -> Seq(Task)]
    /\ outputs \in [Dispatch -> Seq(Listener)]
    /\ failed \in [Dispatch -> SUBSET Listener]
    /\ drops \in 0..MaxDrops

\* No dispatch claimed the listener, and none called it.
Untaken(l) == calls[l] = 0 /\ \A d \in Dispatch : l \notin taken[d]

\* One dispatch, and no other, claimed it: it called it, or the clone of its payload
\* panicked and its report says so.
TakenBy(l, d) ==
    /\ \A e \in Dispatch : l \in taken[e] <=> e = d
    /\ \/ calls[l] = 1
       \/ calls[l] = 0 /\ l \in failed[d] /\ mode # "Parallel"

(* A once-registration has one fate: it is live, or its undo removed it, and *)
(* then no dispatch took it; or exactly one of all dispatches took it, and   *)
(* called it once or, outside Parallel, has the panicking clone of its       *)
(* payload on its report (dispatch.rs, claim, "exactly one delivers it").    *)
OnceHasOneFate ==
    \A l \in once : l \in ToSet(order) =>
        \/ Live(l) /\ l \notin undone /\ Untaken(l)
        \/ ~Live(l) /\ l \in undone /\ Untaken(l)
        \/ ~Live(l) /\ l \notin undone /\ \E d \in Dispatch : TakenBy(l, d)

\* A once-registration that went elsewhere: gone, and not claimed by this walk.
Elsewhere(d, l) == Consumed(l) /\ l \notin taken[d]

(* No abort (R9): a collecting walk that is done has an outcome for every    *)
(* listener it selected, except a once-registration that went elsewhere: one *)
(* the walk itself claimed is in its report.                                 *)
EveryoneIsHeard ==
    \A d \in Dispatch : at[d] = "done" /\ mode \in {"Serial", "Parallel"} =>
        \A l \in ToSet(selected[d]) :
            l \in ToSet(outputs[d]) \union failed[d] \/ Elsewhere(d, l)

(* A dispatch that is not dropped returns, also when listeners register and  *)
(* remove while it walks.                                                    *)
DispatchReturns ==
    \A d \in Dispatch : at[d] = "walking" ~> at[d] \in {"done", "dropped"}
=============================================================================
