------------------------------ MODULE Lifecycle ------------------------------
(****************************************************************************)
(* The lifecycle publish (jinnd-daemon daemon/lifecycle.rs and support.rs,  *)
(* jinnd-wasm topics/publish.rs): callers of sync_transitions append the    *)
(* transitions the fibers made to the ledger and offer them to one          *)
(* publisher task, which reads the ledger's high-water mark through the     *)
(* single writer and then hands each to the private lane of every listener. *)
(*                                                                          *)
(* A transition is its fiber and its number in the fiber's record.  The     *)
(* ledger is the rows sent to the writer, how many of them it has served    *)
(* and which of those storage refused; the trace of a delivery, which       *)
(* nothing here reads, is the count traps.                                  *)
(****************************************************************************)
EXTENDS Naturals, Sequences, SequencesExt, FiniteSets

CONSTANTS
    Fibers,         \* the tracked fibers
    Syncers,        \* the tasks that call sync_transitions
    Listeners,      \* the registrations on the transitions topic
    Capacity,       \* CAPACITY
    LaneCapacity,   \* LANE_CAPACITY
    MaxMoves,       \* bound: the transitions of all fibers together
    MaxTraps,       \* bound: the deliveries a listener fails
    MaxDenials      \* bound: the rows storage refuses

ASSUME LifecycleAssumption ==
    /\ {Capacity, LaneCapacity} \subseteq Nat \ {0}
    /\ IsFiniteSet(Fibers) /\ IsFiniteSet(Listeners)
    /\ {MaxMoves, MaxTraps, MaxDenials} \subseteq Nat

VARIABLES
    made,       \* made[f]: transitions in the fiber's record
    recorded,   \* recorded[f]: Tracked.recorded
    offers,     \* offers[s]: what a sync has recorded and not yet offered
    rows,       \* the rows sent to the ledger's writer
    served,     \* how many of them the writer has served, in order
    denied,     \* the places of the rows that storage refused
    alive,      \* the writer serves
    pending,    \* Pending: the queue, the ordinals given, the drops to report
    woken,      \* the permit of Lifecycle.wake
    publisher,  \* the publisher task: where it is and what it holds
    mounted,    \* mounted[l]: "first" from before the first offer, "no", "late", "gone"
    inbox,      \* inbox[l]: the listener's lane
    heard,      \* heard[l]: what was delivered to it, in order
    traps       \* deliveries that failed

lvars == <<made, recorded, offers, rows, served, denied, alive, pending, woken, publisher,
           mounted, inbox, heard, traps>>

-----------------------------------------------------------------------------
(* Rows *)

TransitionRow(t) == [kind |-> "transition", of |-> t]
DroppedRow(n, l) == [kind |-> "dropped", count |-> n, by |-> l]

\* A record on the unreceipted lane; nothing is kept once the writer is gone.
RecordRow(row) == rows' = IF alive THEN Append(rows, row) ELSE rows
AppendAll(s) == rows' = IF alive THEN rows \o s ELSE rows

WriterCommits ==
    /\ alive /\ served < Len(rows)
    /\ served' = served + 1
    /\ UNCHANGED <<made, recorded, offers, rows, denied, alive, pending, woken, publisher,
                   mounted, inbox, heard, traps>>

\* Storage refuses the row, which has no caller to answer: an ErrorRecorded row
\* lands in its place or, refused too, a line of the process trace.
WriterRefuses ==
    /\ alive /\ served < Len(rows)
    /\ Cardinality(denied) < MaxDenials
    /\ served' = served + 1
    /\ denied' = denied \union {served + 1}
    /\ UNCHANGED <<made, recorded, offers, rows, alive, pending, woken, publisher,
                   mounted, inbox, heard, traps>>

WriterServes == WriterCommits \/ WriterRefuses

WriterStops ==
    /\ alive
    /\ alive' = FALSE
    /\ UNCHANGED <<made, recorded, offers, rows, served, denied, pending, woken, publisher,
                   mounted, inbox, heard, traps>>

-----------------------------------------------------------------------------
(* The commit path *)

Moves == FoldFunction(+, 0, made)

FiberMoves(f) ==
    /\ Moves < MaxMoves
    /\ made' = [made EXCEPT ![f] = @ + 1]
    /\ UNCHANGED <<recorded, offers, rows, served, denied, alive, pending, woken, publisher,
                   mounted, inbox, heard, traps>>

\* The transitions of f that the ledger has not seen.
Unseen(f) == [k \in 1..(made[f] - recorded[f]) |-> [fiber |-> f, nth |-> recorded[f] + k]]

\* sync_transitions under the fibers lock: one fiber after another, in the order
\* of a hash map.  The offers come after the lock.
SyncRecords(s) ==
    /\ offers[s] = <<>>
    /\ \E f \in Fibers : made[f] > recorded[f]
    /\ \E order \in SetToSeqs(Fibers) :
          LET fresh == FlattenSeq([i \in 1..Len(order) |-> Unseen(order[i])])
          IN  /\ offers' = [offers EXCEPT ![s] = fresh]
              /\ AppendAll([i \in 1..Len(fresh) |-> TransitionRow(fresh[i])])
    /\ recorded' = made
    /\ UNCHANGED <<made, served, denied, alive, pending, woken, publisher,
                   mounted, inbox, heard, traps>>

\* Mutated form: the drop is not counted.
EnqueueSilently(t) ==
    LET n == pending.published + 1
    IN  IF Len(pending.queue) >= Capacity
        THEN [pending EXCEPT !.published = n]
        ELSE [pending EXCEPT !.published = n,
                             !.queue = Append(@, [what |-> t, ordinal |-> n])]

\* Every offer has an ordinal, a dropped one too.
Enqueue(t) ==
    LET n == pending.published + 1
    IN  IF Len(pending.queue) >= Capacity
        THEN [pending EXCEPT !.published = n, !.dropped = @ + 1]
        ELSE [pending EXCEPT !.published = n,
                             !.queue = Append(@, [what |-> t, ordinal |-> n])]

Offer(s) ==
    /\ offers[s] # <<>>
    /\ pending' = Enqueue(Head(offers[s]))
    /\ offers' = [offers EXCEPT ![s] = Tail(@)]
    /\ woken' = TRUE
    /\ publisher' = IF publisher.at = "unborn" THEN [at |-> "drain"] ELSE publisher
    /\ UNCHANGED <<made, recorded, rows, served, denied, alive, mounted, inbox, heard, traps>>

-----------------------------------------------------------------------------
(* The publisher task *)

\* Lifecycle::drain: the queue and the drops together.
Drain ==
    /\ publisher.at = "drain"
    /\ IF pending.queue = <<>> /\ pending.dropped = 0
       THEN /\ publisher' = [at |-> "asleep"]
            /\ UNCHANGED <<pending, rows>>
       ELSE /\ publisher' = [at |-> "barrier", batch |-> pending.queue,
                             after |-> Len(rows) + (IF pending.dropped > 0 THEN 1 ELSE 0)]
            /\ pending' = [pending EXCEPT !.queue = <<>>, !.dropped = 0]
            /\ IF pending.dropped > 0
               THEN RecordRow(DroppedRow(pending.dropped, "queue"))
               ELSE UNCHANGED rows
    /\ UNCHANGED <<made, recorded, offers, served, denied, alive, woken,
                   mounted, inbox, heard, traps>>

Wake ==
    /\ publisher.at = "asleep" /\ woken
    /\ woken' = FALSE
    /\ publisher' = [at |-> "drain"]
    /\ UNCHANGED <<made, recorded, offers, rows, served, denied, alive, pending,
                   mounted, inbox, heard, traps>>

\* Mutated form: the mark is read beside the writer.
MarkIsReadBeside == TRUE

\* Every append sent before the read was served when the writer answers it.
MarkIsRead == served >= publisher.after

\* Without a mark the task ends; a read that storage fails is taken with the
\* writer's death.
Barrier ==
    /\ publisher.at = "barrier"
    /\ \/ /\ alive /\ MarkIsRead
          /\ publisher' = [at |-> "hand", batch |-> publisher.batch, mark |-> publisher.after]
       \/ /\ ~alive
          /\ publisher' = [at |-> "gone"]
    /\ UNCHANGED <<made, recorded, offers, rows, served, denied, alive, pending, woken,
                   mounted, inbox, heard, traps>>

Live == {l \in Listeners : mounted[l] \in {"first", "late"}}
Full(l) == Len(inbox[l]) >= LaneCapacity

\* LocalTopics::publish: a non-blocking push into every live listener's lane, and
\* one row for those that refused.
Publish ==
    /\ publisher.at = "hand" /\ publisher.batch # <<>>
    /\ LET item == Head(publisher.batch)
           lost == {l \in Live : Full(l)}
       IN  /\ inbox' = [l \in Listeners |->
                  IF l \in Live \ lost
                  THEN Append(inbox[l], [what |-> item.what, ordinal |-> item.ordinal,
                                         mark |-> publisher.mark])
                  ELSE inbox[l]]
           /\ IF lost = {} THEN UNCHANGED rows
              ELSE RecordRow(DroppedRow(Cardinality(lost), "lanes"))
    /\ publisher' = [publisher EXCEPT !.batch = Tail(@)]
    /\ UNCHANGED <<made, recorded, offers, served, denied, alive, pending, woken,
                   mounted, heard, traps>>

\* Mutated form: after a batch the task waits for an offer that comes later.
BatchDoneSleeps ==
    /\ publisher.at = "hand" /\ publisher.batch = <<>>
    /\ publisher' = [at |-> "asleep"]
    /\ woken' = FALSE
    /\ UNCHANGED <<made, recorded, offers, rows, served, denied, alive, pending,
                   mounted, inbox, heard, traps>>

BatchDone ==
    /\ publisher.at = "hand" /\ publisher.batch = <<>>
    /\ publisher' = [at |-> "drain"]
    /\ UNCHANGED <<made, recorded, offers, rows, served, denied, alive, pending, woken,
                   mounted, inbox, heard, traps>>

-----------------------------------------------------------------------------
(* Listeners and their lanes *)

Mount(l) ==
    /\ mounted[l] = "no"
    /\ mounted' = [mounted EXCEPT ![l] = "late"]
    /\ UNCHANGED <<made, recorded, offers, rows, served, denied, alive, pending, woken, publisher,
                   inbox, heard, traps>>

\* The registration goes; its lane delivers what it holds and ends.
Unmount(l) ==
    /\ l \in Live
    /\ mounted' = [mounted EXCEPT ![l] = "gone"]
    /\ UNCHANGED <<made, recorded, offers, rows, served, denied, alive, pending, woken, publisher,
                   inbox, heard, traps>>

\* One delivery at a time; a trap loses that one and is traced.
LaneDelivers(l) ==
    /\ inbox[l] # <<>>
    /\ inbox' = [inbox EXCEPT ![l] = Tail(@)]
    /\ \E ok \in BOOLEAN :
          /\ ok \/ traps < MaxTraps
          /\ traps' = IF ok THEN traps ELSE traps + 1
          /\ heard' = IF ok THEN [heard EXCEPT ![l] = Append(@, Head(inbox[l]))] ELSE heard
    /\ UNCHANGED <<made, recorded, offers, rows, served, denied, alive, pending, woken, publisher, mounted>>

LifecycleInit ==
    /\ made = [f \in Fibers |-> 0] /\ recorded = [f \in Fibers |-> 0]
    /\ offers = [s \in Syncers |-> <<>>]
    /\ rows = <<>> /\ served = 0 /\ denied = {} /\ alive = TRUE
    /\ pending = [queue |-> <<>>, published |-> 0, dropped |-> 0]
    /\ woken = FALSE
    /\ publisher = [at |-> "unborn"]
    /\ mounted \in [Listeners -> {"no", "first"}]
    /\ inbox = [l \in Listeners |-> <<>>] /\ heard = [l \in Listeners |-> <<>>]
    /\ traps = 0

PublisherSteps == Drain \/ Wake \/ Barrier \/ Publish \/ BatchDone
LifecycleNext ==
    \/ WriterServes \/ WriterStops \/ PublisherSteps
    \/ \E f \in Fibers : FiberMoves(f)
    \/ \E s \in Syncers : SyncRecords(s) \/ Offer(s)
    \/ \E l \in Listeners : Mount(l) \/ Unmount(l) \/ LaneDelivers(l)

\* The writer thread, the publisher, a caller inside sync_transitions and each
\* lane are scheduled; nothing makes a fiber move, a listener mount or the writer
\* stop.
LifecycleFairness ==
    /\ WF_lvars(WriterServes) /\ WF_lvars(PublisherSteps)
    /\ \A s \in Syncers : WF_lvars(Offer(s))
    /\ \A l \in Listeners : WF_lvars(LaneDelivers(l))

-----------------------------------------------------------------------------
(* Properties *)

InHand == IF publisher.at \in {"barrier", "hand"} THEN publisher.batch ELSE <<>>

\* The index of a transition's row, 0 if there is none.
RowOf(t) ==
    LET at == {i \in 1..Len(rows) : rows[i] = TransitionRow(t)}
    IN  IF at = {} THEN 0 ELSE CHOOSE i \in at : TRUE

\* The stream as the operator reads it, once all of it is served, and what is
\* missing there: an error row tells that a row was refused, not which.
ErrorRow == [kind |-> "error"]
Stream == [i \in 1..Len(rows) |-> IF i \in denied THEN ErrorRow ELSE rows[i]]
Missing == [i \in 1..Len(rows) |-> IF i \in denied THEN rows[i] ELSE ErrorRow]

Drops(by, table) ==
    FoldSeq(LAMBDA r, n : IF r.kind = "dropped" /\ r.by = by THEN n + r.count ELSE n, 0, table)

\* On the stream, or in a report that storage refused.
Reported(by) == Drops(by, Stream) + Drops(by, Missing)

(* DeliveryFollowsRow: whatever waits in a lane or was heard has its row      *)
(* durable, at a place no higher than the mark it carries, although the rows  *)
(* are unreceipted and other tasks append meanwhile (lifecycle.rs, "A         *)
(* delivery may never precede its ledger row"), or storage refused that very  *)
(* row, which nobody tells the publisher.                                     *)
DeliveryFollowsRow ==
    \A l \in Listeners : \A d \in ToSet(inbox[l]) \union ToSet(heard[l]) :
        LET i == RowOf(d.what)
        IN  /\ i \in 1..d.mark /\ d.mark <= served
            /\ Stream[i] = TransitionRow(d.what) \/ i \in denied

(* LossIsCounted: with the writer alive, every ordinal given is still to be   *)
(* handed on, was handed on, or is in the drops the stream reports or is      *)
(* about to, or in a report that storage refused; a listener mounted from the *)
(* start finds each ordinal handed on in its lane, heard, traced as failed,   *)
(* or in such a report (Lifecycle, "Either bound loses LOUDLY").              *)
Handed ==
    pending.published - Len(pending.queue) - Len(InHand) - pending.dropped
        - Reported("queue")
Reached(l) == Len(inbox[l]) + Len(heard[l])
LossIsCounted ==
    alive =>
        /\ \A l \in Listeners : Reached(l) <= Handed
        /\ (\A l \in Listeners : mounted[l] = "first") =>
              FoldFunction(+, 0, [l \in Listeners |-> Reached(l)]) + traps + Reported("lanes")
                  = Handed * Cardinality(Listeners)

(* NothingWaitsForEver: what is offered, and what is dropped, leaves the      *)
(* queue for the publisher's hands while the writer serves: no offer falls    *)
(* between the publisher's look at the queue and its sleep (Lifecycle::run).  *)
Waiting == pending.queue # <<>> \/ pending.dropped > 0
NothingWaitsForEver == []<>(~Waiting \/ ~alive)

(* HeardInCommitOrder: a listener hears transitions in the order of their     *)
(* rows (Lane, "a listener sees transitions in commit order").                *)
HeardInCommitOrder ==
    \A l \in Listeners : \A i, j \in 1..Len(heard[l]) :
        i < j => RowOf(heard[l][i].what) < RowOf(heard[l][j].what)
=============================================================================
