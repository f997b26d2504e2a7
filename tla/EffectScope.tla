---------------------------- MODULE EffectScope -----------------------------
(***************************************************************************)
(* One scope's live effect tree and its teardown (crates/jinnd-effects).   *)
(*                                                                         *)
(* An effect is its registration number; children of one effect, and the   *)
(* roots, are ordered by it.  A drain, a replay and a suspend replay each   *)
(* borrow the scope exclusively and are futures: each may be dropped       *)
(* between any two polls.  A detached subtree is owned by its handle and    *)
(* is withdrawn beside the scope.                                           *)
(***************************************************************************)
EXTENDS Integers, Sequences, FiniteSets, SequencesExt, Selection

CONSTANTS
    MaxRecords,  \* bound: effects registered in the scope
    MaxDropped     \* bound: futures dropped before they complete

ASSUME EffectBounds == MaxRecords \in Nat /\ MaxDropped \in Nat

VARIABLES
    tree,       \* tree[e]: what effect e was registered as, and under which one
    live,       \* the records of EffectScope.roots, children included
    drainable,  \* the records whose drain phase has not been taken
    task,       \* the future that borrows the scope
    drains,     \* the phases a running drain has taken and not yet run
    current,    \* the record whose inverse is in flight, 0 if none
    withdrawn,  \* EffectScope.withdrawn: lines not yet reported
    replayed,   \* EffectScope.replayed
    reported,   \* history: the lines of every report returned
    owed,       \* Detached.records, in replay order
    inHand,     \* the detached record whose inverse is in flight, 0 if none
    handle,     \* what became of the Detached handle, "none" if there is none
    written,    \* the lines the running withdrawal of the handle has written
    lost,       \* history: detached records whose fate no report will name
    completed,  \* history: effects whose inverse, or suspend path, completed
    drops       \* futures dropped so far

scopeVars    == <<tree, live, drainable, task, drains, current, withdrawn, replayed,
                  reported>>
detachedVars == <<owed, inHand, handle, written, lost>>
svars == <<tree, live, drainable, task, drains, current, withdrawn, replayed, reported,
          owed, inHand, handle, written, lost, completed, drops>>

EffectKind == {"plain", "draining", "suspendable"}

\* How an inverse that was driven to its end may end: is_done tells Done from
\* Cancelled, Failed and Panicked, which are one outcome here, Stopped.
Ended == {"Done", "Stopped"}

Outcome == Ended \union {"Interrupted"}

Effects == 1..Len(tree)

Line == [id : 1..MaxRecords, of : {"drain", "inverse"}, outcome : Outcome]

LoggedIn(lines) == {lines[i].id : i \in 1..Len(lines)}

-----------------------------------------------------------------------------
(* tree.rs: the record forest and the walks over it. *)

Children(s, e) == {c \in s : tree[c].parent = e}

\* e and what it is nested under.
Path(e) ==
    LET path[x \in 0..Len(tree)] ==
            IF x = 0 THEN {} ELSE {x} \union path[tree[x].parent]
    IN  path[e]

Subtree(s, e) == {c \in s : e \in Path(c)}

LastRegistered(s) == CHOOSE e \in s : \A c \in s : c <= e

\* Mutated form of TakeNext: the last record registered, wherever it is nested.
TakeNextByAge(s) == LastRegistered(s)

\* take_next walks from the roots to the last child until there is none.
TakeNext(s) ==
    LET walk[e \in {0} \union s] ==
            IF Children(s, e) = {} THEN e ELSE walk[LastRegistered(Children(s, e))]
    IN  walk[0]

\* A Vec of records, in registration order.
Ascending(s) == Select([e \in Effects |-> e], s)

\* flatten: a pre-order walk with a stack, reversed.
Flatten(s) ==
    LET pop[n \in 0..Cardinality(s)] ==
            IF n = 0
            THEN [stack |-> Reverse(Ascending(Children(s, 0))), order |-> <<>>]
            ELSE LET was == pop[n - 1]
                     e   == was.stack[Len(was.stack)]
                 IN  [stack |-> Front(was.stack) \o Reverse(Ascending(Children(s, e))),
                      order |-> Append(was.order, e)]
    IN  Reverse(pop[Cardinality(s)].order)

\* drains: the pending phases in the same order.
TakenDrains == Select(Flatten(live), drainable)

-----------------------------------------------------------------------------
ScopeInit ==
    /\ tree = <<>>
    /\ live = {}
    /\ drainable = {}
    /\ task = "idle"
    /\ drains = <<>>
    /\ current = 0
    /\ withdrawn = <<>>
    /\ replayed = FALSE
    /\ reported = <<>>
    /\ owed = <<>>
    /\ inHand = 0
    /\ handle = "none"
    /\ written = <<>>
    /\ lost = {}
    /\ completed = {}
    /\ drops = 0

\* register, register_draining, register_suspendable; refused once replayed.
RegisterRoot(kind) ==
    /\ task = "idle" /\ ~replayed
    /\ Len(tree) < MaxRecords
    /\ tree' = Append(tree, [parent |-> 0, kind |-> kind])
    /\ live' = live \union {Len(tree) + 1}
    /\ drainable' = IF kind = "draining" THEN drainable \union {Len(tree) + 1}
                    ELSE drainable
    /\ UNCHANGED <<task, drains, current, withdrawn, replayed, reported,
                   detachedVars, completed, drops>>

\* register_child: the parent must be live.
RegisterChild(parent) ==
    /\ task = "idle" /\ ~replayed
    /\ Len(tree) < MaxRecords
    /\ parent \in live
    /\ tree' = Append(tree, [parent |-> parent, kind |-> "plain"])
    /\ live' = live \union {Len(tree) + 1}
    /\ UNCHANGED <<drainable, task, drains, current, withdrawn, replayed, reported,
                   detachedVars, completed, drops>>

-----------------------------------------------------------------------------
(* drain *)

StartDrain ==
    /\ task = "idle"
    /\ drainable # {}
    /\ task' = "drain"
    /\ drains' = TakenDrains
    /\ drainable' = {}
    /\ UNCHANGED <<tree, live, current, withdrawn, replayed, reported,
                   detachedVars, completed, drops>>

DrainPhaseEnds(outcome) ==
    /\ task = "drain"
    /\ withdrawn' = IF outcome = "Done" THEN withdrawn
                    ELSE Append(withdrawn, [id |-> Head(drains), of |-> "drain",
                                            outcome |-> outcome])
    /\ drains' = Tail(drains)
    /\ task' = IF Len(drains) = 1 THEN "idle" ELSE "drain"
    /\ UNCHANGED <<tree, live, drainable, current, replayed, reported,
                   detachedVars, completed, drops>>

\* The phases that were taken are gone; every inverse is still owed.
DropDrain ==
    /\ task = "drain"
    /\ drops < MaxDropped
    /\ drops' = drops + 1
    /\ task' = "idle"
    /\ drains' = <<>>
    /\ UNCHANGED <<tree, live, drainable, current, withdrawn, replayed, reported,
                   detachedVars, completed>>

-----------------------------------------------------------------------------
(* replay and suspend *)

StartReplay(replay) ==
    /\ task = "idle"
    /\ task' = replay
    /\ replayed' = TRUE
    /\ UNCHANGED <<tree, live, drainable, drains, current, withdrawn, reported,
                   detachedVars, completed, drops>>

\* Mutated form of StartInverse: the record leaves the tree as its inverse ends.
StartInverseInPlace ==
    /\ task \in {"replay", "suspend"}
    /\ current = 0
    /\ live # {}
    /\ current' = TakeNext(live)
    /\ UNCHANGED <<tree, live, drainable, task, drains, withdrawn, replayed, reported,
                   detachedVars, completed, drops>>

\* The record leaves the tree as its inverse starts.
StartInverse ==
    /\ task \in {"replay", "suspend"}
    /\ current = 0
    /\ live # {}
    /\ current' = TakeNext(live)
    /\ live' = live \ {TakeNext(live)}
    /\ drainable' = drainable \ {TakeNext(live)}
    /\ UNCHANGED <<tree, task, drains, withdrawn, replayed, reported, detachedVars,
                   completed, drops>>

\* A suspendable record whose unrun inverse panics as it is dropped is skipped.
SkipInverse ==
    /\ task = "suspend"
    /\ current = 0
    /\ live # {}
    /\ LET e == TakeNext(live)
       IN  /\ tree[e].kind = "suspendable"
           /\ live' = live \ {e}
           /\ drainable' = drainable \ {e}
           /\ withdrawn' = Append(withdrawn, [id |-> e, of |-> "inverse",
                                              outcome |-> "Stopped"])
    /\ UNCHANGED <<tree, task, drains, current, replayed, reported, detachedVars,
                   completed, drops>>

\* Withdrawal::poll writes the line when the inverse, or suspend path, ends.
InverseEnds(outcome) ==
    /\ current # 0
    /\ withdrawn' = Append(withdrawn, [id |-> current, of |-> "inverse",
                                       outcome |-> outcome])
    /\ completed' = IF outcome = "Done" THEN completed \union {current} ELSE completed
    /\ current' = 0
    /\ UNCHANGED <<tree, live, drainable, task, drains, replayed, reported,
                   detachedVars, drops>>

Report ==
    /\ task \in {"replay", "suspend"}
    /\ current = 0
    /\ live = {}
    /\ reported' = reported \o withdrawn
    /\ withdrawn' = <<>>
    /\ task' = "idle"
    /\ UNCHANGED <<tree, live, drainable, drains, current, replayed, detachedVars,
                   completed, drops>>

\* Mutated form of DropReplay: the inverse in flight leaves no line.
DropReplaySilently ==
    /\ task \in {"replay", "suspend"}
    /\ drops < MaxDropped
    /\ drops' = drops + 1
    /\ task' = "idle"
    /\ current' = 0
    /\ UNCHANGED <<tree, live, drainable, drains, withdrawn, replayed, reported,
                   detachedVars, completed>>

\* Withdrawal::drop: the inverse in flight was consumed and is Interrupted.
DropReplay ==
    /\ task \in {"replay", "suspend"}
    /\ drops < MaxDropped
    /\ drops' = drops + 1
    /\ task' = "idle"
    /\ current' = 0
    /\ withdrawn' = IF current = 0 THEN withdrawn
                    ELSE Append(withdrawn, [id |-> current, of |-> "inverse",
                                            outcome |-> "Interrupted"])
    /\ UNCHANGED <<tree, live, drainable, drains, replayed, reported, detachedVars,
                   completed>>

-----------------------------------------------------------------------------
(* detach, and the two ways its handle withdraws *)

Detach(e) ==
    /\ task = "idle"
    /\ handle = "none"
    /\ e \in live
    /\ live' = live \ Subtree(live, e)
    /\ drainable' = drainable \ Subtree(live, e)
    /\ owed' = Select(Flatten(live), Subtree(live, e))
    /\ handle' = "held"
    /\ UNCHANGED <<tree, task, drains, current, withdrawn, replayed, reported,
                   inHand, written, lost, completed, drops>>

\* withdraw_now drives every inverse in place, withdraw awaits each.
StartWithdrawal(how) ==
    /\ handle = "held"
    /\ handle' = how
    /\ inHand' = Head(owed)
    /\ owed' = Tail(owed)
    /\ UNCHANGED <<scopeVars, written, lost, completed, drops>>

\* An inverse withdraw_now finds pending is dropped there and then.
DetachedEnds(outcome) ==
    /\ inHand # 0
    /\ outcome = "Interrupted" => handle = "now"
    /\ completed' = IF outcome = "Done" THEN completed \union {inHand} ELSE completed
    /\ LET lines == Append(written, [id |-> inHand, of |-> "inverse", outcome |-> outcome])
       IN  IF owed = <<>>
           THEN /\ reported' = reported \o lines
                /\ written' = <<>>
                /\ inHand' = 0
                /\ handle' = "none"
                /\ owed' = owed
           ELSE /\ written' = lines
                /\ inHand' = Head(owed)
                /\ owed' = Tail(owed)
                /\ UNCHANGED <<handle, reported>>
    /\ UNCHANGED <<tree, live, drainable, task, drains, current, withdrawn, replayed,
                   lost, drops>>

\* The log is the dropped future's own: its lines go with it.
DropDetached ==
    /\ handle \in {"held", "await"}
    /\ drops < MaxDropped
    /\ drops' = drops + 1
    /\ lost' = lost \union ToSet(owed) \union ({inHand} \ {0}) \union LoggedIn(written)
    /\ owed' = <<>>
    /\ inHand' = 0
    /\ written' = <<>>
    /\ handle' = "none"
    /\ UNCHANGED <<scopeVars, completed>>

-----------------------------------------------------------------------------
ScopeNext ==
    \/ \E kind \in EffectKind : RegisterRoot(kind)
    \/ \E parent \in live : RegisterChild(parent)
    \/ StartDrain
    \/ \E outcome \in Ended : DrainPhaseEnds(outcome)
    \/ DropDrain
    \/ \E replay \in {"replay", "suspend"} : StartReplay(replay)
    \/ StartInverse
    \/ SkipInverse
    \/ \E outcome \in Ended : InverseEnds(outcome)
    \/ Report
    \/ DropReplay
    \/ \E e \in live : Detach(e)
    \/ \E how \in {"now", "await"} : StartWithdrawal(how)
    \/ \E outcome \in Outcome : DetachedEnds(outcome)
    \/ DropDetached

ScopeSpec == ScopeInit /\ [][ScopeNext]_svars

-----------------------------------------------------------------------------
(* The type invariant of the scope and of the handle beside it.            *)
ScopeTypeOK ==
    /\ tree \in Seq([parent : 0..MaxRecords, kind : EffectKind])
    /\ live \subseteq Effects
    /\ drainable \subseteq live
    /\ task \in {"idle", "drain", "replay", "suspend"}
    /\ drains \in Seq(Effects)
    /\ current \in {0} \union Effects
    /\ withdrawn \in Seq(Line)
    /\ replayed \in BOOLEAN
    /\ reported \in Seq(Line)
    /\ owed \in Seq(Effects)
    /\ inHand \in {0} \union Effects
    /\ handle \in {"none", "held", "now", "await"}
    /\ written \in Seq(Line)
    /\ lost \subseteq Effects
    /\ completed \subseteq Effects
    /\ drops \in Nat

\* The lines of an effect's inverse in a log or report, and in all of them.
LinesIn(log, e) == {i \in 1..Len(log) : log[i].id = e /\ log[i].of = "inverse"}

InverseLines(e) ==
    Cardinality(LinesIn(withdrawn, e)) + Cardinality(LinesIn(reported, e))
        + Cardinality(LinesIn(written, e))

OneIf(condition) == IF condition THEN 1 ELSE 0

(* I1, exactly once: an effect is live, in flight, owed by a handle, lost   *)
(* with its handle, or has one line in one report, and never two of these,  *)
(* whichever futures were dropped.                                          *)
OneFate ==
    \A e \in Effects :
        InverseLines(e) + OneIf(e \in live) + OneIf(e = current)
            + OneIf(e \in ToSet(owed)) + OneIf(e = inHand) + OneIf(e \in lost) = 1

\* x is withdrawn before y: y encloses x, or x's branch was registered later.
Before(x, y) ==
    \/ y \in Path(x) /\ x # y
    \/ \E a \in Path(x), b \in Path(y) :
        a \notin Path(y) /\ b \notin Path(x)
            /\ tree[a].parent = tree[b].parent /\ a > b

\* The lines of the inverses that ended in the teardown that is running or paused.
Ran == {i \in 1..Len(withdrawn) : withdrawn[i].of = "inverse"}

(* The teardown order survives its interruptions: over all the replays it   *)
(* takes, inverses start last registered branch first, children before what *)
(* they nest under, and nothing still live should have gone before one that *)
(* ran.  A handle withdraws its subtree in that order too, and flatten lists *)
(* what is live as the repeated take_next would have it.                    *)
TeardownInOrder ==
    /\ \A i, j \in Ran : i < j => Before(withdrawn[i].id, withdrawn[j].id)
    /\ \A i \in Ran : \A e \in live \union ({current} \ {0}) : Before(withdrawn[i].id, e)
    /\ current # 0 => \A e \in live : Before(current, e)
    /\ inHand # 0 => \A e \in ToSet(owed) : Before(inHand, e)
    /\ \A i, j \in 1..Cardinality(live) :
        i < j => Before(Flatten(live)[i], Flatten(live)[j])

(* I1, exactness: when every report returned so far is clean and no handle  *)
(* was dropped, every effect that is gone from the tree, from the log and       *)
(* from a handle has been withdrawn, or suspended, to completion.           *)
CleanMeansExact ==
    /\ withdrawn = <<>> /\ current = 0
    /\ handle = "none" /\ lost = {}
    /\ \A i \in 1..Len(reported) : reported[i].outcome = "Done"
    => Effects \ live \subseteq completed
=============================================================================
