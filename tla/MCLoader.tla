------------------------------ MODULE MCLoader ------------------------------
(* A group g over two plugin entries a and b, and three callers of the       *)
(* loader; beside it, and sharing no state, the cycle check of one reconcile *)
(* over every small graph of declarations.                                   *)
EXTENDS Loader, CycleCheck

CONSTANTS g, a, b, t1, t2, t3, grp, p, q, c1, c2,
    Parts   \* what the behaviours of a run are about

VARIABLE part   \* what this one is

MCEntry == {g, a, b}
MCTask == {t1, t2, t3}
MCParent == [e \in MCEntry |-> IF e = g THEN None ELSE g]
MCPlugin == {grp, p, q}
MCConfig == {c1, c2}

On(x, c)  == [plugin |-> x, config |-> c, disabled |-> FALSE]
Off(x, c) == [plugin |-> x, config |-> c, disabled |-> TRUE]

Doc(dg, da, db) == [e \in MCEntry |-> IF e = g THEN dg ELSE IF e = a THEN da ELSE db]

Base   == Doc(On(grp, c1), On(p, c1), On(p, c1))
Closed == Doc(Off(grp, c1), On(p, c1), On(p, c1))
Turned == Doc(On(grp, c1), On(q, c1), None)
Hosted == Doc(On(p, c1), On(p, c1), On(p, c1))
Quiet  == Doc(On(grp, c1), Off(p, c1), On(p, c2))

Reconciles(cancels, docs) == [op : {"reconcile"}, doc : docs, cancels : {cancels}, from : {None}]
Updates(f, e, ops)  == [op : ops, entry : {e}, config : {c2}, from : {f}]
Moves(f, e, ops)    == [op : ops, entry : {e}, from : {f}]
Swaps(f, e)         == [op : {"swap"}, entry : {e}, plugin : {q}, from : {f}]
Adds(f, e)          == [op : {"add"}, entry : {e}, spec : {On(q, c2), Off(p, c1)}, from : {f}]

Cast(x, y, z) == {[t \in MCTask |-> IF t = t1 THEN i ELSE IF t = t2 THEN j ELSE k] :
                     i \in x, j \in y, k \in z}

\* Amendments of two siblings, the second made by the first one's plugin code.
Amending ==
    Cast(Updates(None, a, {"update", "deferred"}) \union Moves(None, a, {"dispose"}),
         Updates(a, b, {"update", "deferred"}) \union Moves(None, b, {"dispose"})
             \union Updates(None, b, {"update"}) \union Updates(a, a, {"update"}),
         Reconciles(FALSE, {Base, Turned, Closed}))

\* An administration of an entry against an amendment of it, and a reconcile.
Administering ==
    Cast(Updates(None, a, {"configure"}) \union Swaps(None, a)
             \union Moves(None, a, {"disable", "enable", "remove"}) \union Adds(None, a),
         Updates(None, a, {"deferred"}) \union Moves(None, a, {"enable"}),
         Reconciles(FALSE, {Base, Turned, Quiet}))

\* A reconcile that may be cancelled half way, the next one, and an amendment of
\* an entry both leave alone.
Reconciling ==
    Cast(Reconciles(TRUE, {Turned, Quiet}), Reconciles(FALSE, {Base, Turned, Hosted}),
         Updates(None, g, {"update"}))

\* The plugin code of one entry administers its sibling.
Reaching ==
    Cast(Updates(None, a, {"deferred"}),
         Swaps(a, b) \union Moves(a, b, {"disable"}) \union Updates(a, b, {"configure"}),
         Reconciles(FALSE, {Base, Closed}))

MCWorkloads == Amending \union Administering \union Reconciling \union Reaching

MCBooted == {Base, Turned}

\* An administration of one entry while its sibling is amended.
SiblingWorkloads ==
    Cast(Updates(None, a, {"configure"}), Updates(None, b, {"deferred"}), Reconciles(FALSE, {Base}))

\* Each entry of a document provides a service of its own, its number, and injects
\* some: any for three of them, at most one for four.
Decl(n, injects, env) ==
    [enabled |-> TRUE, lane |-> TRUE, provides |-> n, injects |-> injects, environment |-> env]
Graphs(n, most) ==
    LET lists == {SetToSortSeq(x, <) : x \in {y \in SUBSET (1..n) : Cardinality(y) <= most}}
    IN  {[i \in 1..n |-> Decl(i, f[i], <<>>)] : f \in [1..n -> lists]}

\* A ring of three, whose entries may be disabled or of no known package, and may
\* resolve the first one's service in a realm of their own or of their parent's.
Team == [service \in {1} |-> "team"]
Back == [service \in {1} |-> "root"]
Rings ==
    {[i \in 1..3 |-> [Decl(i, <<(i % 3) + 1>>, e[i]) EXCEPT !.enabled = i # off,
                                                           !.lane = i # bare]] :
        e \in [1..3 -> {<<>>, <<Team>>, <<Team, Back>>}], off \in 0..3, bare \in 0..1}

\* Two entries provide one service.
Twins == {[d EXCEPT ![2].provides = 1] : d \in Graphs(3, 2)}

MCDeclarations == {<<>>} \union Graphs(3, 3) \union Graphs(4, 1) \union Rings \union Twins

\* What the diff did with an entry: nothing, creation, or a rebind and a restate.
Diff(f) ==
    LET rebinds   == {n \in 1..4 : f[n] = "moved"}
        all(x, k) == [i \in DOMAIN SetToSortSeq(x, <) |->
                        [entry |-> SetToSortSeq(x, <)[i], kind |-> k]]
    IN  [steps |-> all(rebinds, "Rebind") \o all(rebinds, "Restate")
                       \o all({n \in 1..4 : f[n] = "new"}, "Create"),
         unchanged |-> {n \in 1..4 : f[n] = "same"},
         live |-> {n \in 1..4 : f[n] # "new"}]
MCDiffs == {Diff(f) : f \in {<<"same", "moved", "new", "new">>, <<"new", "same", "moved", "same">>,
                             <<"moved", "moved", "same", "new">>}}

-----------------------------------------------------------------------------
\* The part a behaviour is not about rests in an initial state.
MCInit ==
    /\ part \in Parts
    /\ CycleInit
    /\ part = "cycles" \/ declared = <<>>
    /\ job \in IF part = "loader" THEN Workloads ELSE {CHOOSE w \in Workloads : TRUE}
    /\ committed \in IF part = "loader" THEN Booted ELSE {Base}
    /\ Init

MCNext ==
    /\ UNCHANGED part
    /\ \/ part = "loader" /\ Next /\ UNCHANGED yvars
       \/ part = "cycles" /\ CycleNext /\ UNCHANGED vars

MCSpec == MCInit /\ [][MCNext]_<<part, vars, yvars>> /\ LoaderFairness

(* OneTruth: wherever nobody works, document, file and runtime agree, and no *)
(* entry ever has two fibers (TwoViews, OneFiber).                           *)
OneTruth == TwoViews /\ OneFiber
=============================================================================
