----------------------------- MODULE MCRegistry -----------------------------
(* Small registries: which fiber provides what where, and who injects it from where. *)
EXTENDS Registry, TLC

CONSTANTS p1, p2, p3, c1, top, mid, leaf, side

\* top <- side <- mid <- leaf; the consumer sits at the leaf.
Tree   == [x \in Context \ {top} |-> IF x = leaf THEN mid ELSE IF x = mid THEN side ELSE top]
AtLeaf == [c \in Consumer |-> leaf]

\* Wherever it is made, every provision of "store" meets in one named realm.
SharedBindings == [x \in Context |->
    IF x = mid THEN <<<<"store", "root">>, <<"store", "team">>>>
    ELSE IF x = side THEN <<<<"store", "team">>>> ELSE <<>>]

\* p1 and p2 are the kernel's, called with a realm; p3 is a providing entry's.
SlotProvider == [p \in Provision |-> IF p = p3 THEN "entry" ELSE "kernel"]
SlotPlace    == [p \in Provision |->
    IF p = p3 THEN [context |-> side, service |-> "store", realm |-> None]
    ELSE [context |-> top, service |-> "store", realm |-> "team"]]
SlotInjects  == [c \in Consumer |-> <<"store">>]

\* Two services of two fibers: "store" is provided at mid, where it is bound back to
\* the root realm and leaf's walk therefore ends; "log" is in a named realm.
PairBindings == [x \in Context |->
    IF x = side THEN <<<<"log", "team">>, <<"store", "team">>>>
    ELSE IF x = mid THEN <<<<"store", "root">>>> ELSE <<>>]
PairPlace    == [p \in Provision |->
    IF p = p3 THEN [context |-> mid, service |-> "log", realm |-> None]
    ELSE [context |-> mid, service |-> "store", realm |-> "root"]]
PairInjects  == [c \in Consumer |-> <<"store", "log">>]

\* Nothing is bound: a provision at mid shadows the one at the top.
NoBindings   == [x \in Context |-> <<>>]
ShadowPlace  == [p \in Provision |->
    [context |-> IF p = p1 THEN mid ELSE top, service |-> "store", realm |-> "root"]]

\* One fiber's provisions of one slot are alike.
SlotSymmetry == Permutations({p1, p2})
=============================================================================
