----------------------------- MODULE WaitGraph -----------------------------
(***************************************************************************)
(* The wait graph (crates/jinnd-wasm/src/waits.rs): the one record of which  *)
(* fiber is parked on which.  A ticket holds an edge for as long as the      *)
(* crossing it stands for; a fiber runs one guest entry at a time and has    *)
(* one crossing open, so the tickets of a waiter are a set of targets.       *)
(***************************************************************************)
EXTENDS FiniteSets

CONSTANT Fiber

VARIABLE waits   \* waits[f]: the fibers f holds a ticket on

\* Inner::reaches: goal is from itself or can be reached from it along edges.
Reaches(from, goal) ==
    \A R \in SUBSET Fiber :
        (from \in R /\ \A f \in R : waits[f] \subseteq R) => goal \in R

NoWait == waits = [f \in Fiber |-> {}]

\* Mutated form of Refused: only the target's own waits are looked at, not where they lead.
RefusedDirect(waiter, target) == target = waiter \/ waiter \in waits[target]

\* WaitGraph::enter: under one lock the edge is refused or inserted.
Refused(waiter, target) == Reaches(target, waiter)

Enter(waiter, target) ==
    /\ ~Refused(waiter, target)
    /\ waits' = [waits EXCEPT ![waiter] = @ \union {target}]

\* WaitTicket::drop, of every ticket of one crossing.
Release(waiter) == waits' = [waits EXCEPT ![waiter] = {}]

\* The fibers in S stop waiting together: their crossings are dropped.
ReleaseAll(S) == waits' = [f \in Fiber |-> IF f \in S THEN {} ELSE waits[f]]

-----------------------------------------------------------------------------
\* No fiber waits, however indirectly, on itself: in every set of fibers one
\* waits on none of the others.  A guest's deadline is parked while it walks a
\* topic, so nothing would ever end a cycle (waits.rs, "parked on a peer that
\* cannot answer").
NoWaitCycle ==
    \A S \in SUBSET Fiber : S # {} => \E f \in S : waits[f] \intersect S = {}
=============================================================================
