------------------------------ MODULE CycleCheck ------------------------------
(***************************************************************************)
(* Static dependency cycles (crates/jinnd-loader/src/cycles.rs): before a  *)
(* reconcile applies anything, the loader charts who injects what from     *)
(* whom over the desired document, finds the entries on a cycle, and       *)
(* rewrites the plan so that none of them is spawned and none that runs    *)
(* keeps running.  The search is one pass over the graph with explicit     *)
(* frames; a step below is one turn of its loop.                           *)
(***************************************************************************)
EXTENDS Naturals, Sequences, FiniteSets, SequencesExt, Relation

CONSTANTS
    Declarations,  \* the desired documents: per position, what the entry's lane declares
    Diffs          \* the plans the diff may hand over

VARIABLES
    declared,  \* the document of this reconcile
    search,    \* the search: order, low, stack, frames, members
    diff,      \* the plan the diff handed over
    quarantined \* the plan it became; before, the empty sequence

yvars == <<declared, search, diff, quarantined>>

Unseen == 99

-----------------------------------------------------------------------------
(* The graph *)

\* effective_realm: the nearest binding on the entry's ancestry.
EffectiveRealm(n, service) ==
    LET above == SelectSeq(declared[n].environment, LAMBDA b : service \in DOMAIN b)
    IN  IF above = <<>> THEN "root" ELSE Last(above)[service]

\* Effectively enabled entries of a package that has a lane.
Nodes == SelectSeq([n \in DOMAIN declared |-> n],
                   LAMBDA n : declared[n].enabled /\ declared[n].lane)

\* The providers of a service that resolve it in n's realm, in document order.
Providers(n, service) ==
    SelectSeq(Nodes, LAMBDA m : /\ declared[m].provides = service
                                /\ EffectiveRealm(m, service) = EffectiveRealm(n, service))

Edges(n) == FlattenSeq([i \in DOMAIN declared[n].injects |->
                          Providers(n, declared[n].injects[i])])

-----------------------------------------------------------------------------
(* cyclic_members *)

CycleInit ==
    /\ declared \in Declarations
    /\ search = [order |-> [n \in DOMAIN declared |-> Unseen],
                 low |-> [n \in DOMAIN declared |-> 0],
                 next |-> 0, stack |-> <<>>, frames |-> <<>>, members |-> {}]
    /\ diff = <<>>
    /\ quarantined = <<>>

LeastOf(x, y) == IF x <= y THEN x ELSE y

\* A node is numbered and stacked when its frame is first at the top.
Entered ==
    LET top == Last(search.frames)
    IN  IF top.child # 0 THEN search
        ELSE [search EXCEPT !.order[top.node] = search.next,
                            !.low[top.node] = search.next,
                            !.next = @ + 1, !.stack = Append(@, top.node)]

NextRoot ==
    /\ search.frames = <<>> /\ quarantined = <<>>
    /\ LET unseen == SelectSeq(Nodes, LAMBDA n : search.order[n] = Unseen)
       IN  /\ unseen # <<>>
           /\ search' = [search EXCEPT !.frames = <<[node |-> Head(unseen), child |-> 0]>>]
    /\ UNCHANGED <<declared, diff, quarantined>>

\* Mutated form of Follow: an edge into a finished component lowers the link too.
FollowFinished ==
    /\ search.frames # <<>>
    /\ LET top == Last(search.frames)
           s   == Entered
       IN  /\ top.child < Len(Edges(top.node))
           /\ LET to     == Edges(top.node)[top.child + 1]
                  frames == [s.frames EXCEPT ![Len(s.frames)].child = @ + 1]
              IN  search' = IF s.order[to] = Unseen
                            THEN [s EXCEPT !.frames = Append(frames, [node |-> to, child |-> 0])]
                            ELSE [s EXCEPT !.frames = frames,
                                           !.low[top.node] = LeastOf(@, s.order[to])]
    /\ UNCHANGED <<declared, diff, quarantined>>

\* One edge of the top node.
Follow ==
    /\ search.frames # <<>>
    /\ LET top == Last(search.frames)
           s   == Entered
       IN  /\ top.child < Len(Edges(top.node))
           /\ LET to     == Edges(top.node)[top.child + 1]
                  frames == [s.frames EXCEPT ![Len(s.frames)].child = @ + 1]
              IN  search' = IF s.order[to] = Unseen
                            THEN [s EXCEPT !.frames = Append(frames, [node |-> to, child |-> 0])]
                            ELSE IF Contains(s.stack, to)
                            THEN [s EXCEPT !.frames = frames,
                                           !.low[top.node] = LeastOf(@, s.order[to])]
                            ELSE [s EXCEPT !.frames = frames]
    /\ UNCHANGED <<declared, diff, quarantined>>

\* No edge is left: the node hands its link up, and the root of a component pops it.
Leave ==
    /\ search.frames # <<>>
    /\ LET top == Last(search.frames)
       IN  /\ top.child >= Len(Edges(top.node))
           /\ LET s         == [Entered EXCEPT !.frames = Front(@)]
                  n         == top.node
                  from      == CHOOSE i \in DOMAIN s.stack : s.stack[i] = n
                  component == ToSet(SubSeq(s.stack, from, Len(s.stack)))
                  up        == IF s.frames = <<>> THEN s.low
                               ELSE [s.low EXCEPT ![Last(s.frames).node] = LeastOf(@, s.low[n])]
                  looped    == Cardinality(component) > 1 \/ Contains(Edges(n), n)
              IN  search' = IF s.low[n] # s.order[n] THEN [s EXCEPT !.low = up]
                            ELSE [s EXCEPT !.low = up,
                                           !.stack = SubSeq(@, 1, from - 1),
                                           !.members = IF looped THEN @ \union component ELSE @]
    /\ UNCHANGED <<declared, diff, quarantined>>

-----------------------------------------------------------------------------
(* quarantine *)

\* The step that makes a member cleanly inactive.
Containment(d, n) == [entry |-> n, kind |-> IF n \in d.live THEN "Disable" ELSE "Track"]

\* The first step of a member becomes its containment, its others are dropped,
\* and a member the diff left alone gets one, in whatever order a hash set has.
Quarantine ==
    /\ search.frames = <<>> /\ quarantined = <<>>
    /\ \A i \in DOMAIN Nodes : search.order[Nodes[i]] # Unseen
    /\ \E d \in Diffs :
         LET steps(n) == {i \in DOMAIN d.steps : d.steps[i].entry = n}
             first    == {i \in DOMAIN d.steps : \A j \in steps(d.steps[i].entry) : i <= j}
             kept     == {i \in DOMAIN d.steps :
                             d.steps[i].entry \in search.members => i \in first}
             moved(i) == IF d.steps[i].entry \in search.members
                         THEN Containment(d, d.steps[i].entry) ELSE d.steps[i]
             left     == {Containment(d, n) : n \in {m \in search.members : steps(m) = {}}}
         IN  /\ diff' = <<d>>
             /\ \E rest \in SetToSeqs(left) :
                  quarantined' = <<[steps |-> LET at == SetToSortSeq(kept, <)
                                              IN  [i \in DOMAIN at |-> moved(at[i])] \o rest,
                                    unchanged |-> d.unchanged \ search.members]>>
    /\ UNCHANGED <<declared, search>>

CycleNext == NextRoot \/ Follow \/ Leave \/ Quarantine

-----------------------------------------------------------------------------
\* The entries on a directed cycle, from the declarations alone.
OnCycle ==
    LET nodes == {n \in DOMAIN declared : declared[n].enabled /\ declared[n].lane}
        needs == [e \in nodes \X nodes |->
                    \E i \in DOMAIN declared[e[1]].injects :
                       LET service == declared[e[1]].injects[i]
                       IN  /\ declared[e[2]].provides = service
                           /\ EffectiveRealm(e[1], service) = EffectiveRealm(e[2], service)]
        far   == TransitiveClosure(needs, nodes)
    IN  {n \in nodes : far[n, n]}

StepsOf(steps, n) == SelectSeq(steps, LAMBDA s : s.entry = n)

(* cycles.rs: exactly the entries on a cycle of declarations are kept out, a  *)
(* running one by one disposal that keeps its row and any other by one        *)
(* tracking step, whatever the diff had planned; every other entry's steps    *)
(* are the diff's, in its order.                                              *)
CyclesAreContained ==
    quarantined # <<>> =>
        LET d == diff[1]
            kept == quarantined[1]
        IN  \A n \in DOMAIN declared :
               IF n \in OnCycle
               THEN StepsOf(kept.steps, n) = <<Containment(d, n)>> /\ n \notin kept.unchanged
               ELSE /\ StepsOf(kept.steps, n) = StepsOf(d.steps, n)
                    /\ n \in kept.unchanged <=> n \in d.unchanged
=============================================================================
