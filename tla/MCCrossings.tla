---------------------------- MODULE MCCrossings ----------------------------
(* Three fibers and seven stories: crossings that close cycles, walks       *)
(* across restarts, guests that die under a walk, under a call and in the   *)
(* window of a call, a first activation, and handles across providers.      *)
EXTENDS Crossings

CONSTANTS f1, f2, f3, t1, t2

\* f3 may not emit on t2.
MCGrants ==
    [f \in Fiber |-> {t1, "contract", "operation"} \union (IF f = f3 THEN {} ELSE {t2})]

Bounds(b) == [s \in Step |-> IF s \in DOMAIN b THEN b[s] ELSE 0]
Story(u, l, c, b) == [up |-> u, listening |-> l, coming |-> c, bounds |-> Bounds(b)]

MCStories == {
    Story({f1, f2, f3}, {<<f2, t1>>, <<f3, t2>>}, {},
          [entries |-> 2, walks |-> 2, provides |-> 1, resolves |-> 1, calls |-> 1]),
    Story({f1, f2}, {<<f2, t1>>}, {}, [entries |-> 1, walks |-> 1, owes |-> 2]),
    Story({f1, f2}, {<<f2, t1>>}, {}, [entries |-> 2, walks |-> 1, owes |-> 1, deaths |-> 1]),
    Story({f1, f2}, {<<f2, t1>>}, {},
          [entries |-> 2, walks |-> 1, provides |-> 1, resolves |-> 1, calls |-> 1, deaths |-> 1]),
    Story({f1, f2}, {}, {},
          [entries |-> 2, provides |-> 1, resolves |-> 1, calls |-> 1, owes |-> 1, deaths |-> 1]),
    Story({f1}, {}, {f2}, [entries |-> 1, walks |-> 1, listens |-> 1]),
    Story({f1, f2, f3}, {}, {},
          [entries |-> 3, provides |-> 2, resolves |-> 1, calls |-> 1, owes |-> 1]) }
=============================================================================
