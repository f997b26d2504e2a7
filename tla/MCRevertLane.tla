---------------------------- MODULE MCRevertLane ----------------------------
(* Three calls under two keys against one effect's branch, one of them       *)
(* perhaps a compensation.  Calls and keys are interchangeable, so one       *)
(* initial state stands for all that permute them; with a compensation there *)
(* is one crash and no dropped call.                                         *)
EXTENDS RevertLane

CONSTANTS c1, c2, c3, k1, k2

MCCall == {c1, c2, c3}
MCKey  == {k1, k2}

Rank(c) == (IF op[c] = "revert" THEN 0 ELSE 2) + (IF key[c] = k1 THEN 0 ELSE 1)

MCInit ==
    /\ Init
    /\ Rank(c1) <= Rank(c2) /\ Rank(c2) <= Rank(c3)
    /\ key[c1] = k1 /\ op[c2] = "revert"

Budget == RevertsOnly \/ (crashes <= 1 /\ drops = 0)

MCSpec ==
    /\ MCInit
    /\ [][Next /\ Budget']_vars
    /\ WF_vars(Serve) /\ \A c \in Call : WF_vars(Step(c))
=============================================================================
