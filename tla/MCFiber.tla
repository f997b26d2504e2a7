------------------------------ MODULE MCFiber -------------------------------
(* One fiber on a small environment, and a budget for it: a behaviour in     *)
(* which somebody calls quiesce has one publication of one epoch, a behaviour *)
(* without has two of either.  The guard holds back the environment only.    *)
EXTENDS Fiber

CONSTANTS e1, e2

MCEpochs == {e1, e2}

Budget == asks = <<>> \/ (flips <= 1 /\ signal # e2)

MCSpec == Init /\ [][Next /\ Budget']_vars /\ TaskFairness

(* Progresses: once inputs stop the fiber comes to rest or ends, and a body  *)
(* whose target moved is told, also if it never returns (Quiesces,           *)
(* StaleBodyIsTold).                                                         *)
Progresses == Quiesces /\ StaleBodyIsTold
=============================================================================
