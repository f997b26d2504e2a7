-------------------------- MODULE RevertLaneProofs --------------------------
(***************************************************************************)
(* Theorems about the revert lane, for every number of calls and keys,     *)
(* every mix of reverts and compensations and every number of crashes,     *)
(* storage refusals and dropped calls: its type invariant; that at most    *)
(* one revert owns the branch; that Reverted means the inverse ran and its *)
(* completion is in the stream; that an inverse that has completed is      *)
(* never run again; and that the stream implements the resolution machine. *)
(***************************************************************************)
EXTENDS RevertLane, TLAPS, WellFoundedInduction

-----------------------------------------------------------------------------
(* The positions the fold chooses. *)

(* A set of naturals that is not empty has a least element.                 *)
LEMMA LeastExists ==
    ASSUME NEW S \in SUBSET Nat, S # {}
    PROVE  \E m \in S : \A n \in S : m <= n
<1> DEFINE R == OpToRel(<, Nat)
<1>1. IsWellFoundedOn(R, Nat)
  BY NatLessThanWellFounded
<1>2. \A x, y \in Nat : x < y => <<x, y>> \in R
  BY DEF OpToRel
<1> HIDE DEF R
<1>3. \E m \in S : \A n \in S : ~(<<n, m>> \in R)
  BY <1>1, WFMin
<1>4. \A m, n \in Nat : ~(<<n, m>> \in R) => m <= n
  BY <1>2, SMT
<1> QED
  BY <1>3, <1>4

(* A bounded set of naturals that is not empty has a greatest element: the  *)
(* one at the least distance from the bound.                                *)
LEMMA GreatestExists ==
    ASSUME NEW n \in Nat, NEW S \in SUBSET (1..n), S # {}
    PROVE  \E m \in S : \A k \in S : k <= m
<1> DEFINE D == {d \in Nat : n - d \in S}
<1>1. PICK s \in S : TRUE
  OBVIOUS
<1>2. n - s \in Nat /\ n - (n - s) = s
  BY <1>1, SMT
<1>3. D # {}
  BY <1>1, <1>2
<1>4. PICK d \in D : \A e \in D : d <= e
  BY <1>3, LeastExists
<1>5. n - d \in S
  BY <1>4
<1>6. ASSUME NEW k \in S
      PROVE  k <= n - d
  <2>1. k \in Nat /\ n - k \in Nat /\ n - (n - k) = k
    BY SMT
  <2>2. n - k \in D
    BY <2>1
  <2>3. d \in Nat /\ d <= n - k
    BY <1>4, <2>2
  <2> QED
    BY <2>1, <2>3, SMT
<1> QED
  BY <1>5, <1>6

(* What hydration folds out of a stream is a branch or nothing: its key is  *)
(* that of the first intent and its state that of the last verdict.         *)
LEMMA FoldIsABranch ==
    ASSUME log \in Seq(Event)
    PROVE  BranchFrom \in Branch \union {None}
<1>1. CASE Intents = {}
  BY <1>1 DEF BranchFrom
<1>2. CASE Intents # {}
  <2>1. Len(log) \in Nat /\ DOMAIN log = 1..Len(log)
    OBVIOUS
  <2>2. Intents \in SUBSET Nat /\ Intents \subseteq DOMAIN log
    BY <2>1 DEF Intents, Positions
  <2>3. First \in Intents
    BY <1>2, <2>2, LeastExists DEF First
  <2>4. log[First] \in Event /\ log[First].kind = "intent"
    BY <2>2, <2>3 DEF Intents, Positions
  <2>5. log[First].key \in Key
    BY <2>4 DEF Event, Failure
  <2>6. CASE Verdicts = {}
    BY <1>2, <2>5, <2>6 DEF BranchFrom, Branch, Resolution
  <2>7. CASE Verdicts # {}
    <3>1. Verdicts \in SUBSET (1..Len(log))
      BY <2>1 DEF Verdicts, Positions
    <3>2. Last \in Verdicts
      BY <2>1, <2>7, <3>1, GreatestExists DEF Last
    <3>3. log[Last] \in Event /\ log[Last].kind \in {"completed", "resolved"}
      BY <3>2 DEF Verdicts, Positions
    <3>4. Verdict(log[Last]) \in Resolution
      BY <3>3 DEF Verdict, Event, Failure, Resolution
    <3> QED
      BY <1>2, <2>5, <2>7, <3>4 DEF BranchFrom, Branch
  <2> QED
    BY <2>6, <2>7
<1> QED
  BY <1>1, <1>2

-----------------------------------------------------------------------------
(* The type invariant. *)

\* What waits in the queue for a call was sent by that call: a call that has
\* not begun has sent nothing, and one that hydrates waits for its query.
QueueInv ==
    \A i \in DOMAIN queue :
        /\ at[queue[i].caller] # "idle"
        /\ at[queue[i].caller] = "reading" => queue[i].record = Query

\* The stages between a claim, or the witness of a pending branch, and the end.
Held == {"claimed", "intent", "running", "completing", "erring", "resolving",
         "announcing", "resolved"}

\* A call that got past its claim has its branch in the table.
HeldInv == \A c \in Call : at[c] \in Held => branch # None

LaneType == TypeOK /\ QueueInv /\ HeldInv

Operations == [caller : Call, record : Event \union {Query}]

(* A call that moves to a stage other than the first two, whether or not it *)
(* sends, keeps the type of the stages and what the queue is known to hold. *)
LEMMA MoveKeepsType ==
    ASSUME LaneType, NEW c \in Call, NEW to \in Stage \ {"idle", "reading"},
           NEW record \in Event,
           at' = [at EXCEPT ![c] = to],
           \/ queue' = queue
           \/ queue' = Append(queue, [caller |-> c, record |-> record])
    PROVE  /\ at' \in [Call -> Stage]
           /\ queue' \in Seq(Operations)
           /\ QueueInv'
<1>1. at' \in [Call -> Stage] /\ queue \in Seq(Operations)
  BY DEF LaneType, TypeOK, Operations
<1>2. \A d \in Call : at'[d] = IF d = c THEN to ELSE at[d]
  BY DEF LaneType, TypeOK
<1>3. CASE queue' = queue
  BY <1>1, <1>2, <1>3 DEF LaneType, QueueInv, Operations
<1>4. CASE queue' = Append(queue, [caller |-> c, record |-> record])
  <2>1. [caller |-> c, record |-> record] \in Operations
    BY DEF Operations
  <2>2. queue' \in Seq(Operations)
    BY <1>1, <1>4, <2>1
  <2>3. \A i \in DOMAIN queue' :
          \/ i \in DOMAIN queue /\ queue'[i] = queue[i]
          \/ queue'[i] = [caller |-> c, record |-> record]
    BY <1>1, <1>4, <2>1
  <2>4. ASSUME NEW i \in DOMAIN queue'
        PROVE  /\ at'[queue'[i].caller] # "idle"
               /\ at'[queue'[i].caller] = "reading" => queue'[i].record = Query'
    <3>1. CASE i \in DOMAIN queue /\ queue'[i] = queue[i]
      <4>1. queue[i] \in Operations
        BY <1>1, <3>1
      <4>2. queue[i].caller \in Call
        BY <4>1 DEF Operations
      <4>3. /\ at[queue[i].caller] # "idle"
            /\ at[queue[i].caller] = "reading" => queue[i].record = Query
        BY <3>1 DEF LaneType, QueueInv
      <4>4. \/ at'[queue[i].caller] = to
            \/ at'[queue[i].caller] = at[queue[i].caller]
        BY <1>2, <4>2
      <4> QED
        BY <3>1, <4>3, <4>4 DEF Query
    <3>2. CASE queue'[i] = [caller |-> c, record |-> record]
      BY <1>2, <3>2
    <3> QED
      BY <2>3, <3>1, <3>2
  <2> QED
    BY <1>1, <2>2, <2>4 DEF QueueInv
<1> QED
  BY <1>3, <1>4

(* A step that takes no branch out of the table, and enters the held stages *)
(* only with a branch in it, keeps every held call's branch there.          *)
LEMMA MoveKeepsHeld ==
    ASSUME LaneType, NEW c \in Call, NEW to,
           at' = [at EXCEPT ![c] = to],
           branch # None => branch' # None,
           to \in Held => branch' # None
    PROVE  HeldInv'
BY DEF LaneType, TypeOK, HeldInv

(* The writer serves the head of the queue; what is left is known as before *)
(* when the caller of the head stays or moves past hydration.               *)
LEMMA ServeKeepsType ==
    ASSUME LaneType, queue # <<>>, queue' = Tail(queue),
           NEW to \in Stage \ {"idle", "reading"},
           \/ at' = at
           \/ at' = [at EXCEPT ![Head(queue).caller] = to]
    PROVE  /\ at' \in [Call -> Stage]
           /\ queue' \in Seq(Operations)
           /\ QueueInv'
<1>1. at \in [Call -> Stage] /\ queue \in Seq(Operations)
  BY DEF LaneType, TypeOK, Operations
<1>2. /\ queue' \in Seq(Operations)
      /\ \A i \in DOMAIN queue' : i + 1 \in DOMAIN queue /\ queue'[i] = queue[i + 1]
  BY <1>1
<1>3. Head(queue) \in Operations
  BY <1>1
<1>4. Head(queue).caller \in Call
  BY <1>3 DEF Operations
<1>5. /\ at' \in [Call -> Stage]
      /\ \A d \in Call : at'[d] \in {at[d], to}
  BY <1>1, <1>4
<1>6. ASSUME NEW i \in DOMAIN queue'
      PROVE  /\ at'[queue'[i].caller] # "idle"
             /\ at'[queue'[i].caller] = "reading" => queue'[i].record = Query'
  <2>1. queue'[i].caller \in Call
    <3>1. queue'[i] \in Operations
      BY <1>2
    <3> QED
      BY <3>1 DEF Operations
  <2>2. /\ at[queue'[i].caller] # "idle"
        /\ at[queue'[i].caller] = "reading" => queue'[i].record = Query
    BY <1>2 DEF LaneType, QueueInv
  <2>3. at'[queue'[i].caller] \in {at[queue'[i].caller], to}
    BY <1>5, <2>1
  <2> QED
    BY <2>2, <2>3 DEF Query
<1> QED
  BY <1>2, <1>5, <1>6 DEF QueueInv

\* The parts of the type invariant that a step of a call rarely touches.
DataType ==
    /\ log \in Seq(Event)
    /\ branch \in Branch \union {None}
    /\ op \in [Call -> Operation] /\ key \in [Call -> Key]
    /\ found \in [Call -> Branch \union {None}]
    /\ live \in [Call -> BOOLEAN]
    /\ outcome \in [Call -> Resolution]
    /\ earned \in BOOLEAN
    /\ crashes \in 0..MaxCrashes /\ refusals \in 0..MaxRefusals /\ drops \in 0..MaxDrops

(* The type invariant is that of the data, of the calls' stages and of the   *)
(* writer's queue.                                                          *)
LEMMA TypeParts ==
    TypeOK <=> DataType /\ at \in [Call -> Stage] /\ queue \in Seq(Operations)
BY Zenon DEF TypeOK, DataType, Operations

(* A ledger that opens on an empty stream, with no call begun, is typed.    *)
LEMMA TypeInit == Init => LaneType
<1> SUFFICES ASSUME Init PROVE LaneType
  OBVIOUS
<1>1. DataType
  <2>1. log \in Seq(Event)
    BY DEF Init
  <2>2. 0 \in 0..MaxCrashes /\ 0 \in 0..MaxRefusals /\ 0 \in 0..MaxDrops
    BY LaneConstants
  <2>3. crashes \in 0..MaxCrashes /\ refusals \in 0..MaxRefusals /\ drops \in 0..MaxDrops
    BY <2>2 DEF Init
  <2>4. op \in [Call -> Operation] /\ key \in [Call -> Key]
    BY LaneConstants DEF Init
  <2>5. /\ found \in [Call -> Branch \union {None}]
        /\ live \in [Call -> BOOLEAN]
        /\ outcome \in [Call -> Resolution]
    BY DEF Init, Resolution
  <2>6. branch \in Branch \union {None} /\ earned \in BOOLEAN
    BY DEF Init
  <2> QED
    BY <2>1, <2>3, <2>4, <2>5, <2>6 DEF DataType
<1>2. at \in [Call -> Stage] /\ queue \in Seq(Operations) /\ QueueInv /\ HeldInv
  BY DEF Init, Stage, QueueInv, HeldInv, Held
<1> QED
  BY <1>1, <1>2, TypeParts DEF LaneType

(* Every step of a call keeps the type: what it writes to the table is a    *)
(* branch, and what it sends is an event of the stream.                     *)
LEMMA CallTypeStep ==
    ASSUME LaneType, NEW c \in Call, Step(c)
    PROVE  LaneType'
<1>0. /\ DataType /\ at \in [Call -> Stage] /\ queue \in Seq(Operations)
      /\ at[c] \in Stage /\ key[c] \in Key /\ op[c] \in Operation
      /\ outcome[c] \in Resolution /\ found[c] \in Branch \union {None}
  BY TypeParts DEF LaneType, DataType
<1>1. Failure \in Event /\ Intent(c) \in Event
      /\ (\A clean \in BOOLEAN : Completed(clean) \in Event)
      /\ Resolved(outcome[c]) \in Event
  BY <1>0 DEF Failure, Intent, Completed, Resolved, Event
<1>2. \A clean \in BOOLEAN : Closing(c, clean) \in Resolution
  BY DEF Closing, Resolution
<1> USE DEF Stage, Ended
<1>3. CASE Seed(c)
  <2>1. DataType'
    BY <1>0, <1>3 DEF Seed, DataType, callVars, runVars, boundVars
  <2>2. at' \in [Call -> Stage] /\ queue' \in Seq(Operations) /\ QueueInv'
    BY <1>1, <1>3, MoveKeepsType DEF Seed, Move
  <2>3. HeldInv'
    BY <1>0, <1>3, <2>1, LaneConstants, MoveKeepsHeld
    DEF Seed, Move, Held, DataType, LaneType, HeldInv, IsPending, Branch, Resolution, runVars
  <2> QED
    BY <2>1, <2>2, <2>3 DEF LaneType, TypeOK, DataType, Operations
<1>4. CASE ClaimFresh(c)
  <2>1. DataType'
    BY <1>0, <1>4 DEF ClaimFresh, Branch, Resolution, DataType, callVars, runVars, boundVars
  <2>2. at' \in [Call -> Stage] /\ queue' \in Seq(Operations) /\ QueueInv'
    BY <1>1, <1>4, MoveKeepsType DEF ClaimFresh, Move
  <2>3. branch' \in Branch
    BY <1>0, <1>4 DEF ClaimFresh, Branch, Resolution
  <2>4. branch' # None
    BY <2>3, LaneConstants
  <2>5. HeldInv'
    BY <1>4, <2>4, MoveKeepsHeld DEF ClaimFresh, Move
  <2> QED
    BY <2>1, <2>2, <2>5 DEF LaneType, TypeOK, DataType, Operations
<1>5. CASE ClaimResumed(c)
  <2>1. DataType'
    BY <1>0, <1>5 DEF ClaimResumed, Branch, DataType, callVars, runVars, boundVars
  <2>2. at' \in [Call -> Stage] /\ queue' \in Seq(Operations) /\ QueueInv'
    BY <1>1, <1>5, MoveKeepsType DEF ClaimResumed, Move
  <2>3. branch' \in Branch
    <3>1. branch \in Branch /\ branch' = [branch EXCEPT !.resumable = FALSE, !.live = TRUE]
      BY <1>0, <1>5, Zenon DEF ClaimResumed, DataType
    <3> QED BY <3>1 DEF Branch
  <2>4. branch' # None
    BY <2>3, LaneConstants
  <2>5. HeldInv'
    BY <1>5, <2>4, MoveKeepsHeld DEF ClaimResumed, Move
  <2> QED
    BY <2>1, <2>2, <2>5 DEF LaneType, TypeOK, DataType, Operations
<1>6. CASE ClaimRecorded(c)
  <2>1. DataType'
    BY <1>0, <1>6 DEF ClaimRecorded, Answer, Branch, DataType, callVars, runVars, boundVars
  <2>2. at' \in [Call -> Stage] /\ queue' \in Seq(Operations) /\ QueueInv'
    BY <1>1, <1>6, MoveKeepsType DEF ClaimRecorded, Answer, Move
  <2>3. HeldInv'
    BY <1>0, <1>6, <2>1, LaneConstants, MoveKeepsHeld
    DEF ClaimRecorded, Answer, Move, Held, DataType, LaneType, HeldInv, IsPending, Branch, Resolution, runVars
  <2> QED
    BY <2>1, <2>2, <2>3 DEF LaneType, TypeOK, DataType, Operations
<1>7. CASE Refused(c)
  <2>1. DataType'
    BY <1>0, <1>7 DEF Refused, DataType, callVars, runVars, boundVars
  <2>2. at' \in [Call -> Stage] /\ queue' \in Seq(Operations) /\ QueueInv'
    BY <1>1, <1>7, MoveKeepsType DEF Refused, Move
  <2>3. HeldInv'
    BY <1>0, <1>7, <2>1, LaneConstants, MoveKeepsHeld
    DEF Refused, Move, Held, DataType, LaneType, HeldInv, IsPending, Branch, Resolution, runVars
  <2> QED
    BY <2>1, <2>2, <2>3 DEF LaneType, TypeOK, DataType, Operations
<1>8. CASE PendingWitness(c)
  <2>1. DataType'
    BY <1>0, <1>8 DEF PendingWitness, IsPending, Branch, DataType, callVars, runVars, boundVars
  <2>2. at' \in [Call -> Stage] /\ queue' \in Seq(Operations) /\ QueueInv'
    BY <1>1, <1>8, MoveKeepsType DEF PendingWitness, Move
  <2>3. HeldInv'
    BY <1>0, <1>8, <2>1, LaneConstants, MoveKeepsHeld
    DEF PendingWitness, Move, Held, DataType, LaneType, HeldInv, IsPending, Branch, Resolution, runVars
  <2> QED
    BY <2>1, <2>2, <2>3 DEF LaneType, TypeOK, DataType, Operations
<1>9. CASE SendIntent(c)
  <2>1. DataType'
    BY <1>0, <1>9 DEF SendIntent, DataType, callVars, runVars, boundVars
  <2>2. at' \in [Call -> Stage] /\ queue' \in Seq(Operations) /\ QueueInv'
    BY <1>1, <1>9, MoveKeepsType DEF SendIntent, Send, Move
  <2>3. HeldInv'
    BY <1>0, <1>9, <2>1, LaneConstants, MoveKeepsHeld
    DEF SendIntent, Move, Held, DataType, LaneType, HeldInv, IsPending, Branch, Resolution, runVars
  <2> QED
    BY <2>1, <2>2, <2>3 DEF LaneType, TypeOK, DataType, Operations
<1>10. CASE RunFails(c)
  <2>1. DataType'
    BY <1>0, <1>10 DEF RunFails, Resolution, DataType, callVars, runVars, boundVars
  <2>2. at' \in [Call -> Stage] /\ queue' \in Seq(Operations) /\ QueueInv'
    BY <1>1, <1>10, MoveKeepsType DEF RunFails, Send, Move
  <2>3. HeldInv'
    BY <1>0, <1>10, <2>1, LaneConstants, MoveKeepsHeld
    DEF RunFails, Move, Held, DataType, LaneType, HeldInv, IsPending, Branch, Resolution, runVars
  <2> QED
    BY <2>1, <2>2, <2>3 DEF LaneType, TypeOK, DataType, Operations
<1>11. CASE Resolve(c)
  <2>1. DataType'
    BY <1>0, <1>11 DEF Resolve, Branch, Held, HeldInv, LaneType, DataType, callVars, runVars, boundVars
  <2>2. at' \in [Call -> Stage] /\ queue' \in Seq(Operations) /\ QueueInv'
    BY <1>1, <1>11, MoveKeepsType DEF Resolve, Move
  <2>3. HeldInv'
    BY <1>0, <1>11, <2>1, LaneConstants, MoveKeepsHeld
    DEF Resolve, Move, Held, DataType, LaneType, HeldInv, IsPending, Branch, Resolution, runVars
  <2> QED
    BY <2>1, <2>2, <2>3 DEF LaneType, TypeOK, DataType, Operations
<1>12. CASE SendResolved(c)
  <2>1. DataType'
    BY <1>0, <1>12 DEF SendResolved, DataType, callVars, runVars, boundVars
  <2>2. at' \in [Call -> Stage] /\ queue' \in Seq(Operations) /\ QueueInv'
    BY <1>1, <1>12, MoveKeepsType DEF SendResolved, Send, Move
  <2>3. HeldInv'
    BY <1>0, <1>12, <2>1, LaneConstants, MoveKeepsHeld
    DEF SendResolved, Move, Held, DataType, LaneType, HeldInv, IsPending, Branch, Resolution, runVars
  <2> QED
    BY <2>1, <2>2, <2>3 DEF LaneType, TypeOK, DataType, Operations
<1>13. ASSUME NEW clean \in BOOLEAN, RunSucceeds(c, clean)
       PROVE  LaneType'
  <2>1. DataType'
    BY <1>0, <1>2, <1>13 DEF RunSucceeds, DataType, callVars, boundVars
  <2>2. at' \in [Call -> Stage] /\ queue' \in Seq(Operations) /\ QueueInv'
    BY <1>1, <1>13, MoveKeepsType DEF RunSucceeds, Send, Move
  <2>3. HeldInv'
    BY <1>0, <1>13, <2>1, LaneConstants, MoveKeepsHeld
    DEF RunSucceeds, Move, Held, DataType, LaneType, HeldInv, IsPending, Branch, Resolution, runVars
  <2> QED
    BY <2>1, <2>2, <2>3 DEF LaneType, TypeOK, DataType, Operations
<1> QED
  BY <1>3, <1>4, <1>5, <1>6, <1>7, <1>8, <1>9, <1>10, <1>11, <1>12, <1>13 DEF Step, Run

(* The queue's one writer keeps the type: what it serves of a stream is a   *)
(* branch, and whom it resumes was waiting for that receipt.                *)
LEMMA WriterTypeStep ==
    ASSUME LaneType, Serve
    PROVE  LaneType'
<1>0. /\ DataType /\ at \in [Call -> Stage] /\ queue \in Seq(Operations)
      /\ QueueInv /\ HeldInv
  BY TypeParts DEF LaneType
<1>1. queue # <<>>
  BY DEF Serve, ServeAppend, ServeQuery, Refuse
<1>2. /\ Head(queue) \in Operations
      /\ 1 \in DOMAIN queue /\ Head(queue) = queue[1]
  BY <1>0, <1>1
<1>3. PICK c \in Call : c = Head(queue).caller
  BY <1>2 DEF Operations
<1>4. at[c] = "reading" => Head(queue).record = Query
  BY <1>0, <1>2, <1>3 DEF QueueInv
<1>5. ASSUME ServeAppend
      PROVE  LaneType'
  <2>1. Head(queue).record \in Event
    BY <1>2, <1>5 DEF ServeAppend, Operations
  <2>2. log' \in Seq(Event)
    BY <1>0, <1>5, <2>1 DEF ServeAppend, DataType
  <2>3. DataType'
    BY <1>0, <1>5, <2>2 DEF ServeAppend, DataType, callVars, runVars, boundVars
  <2>4. CASE at[c] \in Waiting
    <3>1. at[c] \in {"intent", "completing", "erring", "resolved"}
      BY <1>4, <1>5, <2>4 DEF ServeAppend, Waiting
    <3>2. Resumes(c) \in {"running", "resolving", "returned"}
      BY <3>1 DEF Resumes
    <3>3. PICK to \in {"running", "resolving", "returned"} : to = Resumes(c)
      BY <3>2
    <3>4. at' = [at EXCEPT ![c] = to] /\ queue' = Tail(queue) /\ branch' = branch
      BY <1>3, <1>5, <2>4, <3>3 DEF ServeAppend, Move
    <3>5. to \in Stage \ {"idle", "reading"}
      BY DEF Stage, Ended
    <3>6. at' \in [Call -> Stage] /\ queue' \in Seq(Operations) /\ QueueInv'
      BY <1>1, <1>3, <3>4, <3>5, ServeKeepsType
    <3>7. branch # None
      BY <1>0, <3>1 DEF HeldInv, Held
    <3>8. HeldInv'
      BY <3>4, <3>7, MoveKeepsHeld
    <3> QED
      BY <2>3, <3>6, <3>8 DEF LaneType, TypeOK, DataType, Operations
  <2>5. CASE at[c] \notin Waiting
    <3>1. at' = at /\ queue' = Tail(queue) /\ branch' = branch
      BY <1>3, <1>5, <2>5 DEF ServeAppend
    <3>2. "returned" \in Stage \ {"idle", "reading"}
      BY DEF Stage, Ended
    <3>3. at' \in [Call -> Stage] /\ queue' \in Seq(Operations) /\ QueueInv'
      BY <1>1, <3>1, <3>2, ServeKeepsType
    <3>4. HeldInv'
      BY <1>0, <3>1 DEF HeldInv
    <3> QED
      BY <2>3, <3>3, <3>4 DEF LaneType, TypeOK, DataType, Operations
  <2> QED
    BY <2>4, <2>5
<1>6. ASSUME ServeQuery
      PROVE  LaneType'
  <2>1. BranchFrom \in Branch \union {None}
    BY <1>0, FoldIsABranch DEF DataType
  <2>2. \/ at' = at /\ found' = found
        \/ at' = [at EXCEPT ![c] = "seeding"] /\ found' = [found EXCEPT ![c] = BranchFrom]
    BY <1>3, <1>6 DEF ServeQuery, Move
  <2>3. found' \in [Call -> Branch \union {None}]
    BY <1>0, <2>1, <2>2 DEF DataType
  <2>4. DataType'
    BY <1>0, <1>6, <2>3 DEF ServeQuery, DataType, callVars, boundVars
  <2>5. "seeding" \in Stage \ {"idle", "reading"} /\ "seeding" \notin Held
    BY DEF Stage, Held
  <2>6. queue' = Tail(queue) /\ branch' = branch
    BY <1>6 DEF ServeQuery
  <2>7. at' \in [Call -> Stage] /\ queue' \in Seq(Operations) /\ QueueInv'
    BY <1>1, <1>3, <2>2, <2>5, <2>6, ServeKeepsType
  <2>8. HeldInv'
    BY <1>0, <2>2, <2>5, <2>6, MoveKeepsHeld DEF HeldInv
  <2> QED
    BY <2>4, <2>7, <2>8 DEF LaneType, TypeOK, DataType, Operations
<1>7. ASSUME Refuse
      PROVE  LaneType'
  <2>1. refusals' \in 0..MaxRefusals
    <3>1. refusals \in Nat /\ refusals < MaxRefusals /\ refusals' = refusals + 1
      BY <1>0, <1>7 DEF Refuse, DataType
    <3> QED
      BY <3>1, LaneConstants, SMT
  <2>2. DataType'
    BY <1>0, <1>7, <2>1 DEF Refuse, DataType, callVars, runVars
  <2>3. "failed" \in Stage \ {"idle", "reading"} /\ "failed" \notin Held
    BY DEF Stage, Ended, Held
  <2>4. queue' = Tail(queue) /\ branch' = branch
    BY <1>7 DEF Refuse
  <2>5. at' = at \/ at' = [at EXCEPT ![c] = "failed"]
    BY <1>3, <1>7 DEF Refuse, Move
  <2>6. at' \in [Call -> Stage] /\ queue' \in Seq(Operations) /\ QueueInv'
    BY <1>1, <1>3, <2>3, <2>4, <2>5, ServeKeepsType
  <2>7. HeldInv'
    BY <1>0, <2>3, <2>4, <2>5, MoveKeepsHeld DEF HeldInv
  <2> QED
    BY <2>2, <2>6, <2>7 DEF LaneType, TypeOK, DataType, Operations
<1> QED
  BY <1>5, <1>6, <1>7 DEF Serve

(* The type invariant is kept by every step: by a call, a dropped call, the *)
(* writer and the death of the process.                                     *)
LEMMA TypeStep == LaneType /\ [Next]_vars => LaneType'
<1> SUFFICES ASSUME LaneType, [Next]_vars
             PROVE  LaneType'
  OBVIOUS
<1>0. /\ DataType /\ at \in [Call -> Stage] /\ queue \in Seq(Operations)
      /\ QueueInv /\ HeldInv
  BY TypeParts DEF LaneType
<1>1. ASSUME NEW c \in Call, Hydrate(c)
      PROVE  LaneType'
  <2>1. DataType'
    BY <1>0, <1>1 DEF Hydrate, DataType, callVars, runVars, boundVars
  <2>2. CASE branch # None
    <3>1. at' = [at EXCEPT ![c] = "claiming"] /\ queue' = queue /\ branch' = branch
      BY <1>1, <2>2 DEF Hydrate, Move
    <3>2. "claiming" \in Stage \ {"idle", "reading"} /\ Failure \in Event
      BY DEF Stage, Event
    <3>3. at' \in [Call -> Stage] /\ queue' \in Seq(Operations) /\ QueueInv'
      BY <1>1, <3>1, <3>2, MoveKeepsType
    <3>4. HeldInv'
      BY <1>1, <2>2, <3>1, MoveKeepsHeld
    <3> QED
      BY <2>1, <3>3, <3>4 DEF LaneType, TypeOK, DataType, Operations
  <2>3. CASE branch = None
    <3>1. /\ at[c] = "idle" /\ at' = [at EXCEPT ![c] = "reading"]
          /\ queue' = Append(queue, [caller |-> c, record |-> Query])
          /\ branch' = branch
      BY <1>1, <2>3 DEF Hydrate, Move, Send
    <3>2. at' \in [Call -> Stage]
      BY <1>0, <3>1 DEF Stage
    <3>3. [caller |-> c, record |-> Query] \in Operations
      BY <1>1 DEF Operations
    <3>4. queue' \in Seq(Operations)
      BY <1>0, <3>1, <3>3
    <3>5. \A i \in DOMAIN queue' :
            \/ i \in DOMAIN queue /\ queue'[i] = queue[i]
            \/ queue'[i] = [caller |-> c, record |-> Query]
      BY <1>0, <3>1, <3>3
    <3>6. ASSUME NEW i \in DOMAIN queue'
          PROVE  /\ at'[queue'[i].caller] # "idle"
                 /\ at'[queue'[i].caller] = "reading" => queue'[i].record = Query'
      <4>1. CASE i \in DOMAIN queue /\ queue'[i] = queue[i]
        <5>1. queue[i] \in Operations
          BY <1>0, <4>1
        <5>2. queue[i].caller \in Call
          BY <5>1 DEF Operations
        <5>3. /\ at[queue[i].caller] # "idle"
              /\ at[queue[i].caller] = "reading" => queue[i].record = Query
          BY <1>0, <4>1 DEF QueueInv
        <5>4. at'[queue[i].caller] = at[queue[i].caller]
          BY <1>0, <1>1, <3>1, <5>2, <5>3
        <5> QED
          BY <4>1, <5>3, <5>4 DEF Query
      <4>2. CASE queue'[i] = [caller |-> c, record |-> Query]
        BY <1>0, <1>1, <3>1, <4>2 DEF Query
      <4> QED
        BY <3>5, <4>1, <4>2
    <3>7. HeldInv'
      BY <1>0, <1>1, <2>3, <3>1 DEF HeldInv, Held
    <3> QED
      BY <2>1, <3>2, <3>4, <3>6, <3>7 DEF LaneType, TypeOK, DataType, Operations, QueueInv
  <2> QED
    BY <2>2, <2>3
<1>2. ASSUME NEW c \in Call, Drop(c)
      PROVE  LaneType'
  <2>1. drops' \in 0..MaxDrops
    <3>1. drops \in Nat /\ drops < MaxDrops /\ drops' = drops + 1
      BY <1>0, <1>2 DEF Drop, DataType
    <3> QED
      BY <3>1, LaneConstants, SMT
  <2>2. DataType'
    BY <1>0, <1>2, <2>1 DEF Drop, DataType, callVars, runVars
  <2>3. at' = [at EXCEPT ![c] = "dropped"] /\ queue' = queue /\ branch' = branch
    BY <1>2 DEF Drop, Move
  <2>4. /\ "dropped" \in Stage \ {"idle", "reading"} /\ "dropped" \notin Held
        /\ Failure \in Event
    BY DEF Stage, Ended, Held, Event
  <2>5. at' \in [Call -> Stage] /\ queue' \in Seq(Operations) /\ QueueInv'
    BY <1>2, <2>3, <2>4, MoveKeepsType
  <2>6. HeldInv'
    BY <1>2, <2>3, <2>4, MoveKeepsHeld
  <2> QED
    BY <2>2, <2>5, <2>6 DEF LaneType, TypeOK, DataType, Operations
<1>3. CASE Crash
  <2>1. crashes' \in 0..MaxCrashes
    <3>1. crashes \in Nat /\ crashes < MaxCrashes /\ crashes' = crashes + 1
      BY <1>0, <1>3 DEF Crash, DataType
    <3> QED
      BY <3>1, LaneConstants, SMT
  <2>2. DataType'
    BY <1>0, <1>3, <2>1 DEF Crash, DataType, callVars, runVars
  <2>3. at' \in [Call -> Stage] /\ \A c \in Call : at'[c] \notin Held
    BY <1>0, <1>3 DEF Crash, Stage, Ended, Held
  <2>4. queue' \in Seq(Operations) /\ QueueInv'
    BY <1>3 DEF Crash, QueueInv
  <2>5. HeldInv'
    BY <2>3 DEF HeldInv
  <2> QED
    BY <2>2, <2>3, <2>4, <2>5 DEF LaneType, TypeOK, DataType, Operations
<1>4. CASE UNCHANGED vars
  <2>1. DataType'
    BY <1>0, <1>4 DEF vars, DataType, callVars, runVars, boundVars
  <2>2. at' = at /\ queue' = queue /\ branch' = branch
    BY <1>4 DEF vars
  <2>3. at' \in [Call -> Stage] /\ queue' \in Seq(Operations) /\ QueueInv' /\ HeldInv'
    BY <1>0, <2>2 DEF QueueInv, HeldInv, Query
  <2> QED
    BY <2>1, <2>3 DEF LaneType, TypeOK, DataType, Operations
<1> QED
  BY <1>1, <1>2, <1>3, <1>4, CallTypeStep, WriterTypeStep DEF Next

(* The stream, the queue, the branch table and the calls keep their types   *)
(* through every mix of calls, refusals, drops and crashes.                 *)
THEOREM LaneTypeCorrect == Spec => []TypeOK
<1>1. LaneType => TypeOK
  BY DEF LaneType
<1> QED
  BY <1>1, TypeInit, TypeStep, PTL DEF Spec

-----------------------------------------------------------------------------
(* One owner. *)

\* The branch of an owner cannot be resumed by another claimant, and two owners
\* are the same call.
OwnerInv ==
    /\ \A c \in Call : Owner(c) => branch # None /\ ~branch.resumable
    /\ OneInverse

(* No call owns the branch before one begins.                               *)
LEMMA OwnerInit == Init => OwnerInv
BY DEF Init, OwnerInv, OneInverse, Owner

(* A step that makes no new owner and keeps a standing branch closed to     *)
(* resumption keeps the owner single.                                       *)
LEMMA NoNewOwner ==
    ASSUME OwnerInv,
           \A c \in Call : Owner(c)' => Owner(c),
           branch # None /\ ~branch.resumable => branch' # None /\ ~branch'.resumable
    PROVE  OwnerInv'
BY DEF OwnerInv, OneInverse

(* A claim wins only when the branch is absent or resumable, and then no    *)
(* call owns it; the winner leaves it neither.                              *)
LEMMA ClaimMakesOneOwner ==
    ASSUME OwnerInv, NEW c \in Call,
           branch = None \/ branch.resumable,
           branch' # None /\ ~branch'.resumable,
           \A d \in Call : Owner(d)' => Owner(d) \/ d = c
    PROVE  OwnerInv'
BY DEF OwnerInv, OneInverse

(* A call that moves becomes an owner only by entering the held stages as a *)
(* revert that was not in them.                                             *)
LEMMA MoveMakesNoOwner ==
    ASSUME LaneType, NEW c \in Call, NEW to,
           at' = [at EXCEPT ![c] = to], op' = op,
           to \in Held => at[c] \in Held \/ op[c] # "revert"
    PROVE  \A d \in Call : Owner(d)' => Owner(d)
<1>1. at \in [Call -> Stage]
  BY DEF LaneType, TypeOK
<1>2. \A d \in Call : at'[d] = IF d = c THEN to ELSE at[d]
  BY <1>1
<1> QED
  BY <1>2 DEF Owner, Held

(* No step of a call makes a second owner: the two claims that win find     *)
(* none, and every other step only moves an owner along.                    *)
LEMMA CallOwnerStep ==
    ASSUME LaneType, OwnerInv, NEW c \in Call, Step(c)
    PROVE  OwnerInv'
<1>0. /\ branch \in Branch \union {None} /\ at \in [Call -> Stage]
      /\ at[c] \in Held => branch # None
  BY DEF LaneType, TypeOK, HeldInv
<1>1. CASE Seed(c)
  <2>1. /\ at' = [at EXCEPT ![c] = "claiming"] /\ op' = op
        /\ branch # None => branch' = branch
    BY <1>1 DEF Seed, Move, callVars
  <2>2. \A d \in Call : Owner(d)' => Owner(d)
    BY <2>1, MoveMakesNoOwner DEF Held
  <2> QED
    BY <2>1, <2>2, NoNewOwner
<1>2. CASE ClaimFresh(c)
  <2>1. /\ at' = [at EXCEPT ![c] = "claimed"] /\ op' = op /\ branch = None
        /\ branch' = [key |-> key[c], state |-> "PendingRevert", live |-> TRUE,
                      resumable |-> FALSE]
    BY <1>2 DEF ClaimFresh, Move, callVars
  <2>2. branch' \in Branch /\ ~branch'.resumable
    BY <2>1 DEF LaneType, TypeOK, Branch, Resolution
  <2>3. branch' # None
    BY <2>2, LaneConstants
  <2>4. \A d \in Call : Owner(d)' => Owner(d) \/ d = c
    BY <1>0, <2>1 DEF Owner
  <2> QED
    BY <2>1, <2>2, <2>3, <2>4, ClaimMakesOneOwner
<1>3. CASE ClaimResumed(c)
  <2>1. /\ at' = [at EXCEPT ![c] = "running"] /\ op' = op
        /\ branch # None /\ branch.resumable
        /\ branch' = [branch EXCEPT !.resumable = FALSE, !.live = TRUE]
    BY <1>3 DEF ClaimResumed, Move, callVars
  <2>2. branch' \in Branch /\ ~branch'.resumable
    BY <1>0, <2>1 DEF Branch
  <2>3. branch' # None
    BY <2>2, LaneConstants
  <2>4. \A d \in Call : Owner(d)' => Owner(d) \/ d = c
    BY <1>0, <2>1 DEF Owner
  <2> QED
    BY <2>1, <2>2, <2>3, <2>4, ClaimMakesOneOwner
<1>4. CASE Resolve(c)
  <2>1. /\ at[c] = "resolving" /\ at' = [at EXCEPT ![c] = "announcing"] /\ op' = op
        /\ branch' = [branch EXCEPT !.state = outcome[c]]
    BY <1>4 DEF Resolve, Move, callVars
  <2>2. branch \in Branch /\ outcome[c] \in Resolution
    BY <1>0, <2>1 DEF Held, LaneType, TypeOK
  <2>3. branch' \in Branch /\ branch'.resumable = branch.resumable
    BY <2>1, <2>2 DEF Branch
  <2>4. branch' # None
    BY <2>3, LaneConstants
  <2>5. \A d \in Call : Owner(d)' => Owner(d)
    BY <2>1, MoveMakesNoOwner DEF Held
  <2> QED
    BY <2>3, <2>4, <2>5, NoNewOwner
<1>5. ASSUME \/ ClaimRecorded(c) \/ Refused(c) \/ PendingWitness(c)
             \/ SendIntent(c) \/ Run(c) \/ SendResolved(c)
      PROVE  OwnerInv'
  <2>1. branch' = branch /\ op' = op
    BY <1>5 DEF ClaimRecorded, Refused, PendingWitness, SendIntent, Run, RunFails,
                RunSucceeds, SendResolved, callVars
  <2>2. PICK to \in Stage :
          /\ at' = [at EXCEPT ![c] = to]
          /\ to \in Held => at[c] \in Held \/ op[c] # "revert"
    BY <1>5 DEF ClaimRecorded, Answer, Refused, PendingWitness, SendIntent, Run, RunFails,
                RunSucceeds, SendResolved, Move, Stage, Ended, Held
  <2>3. \A d \in Call : Owner(d)' => Owner(d)
    BY <2>1, <2>2, MoveMakesNoOwner
  <2> QED
    BY <2>1, <2>3, NoNewOwner
<1> QED
  BY <1>1, <1>2, <1>3, <1>4, <1>5 DEF Step

(* The writer resumes a call where it waits, refuses it or leaves it: an    *)
(* owner stays one or ends.                                                 *)
LEMMA WriterOwnerStep ==
    ASSUME LaneType, OwnerInv, Serve
    PROVE  OwnerInv'
<1>0. at \in [Call -> Stage] /\ queue \in Seq(Operations) /\ QueueInv
  BY TypeParts DEF LaneType
<1>1. queue # <<>> /\ branch' = branch /\ op' = op
  BY DEF Serve, ServeAppend, ServeQuery, Refuse, callVars
<1>2. /\ Head(queue) \in Operations
      /\ 1 \in DOMAIN queue /\ Head(queue) = queue[1]
  BY <1>0, <1>1
<1>3. PICK c \in Call : c = Head(queue).caller
  BY <1>2 DEF Operations
<1>4. at[c] = "reading" => Head(queue).record = Query
  BY <1>0, <1>2, <1>3 DEF QueueInv
<1>5. CASE at' = at
  <2>1. \A d \in Call : Owner(d)' => Owner(d)
    BY <1>1, <1>5 DEF Owner
  <2> QED
    BY <1>1, <2>1, NoNewOwner
<1>6. CASE at' # at
  <2>1. CASE ServeAppend
    <3>1. at[c] \in Waiting /\ at' = [at EXCEPT ![c] = Resumes(c)]
      BY <1>3, <1>6, <2>1 DEF ServeAppend, Move
    <3>2. at[c] \in Held
      BY <1>4, <2>1, <3>1 DEF ServeAppend, Waiting, Held
    <3>3. \A d \in Call : Owner(d)' => Owner(d)
      BY <1>1, <3>1, <3>2, MoveMakesNoOwner
    <3> QED
      BY <1>1, <3>3, NoNewOwner
  <2>2. CASE ServeQuery \/ Refuse
    <3>1. PICK to \in {"seeding", "failed"} : at' = [at EXCEPT ![c] = to]
      BY <1>3, <1>6, <2>2 DEF ServeQuery, Refuse, Move
    <3>2. \A d \in Call : Owner(d)' => Owner(d)
      BY <1>1, <3>1, MoveMakesNoOwner DEF Held
    <3> QED
      BY <1>1, <3>2, NoNewOwner
  <2> QED
    BY <2>1, <2>2 DEF Serve
<1> QED
  BY <1>5, <1>6

(* Every step keeps the owner single; the death of the process takes the    *)
(* owner with the branch it owned.                                          *)
LEMMA OwnerStep == LaneType /\ OwnerInv /\ [Next]_vars => OwnerInv'
<1> SUFFICES ASSUME LaneType, OwnerInv, [Next]_vars
             PROVE  OwnerInv'
  OBVIOUS
<1>0. at \in [Call -> Stage]
  BY DEF LaneType, TypeOK
<1>1. ASSUME NEW c \in Call, Hydrate(c) \/ Drop(c)
      PROVE  OwnerInv'
  <2>1. branch' = branch /\ op' = op
    BY <1>1 DEF Hydrate, Drop, callVars
  <2>2. PICK to \in {"claiming", "reading", "dropped"} : at' = [at EXCEPT ![c] = to]
    BY <1>1 DEF Hydrate, Drop, Move
  <2>3. \A d \in Call : Owner(d)' => Owner(d)
    BY <1>1, <2>1, <2>2, MoveMakesNoOwner DEF Held
  <2> QED
    BY <2>1, <2>3, NoNewOwner
<1>2. CASE Crash
  <2>1. \A c \in Call : at'[c] \in Ended \union {"idle"}
    BY <1>0, <1>2 DEF Crash, Ended
  <2>2. \A c \in Call : ~Owner(c)'
    BY <2>1 DEF Owner, Ended
  <2> QED
    BY <2>2 DEF OwnerInv, OneInverse
<1>3. CASE UNCHANGED vars
  <2>1. branch' = branch /\ \A c \in Call : Owner(c)' => Owner(c)
    BY <1>3 DEF vars, callVars, Owner
  <2> QED
    BY <2>1, NoNewOwner
<1> QED
  BY <1>1, <1>2, <1>3, CallOwnerStep, WriterOwnerStep DEF Next

(* At most one revert runs the inverse at a time, whatever the calls, keys, *)
(* hydrations, refusals, dropped calls and reopened streams.                *)
THEOREM OneOwner == Spec => []OneInverse
<1>1. OwnerInv => OneInverse
  BY DEF OwnerInv
<1> QED
  BY <1>1, TypeInit, TypeStep, OwnerInit, OwnerStep, PTL DEF Spec

-----------------------------------------------------------------------------
(* What an append does to the fold. *)

(* The fold is nothing exactly for a stream without an intent; a resumable  *)
(* one has no verdict and is pending.                                       *)
LEMMA FoldFacts ==
    ASSUME log \in Seq(Event)
    PROVE  /\ BranchFrom = None <=> Intents = {}
           /\ BranchFrom # None => BranchFrom.resumable = (Verdicts = {})
           /\ BranchFrom # None /\ Verdicts = {} => BranchFrom.state = "PendingRevert"
<1>1. CASE Intents = {}
  BY <1>1 DEF BranchFrom
<1>2. CASE Intents # {}
  <2>1. BranchFrom \in Branch \union {None}
    BY FoldIsABranch
  <2>2. BranchFrom = [key       |-> log[First].key,
                      state     |-> IF Verdicts = {} THEN "PendingRevert" ELSE Verdict(log[Last]),
                      live      |-> FALSE,
                      resumable |-> Verdicts = {}]
    BY <1>2 DEF BranchFrom
  <2>3. BranchFrom \in Branch
    <3>1. Len(log) \in Nat /\ DOMAIN log = 1..Len(log)
      OBVIOUS
    <3>2. Intents \in SUBSET Nat /\ Intents \subseteq DOMAIN log
      BY <3>1 DEF Intents, Positions
    <3>3. First \in Intents
      BY <1>2, <3>2, LeastExists DEF First
    <3>4. log[First].key \in Key
      <4>1. log[First] \in Event /\ log[First].kind = "intent"
        BY <3>2, <3>3 DEF Intents, Positions
      <4> QED
        BY <4>1 DEF Event, Failure
    <3>5. Verdicts # {} => Verdict(log[Last]) \in Resolution
      <4> SUFFICES ASSUME Verdicts # {} PROVE Verdict(log[Last]) \in Resolution
        OBVIOUS
      <4>1. Verdicts \in SUBSET (1..Len(log))
        BY <3>1 DEF Verdicts, Positions
      <4>2. Last \in Verdicts
        BY <3>1, <4>1, GreatestExists DEF Last
      <4>3. log[Last] \in Event /\ log[Last].kind \in {"completed", "resolved"}
        BY <4>2 DEF Verdicts, Positions
      <4> QED
        BY <4>3 DEF Verdict, Event, Failure, Resolution
    <3> QED
      BY <2>2, <3>4, <3>5 DEF Branch, Resolution
  <2>4. BranchFrom # None
    BY <2>3, LaneConstants
  <2>5. BranchFrom.resumable = (Verdicts = {})
    BY <2>2, Zenon
  <2>6. Verdicts = {} => BranchFrom.state = "PendingRevert"
    BY <2>2, Zenon
  <2> QED
    BY <1>2, <2>4, <2>5, <2>6
<1> QED
  BY <1>1, <1>2

(* A step that leaves the stream alone leaves the fold alone.               *)
LEMMA FoldStands ==
    ASSUME log' = log
    PROVE  BranchFrom' = BranchFrom /\ Intents' = Intents /\ Verdicts' = Verdicts
BY DEF BranchFrom, Intents, Verdicts, Positions, First, Last, Verdict

(* An append adds its position to the intents or to the verdicts, by kind.  *)
LEMMA AppendPositions ==
    ASSUME log \in Seq(Event), NEW e \in Event, log' = Append(log, e)
    PROVE  /\ DOMAIN log' = DOMAIN log \union {Len(log) + 1}
           /\ log'[Len(log) + 1] = e
           /\ \A i \in DOMAIN log : log'[i] = log[i] /\ i \in Nat /\ i <= Len(log)
           /\ Len(log) \in Nat
           /\ Intents' = IF e.kind = "intent" THEN Intents \union {Len(log) + 1} ELSE Intents
           /\ Verdicts' = IF e.kind \in {"completed", "resolved"}
                          THEN Verdicts \union {Len(log) + 1} ELSE Verdicts
<1>1. Len(log) \in Nat /\ DOMAIN log = 1..Len(log)
  OBVIOUS
<1>2. /\ DOMAIN log' = DOMAIN log \union {Len(log) + 1}
      /\ log'[Len(log) + 1] = e
      /\ \A i \in DOMAIN log : log'[i] = log[i] /\ i \in Nat /\ i <= Len(log)
  BY <1>1
<1>3. Len(log) + 1 \notin DOMAIN log
  BY <1>1
<1>4. Intents' = IF e.kind = "intent" THEN Intents \union {Len(log) + 1} ELSE Intents
  BY <1>2, <1>3, Zenon DEF Intents, Positions
<1>5. Verdicts' = IF e.kind \in {"completed", "resolved"}
                  THEN Verdicts \union {Len(log) + 1} ELSE Verdicts
  BY <1>2, <1>3, Zenon DEF Verdicts, Positions
<1> QED
  BY <1>1, <1>2, <1>4, <1>5

(* The first intent of a stream makes a pending branch under its key.       *)
LEMMA FoldOfFirstIntent ==
    ASSUME log \in Seq(Event), NEW e \in Event, log' = Append(log, e),
           e.kind = "intent", Intents = {}, Verdicts = {}
    PROVE  BranchFrom' = [key |-> e.key, state |-> "PendingRevert", live |-> FALSE,
                          resumable |-> TRUE]
<1>1. Intents' = {Len(log) + 1} /\ Verdicts' = {} /\ log'[Len(log) + 1] = e /\ Len(log) \in Nat
  BY AppendPositions
<1>2. First' = Len(log) + 1
  BY <1>1 DEF First
<1> QED
  BY <1>1, <1>2 DEF BranchFrom

(* A verdict closes the branch that the intents opened, and only its state   *)
(* moves.                                                                   *)
LEMMA FoldOfVerdict ==
    ASSUME log \in Seq(Event), NEW e \in Event, log' = Append(log, e),
           e.kind \in {"completed", "resolved"}, Intents # {}
    PROVE  BranchFrom' = [key |-> BranchFrom.key, state |-> Verdict(e), live |-> FALSE,
                          resumable |-> FALSE]
<1>1. /\ Intents' = Intents /\ Verdicts' = Verdicts \union {Len(log) + 1}
      /\ log'[Len(log) + 1] = e /\ Len(log) \in Nat
      /\ \A i \in DOMAIN log : log'[i] = log[i] /\ i \in Nat /\ i <= Len(log)
  BY AppendPositions
<1>2. First' = First
  BY <1>1 DEF First
<1>3. First \in Intents
  <2>1. Intents \in SUBSET Nat
    BY <1>1 DEF Intents, Positions
  <2> QED
    BY <2>1, LeastExists DEF First
<1>4. log'[First'] = log[First]
  BY <1>1, <1>2, <1>3 DEF Intents, Positions
<1>5. Last' = Len(log) + 1
  <2>1. \A j \in Verdicts : j \in Nat /\ j <= Len(log)
    BY <1>1 DEF Verdicts, Positions
  <2>2. \A i \in Verdicts' : (\A j \in Verdicts' : j <= i) => i = Len(log) + 1
    BY <1>1, <2>1
  <2>3. \A j \in Verdicts' : j <= Len(log) + 1
    BY <1>1, <2>1
  <2> QED
    BY <1>1, <2>2, <2>3 DEF Last
<1>6. BranchFrom.key = log[First].key
  BY DEF BranchFrom
<1>7. Verdict(log'[Last']) = Verdict(e)
  BY <1>1, <1>5
<1>8. Intents' # {} /\ Verdicts' # {}
  BY <1>1
<1>9. BranchFrom' = [key       |-> log'[First'].key,
                     state     |-> IF Verdicts' = {} THEN "PendingRevert" ELSE Verdict(log'[Last']),
                     live      |-> FALSE,
                     resumable |-> Verdicts' = {}]
  BY <1>8 DEF BranchFrom, Verdict
<1> QED
  BY <1>4, <1>6, <1>7, <1>8, <1>9

(* An error row says nothing of the branch.                                 *)
LEMMA FoldOfError ==
    ASSUME log \in Seq(Event), NEW e \in Event, log' = Append(log, e),
           e.kind = "error"
    PROVE  BranchFrom' = BranchFrom /\ Intents' = Intents /\ Verdicts' = Verdicts
<1>1. /\ Intents' = Intents /\ Verdicts' = Verdicts /\ Len(log) \in Nat
      /\ \A i \in DOMAIN log : log'[i] = log[i] /\ i \in Nat /\ i <= Len(log)
      /\ DOMAIN log = 1..Len(log)
  BY AppendPositions
<1>2. First' = First /\ Last' = Last
  BY <1>1 DEF First, Last
<1>3. CASE Intents = {}
  BY <1>1, <1>3 DEF BranchFrom
<1>4. CASE Intents # {}
  <2>1. Intents \in SUBSET Nat /\ Verdicts \in SUBSET (1..Len(log))
    BY <1>1 DEF Intents, Verdicts, Positions
  <2>2. log'[First'] = log[First]
    <3>1. First \in Intents
      BY <1>4, <2>1, LeastExists DEF First
    <3> QED
      BY <1>1, <1>2, <3>1 DEF Intents, Positions
  <2>3. Verdicts # {} => log'[Last'] = log[Last]
    <3>1. Verdicts # {} => Last \in Verdicts
      BY <1>1, <2>1, GreatestExists DEF Last
    <3> QED
      BY <1>1, <1>2, <3>1 DEF Verdicts, Positions
  <2> QED
    BY <1>1, <1>4, <2>2, <2>3 DEF BranchFrom, Verdict
<1> QED
  BY <1>1, <1>3, <1>4

-----------------------------------------------------------------------------
(* One place in the queue for each call. *)

\* What is in the queue was sent by a call that still waits for it or was dropped,
\* and each call has at most one operation there.
LineInv ==
    \A i \in DOMAIN queue :
        /\ at[queue[i].caller] \in Waiting \union {"dropped"}
        /\ \A j \in DOMAIN queue : queue[j].caller = queue[i].caller => j = i

(* A call that waits for nothing may move, and may send one operation if it   *)
(* waits for that; a call may be dropped wherever it is.                      *)
LEMMA MoveKeepsLine ==
    ASSUME LaneType, LineInv, NEW c \in Call, NEW to,
           at' = [at EXCEPT ![c] = to],
           \/ /\ queue' = queue
              /\ to = "dropped" \/ at[c] \notin Waiting \union {"dropped"}
           \/ /\ \E r \in Event \union {Query} : queue' = Append(queue, [caller |-> c, record |-> r])
              /\ at[c] \notin Waiting \union {"dropped"} /\ to \in Waiting
    PROVE  LineInv'
<1>1. queue \in Seq(Operations) /\ at \in [Call -> Stage]
  BY TypeParts DEF LaneType
<1>2. \A i \in DOMAIN queue : queue[i] \in Operations
  BY <1>1
<1>3. \A i \in DOMAIN queue : queue[i].caller \in Call
  BY <1>2 DEF Operations
<1>4. \A d \in Call : at'[d] = IF d = c THEN to ELSE at[d]
  BY <1>1
<1>5. CASE queue' = queue
  BY <1>3, <1>4, <1>5 DEF LineInv, Waiting
<1>6. ASSUME NEW r \in Event \union {Query},
             queue' = Append(queue, [caller |-> c, record |-> r]),
             at[c] \notin Waiting \union {"dropped"}, to \in Waiting
      PROVE  LineInv'
  <2>1. [caller |-> c, record |-> r] \in Operations
    BY DEF Operations
  <2>2. /\ Len(queue) + 1 \notin DOMAIN queue
        /\ DOMAIN queue' = DOMAIN queue \union {Len(queue) + 1}
        /\ queue'[Len(queue) + 1] = [caller |-> c, record |-> r]
        /\ \A i \in DOMAIN queue : queue'[i] = queue[i]
    BY <1>1, <1>6, <2>1
  <2>3. \A i \in DOMAIN queue : queue[i].caller # c
    BY <1>6 DEF LineInv
  <2>4. queue'[Len(queue) + 1].caller = c
    BY <2>2
  <2>5. ASSUME NEW i \in DOMAIN queue'
        PROVE  /\ at'[queue'[i].caller] \in Waiting \union {"dropped"}
               /\ \A j \in DOMAIN queue' : queue'[j].caller = queue'[i].caller => j = i
    <3>1. CASE i = Len(queue) + 1
      BY <1>4, <1>6, <2>2, <2>3, <2>4, <3>1
    <3>2. CASE i \in DOMAIN queue
      <4>1. at'[queue'[i].caller] = at[queue[i].caller]
        BY <1>3, <1>4, <2>2, <2>3, <3>2
      <4>2. ASSUME NEW j \in DOMAIN queue', queue'[j].caller = queue'[i].caller
            PROVE  j = i
        BY <2>2, <2>3, <2>4, <3>2, <4>2 DEF LineInv
      <4> QED
        BY <3>2, <4>1, <4>2 DEF LineInv
    <3> QED
      BY <2>2, <3>1, <3>2
  <2> QED
    BY <2>5 DEF LineInv, Waiting
<1> QED
  BY <1>5, <1>6

(* The writer takes the head, and with it its caller's only operation.        *)
LEMMA ServeKeepsLine ==
    ASSUME LaneType, LineInv, queue # <<>>, queue' = Tail(queue),
           NEW to,
           \/ at' = at
           \/ at' = [at EXCEPT ![Head(queue).caller] = to]
    PROVE  LineInv'
<1>1. queue \in Seq(Operations) /\ at \in [Call -> Stage]
  BY TypeParts DEF LaneType
<1>2. \A i \in DOMAIN queue : queue[i] \in Operations
  BY <1>1
<1>3. \A i \in DOMAIN queue : queue[i].caller \in Call
  BY <1>2 DEF Operations
<1>4. /\ \A i \in DOMAIN queue' : i \in Nat \ {0} /\ i + 1 \in DOMAIN queue /\ queue'[i] = queue[i + 1]
      /\ 1 \in DOMAIN queue /\ Head(queue) = queue[1]
  BY <1>1
<1>5. ASSUME NEW i \in DOMAIN queue'
      PROVE  /\ at'[queue'[i].caller] \in Waiting \union {"dropped"}
             /\ \A j \in DOMAIN queue' : queue'[j].caller = queue'[i].caller => j = i
  <2>1. i + 1 \in DOMAIN queue /\ queue'[i] = queue[i + 1] /\ i \in Nat /\ i + 1 # 1
    BY <1>4
  <2>2. queue[i + 1].caller # Head(queue).caller
    BY <1>4, <2>1 DEF LineInv
  <2>3. at'[queue[i + 1].caller] = at[queue[i + 1].caller]
    BY <1>1, <1>3, <2>1, <2>2
  <2>4. ASSUME NEW j \in DOMAIN queue', queue'[j].caller = queue'[i].caller
        PROVE  j = i
    <3>1. j \in Nat /\ j + 1 = i + 1
      BY <1>4, <2>1, <2>4 DEF LineInv
    <3> QED
      BY <2>1, <3>1
  <2> QED
    BY <2>1, <2>3, <2>4 DEF LineInv
<1> QED
  BY <1>5 DEF LineInv, Waiting

(* Every step keeps one place for each call.                                  *)
LEMMA LineStep == LaneType /\ LineInv /\ [Next]_vars => LineInv'
<1> SUFFICES ASSUME LaneType, LineInv, [Next]_vars
             PROVE  LineInv'
  OBVIOUS
<1>0. /\ at \in [Call -> Stage] /\ queue \in Seq(Operations) /\ key \in [Call -> Key]
      /\ outcome \in [Call -> Resolution]
  BY TypeParts DEF LaneType, DataType
<1>1. ASSUME NEW c \in Call, Hydrate(c) \/ Step(c) \/ Drop(c)
      PROVE  LineInv'
  <2>1. Intent(c) \in Event /\ Resolved(outcome[c]) \in Event /\ Failure \in Event
        /\ \A clean \in BOOLEAN : Completed(clean) \in Event
    BY <1>0 DEF Intent, Resolved, Failure, Completed, Event
  <2>2. PICK to :
          /\ at' = [at EXCEPT ![c] = to]
          /\ \/ /\ queue' = queue
                /\ to = "dropped" \/ at[c] \notin Waiting \union {"dropped"}
             \/ /\ \E r \in Event \union {Query} : queue' = Append(queue, [caller |-> c, record |-> r])
                /\ at[c] \notin Waiting \union {"dropped"} /\ to \in Waiting
    <3>1. CASE Hydrate(c)
      BY <3>1 DEF Hydrate, Move, Send, Waiting
    <3>2. CASE \/ Seed(c) \/ ClaimFresh(c) \/ ClaimResumed(c) \/ ClaimRecorded(c) \/ Refused(c)
               \/ PendingWitness(c) \/ Resolve(c)
      BY <3>2 DEF Seed, ClaimFresh, ClaimResumed, ClaimRecorded, Answer, Refused, PendingWitness,
                  Resolve, Move, Waiting
    <3>3. CASE SendIntent(c) \/ Run(c) \/ SendResolved(c)
      BY <2>1, <3>3 DEF SendIntent, Run, RunFails, RunSucceeds, SendResolved, Move, Send, Waiting
    <3>4. CASE Drop(c)
      BY <3>4 DEF Drop, Move
    <3> QED
      BY <1>1, <3>1, <3>2, <3>3, <3>4 DEF Step
  <2> QED
    BY <1>1, <2>2, MoveKeepsLine
<1>2. CASE Serve
  <2>1. queue # <<>> /\ queue' = Tail(queue)
    BY <1>2 DEF Serve, ServeAppend, ServeQuery, Refuse
  <2>2. \E to : at' = at \/ at' = [at EXCEPT ![Head(queue).caller] = to]
    BY <1>2 DEF Serve, ServeAppend, ServeQuery, Refuse, Move
  <2> QED
    BY <2>1, <2>2, ServeKeepsLine
<1>3. CASE Crash
  BY <1>3 DEF Crash, LineInv
<1>4. CASE UNCHANGED vars
  BY <1>4 DEF vars, LineInv, Waiting
<1> QED
  BY <1>1, <1>2, <1>3, <1>4 DEF Next

-----------------------------------------------------------------------------
(* The story of an effect that is only reverted. *)

\* The positions of the events in the writer's queue.
Sent == {i \in DOMAIN queue : queue[i].record # Query}

\* The stream opens with an intent, and says Reverted only of an effect that was.
StreamInv ==
    /\ Verdicts # {} => Intents # {}
    /\ BranchFrom # None =>
         /\ BranchFrom.state \in {"PendingRevert", "Reverted"}
         /\ BranchFrom.state = "Reverted" => earned

\* The table follows the stream: it has the stream's key, is Reverted or resumable
\* only if the stream is, and while it is empty a hydrated call has read the
\* stream as it still stands, and claims only if there was nothing in it.
TableInv ==
    /\ branch # None =>
         /\ branch.state \in {"PendingRevert", "Reverted"}
         /\ BranchFrom # None => branch.key = BranchFrom.key
         /\ branch.state = "Reverted" => BranchFrom # None /\ BranchFrom.state = "Reverted"
         /\ branch.resumable => BranchFrom # None /\ BranchFrom.resumable
    /\ branch = None =>
         \A c \in Call : /\ at[c] = "seeding" => found[c] = BranchFrom
                         /\ at[c] = "claiming" => BranchFrom = None

\* What a stage of a call says of the stream.
Stands(c) ==
    /\ at[c] = "claimed" => BranchFrom = None /\ branch.key = key[c]
    /\ at[c] = "intent" => branch.key = key[c]
    /\ at[c] = "running" =>
         BranchFrom # None /\ BranchFrom.key = key[c] /\ BranchFrom.resumable
    /\ at[c] = "erring" => outcome[c] = "PendingRevert"
    /\ at[c] \in {"resolving", "announcing", "resolved"} =>
         BranchFrom # None /\ outcome[c] = BranchFrom.state
    /\ at[c] = "returned" /\ outcome[c] = "Reverted" =>
         BranchFrom # None /\ BranchFrom.state = "Reverted"

CallInv == \A c \in Call : Stands(c)

\* What a record in the queue says of its caller and of the stream it will join.
Carries(c, r) ==
    \/ /\ r.kind = "intent" /\ at[c] \in {"intent", "dropped"}
       /\ BranchFrom = None /\ r.key = branch.key
    \/ /\ r.kind = "completed" /\ at[c] \in {"completing", "dropped"}
       /\ BranchFrom # None /\ BranchFrom.resumable
       /\ r.clean => earned
       /\ at[c] = "completing" => outcome[c] = Verdict(r)
    \/ /\ r.kind = "error" /\ at[c] \in {"erring", "dropped"}
       /\ BranchFrom # None /\ BranchFrom.resumable
    \/ /\ r.kind = "resolved" /\ at[c] \in {"resolved", "dropped"}
       /\ BranchFrom # None /\ r.state = BranchFrom.state

\* One event at most is on its way to the stream, that of the owner or of an owner
\* that was dropped; no other call owns the branch, and none can resume it.
SentInv ==
    \A i \in Sent :
        /\ branch # None /\ ~branch.resumable
        /\ \A j \in Sent : j = i
        /\ \A d \in Call : Owner(d) => d = queue[i].caller
        /\ Carries(queue[i].caller, queue[i].record)

StoryInv == StreamInv /\ TableInv /\ CallInv /\ SentInv

(* Every event in the queue is the event of a call that waits or was dropped. *)
LEMMA SentCallers ==
    ASSUME LaneType, SentInv, NEW i \in Sent
    PROVE  /\ queue[i].caller \in Call /\ queue[i].record \in Event
           /\ at[queue[i].caller] \in {"intent", "completing", "erring", "resolved", "dropped"}
<1>1. queue \in Seq(Operations) /\ i \in DOMAIN queue /\ queue[i].record # Query
  BY TypeParts DEF LaneType, Sent
<1>2. queue[i] \in Operations
  BY <1>1
<1>3. queue[i].caller \in Call /\ queue[i].record \in Event
  BY <1>1, <1>2 DEF Operations
<1>4. Carries(queue[i].caller, queue[i].record)
  BY DEF SentInv
<1> QED
  BY <1>3, <1>4 DEF Carries

(* While an owner does not wait for a receipt, no event is in the queue.     *)
LEMMA NothingSent ==
    ASSUME LaneType, SentInv, NEW c \in Call, Owner(c),
           at[c] \notin {"intent", "completing", "erring", "resolved"}
    PROVE  Sent = {}
<1> SUFFICES ASSUME NEW i \in Sent PROVE FALSE
  OBVIOUS
<1>1. queue[i].caller = c
  BY DEF SentInv
<1>2. at[c] = "dropped"
  BY <1>1, SentCallers
<1> QED
  BY <1>2 DEF Owner

(* An empty table, or a branch open to resumption, has no event in the queue. *)
LEMMA NothingSentForOpen ==
    ASSUME SentInv, branch = None \/ branch.resumable
    PROVE  Sent = {}
BY DEF SentInv

(* A step whose queue holds no event that was not in it, which makes no new  *)
(* owner, keeps the branch's key and moves no caller of an event unless it   *)
(* drops it, keeps what is known of the events on their way.                 *)
LEMMA SentKept ==
    ASSUME LaneType, SentInv, NEW c \in Call, NEW to,
           at' = [at EXCEPT ![c] = to],
           BranchFrom' = BranchFrom,
           earned => earned',
           branch # None /\ ~branch.resumable =>
               branch' # None /\ ~branch'.resumable /\ branch'.key = branch.key,
           \A d \in Call : Owner(d)' => Owner(d),
           \A d \in Call : d # c => outcome'[d] = outcome[d],
           to = "dropped" \/ at[c] \notin {"intent", "completing", "erring", "resolved", "dropped"},
           \A i \in Sent' : \E j \in Sent : queue'[i] = queue[j],
           \A i, j \in Sent' : i = j
    PROVE  SentInv'
<1> SUFFICES ASSUME NEW i \in Sent'
             PROVE  /\ branch' # None /\ ~branch'.resumable
                    /\ \A j \in Sent' : j = i
                    /\ \A d \in Call : Owner(d)' => d = queue'[i].caller
                    /\ Carries(queue[i].caller, queue[i].record)'
  BY DEF SentInv
<1>1. PICK j \in Sent : queue'[i] = queue[j]
  OBVIOUS
<1>2. /\ branch # None /\ ~branch.resumable
      /\ \A d \in Call : Owner(d) => d = queue[j].caller
      /\ Carries(queue[j].caller, queue[j].record)
  BY DEF SentInv
<1>3. /\ queue[j].caller \in Call
      /\ at[queue[j].caller] \in {"intent", "completing", "erring", "resolved", "dropped"}
  BY SentCallers
<1>4. at \in [Call -> Stage]
  BY TypeParts DEF LaneType
<1>5. \/ at'[queue[j].caller] = at[queue[j].caller] /\ outcome'[queue[j].caller] = outcome[queue[j].caller]
      \/ at'[queue[j].caller] = "dropped"
  <2>1. CASE queue[j].caller = c
    BY <1>3, <1>4, <2>1
  <2>2. CASE queue[j].caller # c
    BY <1>3, <1>4, <2>2
  <2> QED
    BY <2>1, <2>2
<1>6. Carries(queue[i].caller, queue[i].record)'
  BY <1>1, <1>2, <1>3, <1>5 DEF Carries, Verdict
<1> QED
  BY <1>1, <1>2, <1>6

(* A step that leaves the queue alone leaves its events alone.               *)
LEMMA SentSame ==
    ASSUME queue' = queue
    PROVE  Sent' = Sent
BY DEF Sent, Query

(* An append adds the event it sends, if it sends one, and moves no other.   *)
LEMMA SentAppended ==
    ASSUME LaneType, NEW c \in Call, NEW r \in Event \union {Query},
           queue' = Append(queue, [caller |-> c, record |-> r])
    PROVE  /\ Len(queue) \in Nat /\ Len(queue) + 1 \notin Sent
           /\ Sent' = IF r = Query THEN Sent ELSE Sent \union {Len(queue) + 1}
           /\ queue'[Len(queue) + 1] = [caller |-> c, record |-> r]
           /\ \A i \in Sent : queue'[i] = queue[i]
<1>1. queue \in Seq(Operations) /\ [caller |-> c, record |-> r] \in Operations
  BY TypeParts DEF LaneType, Operations
<1>2. /\ Len(queue) \in Nat /\ DOMAIN queue = 1..Len(queue)
      /\ DOMAIN queue' = DOMAIN queue \union {Len(queue) + 1}
      /\ queue'[Len(queue) + 1] = [caller |-> c, record |-> r]
      /\ \A i \in DOMAIN queue : queue'[i] = queue[i]
      /\ Len(queue) + 1 \notin DOMAIN queue
  BY <1>1
<1>3. Query' = Query
  BY DEF Query
<1>4. queue'[Len(queue) + 1].record = r
  BY <1>2
<1>5. Sent' = IF r = Query THEN Sent ELSE Sent \union {Len(queue) + 1}
  BY <1>2, <1>3, <1>4, Zenon DEF Sent
<1> QED
  BY <1>2, <1>5 DEF Sent

(* The writer takes the head: what is left was sent behind it, and nothing   *)
(* is left when the head was the one event on its way.                       *)
LEMMA SentServed ==
    ASSUME LaneType, SentInv, queue # <<>>, queue' = Tail(queue)
    PROVE  /\ \A i \in Sent' : i + 1 \in Sent /\ queue'[i] = queue[i + 1]
           /\ \A i, j \in Sent' : i = j
           /\ Head(queue).record # Query =>
                1 \in Sent /\ Sent' = {} /\ Head(queue) = queue[1]
<1>1. queue \in Seq(Operations)
  BY TypeParts DEF LaneType
<1>2. /\ \A i \in DOMAIN queue' : i \in Nat \ {0} /\ i + 1 \in DOMAIN queue /\ queue'[i] = queue[i + 1]
      /\ 1 \in DOMAIN queue /\ Head(queue) = queue[1]
  BY <1>1
<1>3. Query' = Query
  BY DEF Query
<1>4. \A i \in Sent' : i \in Nat \ {0} /\ i + 1 \in Sent /\ queue'[i] = queue[i + 1]
  BY <1>2, <1>3 DEF Sent
<1>5. \A i, j \in Sent : i = j
  BY DEF SentInv
<1>6. \A i, j \in Sent' : i = j
  <2> SUFFICES ASSUME NEW i \in Sent', NEW j \in Sent' PROVE i = j
    OBVIOUS
  <2>1. i + 1 = j + 1 /\ i \in Nat /\ j \in Nat
    BY <1>4, <1>5
  <2> QED
    BY <2>1
<1>7. ASSUME Head(queue).record # Query
      PROVE  1 \in Sent /\ Sent' = {}
  <2>1. 1 \in Sent
    BY <1>2, <1>7 DEF Sent
  <2>2. \A i \in Sent' : FALSE
    <3> SUFFICES ASSUME NEW i \in Sent' PROVE FALSE
      OBVIOUS
    <3>1. i \in Nat \ {0} /\ i + 1 = 1
      BY <1>4, <1>5, <2>1
    <3> QED
      BY <3>1
  <2> QED
    BY <2>1, <2>2
<1> QED
  BY <1>2, <1>4, <1>6, <1>7

(* A step of one call over a stream that stays says nothing new of the other *)
(* calls while the branch keeps its key.                                     *)
LEMMA OthersStand ==
    ASSUME LaneType, CallInv, NEW c \in Call, NEW to,
           at' = [at EXCEPT ![c] = to], key' = key,
           BranchFrom' = BranchFrom,
           branch # None => branch' # None /\ branch'.key = branch.key,
           \A d \in Call : d # c => outcome'[d] = outcome[d],
           Stands(c)'
    PROVE  CallInv'
<1> SUFFICES ASSUME NEW d \in Call, d # c PROVE Stands(d)'
  BY DEF CallInv
<1>1. at'[d] = at[d] /\ outcome'[d] = outcome[d] /\ key'[d] = key[d]
  BY TypeParts DEF LaneType
<1>2. at[d] \in {"claimed", "intent"} => branch # None
  BY DEF LaneType, HeldInv, Held
<1> QED
  BY <1>1, <1>2 DEF CallInv, Stands

(* The steps of a call that only reverts keep the story.                    *)
LEMMA CallStoryStep ==
    ASSUME LaneType, OwnerInv, RevertsOnly, StoryInv, NEW c \in Call, Step(c)
    PROVE  StoryInv'
<1>0. /\ DataType /\ at \in [Call -> Stage] /\ queue \in Seq(Operations)
      /\ op[c] = "revert" /\ key[c] \in Key /\ outcome[c] \in Resolution
      /\ outcome \in [Call -> Resolution]
  BY TypeParts DEF LaneType, RevertsOnly, DataType
<1>1. StreamInv /\ TableInv /\ CallInv /\ SentInv /\ Stands(c)
  BY DEF StoryInv, CallInv
<1>2. log' = log /\ op' = op /\ key' = key /\ (earned => earned')
  <2>1. log' = log /\ op' = op /\ key' = key
    BY DEF Step, Seed, ClaimFresh, ClaimResumed, ClaimRecorded, Refused, PendingWitness,
           SendIntent, Run, RunFails, RunSucceeds, Resolve, SendResolved, callVars
  <2>2. earned' = earned \/ \E clean \in BOOLEAN : RunSucceeds(c, clean)
    BY DEF Step, Seed, ClaimFresh, ClaimResumed, ClaimRecorded, Refused, PendingWitness,
           SendIntent, Run, RunFails, Resolve, SendResolved, runVars
  <2>3. ASSUME NEW clean \in BOOLEAN, RunSucceeds(c, clean) PROVE earned => earned'
    BY <2>3, Zenon DEF RunSucceeds
  <2> QED
    BY <2>1, <2>2, <2>3
<1>3. BranchFrom' = BranchFrom /\ Intents' = Intents /\ Verdicts' = Verdicts
  BY <1>2, FoldStands
<1>4. StreamInv'
  BY <1>1, <1>2, <1>3 DEF StreamInv
<1>5. branch \in Branch \union {None} /\ BranchFrom \in Branch \union {None}
  BY <1>0, FoldIsABranch DEF DataType
<1>6. CASE Seed(c)
  <2>1. /\ at[c] = "seeding" /\ at' = [at EXCEPT ![c] = "claiming"]
        /\ branch' = IF branch = None THEN found[c] ELSE branch
        /\ queue' = queue /\ outcome' = outcome /\ found' = found
    BY <1>6 DEF Seed, Move, runVars
  <2>2. branch = None => branch' = BranchFrom
    BY <1>1, <2>1 DEF TableInv
  <2>3. TableInv'
    <3>1. CASE branch # None
      BY <1>0, <1>1, <1>3, <2>1, <3>1 DEF TableInv
    <3>2. CASE branch = None
      <4>1. branch' = BranchFrom
        BY <2>2, <3>2
      <4>2. \A d \in Call : at'[d] = "seeding" => at[d] = "seeding"
        BY <1>0, <2>1
      <4>3. branch' = None =>
              \A d \in Call : /\ at'[d] = "seeding" => found'[d] = BranchFrom'
                              /\ at'[d] = "claiming" => BranchFrom' = None
        BY <1>1, <1>3, <2>1, <3>2, <4>1, <4>2 DEF TableInv
      <4> QED
        BY <1>1, <1>3, <4>1, <4>3 DEF TableInv, StreamInv
    <3> QED
      BY <3>1, <3>2
  <2>4. CallInv'
    <3>1. at'[c] = "claiming"
      BY <1>0, <2>1
    <3>2. Stands(c)'
      BY <3>1 DEF Stands
    <3> QED
      BY <1>1, <1>2, <1>3, <2>1, <3>2, OthersStand
  <2>5. SentInv'
    <3>1. \A d \in Call : Owner(d)' => Owner(d)
      BY <1>2, <2>1, MoveMakesNoOwner DEF Held
    <3>2. Sent' = Sent
      BY <2>1, SentSame
    <3>3. \A i, j \in Sent' : i = j
      BY <1>1, <3>2 DEF SentInv
    <3> QED
      BY <1>1, <1>2, <1>3, <2>1, <3>1, <3>2, <3>3, SentKept
  <2> QED
    BY <1>4, <2>3, <2>4, <2>5 DEF StoryInv
<1>7. CASE ClaimFresh(c)
  <2>1. /\ at[c] = "claiming" /\ at' = [at EXCEPT ![c] = "claimed"] /\ branch = None
        /\ branch' = [key |-> key[c], state |-> "PendingRevert", live |-> TRUE,
                      resumable |-> FALSE]
        /\ queue' = queue /\ outcome' = outcome /\ found' = found
    BY <1>7 DEF ClaimFresh, Move, runVars
  <2>2. /\ branch' \in Branch /\ branch'.key = key[c]
        /\ branch'.state = "PendingRevert" /\ ~branch'.resumable
    BY <1>0, <2>1 DEF Branch, Resolution
  <2>3. branch' # None
    BY <2>2, LaneConstants
  <2>4. Sent' = {}
    BY <1>1, <2>1, NothingSentForOpen, SentSame
  <2>5. BranchFrom = None
    BY <1>1, <2>1 DEF TableInv
  <2>6. TableInv'
    BY <1>3, <2>2, <2>3, <2>5 DEF TableInv
  <2>7. CallInv'
    <3>1. at'[c] = "claimed"
      BY <1>0, <2>1
    <3>2. Stands(c)'
      BY <1>2, <1>3, <2>2, <2>5, <3>1 DEF Stands
    <3> QED
      BY <1>1, <1>2, <1>3, <2>1, <3>2, OthersStand
  <2> QED
    BY <1>4, <2>4, <2>6, <2>7 DEF StoryInv, SentInv
<1>8. CASE ClaimResumed(c)
  <2>1. /\ at[c] = "claiming" /\ at' = [at EXCEPT ![c] = "running"] /\ branch # None
        /\ branch' = [branch EXCEPT !.resumable = FALSE, !.live = TRUE]
        /\ branch.key = key[c] /\ branch.resumable
        /\ queue' = queue /\ outcome' = outcome /\ found' = found
    BY <1>8 DEF ClaimResumed, Move, runVars
  <2>2. /\ branch' \in Branch /\ branch'.key = branch.key
        /\ branch'.state = branch.state /\ ~branch'.resumable
    BY <1>5, <2>1 DEF Branch
  <2>3. branch' # None
    BY <2>2, LaneConstants
  <2>4. Sent' = {}
    BY <1>1, <2>1, NothingSentForOpen, SentSame
  <2>5. BranchFrom # None /\ BranchFrom.resumable /\ BranchFrom.key = key[c]
    BY <1>1, <2>1 DEF TableInv
  <2>6. TableInv'
    BY <1>1, <1>3, <2>1, <2>2, <2>3, <2>5 DEF TableInv
  <2>7. CallInv'
    <3>1. at'[c] = "running"
      BY <1>0, <2>1
    <3>2. Stands(c)'
      BY <1>2, <1>3, <2>2, <2>5, <3>1 DEF Stands
    <3> QED
      BY <1>1, <1>2, <1>3, <2>1, <2>2, <2>3, <3>2, OthersStand
  <2> QED
    BY <1>4, <2>4, <2>6, <2>7 DEF StoryInv, SentInv
<1>9. CASE ClaimRecorded(c) \/ Refused(c)
  <2>1. PICK to \in {"returned", "refused"} :
          /\ at[c] = "claiming" /\ at' = [at EXCEPT ![c] = to]
          /\ queue' = queue /\ branch' = branch /\ found' = found
          /\ \A d \in Call : d # c => outcome'[d] = outcome[d]
          /\ to = "returned" => branch # None /\ outcome'[c] = branch.state
    BY <1>0, <1>9 DEF ClaimRecorded, Answer, Refused, Move, runVars
  <2>2. at'[c] = to /\ \A d \in Call : at'[d] \in {"seeding", "claiming"} => at'[d] = at[d]
    BY <1>0, <2>1
  <2>3. TableInv'
    BY <1>1, <1>3, <2>1, <2>2 DEF TableInv
  <2>4. Stands(c)'
    BY <1>1, <1>3, <2>1, <2>2 DEF Stands, TableInv
  <2>5. CallInv'
    BY <1>1, <1>2, <1>3, <2>1, <2>4, OthersStand
  <2>6. SentInv'
    <3>1. \A d \in Call : Owner(d)' => Owner(d)
      BY <1>2, <2>1, MoveMakesNoOwner DEF Held
    <3>2. Sent' = Sent
      BY <2>1, SentSame
    <3>3. \A i, j \in Sent' : i = j
      BY <1>1, <3>2 DEF SentInv
    <3> QED
      BY <1>1, <1>2, <1>3, <2>1, <3>1, <3>2, <3>3, SentKept
  <2> QED
    BY <1>4, <2>3, <2>5, <2>6 DEF StoryInv
<1>10. CASE SendIntent(c) \/ Run(c) \/ SendResolved(c)
  <2>1. PICK to \in {"intent", "completing", "erring", "resolved"}, r \in Event :
          /\ at[c] \in {"claimed", "running", "announcing"}
          /\ at' = [at EXCEPT ![c] = to]
          /\ queue' = Append(queue, [caller |-> c, record |-> r])
          /\ branch' = branch /\ found' = found
          /\ \A d \in Call : d # c => outcome'[d] = outcome[d]
          /\ \/ /\ at[c] = "claimed" /\ to = "intent" /\ r.kind = "intent" /\ r.key = key[c]
             \/ /\ at[c] = "running" /\ to = "completing" /\ r.kind = "completed"
                /\ outcome'[c] = Verdict(r) /\ (r.clean => earned')
             \/ /\ at[c] = "running" /\ to = "erring" /\ r.kind = "error"
                /\ outcome'[c] = "PendingRevert"
             \/ /\ at[c] = "announcing" /\ to = "resolved" /\ r.kind = "resolved"
                /\ r.state = outcome[c] /\ outcome'[c] = outcome[c]
    <3>1. CASE SendIntent(c)
      <4>1. Intent(c) \in Event /\ Intent(c).kind = "intent" /\ Intent(c).key = key[c]
        BY <1>0 DEF Intent, Event
      <4> QED
        BY <3>1, <4>1 DEF SendIntent, Send, Move, runVars
    <3>2. ASSUME NEW clean \in BOOLEAN, RunSucceeds(c, clean)
          PROVE  /\ at[c] = "running" /\ at' = [at EXCEPT ![c] = "completing"]
                 /\ queue' = Append(queue, [caller |-> c, record |-> Completed(clean)])
                 /\ branch' = branch /\ found' = found
                 /\ \A d \in Call : d # c => outcome'[d] = outcome[d]
                 /\ Completed(clean) \in Event /\ Completed(clean).kind = "completed"
                 /\ outcome'[c] = Verdict(Completed(clean)) /\ (Completed(clean).clean => earned')
      <4>1. /\ Completed(clean) \in Event /\ Completed(clean).kind = "completed"
            /\ Completed(clean).clean = clean
        BY DEF Completed, Event
      <4>2. clean => earned'
        BY <1>0, <3>2, Zenon DEF RunSucceeds
      <4>3. /\ at[c] = "running" /\ at' = [at EXCEPT ![c] = "completing"]
            /\ queue' = Append(queue, [caller |-> c, record |-> Completed(clean)])
            /\ branch' = branch /\ found' = found
            /\ outcome' = [outcome EXCEPT ![c] = Closing(c, clean)]
        BY <3>2 DEF RunSucceeds, Move, Send
      <4>4. Closing(c, clean) = Verdict(Completed(clean))
        BY <1>0, <4>1 DEF Closing, Verdict
      <4> QED
        BY <1>0, <4>1, <4>2, <4>3, <4>4
    <3>3. CASE RunFails(c)
      <4>1. Failure \in Event /\ Failure.kind = "error"
        BY DEF Failure, Event
      <4> QED
        BY <1>0, <3>3, <4>1 DEF RunFails, Send, Move
    <3>4. CASE SendResolved(c)
      <4>1. /\ Resolved(outcome[c]) \in Event /\ Resolved(outcome[c]).kind = "resolved"
            /\ Resolved(outcome[c]).state = outcome[c]
        BY <1>0 DEF Resolved, Event
      <4> QED
        BY <3>4, <4>1 DEF SendResolved, Send, Move, runVars
    <3>5. CASE \E clean \in BOOLEAN : RunSucceeds(c, clean)
      BY <3>2, <3>5
    <3> QED
      BY <1>10, <3>1, <3>3, <3>4, <3>5 DEF Run
  <2>2. at'[c] = to /\ \A d \in Call : at'[d] \in {"seeding", "claiming"} => at'[d] = at[d]
    BY <1>0, <2>1
  <2>3. Owner(c) /\ branch # None /\ ~branch.resumable
    BY <1>0, <2>1 DEF Owner, OwnerInv
  <2>4. Sent = {}
    BY <1>1, <2>1, <2>3, NothingSent
  <2>5. TableInv'
    BY <1>1, <1>3, <2>1, <2>2 DEF TableInv
  <2>6. Stands(c)'
    BY <1>1, <1>2, <1>3, <2>1, <2>2 DEF Stands
  <2>7. CallInv'
    BY <1>1, <1>2, <1>3, <2>1, <2>6, OthersStand
  <2>8. \A d \in Call : Owner(d)' => d = c
    <3>1. \A d \in Call : Owner(d)' => Owner(d)
      BY <1>2, <2>1, MoveMakesNoOwner DEF Held
    <3> QED
      BY <2>3, <3>1 DEF OwnerInv, OneInverse
  <2>9. Sent' = {Len(queue) + 1} /\ queue'[Len(queue) + 1] = [caller |-> c, record |-> r]
    BY <2>1, <2>4, SentAppended DEF Query
  <2>10. Carries(c, r)'
    BY <1>1, <1>2, <1>3, <2>1, <2>2 DEF Carries, Stands, Verdict
  <2>11. SentInv'
    BY <2>1, <2>3, <2>8, <2>9, <2>10 DEF SentInv
  <2> QED
    BY <1>4, <2>5, <2>7, <2>11 DEF StoryInv
<1>11. CASE Resolve(c)
  <2>1. /\ at[c] = "resolving" /\ at' = [at EXCEPT ![c] = "announcing"]
        /\ branch' = [branch EXCEPT !.state = outcome[c]]
        /\ queue' = queue /\ outcome' = outcome /\ found' = found
    BY <1>11 DEF Resolve, Move, runVars
  <2>2. Owner(c) /\ branch # None /\ ~branch.resumable
    BY <1>0, <2>1 DEF Owner, OwnerInv
  <2>3. /\ branch' \in Branch /\ branch'.key = branch.key
        /\ branch'.state = outcome[c] /\ branch'.resumable = branch.resumable
    BY <1>0, <1>5, <2>1, <2>2 DEF Branch
  <2>4. branch' # None
    BY <2>3, LaneConstants
  <2>5. Sent' = {}
    BY <1>1, <2>1, <2>2, NothingSent, SentSame
  <2>6. BranchFrom # None /\ outcome[c] = BranchFrom.state
    BY <1>1, <2>1 DEF Stands
  <2>7. TableInv'
    BY <1>1, <1>3, <2>1, <2>2, <2>3, <2>4, <2>6 DEF TableInv, StreamInv
  <2>8. CallInv'
    <3>1. at'[c] = "announcing"
      BY <1>0, <2>1
    <3>2. Stands(c)'
      BY <1>3, <2>1, <2>6, <3>1 DEF Stands
    <3> QED
      BY <1>1, <1>2, <1>3, <2>1, <2>3, <2>4, <3>2, OthersStand
  <2> QED
    BY <1>4, <2>5, <2>7, <2>8 DEF StoryInv, SentInv
<1>12. ~PendingWitness(c)
  BY <1>0 DEF PendingWitness
<1> QED
  BY <1>6, <1>7, <1>8, <1>9, <1>10, <1>11, <1>12 DEF Step

(* What an event of the queue makes of the stream: the first intent opens the *)
(* branch under the table's key, a completion or a resolution gives it a state *)
(* it may have, and a Reverted state stays.                                   *)
LEMMA EventStoryStep ==
    ASSUME LaneType, RevertsOnly, StoryInv, 1 \in Sent,
           log' = Append(log, queue[1].record), branch' = branch, earned' = earned
    PROVE  /\ StreamInv'
           /\ BranchFrom' # None =>
                /\ branch.key = BranchFrom'.key
                /\ BranchFrom # None => BranchFrom'.key = BranchFrom.key
           /\ BranchFrom # None => BranchFrom' # None
           /\ BranchFrom # None /\ BranchFrom.state = "Reverted" =>
                BranchFrom'.state = "Reverted"
           /\ queue[1].record.kind = "intent" =>
                BranchFrom' # None /\ BranchFrom'.resumable /\ BranchFrom'.state = "PendingRevert"
           /\ queue[1].record.kind = "completed" =>
                BranchFrom' # None /\ BranchFrom'.state = Verdict(queue[1].record)
           /\ queue[1].record.kind = "error" =>
                BranchFrom' # None /\ BranchFrom'.state = "PendingRevert"
           /\ queue[1].record.kind = "resolved" =>
                BranchFrom' # None /\ BranchFrom'.state = BranchFrom.state
<1> DEFINE c == queue[1].caller
           r == queue[1].record
<1>1. /\ c \in Call /\ r \in Event /\ Carries(c, r) /\ branch # None
      /\ log \in Seq(Event) /\ StreamInv /\ TableInv
      /\ branch \in Branch \union {None}
  BY SentCallers, TypeParts DEF StoryInv, SentInv, LaneType, DataType
<1> HIDE DEF c, r
<1>2. /\ BranchFrom = None <=> Intents = {}
      /\ BranchFrom # None => BranchFrom.resumable = (Verdicts = {})
      /\ BranchFrom # None /\ Verdicts = {} => BranchFrom.state = "PendingRevert"
      /\ BranchFrom \in Branch \union {None}
  BY <1>1, FoldFacts, FoldIsABranch
<1>3. log' = Append(log, r)
  BY DEF r
<1>4. log' \in Seq(Event)
  BY <1>1, <1>3
<1>5. CASE r.kind = "intent"
  <2>1. BranchFrom = None /\ r.key = branch.key
    BY <1>1, <1>5 DEF Carries
  <2>2. Intents = {} /\ Verdicts = {}
    BY <1>1, <1>2, <2>1 DEF StreamInv
  <2>3. BranchFrom' = [key |-> r.key, state |-> "PendingRevert", live |-> FALSE,
                       resumable |-> TRUE]
    BY <1>1, <1>3, <1>5, <2>2, FoldOfFirstIntent
  <2>4. r.key \in Key
    BY <1>1, <1>5 DEF Event, Failure
  <2>5. BranchFrom' \in Branch
    BY <2>3, <2>4 DEF Branch, Resolution
  <2>6. BranchFrom' # None
    BY <2>5, LaneConstants
  <2>7. Verdicts' = {}
    BY <1>1, <1>3, <1>5, <2>2, AppendPositions
  <2>8. StreamInv'
    BY <2>3, <2>7 DEF StreamInv
  <2> QED
    BY <1>5, <2>1, <2>3, <2>6, <2>8 DEF r
<1>6. CASE r.kind \in {"completed", "resolved"}
  <2>1. BranchFrom # None
    BY <1>1, <1>6 DEF Carries
  <2>2. Intents # {}
    BY <1>2, <2>1
  <2>3. BranchFrom' = [key |-> BranchFrom.key, state |-> Verdict(r), live |-> FALSE,
                       resumable |-> FALSE]
    BY <1>1, <1>3, <1>6, <2>2, FoldOfVerdict
  <2>4. /\ r.kind = "completed" => Verdict(r) \in {"PendingRevert", "Reverted"}
        /\ r.kind = "completed" /\ Verdict(r) = "Reverted" => earned
        /\ r.kind = "completed" => BranchFrom.state = "PendingRevert"
        /\ r.kind = "resolved" => Verdict(r) = BranchFrom.state
    <3>1. r.kind = "completed" => Verdict(r) = IF r.clean THEN "Reverted" ELSE "PendingRevert"
      BY DEF Verdict
    <3>2. r.kind = "resolved" => Verdict(r) = BranchFrom.state
      BY <1>1 DEF Carries, Verdict
    <3>3. r.kind = "completed" => (r.clean => earned) /\ BranchFrom.resumable
      BY <1>1 DEF Carries
    <3>4. r.kind = "completed" => BranchFrom.state = "PendingRevert"
      BY <1>2, <2>1, <3>3
    <3> QED
      BY <3>1, <3>2, <3>3, <3>4
  <2>5. Verdict(r) \in {"PendingRevert", "Reverted"}
    BY <1>1, <1>6, <2>1, <2>4 DEF StreamInv
  <2>6. BranchFrom.key \in Key
    BY <1>2, <2>1 DEF Branch
  <2>7. BranchFrom' \in Branch
    BY <2>3, <2>5, <2>6 DEF Branch, Resolution
  <2>8. BranchFrom' # None
    BY <2>7, LaneConstants
  <2>9. Intents' # {}
    BY <1>1, <1>3, <1>6, <2>2, AppendPositions
  <2>10. StreamInv'
    BY <1>1, <1>6, <2>1, <2>3, <2>4, <2>5, <2>9 DEF StreamInv
  <2>11. branch.key = BranchFrom.key
    BY <1>1, <2>1 DEF TableInv
  <2> QED
    BY <1>6, <2>1, <2>3, <2>4, <2>8, <2>10, <2>11 DEF r
<1>7. CASE r.kind = "error"
  <2>1. BranchFrom # None /\ BranchFrom.resumable
    BY <1>1, <1>7 DEF Carries
  <2>2. BranchFrom.state = "PendingRevert" /\ branch.key = BranchFrom.key
    BY <1>1, <1>2, <2>1 DEF TableInv
  <2>3. BranchFrom' = BranchFrom /\ Intents' = Intents /\ Verdicts' = Verdicts
    BY <1>1, <1>3, <1>7, FoldOfError
  <2>4. StreamInv'
    BY <1>1, <2>3 DEF StreamInv
  <2> QED
    BY <1>7, <2>1, <2>2, <2>3, <2>4 DEF r
<1> QED
  BY <1>1, <1>5, <1>6, <1>7 DEF Carries

(* The writer keeps the story: it commits the one event on its way, answers a *)
(* query with the stream as it stands, or refuses.                            *)
LEMMA WriterStoryStep ==
    ASSUME LaneType, LineInv, OwnerInv, RevertsOnly, StoryInv, Serve
    PROVE  StoryInv'
<1>0. /\ DataType /\ at \in [Call -> Stage] /\ queue \in Seq(Operations)
      /\ log \in Seq(Event) /\ found \in [Call -> Branch \union {None}]
  BY TypeParts DEF LaneType, DataType
<1>1. StreamInv /\ TableInv /\ CallInv /\ SentInv
  BY DEF StoryInv
<1>2. /\ queue # <<>> /\ queue' = Tail(queue) /\ branch' = branch
      /\ op' = op /\ key' = key /\ outcome' = outcome /\ earned' = earned
  BY DEF Serve, ServeAppend, ServeQuery, Refuse, callVars, runVars
<1>3. /\ \A i \in Sent' : i + 1 \in Sent /\ queue'[i] = queue[i + 1]
      /\ \A i, j \in Sent' : i = j
      /\ Head(queue).record # Query => 1 \in Sent /\ Sent' = {} /\ Head(queue) = queue[1]
  BY <1>1, <1>2, SentServed
<1>4. PICK c \in Call : c = Head(queue).caller
  <2>1. Head(queue) \in Operations
    BY <1>0, <1>2
  <2> QED
    BY <2>1 DEF Operations
<1>5. CASE ServeAppend
  <2>1. /\ 1 \in Sent /\ Sent' = {} /\ queue[1].caller = c
        /\ log' = Append(log, queue[1].record)
        /\ found' = found
        /\ at' = IF at[c] \in Waiting THEN [at EXCEPT ![c] = Resumes(c)] ELSE at
    BY <1>3, <1>4, <1>5 DEF ServeAppend, Move, runVars
  <2>2. /\ StreamInv'
        /\ BranchFrom' # None => branch.key = BranchFrom'.key
        /\ BranchFrom # None => BranchFrom' # None
        /\ BranchFrom # None /\ BranchFrom.state = "Reverted" => BranchFrom'.state = "Reverted"
        /\ queue[1].record.kind = "intent" =>
             BranchFrom' # None /\ BranchFrom'.resumable /\ BranchFrom'.state = "PendingRevert"
        /\ queue[1].record.kind = "completed" =>
             BranchFrom' # None /\ BranchFrom'.state = Verdict(queue[1].record)
        /\ queue[1].record.kind = "error" =>
             BranchFrom' # None /\ BranchFrom'.state = "PendingRevert"
        /\ queue[1].record.kind = "resolved" =>
             BranchFrom' # None /\ BranchFrom'.state = BranchFrom.state
    BY <1>2, <2>1, EventStoryStep
  <2>3. /\ branch # None /\ ~branch.resumable
        /\ \A d \in Call : Owner(d) => d = c
        /\ Carries(c, queue[1].record)
    BY <1>1, <2>1 DEF SentInv
  <2>4. TableInv'
    BY <1>1, <1>2, <2>2, <2>3 DEF TableInv
  <2>5. ASSUME NEW d \in Call, at'[d] = at[d], ~Owner(d)
        PROVE  Stands(d)'
    <3>1. at'[d] \notin Held
      BY <2>5 DEF Owner, Held, RevertsOnly
    <3> QED
      BY <1>1, <1>2, <2>2, <2>5, <3>1 DEF CallInv, Stands, Held
  <2>6. CASE at[c] \notin Waiting
    <3>1. ~Owner(c) /\ at' = at
      BY <2>1, <2>3, <2>6 DEF Carries, Owner, Waiting
    <3> QED
      BY <2>1, <2>2, <2>3, <2>4, <2>5, <3>1 DEF StoryInv, SentInv, CallInv
  <2>7. CASE at[c] \in Waiting
    <3>1. at'[c] = Resumes(c) /\ \A d \in Call : d # c => at'[d] = at[d] /\ ~Owner(d)
      BY <1>0, <2>1, <2>3, <2>7
    <3>2. Stands(c) /\ op[c] = "revert"
      BY <1>1 DEF CallInv, RevertsOnly
    <3>3. ASSUME at[c] = "intent" PROVE Stands(c)'
      <4>1. at'[c] = "running" /\ queue[1].record.kind = "intent"
        BY <2>3, <3>1, <3>3 DEF Resumes, Carries
      <4>2. BranchFrom' # None /\ BranchFrom'.key = key[c] /\ BranchFrom'.resumable
        BY <2>2, <3>2, <3>3, <4>1 DEF Stands
      <4> QED
        BY <1>2, <4>1, <4>2 DEF Stands
    <3>4. ASSUME at[c] = "completing" PROVE Stands(c)'
      <4>1. at'[c] = "resolving" /\ queue[1].record.kind = "completed"
            /\ outcome[c] = Verdict(queue[1].record)
        BY <2>3, <3>1, <3>4 DEF Resumes, Carries
      <4> QED
        BY <1>2, <2>2, <4>1 DEF Stands
    <3>5. ASSUME at[c] = "erring" PROVE Stands(c)'
      <4>1. at'[c] = "resolving" /\ queue[1].record.kind = "error"
            /\ outcome[c] = "PendingRevert"
        BY <2>3, <3>1, <3>2, <3>5 DEF Resumes, Carries, Stands
      <4> QED
        BY <1>2, <2>2, <4>1 DEF Stands
    <3>6. ASSUME at[c] = "resolved" PROVE Stands(c)'
      <4>1. at'[c] = "returned" /\ queue[1].record.kind = "resolved"
            /\ outcome[c] = BranchFrom.state
        BY <2>3, <3>1, <3>2, <3>6 DEF Resumes, Carries, Stands
      <4> QED
        BY <1>2, <2>2, <4>1 DEF Stands
    <3>7. Stands(c)'
      BY <2>3, <2>7, <3>3, <3>4, <3>5, <3>6 DEF Carries, Waiting
    <3>8. CallInv'
      BY <2>5, <3>1, <3>7 DEF CallInv
    <3> QED
      BY <2>1, <2>2, <2>4, <3>8 DEF StoryInv, SentInv
  <2> QED
    BY <2>6, <2>7
<1>6. CASE ServeQuery \/ Refuse
  <2>1. log' = log
    BY <1>6 DEF ServeQuery, Refuse
  <2>2. BranchFrom' = BranchFrom /\ Intents' = Intents /\ Verdicts' = Verdicts
    BY <2>1, FoldStands
  <2>3. StreamInv'
    BY <1>1, <1>2, <2>2 DEF StreamInv
  <2>4. \/ at' = at /\ found' = found
        \/ /\ at[c] = "reading" /\ at' = [at EXCEPT ![c] = "seeding"]
           /\ found' = [found EXCEPT ![c] = BranchFrom]
        \/ /\ at[c] \in Waiting /\ at' = [at EXCEPT ![c] = "failed"] /\ found' = found
    BY <1>4, <1>6 DEF ServeQuery, Refuse, Move, runVars
  <2>5. \A d \in Call :
           \/ at'[d] = at[d] /\ found'[d] = found[d]
           \/ at'[d] = "seeding" /\ found'[d] = BranchFrom
           \/ at'[d] = "failed"
    BY <1>0, <2>4
  <2>6. TableInv'
    BY <1>1, <1>2, <2>2, <2>5 DEF TableInv
  <2>7. CallInv'
    BY <1>1, <1>2, <2>2, <2>5 DEF CallInv, Stands
  <2>8. SentInv'
    <3> SUFFICES ASSUME NEW i \in Sent'
                 PROVE  /\ branch' # None /\ ~branch'.resumable
                        /\ \A j \in Sent' : j = i
                        /\ \A d \in Call : Owner(d)' => d = queue'[i].caller
                        /\ Carries(queue[i].caller, queue[i].record)'
      BY DEF SentInv
    <3>1. i + 1 \in Sent /\ queue'[i] = queue[i + 1] /\ \A j \in Sent' : j = i
      BY <1>3
    <3>2. /\ branch # None /\ ~branch.resumable
          /\ \A d \in Call : Owner(d) => d = queue[i + 1].caller
          /\ Carries(queue[i + 1].caller, queue[i + 1].record)
      BY <1>1, <3>1 DEF SentInv
    <3>3. /\ queue[i + 1].caller \in Call
          /\ at[queue[i + 1].caller] \in {"intent", "completing", "erring", "resolved", "dropped"}
      BY <1>1, <3>1, SentCallers
    <3>4. \A d \in Call : Owner(d)' => Owner(d)
      BY <1>2, <2>5 DEF Owner
    <3>5. queue[i + 1].caller # c
      <4>1. i \in DOMAIN queue' /\ i + 1 \in DOMAIN queue
        BY <3>1 DEF Sent
      <4>2. i \in Nat \ {0} /\ 1 \in DOMAIN queue /\ Head(queue) = queue[1]
        BY <1>0, <1>2, <4>1
      <4> QED
        BY <1>4, <4>1, <4>2 DEF LineInv
    <3>6. at'[queue[i + 1].caller] = at[queue[i + 1].caller]
      BY <1>0, <2>4, <3>3, <3>5
    <3>7. Carries(queue[i].caller, queue[i].record)'
      BY <1>2, <2>2, <3>1, <3>2, <3>6 DEF Carries, Verdict
    <3> QED
      BY <1>2, <3>1, <3>2, <3>4, <3>7
  <2> QED
    BY <2>3, <2>6, <2>7, <2>8 DEF StoryInv
<1> QED
  BY <1>5, <1>6 DEF Serve

(* The story begins on an empty stream.                                       *)
LEMMA StoryInit == Init => LineInv /\ StoryInv
<1> SUFFICES ASSUME Init PROVE LineInv /\ StoryInv
  OBVIOUS
<1>1. Intents = {} /\ Verdicts = {}
  BY DEF Init, Intents, Verdicts, Positions
<1>2. BranchFrom = None
  BY <1>1 DEF BranchFrom
<1>3. /\ queue = <<>> /\ branch = None
      /\ \A c \in Call : at[c] = "idle"
  BY DEF Init
<1>4. Sent = {}
  BY <1>3 DEF Sent
<1>5. StreamInv /\ TableInv /\ CallInv /\ SentInv
  BY <1>1, <1>2, <1>3, <1>4 DEF StreamInv, TableInv, CallInv, Stands, SentInv
<1> QED
  BY <1>3, <1>5 DEF StoryInv, LineInv

(* Every step keeps the story of an effect that is only reverted: also the   *)
(* hydration, the loss of a call and the death of the process.               *)
LEMMA StoryStep ==
    LaneType /\ LineInv /\ OwnerInv /\ RevertsOnly /\ StoryInv /\ [Next]_vars => StoryInv'
<1> SUFFICES ASSUME LaneType, LineInv, OwnerInv, RevertsOnly, StoryInv, [Next]_vars
             PROVE  StoryInv'
  OBVIOUS
<1>0. /\ at \in [Call -> Stage] /\ queue \in Seq(Operations)
      /\ StreamInv /\ TableInv /\ CallInv /\ SentInv
  BY TypeParts DEF LaneType, StoryInv
<1>1. ASSUME NEW c \in Call, Hydrate(c) \/ Drop(c)
      PROVE  StoryInv'
  <2>1. /\ log' = log /\ branch' = branch /\ found' = found /\ outcome' = outcome
        /\ earned' = earned /\ op' = op /\ key' = key
    BY <1>1 DEF Hydrate, Drop, callVars, runVars
  <2>2. BranchFrom' = BranchFrom /\ Intents' = Intents /\ Verdicts' = Verdicts
    BY <2>1, FoldStands
  <2>3. PICK to \in {"claiming", "reading", "dropped"} :
          /\ at' = [at EXCEPT ![c] = to]
          /\ to = "claiming" => branch # None
          /\ to = "dropped" \/ at[c] = "idle"
          /\ \/ queue' = queue
             \/ queue' = Append(queue, [caller |-> c, record |-> Query])
    BY <1>1 DEF Hydrate, Drop, Move, Send
  <2>4. at'[c] = to /\ \A d \in Call : d # c => at'[d] = at[d]
    BY <1>0, <2>3
  <2>5. StreamInv'
    BY <1>0, <2>1, <2>2 DEF StreamInv
  <2>6. TableInv'
    BY <1>0, <2>1, <2>2, <2>3, <2>4 DEF TableInv
  <2>7. CallInv'
    <3>1. Stands(c)'
      BY <2>4 DEF Stands
    <3> QED
      BY <1>0, <2>1, <2>2, <2>3, <3>1, OthersStand
  <2>8. SentInv'
    <3>1. \A d \in Call : Owner(d)' => Owner(d)
      BY <1>1, <2>1, <2>3, MoveMakesNoOwner DEF Held
    <3>2. Sent' = Sent /\ \A i \in Sent : queue'[i] = queue[i]
      BY <1>1, <2>3, SentSame, SentAppended
    <3>3. \A i, j \in Sent' : i = j
      BY <1>0, <3>2 DEF SentInv
    <3> QED
      BY <1>0, <1>1, <2>1, <2>2, <2>3, <3>1, <3>2, <3>3, SentKept
  <2> QED
    BY <2>5, <2>6, <2>7, <2>8 DEF StoryInv
<1>2. CASE Crash
  <2>1. /\ log' = log /\ branch' = None /\ queue' = <<>> /\ outcome' = outcome
        /\ earned' = earned
        /\ at' = [c \in Call |-> IF at[c] \in Ended \union {"idle"} THEN at[c] ELSE "dead"]
    BY <1>2 DEF Crash, runVars
  <2>2. BranchFrom' = BranchFrom /\ Intents' = Intents /\ Verdicts' = Verdicts
    BY <2>1, FoldStands
  <2>3. \A c \in Call : /\ at'[c] \in Ended \union {"idle"}
                        /\ at'[c] = "returned" => at[c] = "returned"
    BY <2>1 DEF Ended
  <2>4. StreamInv'
    BY <1>0, <2>1, <2>2 DEF StreamInv
  <2>5. TableInv'
    BY <2>1, <2>3 DEF TableInv, Ended
  <2>6. CallInv'
    BY <1>0, <2>1, <2>2, <2>3 DEF CallInv, Stands, Ended
  <2>7. Sent' = {}
    BY <2>1 DEF Sent
  <2> QED
    BY <2>4, <2>5, <2>6, <2>7 DEF StoryInv, SentInv
<1>3. CASE UNCHANGED vars
  <2>1. /\ log' = log /\ queue' = queue /\ branch' = branch /\ at' = at /\ op' = op /\ key' = key
        /\ found' = found /\ outcome' = outcome /\ earned' = earned
    BY <1>3 DEF vars, callVars, runVars
  <2>2. BranchFrom' = BranchFrom /\ Intents' = Intents /\ Verdicts' = Verdicts
    BY <2>1, FoldStands
  <2>3. Sent' = Sent
    BY <2>1, SentSame
  <2> QED
    BY <1>0, <2>1, <2>2, <2>3
    DEF StoryInv, StreamInv, TableInv, CallInv, Stands, SentInv, Carries, Verdict, Owner
<1> QED
  BY <1>1, <1>2, <1>3, CallStoryStep, WriterStoryStep DEF Next

(* Nobody changes what was called.                                           *)
LEMMA CallsAreFixed == [Next]_vars => op' = op /\ key' = key
BY DEF Next, vars, callVars, Hydrate, Step, Seed, ClaimFresh, ClaimResumed, ClaimRecorded,
       Refused, PendingWitness, SendIntent, Run, RunFails, RunSucceeds, Resolve, SendResolved,
       Drop, Serve, ServeAppend, ServeQuery, Refuse, Crash

\* The inductive invariant of the lane.
LaneInv == LaneType /\ LineInv /\ OwnerInv /\ (RevertsOnly => StoryInv)

(* The lane's invariant holds of every reachable state.                      *)
LEMMA LaneInvariant == Spec => []LaneInv
<1>1. Init => LaneInv
  BY TypeInit, OwnerInit, StoryInit DEF LaneInv
<1>2. LaneInv /\ [Next]_vars => LaneInv'
  <2> SUFFICES ASSUME LaneInv, [Next]_vars PROVE LaneInv'
    OBVIOUS
  <2>1. LaneType' /\ LineInv' /\ OwnerInv'
    BY TypeStep, LineStep, OwnerStep DEF LaneInv
  <2>2. RevertsOnly' => RevertsOnly
    BY CallsAreFixed DEF RevertsOnly
  <2>3. RevertsOnly' => StoryInv'
    BY <2>2, StoryStep DEF LaneInv
  <2> QED
    BY <2>1, <2>3 DEF LaneInv
<1> QED
  BY <1>1, <1>2, PTL DEF Spec

(* Reverted is earned by an inverse whose witness passed, durable before any *)
(* caller is told, and the effect's inverse runs only under the key its      *)
(* intent bound, whatever crashes, refusals and drops come between.          *)
THEOREM RevertedTrue == Spec => []RevertedIsTrue
<1>1. LaneInv => RevertedIsTrue
  BY DEF LaneInv, StoryInv, StreamInv, TableInv, CallInv, Stands, RevertedIsTrue,
         RevertedIsEarned, RevertedIsDurable, KeyIsBound
<1> QED
  BY <1>1, LaneInvariant, PTL

(* Once a completion is durable no inverse of the effect starts again.       *)
THEOREM RunsOnce == Spec => NeverRerun
<1>1. LaneInv /\ [Next]_vars =>
        [\A c \in Call : RevertsOnly /\ at[c] # "running" /\ at'[c] = "running" =>
            Verdicts = {}]_vars
  <2> SUFFICES ASSUME LaneInv, Next, RevertsOnly,
                      NEW c \in Call, at[c] # "running", at'[c] = "running"
               PROVE  Verdicts = {}
    OBVIOUS
  <2>1. /\ LaneType /\ StreamInv /\ TableInv /\ CallInv /\ SentInv
        /\ at \in [Call -> Stage] /\ queue \in Seq(Operations) /\ log \in Seq(Event)
    BY TypeParts DEF LaneInv, StoryInv, LaneType, DataType
  <2>2. /\ BranchFrom = None <=> Intents = {}
        /\ BranchFrom # None => BranchFrom.resumable = (Verdicts = {})
    BY <2>1, FoldFacts
  <2>3. CASE \E d \in Call : ClaimResumed(d)
    <3>1. branch # None /\ branch.resumable
      BY <2>3 DEF ClaimResumed
    <3> QED
      BY <2>1, <2>2, <3>1 DEF TableInv
  <2>4. CASE ServeAppend
    <3>1. /\ queue # <<>> /\ queue' = Tail(queue) /\ Head(queue).record # Query
          /\ at' = [at EXCEPT ![Head(queue).caller] = Resumes(Head(queue).caller)] \/ at' = at
      BY <2>4 DEF ServeAppend, Move
    <3>2. 1 \in Sent /\ Head(queue) = queue[1]
      BY <2>1, <3>1, SentServed
    <3>3. c = queue[1].caller /\ Resumes(c) = "running"
      BY <2>1, <3>1, <3>2
    <3>4. Carries(c, queue[1].record) /\ at[c] \in {"intent", "completing", "erring", "resolved", "dropped"}
      BY <2>1, <3>2, <3>3, SentCallers DEF SentInv
    <3>5. at[c] \in Waiting
      BY <2>4, <3>2, <3>3 DEF ServeAppend
    <3>6. at[c] = "intent"
      BY <3>3, <3>4, <3>5 DEF Resumes, Waiting
    <3>7. BranchFrom = None
      BY <3>4, <3>6 DEF Carries
    <3> QED
      BY <2>1, <2>2, <3>7 DEF StreamInv
  <2>5. CASE Crash
    BY <2>1, <2>5 DEF Crash, Ended
  <2>6. CASE ServeQuery \/ Refuse
    <3>1. PICK to \in {"seeding", "failed"} :
            at' = [at EXCEPT ![Head(queue).caller] = to] \/ at' = at
      BY <2>6 DEF ServeQuery, Refuse, Move
    <3> QED
      BY <2>1, <3>1
  <2>7. ASSUME NEW d \in Call,
               \/ Hydrate(d) \/ Drop(d) \/ Seed(d) \/ ClaimFresh(d) \/ ClaimRecorded(d)
               \/ Refused(d) \/ PendingWitness(d) \/ SendIntent(d) \/ Run(d) \/ Resolve(d)
               \/ SendResolved(d)
        PROVE  FALSE
    <3>1. PICK to \in Stage \ {"running"} : at' = [at EXCEPT ![d] = to]
      BY <2>7 DEF Hydrate, Drop, Seed, ClaimFresh, ClaimRecorded, Answer, Refused,
                  PendingWitness, SendIntent, Run, RunFails, RunSucceeds, Resolve,
                  SendResolved, Move, Stage, Ended
    <3> QED
      BY <2>1, <3>1
  <2> QED
    BY <2>3, <2>4, <2>5, <2>6, <2>7 DEF Next, Step, Serve
<1> QED
  BY <1>1, LaneInvariant, PTL DEF Spec, NeverRerun

(* The stream's word on an effect that is only reverted moves as the         *)
(* resolution machine: unclaimed, pending, closed once and never reopened.   *)
THEOREM LaneImplementsResolution == Spec => ImplementsResolution
<1> DEFINE Said == IF RevertsOnly /\ BranchFrom # None THEN BranchFrom.state ELSE "none"
<1>1. Init => Said = "none"
  <2> SUFFICES ASSUME Init PROVE Said = "none"
    OBVIOUS
  <2>1. Intents = {}
    BY DEF Init, Intents, Positions
  <2> QED
    BY <2>1 DEF BranchFrom
<1>2. LaneInv /\ [Next]_vars =>
        \/ Said' = Said
        \/ Said = "none" /\ Said' = "PendingRevert"
        \/ Said = "PendingRevert" /\ Said' = "Reverted"
  <2> SUFFICES ASSUME LaneInv, [Next]_vars, Said' # Said
               PROVE  \/ Said = "none" /\ Said' = "PendingRevert"
                      \/ Said = "PendingRevert" /\ Said' = "Reverted"
    OBVIOUS
  <2>1. RevertsOnly' = RevertsOnly
    BY CallsAreFixed DEF RevertsOnly
  <2>2. RevertsOnly
    BY <2>1
  <2>3. LaneType /\ StoryInv /\ SentInv /\ StreamInv /\ log \in Seq(Event)
    BY <2>2, TypeParts DEF LaneInv, StoryInv, LaneType, DataType
  <2>4. BranchFrom' # BranchFrom
    BY <2>1
  <2>5. log' # log
    BY <2>4, FoldStands
  <2>6. ServeAppend
    BY <2>5 DEF Next, vars, Hydrate, Step, Seed, ClaimFresh, ClaimResumed, ClaimRecorded,
       Refused, PendingWitness, SendIntent, Run, RunFails, RunSucceeds, Resolve, SendResolved,
       Drop, Serve, ServeQuery, Refuse, Crash
  <2>7. /\ queue # <<>> /\ queue' = Tail(queue) /\ Head(queue).record # Query
        /\ log' = Append(log, Head(queue).record) /\ branch' = branch /\ earned' = earned
    BY <2>6 DEF ServeAppend, runVars
  <2>8. 1 \in Sent /\ Head(queue) = queue[1]
    BY <2>3, <2>7, SentServed
  <2>9. /\ StreamInv'
        /\ BranchFrom # None => BranchFrom' # None
        /\ BranchFrom # None /\ BranchFrom.state = "Reverted" => BranchFrom'.state = "Reverted"
        /\ queue[1].record.kind = "intent" => BranchFrom'.state = "PendingRevert"
    BY <2>2, <2>3, <2>7, <2>8, EventStoryStep
  <2>10. Carries(queue[1].caller, queue[1].record)
    BY <2>3, <2>8 DEF SentInv
  <2>11. BranchFrom = None => queue[1].record.kind = "intent"
    BY <2>10 DEF Carries
  <2>12. BranchFrom' # None => BranchFrom'.state \in {"PendingRevert", "Reverted"}
    BY <2>9 DEF StreamInv
  <2>13. BranchFrom # None => BranchFrom.state \in {"PendingRevert", "Reverted"}
    BY <2>3 DEF StreamInv
  <2> QED
    BY <2>1, <2>2, <2>9, <2>11, <2>12, <2>13
<1>3. Init => Ledgered!Init
  BY <1>1 DEF Ledgered!Init, Ledgered!Unclaimed
<1>4. LaneInv /\ [Next]_vars => [Ledgered!Next]_Said
  BY <1>2 DEF Ledgered!Next, Ledgered!Claim, Ledgered!Close, Ledgered!Closed, Ledgered!Unclaimed
<1> QED
  BY <1>3, <1>4, LaneInvariant, PTL DEF Spec, ImplementsResolution, Ledgered!Spec
=============================================================================
