----------------------------- MODULE RevertLane -----------------------------
(***************************************************************************)
(* The keyed revert protocol of one effect over the append-only ledger      *)
(* (crates/jinnd-ledger): calls of revert and compensate, the branch table  *)
(* in memory, the writer thread and its queue, the durable stream, and the  *)
(* process that may die and reopen the stream.                              *)
(***************************************************************************)
EXTENDS Naturals, Sequences, FiniteSets

CONSTANTS
    Call,        \* calls of RevertLane::revert and RevertLane::compensate
    Key,         \* revert keys
    Ops,         \* the operations callers use, a subset of Operation
    None,        \* no branch
    MaxCrashes,  \* bound: deaths of the process
    MaxRefusals, \* bound: operations the storage layer refuses
    MaxDrops     \* bound: calls dropped while they wait

Operation == {"revert", "compensate"}

Resolution == {"PendingRevert", "Reverted", "CompensatedClean", "CompensatedUnclean"}

\* One entry of the branch table; live when its witness can be evaluated.
Branch == [key : Key, state : Resolution, live : BOOLEAN, resumable : BOOLEAN]

ASSUME LaneConstants ==
    /\ Ops \subseteq Operation
    /\ None \notin Branch
    /\ MaxCrashes \in Nat /\ MaxRefusals \in Nat /\ MaxDrops \in Nat

VARIABLES
    log,       \* the committed events of this effect, in sequence order
    queue,     \* what was sent to the writer thread and is not served
    branch,    \* the effect's entry in the branch table
    at,        \* at[c]: where a call is
    op,        \* op[c]: what was called
    key,       \* key[c]: under which key
    found,     \* found[c]: the branch that hydrate folded
    live,      \* live[c]: a compensation holds a witness it can evaluate
    outcome,   \* outcome[c]: the resolution a call is recording or answers
    earned,    \* an inverse has succeeded with its witness passing
    crashes, refusals, drops

callVars  == <<op, key>>
runVars   == <<found, live, outcome, earned>>
boundVars == <<crashes, refusals, drops>>
vars == <<log, queue, branch, at, callVars, runVars, boundVars>>

-----------------------------------------------------------------------------
(* The stream and the fold over it *)

Positions(kinds) == {i \in DOMAIN log : log[i].kind \in kinds}

Intents  == Positions({"intent"})
Verdicts == Positions({"completed", "resolved"})

\* What one record says of the branch's state.
Verdict(record) ==
    IF record.kind = "resolved" THEN record.state
    ELSE IF record.clean THEN "Reverted" ELSE "PendingRevert"

First == CHOOSE i \in Intents : \A j \in Intents : i <= j
Last  == CHOOSE i \in Verdicts : \A j \in Verdicts : j <= i

\* Mutated form of BranchFrom: a completion that was not resolved is not one.
BranchFromResolved ==
    IF Intents = {} THEN None
    ELSE [key       |-> log[First].key,
          state     |-> IF Verdicts = {} THEN "PendingRevert" ELSE Verdict(log[Last]),
          live      |-> FALSE,
          resumable |-> Positions({"resolved"}) = {}]

\* The first intent binds the key and the last verdict the state; a branch
\* without a verdict is resumable, and its witness died with its process.
BranchFrom ==
    IF Intents = {} THEN None
    ELSE [key       |-> log[First].key,
          state     |-> IF Verdicts = {} THEN "PendingRevert" ELSE Verdict(log[Last]),
          live      |-> FALSE,
          resumable |-> Verdicts = {}]

-----------------------------------------------------------------------------
Init ==
    /\ log = <<>> /\ queue = <<>>
    /\ branch = None
    /\ at = [c \in Call |-> "idle"]
    /\ op \in [Call -> Ops]
    /\ key \in [Call -> Key]
    /\ found = [c \in Call |-> None]
    /\ live = [c \in Call |-> FALSE]
    /\ outcome = [c \in Call |-> "PendingRevert"]
    /\ earned = FALSE
    /\ crashes = 0 /\ refusals = 0 /\ drops = 0

Move(c, to) == at' = [at EXCEPT ![c] = to]

Send(c, record) == queue' = Append(queue, [caller |-> c, record |-> record])

Query == [kind |-> "query"]
Intent(c) == [kind |-> "intent", key |-> key[c]]
Completed(clean) == [kind |-> "completed", clean |-> clean]
Resolved(state) == [kind |-> "resolved", state |-> state]
Failure == [kind |-> "error"]

-----------------------------------------------------------------------------
(* hydrate *)

\* A branch in memory needs no hydration; else the whole stream is queried.
Hydrate(c) ==
    /\ at[c] = "idle"
    /\ IF branch # None THEN Move(c, "claiming") /\ UNCHANGED queue
                        ELSE Move(c, "reading") /\ Send(c, Query)
    /\ UNCHANGED <<log, branch, callVars, runVars, boundVars>>

\* The seed never overwrites a branch this process holds.
Seed(c) ==
    /\ at[c] = "seeding"
    /\ branch' = IF branch = None THEN found[c] ELSE branch
    /\ Move(c, "claiming")
    /\ UNCHANGED <<log, queue, callVars, runVars, boundVars>>

-----------------------------------------------------------------------------
(* Branches::claim and Branches::pending_witness *)

Answer(c, state) ==
    /\ Move(c, "returned")
    /\ outcome' = [outcome EXCEPT ![c] = state]

ClaimFresh(c) ==
    /\ op[c] = "revert" /\ at[c] = "claiming" /\ branch = None
    /\ branch' = [key |-> key[c], state |-> "PendingRevert", live |-> TRUE,
                  resumable |-> FALSE]
    /\ Move(c, "claimed")
    /\ UNCHANGED <<log, queue, callVars, runVars, boundVars>>

\* Mutated form of ClaimResumed: the branch stays resumable.
ClaimResumedAgain(c) ==
    /\ op[c] = "revert" /\ at[c] = "claiming" /\ branch # None
    /\ branch.key = key[c] /\ branch.resumable
    /\ branch' = [branch EXCEPT !.live = TRUE]
    /\ Move(c, "running")
    /\ UNCHANGED <<log, queue, callVars, runVars, boundVars>>

ClaimResumed(c) ==
    /\ op[c] = "revert" /\ at[c] = "claiming" /\ branch # None
    /\ branch.key = key[c] /\ branch.resumable
    /\ branch' = [branch EXCEPT !.resumable = FALSE, !.live = TRUE]
    /\ Move(c, "running")
    /\ UNCHANGED <<log, queue, callVars, runVars, boundVars>>

ClaimRecorded(c) ==
    /\ op[c] = "revert" /\ at[c] = "claiming" /\ branch # None
    /\ branch.key = key[c] /\ ~branch.resumable
    /\ Answer(c, branch.state)
    /\ UNCHANGED <<log, queue, branch, callVars, found, live, earned, boundVars>>

IsPending == branch # None /\ branch.state = "PendingRevert"

\* A distinct key, or a compensation of a branch that is not pending.
Refused(c) ==
    /\ at[c] = "claiming"
    /\ \/ op[c] = "revert" /\ branch # None /\ branch.key # key[c]
       \/ op[c] = "compensate" /\ ~IsPending
    /\ Move(c, "refused")
    /\ UNCHANGED <<log, queue, branch, callVars, runVars, boundVars>>

\* A compensation claims nothing: it takes the pending branch's witness.
PendingWitness(c) ==
    /\ op[c] = "compensate" /\ at[c] = "claiming" /\ IsPending
    /\ live' = [live EXCEPT ![c] = branch.live]
    /\ Move(c, "claimed")
    /\ UNCHANGED <<log, queue, branch, callVars, found, outcome, earned, boundVars>>

-----------------------------------------------------------------------------
(* revert, complete and compensate *)

SendIntent(c) ==
    /\ at[c] = "claimed"
    /\ Send(c, Intent(c))
    /\ Move(c, "intent")
    /\ UNCHANGED <<log, branch, callVars, runVars, boundVars>>

\* The verdicts the witness may give; one that died reads as failing.
Witnessed(c) == IF op[c] = "revert" \/ live[c] THEN BOOLEAN ELSE {FALSE}

\* What a completed run resolves to.
Closing(c, clean) ==
    IF op[c] = "revert" THEN IF clean THEN "Reverted" ELSE "PendingRevert"
                        ELSE IF clean THEN "CompensatedClean" ELSE "CompensatedUnclean"

\* Mutated form of RunSucceeds: the witness is not consulted.
RunUnwitnessed(c, clean) ==
    /\ at[c] = "running" /\ clean \in Witnessed(c)
    /\ outcome' = [outcome EXCEPT ![c] = Closing(c, TRUE)]
    /\ earned' = (earned \/ (op[c] = "revert" /\ clean))
    /\ Send(c, Completed(TRUE))
    /\ Move(c, "completing")
    /\ UNCHANGED <<log, branch, callVars, found, live, boundVars>>

\* Mutated form of RunSucceeds: the table is resolved before the completion lands.
RunResolvesFirst(c, clean) ==
    /\ at[c] = "running" /\ clean \in Witnessed(c)
    /\ outcome' = [outcome EXCEPT ![c] = Closing(c, clean)]
    /\ branch' = [branch EXCEPT !.state = Closing(c, clean)]
    /\ earned' = (earned \/ (op[c] = "revert" /\ clean))
    /\ Send(c, Completed(clean))
    /\ Move(c, "completing")
    /\ UNCHANGED <<log, callVars, found, live, boundVars>>

\* The inverse, or the compensator, returns Ok and the witness is evaluated.
RunSucceeds(c, clean) ==
    /\ at[c] = "running" /\ clean \in Witnessed(c)
    /\ outcome' = [outcome EXCEPT ![c] = Closing(c, clean)]
    /\ earned' = (earned \/ (op[c] = "revert" /\ clean))
    /\ Send(c, Completed(clean))
    /\ Move(c, "completing")
    /\ UNCHANGED <<log, branch, callVars, found, live, boundVars>>

RunFails(c) ==
    /\ at[c] = "running"
    /\ outcome' = [outcome EXCEPT ![c] = "PendingRevert"]
    /\ Send(c, Failure)
    /\ Move(c, "erring")
    /\ UNCHANGED <<log, branch, callVars, found, live, earned, boundVars>>

\* The table is resolved first; the event follows.
Resolve(c) ==
    /\ at[c] = "resolving"
    /\ branch' = [branch EXCEPT !.state = outcome[c]]
    /\ Move(c, "announcing")
    /\ UNCHANGED <<log, queue, callVars, runVars, boundVars>>

SendResolved(c) ==
    /\ at[c] = "announcing"
    /\ Send(c, Resolved(outcome[c]))
    /\ Move(c, "resolved")
    /\ UNCHANGED <<log, branch, callVars, runVars, boundVars>>

-----------------------------------------------------------------------------
(* The writer thread serves in send order *)

Waiting == {"reading", "intent", "completing", "erring", "resolved"}

\* Where a call goes when its receipt resolves.
Resumes(c) ==
    CASE at[c] = "intent"     -> "running"
      [] at[c] = "completing" -> "resolving"
      [] at[c] = "erring"     -> IF op[c] = "revert" THEN "resolving" ELSE "returned"
      [] at[c] = "resolved"   -> "returned"

\* A dropped call has nobody to resume; its event is committed all the same.
ServeAppend ==
    /\ queue # <<>> /\ Head(queue).record # Query
    /\ log' = Append(log, Head(queue).record)
    /\ queue' = Tail(queue)
    /\ LET c == Head(queue).caller
       IN  IF at[c] \in Waiting THEN Move(c, Resumes(c)) ELSE UNCHANGED at
    /\ UNCHANGED <<branch, callVars, runVars, boundVars>>

ServeQuery ==
    /\ queue # <<>> /\ Head(queue).record = Query
    /\ queue' = Tail(queue)
    /\ LET c == Head(queue).caller
       IN  IF at[c] = "reading"
           THEN found' = [found EXCEPT ![c] = BranchFrom] /\ Move(c, "seeding")
           ELSE UNCHANGED <<found, at>>
    /\ UNCHANGED <<log, branch, callVars, live, outcome, earned, boundVars>>

\* Mutated form of Refuse: the refusal is not reported to the caller.
RefuseSilently ==
    /\ queue # <<>> /\ refusals < MaxRefusals
    /\ refusals' = refusals + 1
    /\ queue' = Tail(queue)
    /\ UNCHANGED <<log, branch, at, callVars, runVars, crashes, drops>>

\* The storage layer refuses: the call returns the error, at whatever stage.
Refuse ==
    /\ queue # <<>> /\ refusals < MaxRefusals
    /\ refusals' = refusals + 1
    /\ queue' = Tail(queue)
    /\ LET c == Head(queue).caller
       IN  IF at[c] \in Waiting THEN Move(c, "failed") ELSE UNCHANGED at
    /\ UNCHANGED <<log, branch, callVars, runVars, crashes, drops>>

-----------------------------------------------------------------------------
\* The future of a call is dropped at an await.
Drop(c) ==
    /\ at[c] \in Waiting \union {"running"}
    /\ drops < MaxDrops
    /\ drops' = drops + 1
    /\ Move(c, "dropped")
    /\ UNCHANGED <<log, queue, branch, callVars, runVars, crashes, refusals>>

Ended == {"returned", "refused", "failed", "dropped", "dead"}

\* The process dies: the stream stays, memory and what was only sent do not.
Crash ==
    /\ crashes < MaxCrashes
    /\ crashes' = crashes + 1
    /\ branch' = None /\ queue' = <<>>
    /\ at' = [c \in Call |-> IF at[c] \in Ended \union {"idle"} THEN at[c] ELSE "dead"]
    /\ UNCHANGED <<log, callVars, runVars, refusals, drops>>

-----------------------------------------------------------------------------
Run(c) == RunFails(c) \/ \E clean \in BOOLEAN : RunSucceeds(c, clean)

Step(c) ==
    \/ Seed(c) \/ ClaimFresh(c) \/ ClaimResumed(c) \/ ClaimRecorded(c) \/ Refused(c)
    \/ PendingWitness(c) \/ SendIntent(c) \/ Run(c) \/ Resolve(c) \/ SendResolved(c)

Serve == ServeAppend \/ ServeQuery \/ Refuse

Next ==
    \/ \E c \in Call : Hydrate(c) \/ Step(c) \/ Drop(c)
    \/ Serve \/ Crash

Spec == Init /\ [][Next]_vars

(* The writer thread runs for the ledger's whole life, a call in progress is *)
(* polled by its caller, and an inverse returns (R1).                        *)
FairSpec == Spec /\ WF_vars(Serve) /\ \A c \in Call : WF_vars(Step(c))

-----------------------------------------------------------------------------
Stage == {"idle", "reading", "seeding", "claiming", "claimed", "intent", "running",
          "completing", "erring", "resolving", "announcing", "resolved"} \union Ended

Event ==
    [kind : {"intent"}, key : Key] \union [kind : {"completed"}, clean : BOOLEAN]
        \union [kind : {"resolved"}, state : Resolution] \union {Failure}

(* The type invariant of the stream, the table and the calls.                *)
TypeOK ==
    /\ log \in Seq(Event)
    /\ queue \in Seq([caller : Call, record : Event \union {Query}])
    /\ branch \in Branch \union {None}
    /\ at \in [Call -> Stage]
    /\ op \in [Call -> Operation] /\ key \in [Call -> Key]
    /\ found \in [Call -> Branch \union {None}]
    /\ live \in [Call -> BOOLEAN]
    /\ outcome \in [Call -> Resolution]
    /\ earned \in BOOLEAN
    /\ crashes \in 0..MaxCrashes /\ refusals \in 0..MaxRefusals /\ drops \in 0..MaxDrops

\* A revert that won its claim and has not ended.
Owner(c) ==
    /\ op[c] = "revert"
    /\ at[c] \in {"claimed", "intent", "running", "completing", "erring", "resolving",
                  "announcing", "resolved"}

(* At most one claimant of the branch runs the inverse at a time, through    *)
(* hydrations, resumes, dropped calls and reopened streams.                  *)
OneInverse == \A c, d \in Call : Owner(c) /\ Owner(d) => c = d

(* Order is the contract: an inverse runs only once its intent is durable,   *)
(* and under the key that intent bound.                                      *)
KeyIsBound ==
    \A c \in Call : op[c] = "revert" /\ at[c] = "running" =>
        BranchFrom # None /\ BranchFrom.key = key[c]

(* Only a same-key inverse that succeeded with its witness passing makes     *)
(* Reverted, in memory and in what a reopened lane reads.                    *)
RevertedIsEarned ==
    /\ branch # None /\ branch.state = "Reverted" => earned
    /\ BranchFrom # None /\ BranchFrom.state = "Reverted" => earned

(* Memory is never ahead of the stream: a branch that reads Reverted, and an *)
(* answer of Reverted, survive any crash.                                    *)
RevertedIsDurable ==
    \/ branch # None /\ branch.state = "Reverted"
    \/ \E c \in Call : at[c] = "returned" /\ outcome[c] = "Reverted"
    => BranchFrom # None /\ BranchFrom.state = "Reverted"

\* Nobody compensates the effect.
RevertsOnly == \A c \in Call : op[c] = "revert"

(* Among reverts, Reverted was earned by an inverse whose witness passed, is *)
(* on the stream before anyone is told, and the effect stays under the key   *)
(* that claimed it (revert.rs, hydrate.rs).                                  *)
RevertedIsTrue == RevertsOnly => RevertedIsEarned /\ RevertedIsDurable /\ KeyIsBound

(* Among reverts, an inverse never starts again once a completion is durable. *)
NeverRerun ==
    [][\A c \in Call : RevertsOnly /\ at[c] # "running" /\ at'[c] = "running" =>
          Verdicts = {}]_vars

(* Every call that began ends: with an answer, a refusal or an error.        *)
EveryCallEnds == []<>(\A c \in Call : at[c] \in Ended \union {"idle"})

Ledgered == INSTANCE ResolutionMachine
    WITH resolution <- IF RevertsOnly /\ BranchFrom # None THEN BranchFrom.state ELSE "none"

(* Among reverts, what the stream says of the effect moves as the resolution *)
(* machine does: claimed once, closed once, never reopened.                  *)
ImplementsResolution == Ledgered!Spec
=============================================================================
