--------------------------- MODULE EventBusProofs ---------------------------
(***************************************************************************)
(* Theorems about the event bus, for every set of listeners and of         *)
(* dispatches, every mode and every number of panics and dropped calls: a  *)
(* once-registration has one fate, and a collecting walk hears everyone.   *)
(***************************************************************************)
EXTENDS EventBus, SequenceFacts

-----------------------------------------------------------------------------
(* The invariant. *)

(* The table holds each registration once, and only registrations made.      *)
TableInv ==
    /\ \A i, j \in DOMAIN table : table[i] = table[j] => i = j
    /\ \A l \in Listener : Live(l) => Contains(order, l)

(* OnceHasOneFate, and what it needs of a registration that is not made yet.  *)
OnceInv ==
    /\ OnceHasOneFate
    /\ \A l \in once : ~Contains(order, l) => Untaken(l) /\ l \notin undone

(* A dispatch that has not started has claimed nothing.                       *)
IdleInv == \A d \in Dispatch : at[d] = "idle" => taken[d] = {}

(* Where a walk holds a listener it claimed: being called, in a task, or      *)
(* reported.                                                                  *)
Beyond(d, l) ==
    \/ current[d] = l
    \/ \E i \in DOMAIN tasks[d] : tasks[d][i].listener = l
    \/ Contains(outputs[d], l)
    \/ l \in failed[d]

Held(d, l) == Contains(todo[d], l) \/ Beyond(d, l)

Collects == mode \in {"Serial", "Parallel"}

(* A collecting walk holds every listener it selected, except what went       *)
(* elsewhere; what it claimed itself is beyond the selections, so a walk that *)
(* passes over a listener it claimed before still has it; and it is done when *)
(* it has reached all and joined all.                                         *)
HeardOf(d) ==
    /\ \A l \in Listener : Contains(selected[d], l) => Contains(order, l)
    /\ Collects /\ at[d] # "dropped" =>
         /\ \A l \in Listener : Contains(selected[d], l) => Held(d, l) \/ Elsewhere(d, l)
         /\ \A l \in taken[d] : Beyond(d, l)
    /\ Collects /\ at[d] = "done" => todo[d] = <<>> /\ tasks[d] = <<>>

HeardInv == \A d \in Dispatch : HeardOf(d)

(* Taking a live registration out of the table leaves the others, once each. *)
LEMMA WithoutFacts ==
    ASSUME TypeOK, TableInv, NEW l \in Listener, Live(l)
    PROVE  /\ Without(l) \in Seq(Listener)
           /\ \A i, j \in DOMAIN Without(l) : Without(l)[i] = Without(l)[j] => i = j
           /\ \A m \in Listener : Contains(Without(l), m) <=> Live(m) /\ m # l
<1> DEFINE p == CHOOSE i \in DOMAIN table : table[i] = l
           w == Without(l)
<1>0. table \in Seq(Listener) /\ Len(table) \in Nat /\ DOMAIN table = 1..Len(table)
  BY DEF TypeOK
<1>1. p \in 1..Len(table) /\ table[p] = l
  BY <1>0 DEF Live, Contains
<1>2. \A i, j \in 1..Len(table) : table[i] = table[j] => i = j
  BY <1>0, Zenon DEF TableInv
<1> HIDE DEF p
<1>3. /\ w \in Seq(Listener) /\ Len(w) = Len(table) - 1
      /\ \A k \in 1..(Len(table) - 1) : w[k] = IF k < p THEN table[k] ELSE table[k + 1]
  BY <1>0, <1>1, RemovedEntry DEF Without, p
<1>w. w = Without(l) /\ DOMAIN w = 1..(Len(table) - 1)
  BY <1>0, <1>3
<1> HIDE DEF w
<1>4. ASSUME NEW i \in DOMAIN w, NEW j \in DOMAIN w, w[i] = w[j] PROVE i = j
  <2> DEFINE a == IF i < p THEN i ELSE i + 1
             b == IF j < p THEN j ELSE j + 1
  <2>1. w[i] = table[a] /\ w[j] = table[b] /\ a \in 1..Len(table) /\ b \in 1..Len(table)
    BY <1>0, <1>1, <1>3, <1>w
  <2>2. a = b
    BY <1>2, <1>4, <2>1, Zenon
  <2> QED BY <1>0, <1>1, <1>w, <2>2
<1>5. ASSUME NEW m, Contains(w, m) PROVE Live(m) /\ m # l
  <2>1. PICK k \in 1..(Len(table) - 1) : w[k] = m
    BY <1>3, <1>5, Zenon DEF Contains
  <2> DEFINE a == IF k < p THEN k ELSE k + 1
  <2>2. m = table[a] /\ a \in 1..Len(table) /\ a # p
    BY <1>0, <1>1, <1>3, <2>1
  <2> HIDE DEF a
  <2> QED BY <1>1, <1>2, <2>2, Zenon DEF Live, Contains
<1>6. ASSUME NEW m, Live(m), m # l PROVE Contains(w, m)
  <2>1. PICK k \in 1..Len(table) : table[k] = m
    BY <1>6, Zenon DEF Live, Contains
  <2>2. k # p
    BY <1>1, <1>6, <2>1
  <2> DEFINE a == IF k < p THEN k ELSE k - 1
  <2>3. a \in 1..(Len(table) - 1) /\ w[a] = m
    BY <1>0, <1>1, <1>3, <2>1, <2>2
  <2> HIDE DEF a
  <2> QED BY <1>3, <2>3, Zenon DEF Contains
<1> QED BY <1>3, <1>4, <1>5, <1>6, <1>w, Zenon

-----------------------------------------------------------------------------
(* Type correctness. *)

(* The claim of the selection a walk is at.                                   *)
LEMMA ClaimFacts ==
    ASSUME TypeOK, TableInv, NEW d \in Dispatch, todo[d] # <<>>, Claim(d)
    PROVE  /\ Next1(d) \in Listener
           /\ table' \in Seq(Listener)
           /\ todo' \in [Dispatch -> Seq(Listener)]
           /\ todo' = [todo EXCEPT ![d] = Tail(todo[d])]
           /\ taken' \in [Dispatch -> SUBSET Listener]
           /\ taken' = [taken EXCEPT ![d] = taken[d] \union {Next1(d)}]
           /\ ~Consumed(Next1(d))
           /\ Next1(d) \in once => table' = Without(Next1(d)) /\ Live(Next1(d))
           /\ Next1(d) \notin once => table' = table
<1>1. todo[d] \in Seq(Listener) /\ todo \in [Dispatch -> Seq(Listener)]
      /\ taken \in [Dispatch -> SUBSET Listener] /\ table \in Seq(Listener)
  BY DEF TypeOK
<1>2. Next1(d) \in Listener /\ Tail(todo[d]) \in Seq(Listener)
  BY <1>1 DEF Next1
<1>3. [taken EXCEPT ![d] = taken[d] \union {Next1(d)}] \in [Dispatch -> SUBSET Listener]
  BY <1>1, <1>2, Zenon
<1>4. Next1(d) \in once => Live(Next1(d))
  BY Zenon DEF Claim, Consumed
<1>5. /\ ~Consumed(Next1(d))
      /\ table' = IF Next1(d) \in once THEN Without(Next1(d)) ELSE table
      /\ todo' = [todo EXCEPT ![d] = Tail(todo[d])]
      /\ taken' = [taken EXCEPT ![d] = taken[d] \union {Next1(d)}]
  BY Zenon DEF Claim, Takes
<1>6. table' \in Seq(Listener)
  BY <1>1, <1>2, <1>4, <1>5, WithoutFacts, Zenon
<1> QED BY <1>1, <1>2, <1>3, <1>4, <1>5, <1>6, Zenon

(* A call counted.                                                            *)
LEMMA CalledFacts ==
    ASSUME TypeOK, NEW l \in Listener, Called(l)
    PROVE  /\ calls' \in [Listener -> Nat]
           /\ calls'[l] = calls[l] + 1
           /\ \A m \in Listener : m # l => calls'[m] = calls[m]
<1>1. calls \in [Listener -> Nat] /\ calls' = [calls EXCEPT ![l] = calls[l] + 1]
  BY Zenon DEF TypeOK, Called
<1>2. calls[l] + 1 \in Nat
  BY <1>1
<1> QED BY <1>1, <1>2, Zenon

(* A fresh bus.                                                               *)
LEMMA BusInit == Init => TypeOK /\ TableInv /\ IdleInv /\ OnceInv /\ HeardInv
<1> SUFFICES ASSUME Init PROVE TypeOK /\ TableInv /\ IdleInv /\ OnceInv /\ HeardInv
  OBVIOUS
<1>1. TypeOK
  <2>1. <<>> \in Seq(Listener) /\ <<>> \in Seq(Task) /\ 0 \in Nat /\ 0 \in 0..MaxDrops
    BY BusConstants
  <2>2. /\ order \in Seq(Listener) /\ table \in Seq(Listener)
        /\ selected \in [Dispatch -> Seq(Listener)] /\ todo \in [Dispatch -> Seq(Listener)]
        /\ outputs \in [Dispatch -> Seq(Listener)] /\ tasks \in [Dispatch -> Seq(Task)]
        /\ calls \in [Listener -> Nat] /\ drops \in 0..MaxDrops
    BY <2>1, Zenon DEF Init
  <2>3. /\ mode \in DispatchMode /\ once \subseteq Listener /\ undone \subseteq Listener
        /\ at \in [Dispatch -> {"idle", "walking", "calling", "done", "dropped"}]
        /\ current \in [Dispatch -> Listener \union {None}]
        /\ failed \in [Dispatch -> SUBSET Listener]
        /\ taken \in [Dispatch -> SUBSET Listener]
        /\ \A d \in Dispatch : at[d] = "calling" <=> current[d] # None
    BY BusConstants, Zenon DEF Init
  <2> QED BY <2>2, <2>3, Zenon DEF TypeOK
<1>2. \A l : ~Contains(<<>>, l)
  BY DEF Contains
<1>3. TableInv
  BY <1>2 DEF Init, TableInv, Live
<1>4. \A l : l \notin ToSet(<<>>)
  BY DEF ToSet
<1>5. OnceInv
  <2>1. once \subseteq Listener /\ order = <<>> /\ undone = {}
    BY BusConstants, Zenon DEF Init
  <2>2. \A l \in once : Untaken(l)
    BY <2>1, Zenon DEF Init, Untaken
  <2>3. \A l : l \notin ToSet(order)
    BY <1>4, <2>1, Zenon
  <2> QED BY <2>1, <2>2, <2>3, Zenon DEF OnceInv, OnceHasOneFate
<1>6. HeardInv
  <2>1. \A d \in Dispatch : selected[d] = <<>> /\ at[d] = "idle" /\ taken[d] = {}
    BY Zenon DEF Init
  <2> QED BY <1>2, <2>1 DEF HeardInv, HeardOf
<1>7. IdleInv
  BY Zenon DEF Init, IdleInv
<1> QED BY <1>1, <1>3, <1>5, <1>6, <1>7

(* Every step keeps the type invariant.                                       *)
LEMMA TypeStep == TypeOK /\ TableInv /\ [Next]_vars => TypeOK'
<1> SUFFICES ASSUME TypeOK, TableInv, [Next]_vars PROVE TypeOK'
  OBVIOUS
<1>0. /\ mode \in DispatchMode /\ once \subseteq Listener /\ undone \subseteq Listener
      /\ order \in Seq(Listener) /\ table \in Seq(Listener)
      /\ calls \in [Listener -> Nat]
      /\ at \in [Dispatch -> {"idle", "walking", "calling", "done", "dropped"}]
      /\ selected \in [Dispatch -> Seq(Listener)] /\ todo \in [Dispatch -> Seq(Listener)]
      /\ current \in [Dispatch -> Listener \union {None}]
      /\ \A d \in Dispatch : at[d] = "calling" <=> current[d] # None
      /\ tasks \in [Dispatch -> Seq(Task)]
      /\ outputs \in [Dispatch -> Seq(Listener)]
      /\ failed \in [Dispatch -> SUBSET Listener]
      /\ taken \in [Dispatch -> SUBSET Listener]
      /\ drops \in 0..MaxDrops
  BY Zenon DEF TypeOK
<1>seq. /\ \A t \in Seq(Listener), l \in Listener : Append(t, l) \in Seq(Listener)
        /\ \A t \in Seq(Listener) : t # <<>> => Tail(t) \in Seq(Listener) /\ Head(t) \in Listener
        /\ \A t \in Seq(Task) : t # <<>> => Tail(t) \in Seq(Task) /\ Head(t) \in Task
        /\ \A t \in Seq(Task), x \in Task : Append(t, x) \in Seq(Task)
        /\ <<>> \in Seq(Listener)
  OBVIOUS
<1>1. ASSUME NEW l \in Listener, Listen(l) PROVE TypeOK'
  BY <1>0, <1>1, <1>seq, Zenon DEF Listen, TypeOK, walkVars
<1>2. ASSUME NEW l \in Listener, Withdraw(l) PROVE TypeOK'
  <2>1. table' \in Seq(Listener) /\ undone' \subseteq Listener
    BY <1>0, <1>2, WithoutFacts, Zenon DEF Withdraw
  <2> QED BY <1>0, <1>2, <2>1, Zenon DEF Withdraw, TypeOK, walkVars
<1>3. ASSUME NEW d \in Dispatch, NEW kept \in SUBSET ToSet(table),
             NEW panics \in SUBSET ToSet(table), Start(d, kept, panics)
      PROVE  TypeOK'
  <2>1. ToSet(table) \subseteq Listener
    BY <1>0 DEF ToSet
  <2>2. Select(table, kept) \in Seq(Listener)
    BY <1>0, SelectRange, Zenon
  <2>3. /\ selected' = [selected EXCEPT ![d] = Select(table, kept)]
        /\ todo' = [todo EXCEPT ![d] = Select(table, kept)]
        /\ at' = [at EXCEPT ![d] = "walking"] /\ at[d] = "idle"
        /\ failed' = [failed EXCEPT ![d] = panics]
    BY <1>0, <1>3, Zenon DEF Start
  <2>4. /\ selected' \in [Dispatch -> Seq(Listener)] /\ todo' \in [Dispatch -> Seq(Listener)]
        /\ failed' \in [Dispatch -> SUBSET Listener]
    BY <1>0, <2>1, <2>2, <2>3, Zenon
  <2>5. /\ at' \in [Dispatch -> {"idle", "walking", "calling", "done", "dropped"}]
        /\ \A e \in Dispatch : at'[e] = "calling" <=> current[e] # None
    BY <1>0, <2>3, Zenon
  <2>6. UNCHANGED <<mode, once, order, table, undone, calls, taken, current, tasks, outputs,
                  drops>>
    BY <1>3, Zenon DEF Start, tableVars
  <2> QED BY <1>0, <2>4, <2>5, <2>6, Zenon DEF TypeOK
<1>4. ASSUME NEW d \in Dispatch, Skip(d) PROVE TypeOK'
  <2>1. todo' \in [Dispatch -> Seq(Listener)]
    BY <1>0, <1>4, <1>seq, Zenon DEF Skip
  <2> QED BY <1>0, <1>4, <2>1, Zenon DEF Skip, TypeOK, tableVars
<1>5. ASSUME NEW d \in Dispatch, Call(d) PROVE TypeOK'
  <2>1. todo[d] # <<>> /\ Claim(d)
    BY <1>5, Zenon DEF Call
  <2>2. /\ Next1(d) \in Listener /\ table' \in Seq(Listener)
        /\ todo' \in [Dispatch -> Seq(Listener)] /\ taken' \in [Dispatch -> SUBSET Listener]
    BY <2>1, ClaimFacts, Zenon
  <2>4. calls' \in [Listener -> Nat]
    BY <1>5, <2>2, CalledFacts, Zenon DEF Call
  <2>3. Next1(d) # None
    BY <2>2, BusConstants, Zenon
  <2> QED BY <1>0, <1>5, <2>2, <2>3, <2>4, Zenon DEF Call, TypeOK
<1>6. ASSUME NEW d \in Dispatch, NEW to \in {"walking", "done"}, Settles(d, to),
             todo' \in [Dispatch -> Seq(Listener)],
             outputs' \in [Dispatch -> Seq(Listener)],
             failed' \in [Dispatch -> SUBSET Listener]
      PROVE  TypeOK'
  BY <1>0, <1>6, Zenon DEF Settles, TypeOK, tableVars
<1>now. ASSUME NEW d \in Dispatch, at[d] = "calling" PROVE current[d] \in Listener
  BY <1>0, <1>now, Zenon
<1>fails. ASSUME NEW d \in Dispatch, NEW l \in Listener, Fails(d, l)
          PROVE  failed' \in [Dispatch -> SUBSET Listener]
  BY <1>0, <1>fails, Zenon DEF Fails
<1>yields. ASSUME NEW d \in Dispatch, NEW l \in Listener, Yields(d, l)
           PROVE  outputs' \in [Dispatch -> Seq(Listener)]
  BY <1>0, <1>seq, <1>yields, Zenon DEF Yields
<1>discard. ASSUME NEW d \in Dispatch, Discard(d)
            PROVE  todo' \in [Dispatch -> Seq(Listener)]
  BY <1>0, <1>seq, <1>discard, Zenon DEF Discard
<1>7. ASSUME NEW d \in Dispatch, Errs(d) PROVE TypeOK'
  <2>1. Settles(d, "walking") /\ Fails(d, current[d]) /\ todo' = todo /\ outputs' = outputs
    BY <1>7, Zenon DEF Errs
  <2>2. current[d] \in Listener
    BY <1>now, <2>1, Zenon DEF Settles
  <2> QED BY <1>0, <1>6, <1>fails, <2>1, <2>2, Zenon
<1>8. ASSUME NEW d \in Dispatch, Answers(d) PROVE TypeOK'
  <2>1. /\ Settles(d, "walking") /\ todo' = todo /\ failed' = failed
        /\ Yields(d, current[d]) \/ outputs' = outputs
    BY <1>8, Zenon DEF Answers
  <2>2. current[d] \in Listener
    BY <1>now, <2>1, Zenon DEF Settles
  <2> QED BY <1>0, <1>6, <1>yields, <2>1, <2>2, Zenon
<1>9. ASSUME NEW d \in Dispatch, NEW v \in {"decisive", "indecisive", "panic"}, Judged(d, v)
      PROVE  TypeOK'
  <2>1. \E to \in {"walking", "done"} : Settles(d, to)
    BY <1>9, Zenon DEF Judged
  <2>2. current[d] \in Listener
    BY <1>now, <2>1, Zenon DEF Settles
  <2>3. /\ Discard(d) \/ todo' = todo
        /\ Yields(d, current[d]) \/ outputs' = outputs
        /\ Fails(d, current[d]) \/ failed' = failed
    BY <1>9, Zenon DEF Judged
  <2> QED BY <1>0, <1>6, <1>yields, <1>fails, <1>discard, <2>1, <2>2, <2>3, Zenon
<1>10. ASSUME NEW d \in Dispatch, NEW v \in {"onward", "stop", "panic"}, Absorbed(d, v)
       PROVE  TypeOK'
  <2>1. \E to \in {"walking", "done"} : Settles(d, to)
    BY <1>10, Zenon DEF Absorbed
  <2>2. current[d] \in Listener
    BY <1>now, <2>1, Zenon DEF Settles
  <2>3. /\ Discard(d) \/ todo' = todo
        /\ outputs' = outputs
        /\ Fails(d, current[d]) \/ failed' = failed
    BY <1>10, Zenon DEF Absorbed
  <2> QED BY <1>0, <1>6, <1>fails, <1>discard, <2>1, <2>2, <2>3, Zenon
<1>11. ASSUME NEW d \in Dispatch, CloneFails(d) PROVE TypeOK'
  <2>1. Next1(d) \in Listener /\ todo' \in [Dispatch -> Seq(Listener)]
    BY <1>0, <1>11, <1>seq, Zenon DEF CloneFails, Next1
  <2>2. failed' \in [Dispatch -> SUBSET Listener]
    BY <1>11, <1>fails, <2>1, Zenon DEF CloneFails
  <2> QED BY <1>0, <1>11, <2>1, <2>2, Zenon DEF CloneFails, TypeOK, tableVars
<1>12. ASSUME NEW d \in Dispatch, SpawnTask(d) PROVE TypeOK'
  <2>1. todo[d] # <<>> /\ Claim(d)
    BY <1>12, Zenon DEF SpawnTask
  <2>2. /\ Next1(d) \in Listener /\ table' \in Seq(Listener)
        /\ todo' \in [Dispatch -> Seq(Listener)] /\ taken' \in [Dispatch -> SUBSET Listener]
    BY <2>1, ClaimFacts, Zenon
  <2>5. calls' \in [Listener -> Nat]
    BY <1>12, <2>2, CalledFacts, Zenon DEF SpawnTask
  <2>3. [listener |-> Next1(d), state |-> "running"] \in Task
    BY <2>2, Zenon DEF Task
  <2>4. tasks' \in [Dispatch -> Seq(Task)]
    BY <1>0, <1>12, <1>seq, <2>3, Zenon DEF SpawnTask
  <2> QED BY <1>0, <1>12, <2>2, <2>4, <2>5, Zenon DEF SpawnTask, TypeOK
<1>13. ASSUME NEW d \in Dispatch, NEW i \in DOMAIN tasks[d], NEW state \in {"ok", "err"},
              TaskEnds(d, i, state)
       PROVE  TypeOK'
  <2>1. /\ tasks[d] \in Seq(Task) /\ tasks[d][i] \in Task
    BY <1>0
  <2>2. [tasks[d][i] EXCEPT !.state = state] \in Task
    BY <2>1, Zenon DEF Task
  <2>3. [tasks[d] EXCEPT ![i] = [tasks[d][i] EXCEPT !.state = state]] \in Seq(Task)
    BY <2>1, <2>2
  <2>4. tasks' \in [Dispatch -> Seq(Task)]
    BY <1>0, <1>13, <2>3, Zenon DEF TaskEnds
  <2> QED BY <1>0, <1>13, <2>4, Zenon DEF TaskEnds, TypeOK, tableVars
<1>14. ASSUME NEW d \in Dispatch, Gather(d) PROVE TypeOK'
  <2>1. Head(tasks[d]) \in Task /\ tasks' \in [Dispatch -> Seq(Task)]
    BY <1>0, <1>14, <1>seq, Zenon DEF Gather
  <2>2. Head(tasks[d]).listener \in Listener
    BY <2>1, Zenon DEF Task
  <2>3. /\ Yields(d, Head(tasks[d]).listener) \/ outputs' = outputs
        /\ Fails(d, Head(tasks[d]).listener) \/ failed' = failed
    BY <1>14, Zenon DEF Gather
  <2>4. outputs' \in [Dispatch -> Seq(Listener)] /\ failed' \in [Dispatch -> SUBSET Listener]
    BY <1>0, <1>yields, <1>fails, <2>2, <2>3, Zenon
  <2> QED BY <1>0, <1>14, <2>1, <2>4, Zenon DEF Gather, TypeOK, tableVars
<1>15. ASSUME NEW d \in Dispatch, Finish(d) PROVE TypeOK'
  BY <1>0, <1>15, Zenon DEF Finish, TypeOK, tableVars, walkVars
<1>16. ASSUME NEW d \in Dispatch, DropDispatch(d) PROVE TypeOK'
  <2>1. drops' \in 0..MaxDrops
    BY <1>0, <1>16, BusConstants DEF DropDispatch
  <2> QED BY <1>0, <1>16, <1>seq, <2>1, Zenon DEF DropDispatch, TypeOK, tableVars
<1>18. ASSUME NEW d \in Dispatch, ClonePanics(d) PROVE TypeOK'
  <2>1. todo[d] # <<>> /\ Claim(d) /\ Fails(d, Next1(d))
    BY <1>18, Zenon DEF ClonePanics
  <2>2. /\ Next1(d) \in Listener /\ table' \in Seq(Listener)
        /\ todo' \in [Dispatch -> Seq(Listener)] /\ taken' \in [Dispatch -> SUBSET Listener]
    BY <2>1, ClaimFacts, Zenon
  <2>3. failed' \in [Dispatch -> SUBSET Listener]
    BY <1>fails, <2>1, <2>2, Zenon
  <2> QED BY <1>0, <1>18, <2>2, <2>3, Zenon DEF ClonePanics, TypeOK
<1>17. CASE UNCHANGED vars
  BY <1>0, <1>17, Zenon DEF vars, TypeOK, tableVars, walkVars
<1> QED BY <1>1, <1>2, <1>3, <1>4, <1>5, <1>7, <1>8, <1>9, <1>10, <1>11, <1>12, <1>13,
          <1>14, <1>15, <1>16, <1>17, <1>18, Zenon DEF Next, Advance, Settled

-----------------------------------------------------------------------------
(* The table and the once-registrations. *)

(* What a claim may do to its listener: call it, or have the clone panic.     *)
Delivers(d) ==
    \/ Called(Next1(d)) /\ failed' = failed
    \/ calls' = calls /\ Fails(d, Next1(d)) /\ mode # "Parallel"

(* What a step does to the table, the calls and the claims: a registration,   *)
(* an undo, a claim, or nothing; and a report loses no failure once the       *)
(* dispatch has started.                                                      *)
LEMMA TableMoves ==
    ASSUME TypeOK, TableInv, [Next]_vars
    PROVE  /\ once' = once /\ mode' = mode
           /\ \/ UNCHANGED <<order, table, undone, calls, taken>>
              \/ \E l \in Listener : Listen(l)
              \/ \E l \in Listener : Withdraw(l)
              \/ \E d \in Dispatch : /\ todo[d] # <<>> /\ Claim(d) /\ Delivers(d)
                                     /\ order' = order /\ undone' = undone
<1>1. CASE \E l \in Listener : Listen(l) \/ Withdraw(l)
  BY <1>1, Zenon DEF Listen, Withdraw
<1>7. CASE \E d \in Dispatch : ClonePanics(d)
  BY <1>7, Zenon DEF ClonePanics, Delivers
<1>2. CASE \E d \in Dispatch, kept, panics \in SUBSET ToSet(table) : Start(d, kept, panics)
  BY <1>2, Zenon DEF Start, tableVars
<1>3. CASE \E d \in Dispatch : Call(d) \/ SpawnTask(d)
  BY <1>3, Zenon DEF Call, SpawnTask, Delivers
<1>4. CASE \E d \in Dispatch : Skip(d) \/ CloneFails(d) \/ Gather(d) \/ Finish(d)
                               \/ DropDispatch(d)
  BY <1>4, Zenon DEF Skip, CloneFails, Gather, Finish, DropDispatch, tableVars, walkVars
<1>5. CASE \E d \in Dispatch : Settled(d)
  <2>1. PICK d \in Dispatch : Settled(d)
    BY <1>5, Zenon
  <2>2. \A to : Settles(d, to) => UNCHANGED <<mode, once, order, table, undone, calls, taken>>
    BY Zenon DEF Settles, tableVars
  <2>3. CASE Errs(d) \/ Answers(d)
    BY <2>2, <2>3, Zenon DEF Errs, Answers
  <2>4. CASE \E verdict \in {"decisive", "indecisive", "panic"} : Judged(d, verdict)
    <3>1. PICK verdict \in {"decisive", "indecisive", "panic"} : Judged(d, verdict)
      BY <2>4, Zenon
    <3>2. \E to : Settles(d, to)
      BY <3>1 DEF Judged
    <3> QED BY <2>2, <3>2, Zenon
  <2>5. CASE \E verdict \in {"onward", "stop", "panic"} : Absorbed(d, verdict)
    <3>1. PICK verdict \in {"onward", "stop", "panic"} : Absorbed(d, verdict)
      BY <2>5, Zenon
    <3>2. \E to : Settles(d, to)
      BY <3>1 DEF Absorbed
    <3> QED BY <2>2, <3>2, Zenon
  <2>6. CASE \E i \in DOMAIN tasks[d], state \in {"ok", "err"} : TaskEnds(d, i, state)
    BY <2>6, Zenon DEF TaskEnds, tableVars
  <2> QED BY <2>1, <2>3, <2>4, <2>5, <2>6, Zenon DEF Settled
<1>6. CASE UNCHANGED vars
  BY <1>6, Zenon DEF vars, tableVars, walkVars
<1> QED BY <1>1, <1>2, <1>3, <1>4, <1>5, <1>6, <1>7, Zenon DEF Next, Advance

(* Every step keeps the table in order.                                       *)
LEMMA TableStep ==
    ASSUME TypeOK, TableInv, [Next]_vars
    PROVE  /\ TableInv'
           /\ \A l \in Listener : Contains(order, l) => Contains(order, l)'
           /\ \A l \in Listener : Contains(order, l) /\ Live(l)' => Live(l)
<1>0. order \in Seq(Listener) /\ table \in Seq(Listener)
  BY Zenon DEF TypeOK
<1>1. CASE UNCHANGED <<order, table, undone, calls, taken>>
  BY <1>1, Zenon DEF TableInv, Live
<1>2. ASSUME NEW l \in Listener, Listen(l)
      PROVE  /\ TableInv'
             /\ \A m \in Listener : Contains(order, m) => Contains(order, m)'
             /\ \A m \in Listener : Contains(order, m) /\ Live(m)' => Live(m)
  <2>1. order' = Append(order, l) /\ table' = Append(table, l) /\ ~Contains(order, l)
    BY <1>2, Zenon DEF Listen
  <2>2. \A m : Contains(order, m)' <=> Contains(order, m) \/ m = l
    <3>1. \A m : Contains(Append(order, l), m) <=> Contains(order, m) \/ m = l
      BY <1>0, <1>2, ContainsAppend, Zenon
    <3> QED BY <2>1, <3>1, Zenon
  <2>3. \A m : Live(m)' <=> Live(m) \/ m = l
    <3>1. \A m : Contains(Append(table, l), m) <=> Contains(table, m) \/ m = l
      BY <1>0, <1>2, ContainsAppend, Zenon
    <3> QED BY <2>1, <3>1, Zenon DEF Live
  <2>4. ~Live(l)
    BY <2>1, Zenon DEF TableInv
  <2>5. \A i, j \in DOMAIN table' : table'[i] = table'[j] => i = j
    <3>1. /\ Len(table) \in Nat /\ DOMAIN table' = 1..(Len(table) + 1)
          /\ DOMAIN table = 1..Len(table)
          /\ table'[Len(table) + 1] = l /\ \A i \in 1..Len(table) : table'[i] = table[i]
      BY <1>0, <2>1
    <3>2. \A i \in 1..Len(table) : table[i] # l
      BY <2>4, Zenon DEF Live, Contains
    <3>3. \A i \in 1..(Len(table) + 1) : i \in 1..Len(table) \/ i = Len(table) + 1
      BY <3>1
    <3> QED BY <3>1, <3>2, <3>3, Zenon DEF TableInv
  <2> QED BY <2>1, <2>2, <2>3, <2>5, Zenon DEF TableInv
<1>gone. ASSUME NEW l \in Listener, Live(l), table' = Without(l), order' = order
         PROVE  /\ TableInv'
                /\ \A m \in Listener : Contains(order, m) => Contains(order, m)'
                /\ \A m \in Listener : Contains(order, m) /\ Live(m)' => Live(m)
  <2>1. /\ \A i, j \in DOMAIN table' : table'[i] = table'[j] => i = j
        /\ \A m \in Listener : Live(m)' <=> Live(m) /\ m # l
    BY <1>gone, WithoutFacts, Zenon DEF Live
  <2> QED BY <1>gone, <2>1, Zenon DEF TableInv
<1>3. ASSUME NEW l \in Listener, Withdraw(l)
      PROVE  /\ TableInv'
             /\ \A m \in Listener : Contains(order, m) => Contains(order, m)'
             /\ \A m \in Listener : Contains(order, m) /\ Live(m)' => Live(m)
  BY <1>3, <1>gone, Zenon DEF Withdraw
<1>4. ASSUME NEW d \in Dispatch, todo[d] # <<>>, Claim(d), order' = order
      PROVE  /\ TableInv'
             /\ \A m \in Listener : Contains(order, m) => Contains(order, m)'
             /\ \A m \in Listener : Contains(order, m) /\ Live(m)' => Live(m)
  <2>1. Next1(d) \in Listener
    BY <1>4, ClaimFacts, Zenon
  <2>2. CASE Next1(d) \in once
    BY <1>4, <1>gone, <2>1, <2>2, ClaimFacts, Zenon
  <2>3. CASE Next1(d) \notin once
    <3>1. table' = table
      BY <1>4, <2>3, ClaimFacts, Zenon
    <3> QED BY <1>4, <3>1, Zenon DEF TableInv, Live
  <2> QED BY <2>2, <2>3
<1> QED BY <1>1, <1>2, <1>3, <1>4, TableMoves, Zenon

(* The dispatch a step belongs to, and those it leaves alone.                 *)
LEMMA StepOf ==
    ASSUME TypeOK, [Next]_vars, NEW d \in Dispatch
    PROVE  \/ /\ selected'[d] = selected[d] /\ at'[d] = at[d] /\ todo'[d] = todo[d]
              /\ current'[d] = current[d] /\ tasks'[d] = tasks[d]
              /\ outputs'[d] = outputs[d] /\ failed'[d] = failed[d] /\ taken'[d] = taken[d]
           \/ \E kept, panics \in SUBSET ToSet(table) : Start(d, kept, panics)
           \/ Advance(d) \/ Settled(d) \/ DropDispatch(d)
<1>0. /\ at \in [Dispatch -> {"idle", "walking", "calling", "done", "dropped"}]
      /\ selected \in [Dispatch -> Seq(Listener)] /\ todo \in [Dispatch -> Seq(Listener)]
      /\ current \in [Dispatch -> Listener \union {None}]
      /\ tasks \in [Dispatch -> Seq(Task)] /\ outputs \in [Dispatch -> Seq(Listener)]
      /\ failed \in [Dispatch -> SUBSET Listener] /\ taken \in [Dispatch -> SUBSET Listener]
  BY Zenon DEF TypeOK
<1>1. CASE \E l \in Listener : Listen(l) \/ Withdraw(l)
  BY <1>1, Zenon DEF Listen, Withdraw, walkVars
<1>2. CASE UNCHANGED vars
  BY <1>2, Zenon DEF vars, walkVars
<1> DEFINE Still == /\ selected'[d] = selected[d] /\ at'[d] = at[d] /\ todo'[d] = todo[d]
                    /\ current'[d] = current[d] /\ tasks'[d] = tasks[d]
                    /\ outputs'[d] = outputs[d] /\ failed'[d] = failed[d] /\ taken'[d] = taken[d]
<1>3. ASSUME NEW e \in Dispatch, e # d, NEW kept, NEW panics, Start(e, kept, panics)
      PROVE  Still
  BY <1>0, <1>3, Zenon DEF Start
<1>4. ASSUME NEW e \in Dispatch, e # d, Skip(e) \/ CloneFails(e) \/ Gather(e) \/ Finish(e)
      PROVE  Still
  BY <1>0, <1>4, Zenon DEF Skip, CloneFails, Gather, Finish, Fails, Yields, walkVars
<1>5. ASSUME NEW e \in Dispatch, e # d, Call(e) \/ SpawnTask(e) \/ ClonePanics(e)
      PROVE  Still
  BY <1>0, <1>5, Zenon DEF Call, SpawnTask, ClonePanics, Claim, Takes, Fails
<1>6. ASSUME NEW e \in Dispatch, e # d, NEW to, Settles(e, to),
             todo' = todo \/ Discard(e),
             outputs' = outputs \/ Yields(e, current[e]),
             failed' = failed \/ Fails(e, current[e])
      PROVE  Still
  BY <1>0, <1>6, Zenon DEF Settles, Discard, Yields, Fails
<1>7. ASSUME NEW e \in Dispatch, e # d, Settled(e)
      PROVE  Still
  <2>1. CASE Errs(e) \/ Answers(e)
    BY <1>6, <1>7, <2>1, Zenon DEF Errs, Answers
  <2>2. CASE \E v \in {"decisive", "indecisive", "panic"} : Judged(e, v)
    BY <1>6, <1>7, <2>2, Zenon DEF Judged
  <2>3. CASE \E v \in {"onward", "stop", "panic"} : Absorbed(e, v)
    BY <1>6, <1>7, <2>3, Zenon DEF Absorbed
  <2>4. CASE \E i \in DOMAIN tasks[e], state \in {"ok", "err"} : TaskEnds(e, i, state)
    BY <1>0, <1>7, <2>4, Zenon DEF TaskEnds
  <2> QED BY <1>7, <2>1, <2>2, <2>3, <2>4, Zenon DEF Settled
<1>8. ASSUME NEW e \in Dispatch, e # d, DropDispatch(e)
      PROVE  Still
  BY <1>0, <1>8, Zenon DEF DropDispatch
<1> QED BY <1>1, <1>2, <1>3, <1>4, <1>5, <1>7, <1>8, Zenon DEF Next, Advance

(* A report loses no failure once its dispatch has started, and a dispatch    *)
(* that has not started claims nothing.                                       *)
LEMMA Started ==
    ASSUME TypeOK, [Next]_vars, NEW d \in Dispatch
    PROVE  /\ at[d] # "idle" => at'[d] # "idle" /\ failed[d] \subseteq failed'[d]
           /\ at[d] = "idle" => taken'[d] = taken[d]
<1>0. /\ at \in [Dispatch -> {"idle", "walking", "calling", "done", "dropped"}]
      /\ failed \in [Dispatch -> SUBSET Listener] /\ taken \in [Dispatch -> SUBSET Listener]
  BY Zenon DEF TypeOK
<1> DEFINE Moves == /\ at[d] # "idle" => at'[d] # "idle" /\ failed[d] \subseteq failed'[d]
                    /\ at[d] = "idle" => taken'[d] = taken[d]
<1>1. ASSUME at'[d] = at[d], failed'[d] = failed[d], taken'[d] = taken[d] PROVE Moves
  BY <1>1, Zenon
<1>2. ASSUME NEW kept, NEW panics, Start(d, kept, panics) PROVE Moves
  BY <1>2, Zenon DEF Start
<1>3. ASSUME Advance(d) PROVE Moves
  <2>1. at[d] = "walking"
    BY <1>3, Zenon DEF Advance, Skip, Call, ClonePanics, CloneFails, SpawnTask, Gather, Finish
  <2>2. at'[d] \in {"walking", "calling", "done"}
    BY <1>0, <1>3, <2>1, Zenon
       DEF Advance, Skip, Call, ClonePanics, CloneFails, SpawnTask, Gather, Finish
  <2>3. failed[d] \subseteq failed'[d]
    BY <1>0, <1>3, Zenon DEF Advance, Skip, Call, ClonePanics, CloneFails, SpawnTask, Gather,
       Finish, Fails, walkVars
  <2> QED BY <2>1, <2>2, <2>3
<1>4. ASSUME Settled(d) PROVE Moves
  <2>1. ASSUME NEW i, NEW state, TaskEnds(d, i, state) PROVE Moves
    BY <1>1, <2>1, Zenon DEF TaskEnds
  <2>2. ASSUME NEW to \in {"walking", "done"}, Settles(d, to), failed' = failed \/ Fails(d, current[d])
        PROVE  Moves
    <3>1. at[d] = "calling" /\ at'[d] = to
      BY <1>0, <2>2, Zenon DEF Settles
    <3>2. failed[d] \subseteq failed'[d]
      BY <1>0, <2>2, Zenon DEF Fails
    <3> QED BY <3>1, <3>2
  <2> QED BY <1>4, <2>1, <2>2, Zenon DEF Settled, Errs, Answers, Judged, Absorbed
<1>5. ASSUME DropDispatch(d) PROVE Moves
  <2>1. at[d] # "idle" /\ at'[d] = "dropped" /\ failed' = failed
    BY <1>0, <1>5 DEF DropDispatch
  <2> QED BY <2>1
<1> QED BY <1>1, <1>2, <1>3, <1>4, <1>5, StepOf, Zenon

(* Every step keeps IdleInv.                                                  *)
LEMMA IdleStep ==
    ASSUME TypeOK, IdleInv, [Next]_vars
    PROVE  IdleInv'
BY Started, Zenon DEF IdleInv

(* What OnceInv says of one once-registration, by membership in the table.    *)
FateOf(l) ==
    /\ ~(Live(l) /\ l \in undone)
    /\ ~Contains(order, l) => Untaken(l) /\ l \notin undone
    /\ Contains(order, l) /\ (Live(l) \/ l \in undone) => Untaken(l)
    /\ Contains(order, l) /\ ~Live(l) /\ l \notin undone => \E d \in Dispatch : TakenBy(l, d)

(* OnceInv, one registration at a time.                                       *)
LEMMA OnceByMembership ==
    ASSUME order \in Seq(Listener), TableInv, once \subseteq Listener
    PROVE  OnceInv <=> \A l \in once : FateOf(l)
<1>1. \A l : l \in ToSet(order) <=> Contains(order, l)
  BY ContainsIsRange, Zenon
<1>2. \A l \in once : Live(l) => Contains(order, l)
  BY Zenon DEF TableInv
<1> QED BY <1>1, <1>2, Zenon DEF OnceInv, OnceHasOneFate, FateOf

(* What a step that neither claims nor calls a listener leaves of its fate.   *)
LEMMA NotTaken ==
    ASSUME TypeOK, TableInv, IdleInv, [Next]_vars, NEW m \in Listener,
           calls'[m] = calls[m], \A e \in Dispatch : m \in taken'[e] <=> m \in taken[e]
    PROVE  /\ Untaken(m) => Untaken(m)'
           /\ \A d \in Dispatch : TakenBy(m, d) => TakenBy(m, d)'
<1>1. ASSUME NEW d \in Dispatch, m \in taken[d], m \in failed[d] PROVE m \in failed'[d]
  <2>1. at[d] # "idle"
    BY <1>1, Zenon DEF IdleInv
  <2> QED BY <1>1, <2>1, Started, Zenon
<1>2. mode' = mode
  BY TableMoves, Zenon
<1> QED BY <1>1, <1>2, Zenon DEF Untaken, TakenBy

(* Every step keeps the one fate of a once-registration: the undo and the     *)
(* claim take it out of the table in the step that settles it.                *)
LEMMA OnceStep ==
    ASSUME TypeOK, TypeOK', TableInv, IdleInv, OnceInv, [Next]_vars
    PROVE  OnceInv'
<1>0. /\ order \in Seq(Listener) /\ table \in Seq(Listener) /\ order' \in Seq(Listener)
      /\ once \subseteq Listener /\ taken \in [Dispatch -> SUBSET Listener]
      /\ once' = once /\ mode' = mode
  BY TableMoves, Zenon DEF TypeOK
<1>was. \A l \in once : FateOf(l)
  BY <1>0, OnceByMembership, Zenon
<1>same. ASSUME NEW m \in once, calls'[m] = calls[m],
                \A e \in Dispatch : m \in taken'[e] <=> m \in taken[e]
         PROVE  /\ Untaken(m) => Untaken(m)'
                /\ (\E d \in Dispatch : TakenBy(m, d)) => \E d \in Dispatch : TakenBy(m, d)'
  BY <1>0, <1>same, NotTaken, Zenon
<1>1. ASSUME UNCHANGED <<order, table, undone, calls, taken>>, NEW m \in once PROVE FateOf(m)'
  BY <1>1, <1>was, <1>same, Zenon DEF FateOf, Live
<1>2. ASSUME NEW l \in Listener, Listen(l), NEW m \in once PROVE FateOf(m)'
  <2>1. /\ order' = Append(order, l) /\ table' = Append(table, l) /\ ~Contains(order, l)
        /\ calls' = calls /\ undone' = undone /\ taken' = taken
    BY <1>2, Zenon DEF Listen, walkVars
  <2>2. Contains(order', m) <=> Contains(order, m) \/ m = l
    BY <1>0, <2>1, ContainsAppend
  <2>3. Live(m)' <=> Live(m) \/ m = l
    BY <1>0, <2>1, ContainsAppend DEF Live
  <2>4. Live(m) => Contains(order, m)
    BY <1>0, Zenon DEF TableInv
  <2>5. /\ Untaken(m) => Untaken(m)'
        /\ (\E d \in Dispatch : TakenBy(m, d)) => \E d \in Dispatch : TakenBy(m, d)'
    BY <1>same, <2>1, Zenon
  <2> QED BY <1>was, <2>1, <2>2, <2>3, <2>4, <2>5, Zenon DEF FateOf
<1>3. ASSUME NEW l \in Listener, Withdraw(l), NEW m \in once PROVE FateOf(m)'
  <2>1. /\ order' = order /\ table' = Without(l) /\ Live(l)
        /\ calls' = calls /\ undone' = undone \union {l} /\ taken' = taken
    BY <1>3, Zenon DEF Withdraw, walkVars
  <2>2. Live(m)' <=> Live(m) /\ m # l
    BY <1>0, <1>3, <2>1, WithoutFacts, Zenon DEF Live
  <2>3. Contains(order, l)
    BY <2>1, Zenon DEF TableInv
  <2>4. m \in undone' <=> m \in undone \/ m = l
    BY <2>1, Zenon
  <2>5. /\ Untaken(m) => Untaken(m)'
        /\ (\E d \in Dispatch : TakenBy(m, d)) => \E d \in Dispatch : TakenBy(m, d)'
    BY <1>same, <2>1, Zenon
  <2>6. Contains(order, m)' <=> Contains(order, m)
    BY <2>1, Zenon
  <2> QED BY <1>was, <2>1, <2>2, <2>3, <2>4, <2>5, <2>6, Zenon DEF FateOf
<1>4. ASSUME NEW d \in Dispatch, todo[d] # <<>>, Claim(d), Delivers(d), order' = order,
             undone' = undone, NEW m \in once
      PROVE  FateOf(m)'
  <2>1. PICK l \in Listener :
        /\ l = Next1(d)
        /\ taken' = [taken EXCEPT ![d] = taken[d] \union {l}]
        /\ l \in once => table' = Without(l) /\ Live(l)
        /\ l \notin once => table' = table
    BY <1>4, ClaimFacts, Zenon
  <2>2. \/ calls'[l] = calls[l] + 1 /\ \A x \in Listener : x # l => calls'[x] = calls[x]
        \/ calls' = calls /\ Fails(d, l) /\ mode # "Parallel"
    BY <1>4, <2>1, CalledFacts, Zenon DEF Delivers
  <2>3. ASSUME m # l
        PROVE  /\ Untaken(m) => Untaken(m)'
               /\ (\E e \in Dispatch : TakenBy(m, e)) => \E e \in Dispatch : TakenBy(m, e)'
    <3>1. calls'[m] = calls[m] /\ \A e \in Dispatch : m \in taken'[e] <=> m \in taken[e]
      BY <1>0, <2>1, <2>2, <2>3, Zenon
    <3> QED BY <1>same, <3>1, Zenon
  <2>4. CASE l \notin once
    <3>1. m # l /\ (Live(m)' <=> Live(m))
      BY <1>4, <2>1, <2>4, Zenon DEF Live
    <3> QED BY <1>4, <1>was, <2>3, <3>1, Zenon DEF FateOf
  <2>5. CASE l \in once
    <3>1. Live(l) /\ Contains(order, l)
      BY <2>1, <2>5, Zenon DEF TableInv
    <3>2. Live(m)' <=> Live(m) /\ m # l
      <4>1. \A x \in Listener : Contains(Without(l), x) <=> Live(x) /\ x # l
        BY <2>1, <3>1, WithoutFacts, Zenon
      <4>2. m \in Listener /\ table' = Without(l)
        BY <1>0, <1>4, <2>1, <2>5, Zenon
      <4> QED BY <4>1, <4>2, Zenon DEF Live
    <3>3. Untaken(l) /\ l \notin undone
      BY <1>was, <2>5, <3>1, Zenon DEF FateOf
    <3>4. TakenBy(l, d)'
      <4>1. \A e \in Dispatch : l \in taken'[e] <=> e = d
        BY <1>0, <2>1, <3>3, Zenon DEF Untaken
      <4>2. calls[l] = 0
        BY <3>3, Zenon DEF Untaken
      <4>3. CASE calls'[l] = calls[l] + 1
        <5>1. calls'[l] = 1
          BY <4>2, <4>3
        <5> QED BY <4>1, <5>1, Zenon DEF TakenBy
      <4>4. CASE calls' = calls /\ Fails(d, l) /\ mode # "Parallel"
        <5>1. l \in failed'[d]
          BY <1>4, <4>4, Zenon DEF Fails, TypeOK
        <5> QED BY <1>0, <4>1, <4>2, <4>4, <5>1, Zenon DEF TakenBy
      <4> QED BY <2>2, <4>3, <4>4, Zenon
    <3>5. CASE m # l
      BY <1>4, <1>was, <2>3, <3>2, <3>5, Zenon DEF FateOf
    <3>6. CASE m = l
      BY <1>4, <3>1, <3>2, <3>3, <3>4, <3>6, Zenon DEF FateOf
    <3> QED BY <3>5, <3>6
  <2> QED BY <2>4, <2>5
<1>5. \A m \in once : FateOf(m)'
  BY <1>1, <1>2, <1>3, <1>4, TableMoves, Zenon
<1>6. \A m \in once' : FateOf(m)'
  BY <1>0, <1>5, Zenon
<1>7. (order \in Seq(Listener) /\ TableInv /\ once \subseteq Listener
         => (OnceInv <=> \A l \in once : FateOf(l)))'
  BY OnceByMembership, PTL
<1>8. TableInv' /\ once' \subseteq Listener
  BY <1>0, TableStep, Zenon
<1> QED BY <1>0, <1>6, <1>7, <1>8, Zenon

-----------------------------------------------------------------------------
(* The collecting walks. *)

(* A walk keeps its promise over a step that loses no listener it holds: what *)
(* was consumed before the walk or by another stays consumed, because a       *)
(* registration that was made and is gone is never made again.                *)
LEMMA HoldsOn ==
    ASSUME TypeOK, TableInv, HeardInv, [Next]_vars, NEW d \in Dispatch,
           selected'[d] = selected[d],
           at[d] = "dropped" => at'[d] = "dropped",
           Collects =>
             /\ \A l \in Listener : Beyond(d, l) => Beyond(d, l)'
             /\ \A l \in Listener : Contains(todo[d], l) =>
                    Contains(todo[d], l)' \/ Beyond(d, l)' \/ Elsewhere(d, l)
             /\ \A l \in taken'[d] : l \notin taken[d] => Beyond(d, l)' /\ ~Consumed(l),
           Collects /\ at'[d] = "done" => todo'[d] = <<>> /\ tasks'[d] = <<>>
    PROVE  HeardOf(d)'
<1>0. once' = once /\ mode' = mode
  BY TableMoves, Zenon
<1>1. HeardOf(d)
  BY Zenon DEF HeardInv
<1>2. \A l \in Listener : Contains(order, l) => Contains(order, l)'
  BY TableStep, Zenon
<1>3. \A l \in Listener : Contains(order, l) /\ Consumed(l) => Consumed(l)'
  BY <1>0, TableStep, Zenon DEF Consumed
<1>4. taken \in [Dispatch -> SUBSET Listener]
  BY Zenon DEF TypeOK
<1>5. Collects => \A l \in Listener :
        Contains(order, l) /\ Elsewhere(d, l) => Elsewhere(d, l)'
  BY <1>3, Zenon DEF Elsewhere
<1>6. Collects => \A l \in Listener : Held(d, l) => Held(d, l)' \/ Elsewhere(d, l)
  BY Zenon DEF Held
<1>7. Collects /\ at'[d] # "dropped" => \A l \in taken'[d] : Beyond(d, l)'
  BY <1>1, <1>4, Zenon DEF HeardOf
<1>8. Collects /\ at'[d] # "dropped" =>
        \A l \in Listener : Contains(selected[d], l) => Held(d, l)' \/ Elsewhere(d, l)'
  BY <1>1, <1>5, <1>6, Zenon DEF HeardOf
<1> QED BY <1>0, <1>1, <1>2, <1>7, <1>8, Zenon DEF HeardOf, Collects

(* A dispatch that a step does not touch.                                     *)
LEMMA Untouched ==
    ASSUME TypeOK, TableInv, HeardInv, [Next]_vars, NEW d \in Dispatch,
           selected'[d] = selected[d], at'[d] = at[d], todo'[d] = todo[d],
           current'[d] = current[d], tasks'[d] = tasks[d], outputs'[d] = outputs[d],
           failed'[d] = failed[d], taken'[d] = taken[d]
    PROVE  HeardOf(d)'
<1>1. mode' = mode /\ HeardOf(d)
  BY TableMoves, Zenon DEF HeardInv
<1>2. Collects /\ at'[d] = "done" => todo'[d] = <<>> /\ tasks'[d] = <<>>
  BY <1>1, Zenon DEF HeardOf
<1>3. \A l \in Listener : /\ Beyond(d, l) => Beyond(d, l)'
                          /\ Contains(todo[d], l) => Contains(todo[d], l)'
  BY Zenon DEF Beyond
<1>4. \A l \in taken'[d] : l \in taken[d]
  OBVIOUS
<1>5. at[d] = "dropped" => at'[d] = "dropped"
  OBVIOUS
<1>6. Collects =>
        /\ \A l \in Listener : Beyond(d, l) => Beyond(d, l)'
        /\ \A l \in Listener : Contains(todo[d], l) =>
               Contains(todo[d], l)' \/ Beyond(d, l)' \/ Elsewhere(d, l)
        /\ \A l \in taken'[d] : l \notin taken[d] => Beyond(d, l)' /\ ~Consumed(l)
  BY <1>3, <1>4, Zenon
<1> QED BY <1>2, <1>5, <1>6, HoldsOn

(* Every step keeps what a collecting walk holds: a listener moves from the   *)
(* selections to a call or a task and from there to the report, and only a    *)
(* claim that found it consumed lets it go.                                   *)
LEMMA HeardStep ==
    ASSUME TypeOK, TypeOK', TableInv, IdleInv, HeardInv, [Next]_vars
    PROVE  HeardInv'
<1> SUFFICES ASSUME NEW d \in Dispatch PROVE HeardOf(d)'
  BY Zenon DEF HeardInv
<1>0. /\ at \in [Dispatch -> {"idle", "walking", "calling", "done", "dropped"}]
      /\ selected \in [Dispatch -> Seq(Listener)] /\ todo \in [Dispatch -> Seq(Listener)]
      /\ current \in [Dispatch -> Listener \union {None}]
      /\ tasks \in [Dispatch -> Seq(Task)] /\ outputs \in [Dispatch -> Seq(Listener)]
      /\ failed \in [Dispatch -> SUBSET Listener] /\ taken \in [Dispatch -> SUBSET Listener]
      /\ table \in Seq(Listener)
      /\ at[d] = "calling" <=> current[d] # None
  BY Zenon DEF TypeOK
<1>head. todo[d] # <<>> =>
           /\ Next1(d) \in Listener
           /\ \A l : Contains(todo[d], l) <=> Contains(Tail(todo[d]), l) \/ l = Next1(d)
  <2>1. todo[d] \in Seq(Listener)
    BY <1>0, Zenon
  <2>2. todo[d] # <<>> => Head(todo[d]) \in Listener
    BY <2>1
  <2> QED BY <2>1, <2>2, ContainsTail, Zenon DEF Next1
<1>mode. mode' = mode
  BY TableMoves, Zenon
<1>1. ASSUME NEW kept \in SUBSET ToSet(table), NEW panics \in SUBSET ToSet(table),
             Start(d, kept, panics)
      PROVE  HeardOf(d)'
  <2> DEFINE sel == Select(table, kept)
  <2>1. selected'[d] = sel /\ todo'[d] = sel /\ at'[d] = "walking" /\ order' = order
    BY <1>0, <1>1, Zenon DEF Start, tableVars
  <2>2. sel \in Seq(Listener) /\ ToSet(sel) \subseteq ToSet(table)
    <3>1. table \in Seq(Listener)
      BY <1>0, Zenon
    <3>2. Select(table, kept) \in Seq(Listener) /\ ToSet(Select(table, kept)) = ToSet(table) \intersect kept
      BY <3>1, SelectRange, Zenon
    <3> HIDE DEF sel
    <3>3. sel \in Seq(Listener) /\ ToSet(sel) = ToSet(table) \intersect kept
      BY <3>2, Zenon DEF sel
    <3> QED BY <3>3, Zenon
  <2> HIDE DEF sel
  <2>3. \A l : Contains(sel, l) => Contains(table, l)
    BY <1>0, <2>2, ContainsIsRange, Zenon
  <2>4. \A l \in Listener : Contains(sel, l) => Contains(order, l)
    BY <2>3, Zenon DEF TableInv, Live
  <2>5. "walking" # "done"
    OBVIOUS
  <2>6. taken'[d] = {}
    BY <1>1, Zenon DEF Start, IdleInv
  <2> QED BY <2>1, <2>4, <2>5, <2>6, Zenon DEF HeardOf, Held
<1>2. ASSUME Skip(d) PROVE HeardOf(d)'
  <2>1. /\ todo[d] # <<>> /\ Consumed(Next1(d)) /\ todo'[d] = Tail(todo[d])
        /\ at[d] = "walking"
        /\ UNCHANGED <<selected, at, taken, current, tasks, outputs, failed>>
    BY <1>0, <1>2, Zenon DEF Skip
  <2>4. \A l \in Listener : Beyond(d, l) => Beyond(d, l)'
    BY <2>1, Zenon DEF Beyond
  <2>5. Collects /\ Next1(d) \in taken[d] => Beyond(d, Next1(d))
    <3>1. HeardOf(d) /\ at[d] # "dropped"
      BY <2>1 DEF HeardInv
    <3> QED BY <3>1, Zenon DEF HeardOf
  <2>2. Collects => \A l \in Listener : Contains(todo[d], l) =>
                       Contains(todo[d], l)' \/ Beyond(d, l)' \/ Elsewhere(d, l)
    BY <1>head, <2>1, <2>4, <2>5, Zenon DEF Elsewhere
  <2>3. at'[d] # "done" /\ at[d] # "dropped"
    BY <2>1
  <2> QED BY <2>1, <2>2, <2>3, <2>4, HoldsOn, Zenon
<1>claim. ASSUME todo[d] # <<>>, Claim(d)
          PROVE  /\ todo'[d] = Tail(todo[d]) /\ ~Consumed(Next1(d))
                 /\ \A l \in taken'[d] : l \in taken[d] \/ l = Next1(d)
  BY <1>0, <1>claim, Zenon DEF Claim, Takes
<1>3. ASSUME Call(d) PROVE HeardOf(d)'
  <2>1. /\ todo[d] # <<>> /\ current'[d] = Next1(d)
        /\ at[d] = "walking" /\ at'[d] = "calling"
        /\ UNCHANGED <<selected, tasks, outputs, failed>>
    BY <1>0, <1>3, Zenon DEF Call
  <2>2. current[d] = None
    BY <1>0, <2>1
  <2>3. \A l \in Listener : current[d] # l
    BY <2>2, BusConstants, Zenon
  <2>c. /\ todo'[d] = Tail(todo[d]) /\ ~Consumed(Next1(d))
        /\ \A l \in taken'[d] : l \in taken[d] \/ l = Next1(d)
    BY <1>3, <1>claim, Zenon DEF Call
  <2>4. /\ \A l \in Listener : Beyond(d, l) => Beyond(d, l)'
        /\ \A l : l = Next1(d) => Beyond(d, l)'
    BY <2>1, <2>3, Zenon DEF Beyond
  <2>9. \A l \in Listener : Contains(todo[d], l) => Contains(todo[d], l)' \/ Beyond(d, l)'
    BY <1>head, <2>1, <2>c, <2>4, Zenon
  <2>5. at'[d] # "done" /\ at[d] # "dropped"
    BY <2>1
  <2> QED BY <2>1, <2>4, <2>5, <2>9, <2>c, HoldsOn, Zenon
<1>14. ASSUME ClonePanics(d) PROVE HeardOf(d)'
  <2>1. /\ todo[d] # <<>> /\ at[d] = "walking"
        /\ failed'[d] = failed[d] \union {Next1(d)}
        /\ UNCHANGED <<selected, at, current, tasks, outputs>>
    BY <1>0, <1>14, Zenon DEF ClonePanics, Fails
  <2>c. /\ todo'[d] = Tail(todo[d]) /\ ~Consumed(Next1(d))
        /\ \A l \in taken'[d] : l \in taken[d] \/ l = Next1(d)
    BY <1>14, <1>claim, Zenon DEF ClonePanics
  <2>4. /\ \A l \in Listener : Beyond(d, l) => Beyond(d, l)'
        /\ \A l : l = Next1(d) => Beyond(d, l)'
    BY <2>1, Zenon DEF Beyond
  <2>9. \A l \in Listener : Contains(todo[d], l) => Contains(todo[d], l)' \/ Beyond(d, l)'
    BY <1>head, <2>1, <2>c, <2>4, Zenon
  <2>5. at'[d] # "done" /\ at[d] # "dropped"
    BY <2>1
  <2> QED BY <2>1, <2>4, <2>5, <2>9, <2>c, HoldsOn, Zenon
<1>4. ASSUME CloneFails(d) PROVE HeardOf(d)'
  <2>1. /\ todo[d] # <<>> /\ todo'[d] = Tail(todo[d]) /\ at[d] = "walking"
        /\ failed'[d] = failed[d] \union {Next1(d)}
        /\ UNCHANGED <<selected, at, taken, current, tasks, outputs>>
    BY <1>0, <1>4, Zenon DEF CloneFails, Fails
  <2>2. /\ \A l \in Listener : Beyond(d, l) => Beyond(d, l)'
        /\ \A l : l = Next1(d) => Beyond(d, l)'
    BY <2>1, Zenon DEF Beyond
  <2>9. \A l \in Listener : Contains(todo[d], l) => Contains(todo[d], l)' \/ Beyond(d, l)'
    BY <1>head, <2>1, <2>2, Zenon
  <2>3. at'[d] # "done" /\ at[d] # "dropped"
    BY <2>1
  <2> QED BY <2>1, <2>2, <2>3, <2>9, HoldsOn, Zenon
<1>5. ASSUME SpawnTask(d) PROVE HeardOf(d)'
  <2> DEFINE new == [listener |-> Next1(d), state |-> "running"]
  <2>1. /\ todo[d] # <<>> /\ at[d] = "walking"
        /\ tasks'[d] = Append(tasks[d], new)
        /\ UNCHANGED <<selected, at, current, outputs, failed>>
    BY <1>0, <1>5, Zenon DEF SpawnTask
  <2>2. new.listener = Next1(d)
    OBVIOUS
  <2>3. tasks[d] \in Seq(Task)
    BY <1>0, Zenon
  <2> HIDE DEF new
  <2>4. /\ \A i \in DOMAIN tasks[d] : i \in DOMAIN tasks'[d] /\ tasks'[d][i] = tasks[d][i]
        /\ \E i \in DOMAIN tasks'[d] : tasks'[d][i] = new
    <3>1. /\ DOMAIN tasks[d] = 1..Len(tasks[d]) /\ Len(tasks[d]) \in Nat
          /\ DOMAIN tasks'[d] = 1..(Len(tasks[d]) + 1)
          /\ \A i \in 1..Len(tasks[d]) : tasks'[d][i] = tasks[d][i]
          /\ tasks'[d][Len(tasks[d]) + 1] = new
      BY <2>1, <2>3
    <3>2. /\ Len(tasks[d]) + 1 \in 1..(Len(tasks[d]) + 1)
          /\ \A i \in 1..Len(tasks[d]) : i \in 1..(Len(tasks[d]) + 1)
      BY <3>1
    <3> QED BY <3>1, <3>2, Zenon
  <2>c. /\ todo'[d] = Tail(todo[d]) /\ ~Consumed(Next1(d))
        /\ \A l \in taken'[d] : l \in taken[d] \/ l = Next1(d)
    BY <1>5, <1>claim, Zenon DEF SpawnTask
  <2>5. /\ \A l \in Listener : Beyond(d, l) => Beyond(d, l)'
        /\ \A l : l = Next1(d) => Beyond(d, l)'
    BY <2>1, <2>2, <2>4, Zenon DEF Beyond
  <2>9. \A l \in Listener : Contains(todo[d], l) => Contains(todo[d], l)' \/ Beyond(d, l)'
    BY <1>head, <2>1, <2>c, <2>5, Zenon
  <2>6. at'[d] # "done" /\ at[d] # "dropped"
    BY <2>1
  <2> QED BY <2>1, <2>5, <2>6, <2>9, <2>c, HoldsOn, Zenon
<1>6. ASSUME Gather(d) PROVE HeardOf(d)'
  <2> DEFINE task == Head(tasks[d])
             l0 == task.listener
  <2>1. /\ tasks[d] # <<>> /\ tasks'[d] = Tail(tasks[d]) /\ at[d] = "walking"
        /\ UNCHANGED <<selected, at, taken, current, todo>>
        /\ \/ outputs'[d] = Append(outputs[d], l0) /\ failed' = failed
           \/ failed'[d] = failed[d] \union {l0} /\ outputs' = outputs
    BY <1>0, <1>6, Zenon DEF Gather, Yields, Fails
  <2>2. tasks[d] \in Seq(Task) /\ outputs[d] \in Seq(Listener)
    BY <1>0, Zenon
  <2>3. l0 \in Listener
    <3>1. Head(tasks[d]) \in Task
      BY <2>1, <2>2
    <3> QED BY <3>1, Zenon DEF Task
  <2>4. \A i \in DOMAIN tasks[d] :
          tasks[d][i] = task \/ \E j \in DOMAIN tasks'[d] : tasks'[d][j] = tasks[d][i]
    <3>1. /\ DOMAIN tasks[d] = 1..Len(tasks[d]) /\ Len(tasks[d]) \in Nat
          /\ DOMAIN Tail(tasks[d]) = 1..(Len(tasks[d]) - 1)
          /\ \A j \in 1..(Len(tasks[d]) - 1) : Tail(tasks[d])[j] = tasks[d][j + 1]
          /\ task = tasks[d][1]
      BY <2>1, <2>2
    <3>2. ASSUME NEW i \in 1..Len(tasks[d]), i # 1
          PROVE  i - 1 \in 1..(Len(tasks[d]) - 1) /\ (i - 1) + 1 = i
      BY <3>1, <3>2
    <3> SUFFICES ASSUME NEW i \in 1..Len(tasks[d]), i # 1
                 PROVE  \E j \in DOMAIN tasks'[d] : tasks'[d][j] = tasks[d][i]
      BY <3>1, Zenon
    <3>3. i - 1 \in 1..(Len(tasks[d]) - 1) /\ (i - 1) + 1 = i
      BY <3>2, Zenon
    <3>4. Tail(tasks[d])[i - 1] = tasks[d][(i - 1) + 1]
      BY <3>1, <3>3, Zenon
    <3>5. i - 1 \in DOMAIN tasks'[d] /\ tasks'[d][i - 1] = tasks[d][i]
      BY <2>1, <3>1, <3>3, <3>4, Zenon
    <3> QED BY <3>5, Zenon
  <2>5. l0 = task.listener
    OBVIOUS
  <2> HIDE DEF l0, task
  <2>6. \A l : Contains(Append(outputs[d], l0), l) <=> Contains(outputs[d], l) \/ l = l0
    BY <2>2, <2>3, ContainsAppend, Zenon
  <2>7. ASSUME NEW l \in Listener, Beyond(d, l) PROVE Beyond(d, l)'
    <3>1. CASE l = l0
      BY <2>1, <2>6, <3>1, Zenon DEF Beyond
    <3>2. CASE l # l0
      <4>1. /\ Contains(outputs[d], l) => Contains(outputs'[d], l)
            /\ l \in failed[d] => l \in failed'[d]
        BY <2>1, <2>6, Zenon
      <4>2. (\E i \in DOMAIN tasks[d] : tasks[d][i].listener = l)
              => \E j \in DOMAIN tasks'[d] : tasks'[d][j].listener = l
        BY <2>4, <2>5, <3>2, Zenon
      <4>3. current' = current
        BY <2>1, Zenon
      <4> QED BY <2>7, <4>1, <4>2, <4>3, Zenon DEF Beyond
    <3> QED BY <3>1, <3>2
  <2>8. at'[d] # "done" /\ at[d] # "dropped"
    BY <2>1
  <2> QED BY <2>1, <2>7, <2>8, HoldsOn, Zenon
<1>7. ASSUME Finish(d) PROVE HeardOf(d)'
  <2>1. /\ todo[d] = <<>> /\ tasks[d] = <<>> /\ at[d] = "walking"
        /\ UNCHANGED <<selected, todo, taken, current, tasks, outputs, failed>>
    BY <1>7, Zenon DEF Finish, walkVars
  <2>2. \A l \in Listener : Beyond(d, l) => Beyond(d, l)'
    BY <2>1, Zenon DEF Beyond
  <2>3. at[d] # "dropped" /\ todo'[d] = <<>> /\ tasks'[d] = <<>>
    BY <2>1
  <2> QED BY <2>1, <2>2, <2>3, HoldsOn, Zenon
<1>8. ASSUME Settles(d, "walking"), todo' = todo,
             \/ outputs'[d] = Append(outputs[d], current[d]) /\ failed' = failed
             \/ failed'[d] = failed[d] \union {current[d]} /\ outputs' = outputs
      PROVE  HeardOf(d)'
  <2>1. /\ at[d] = "calling" /\ at'[d] = "walking" /\ UNCHANGED <<selected, taken, tasks>>
    BY <1>0, <1>8, Zenon DEF Settles
  <2>2. current[d] \in Listener /\ outputs[d] \in Seq(Listener)
    BY <1>0, <2>1, Zenon
  <2>3. \A l : Contains(Append(outputs[d], current[d]), l)
                 <=> Contains(outputs[d], l) \/ l = current[d]
    BY <2>2, ContainsAppend, Zenon
  <2>4. \A l \in Listener : Beyond(d, l) => Beyond(d, l)'
    BY <1>8, <2>1, <2>3, Zenon DEF Beyond
  <2>5. at'[d] # "done" /\ at[d] # "dropped"
    BY <2>1
  <2> QED BY <1>8, <2>1, <2>4, <2>5, HoldsOn, Zenon
<1>9. ASSUME Errs(d) \/ Answers(d), Collects PROVE HeardOf(d)'
  <2>1. mode # "Emit"
    BY <1>9 DEF Collects
  <2> QED BY <1>0, <1>8, <1>9, <2>1, Zenon DEF Errs, Answers, Fails, Yields
<1>10. ASSUME Settled(d), ~Collects PROVE HeardOf(d)'
  <2>1. selected' = selected
    BY <1>10, Zenon DEF Settled, Errs, Answers, Judged, Absorbed, Settles, TaskEnds
  <2>2. at[d] = "dropped" => at'[d] = "dropped"
    <3>1. (at[d] = "calling") \/ at' = at
      BY <1>10, Zenon DEF Settled, Errs, Answers, Judged, Absorbed, Settles, TaskEnds
    <3> QED BY <3>1
  <2> QED BY <1>10, <2>1, <2>2, HoldsOn, Zenon
<1>11. ASSUME NEW i \in DOMAIN tasks[d], NEW state, TaskEnds(d, i, state) PROVE HeardOf(d)'
  <2>1. /\ UNCHANGED <<selected, at, todo, taken, current, outputs, failed>>
        /\ tasks'[d] = [tasks[d] EXCEPT ![i] = [tasks[d][i] EXCEPT !.state = state]]
    BY <1>0, <1>11, Zenon DEF TaskEnds
  <2>2. tasks[d] \in Seq(Task) /\ tasks[d][i] \in Task
    BY <1>0
  <2>3. DOMAIN tasks'[d] = DOMAIN tasks[d]
    BY <2>1, <2>2
  <2>4. \A j \in DOMAIN tasks[d] : tasks'[d][j].listener = tasks[d][j].listener
    <3>1. [tasks[d][i] EXCEPT !.state = state].listener = tasks[d][i].listener
      BY <2>2, Zenon DEF Task
    <3> QED BY <2>1, <2>2, <3>1
  <2>5. \A l \in Listener : Beyond(d, l) => Beyond(d, l)'
    BY <2>1, <2>3, <2>4, Zenon DEF Beyond
  <2>6. HeardOf(d) /\ (tasks[d] = <<>> => FALSE)
    BY <1>11, <2>2 DEF HeardInv
  <2>7. Collects => at[d] # "done"
    BY <2>6, Zenon DEF HeardOf
  <2> QED BY <2>1, <2>5, <2>7, HoldsOn, Zenon
<1>12. ASSUME DropDispatch(d) PROVE HeardOf(d)'
  <2>1. at'[d] = "dropped" /\ selected' = selected /\ order' = order
    BY <1>0, <1>12, Zenon DEF DropDispatch, tableVars
  <2>2. HeardOf(d) /\ at'[d] # "done"
    BY <2>1 DEF HeardInv
  <2> QED BY <2>1, <2>2, Zenon DEF HeardOf
<1>13. ASSUME Collects, Settled(d) PROVE HeardOf(d)'
  <2>1. mode # "Bail" /\ mode # "Waterfall"
    BY <1>13 DEF Collects
  <2> QED BY <1>9, <1>11, <1>13, <2>1, Zenon DEF Settled, Judged, Absorbed
<1> QED BY <1>1, <1>2, <1>3, <1>4, <1>5, <1>6, <1>7, <1>10, <1>12, <1>13, <1>14,
           StepOf, Untouched, Zenon DEF Advance

-----------------------------------------------------------------------------
(* The theorems. *)

BusInv == TypeOK /\ TableInv /\ IdleInv /\ OnceInv /\ HeardInv

(* The bus invariant, over every behaviour of the bus.                        *)
LEMMA BusInvariant == Spec => []BusInv
<1>1. Init => BusInv
  BY BusInit, Zenon DEF BusInv
<1>2. BusInv /\ [Next]_vars => BusInv'
  <2> SUFFICES ASSUME BusInv, [Next]_vars PROVE BusInv'
    OBVIOUS
  <2>1. TypeOK /\ TableInv /\ IdleInv /\ OnceInv /\ HeardInv
    BY Zenon DEF BusInv
  <2>2. TypeOK'
    BY <2>1, TypeStep, Zenon
  <2> QED BY <2>1, <2>2, TableStep, IdleStep, OnceStep, HeardStep, Zenon DEF BusInv
<1> QED BY <1>1, <1>2, PTL DEF Spec

(* The variables of the bus keep their types; a dispatch has a listener in    *)
(* its hand exactly while it calls one (ListenerTable, dispatch.rs).          *)
THEOREM BusTypes == Spec => []TypeOK
BY BusInvariant, PTL DEF BusInv

(* A once-registration that was made is live, or its undo removed it and no   *)
(* dispatch took it, or exactly one of all concurrent dispatches took it and  *)
(* called it once or, outside Parallel, reports that the payload's clone      *)
(* panicked: the claim and the undo take it out of the one table              *)
(* (dispatch.rs, claim; ListenerTable::remove).                               *)
THEOREM OnceOneFate == Spec => []OnceHasOneFate
<1>1. BusInv => OnceHasOneFate
  BY Zenon DEF BusInv, OnceInv
<1> QED BY <1>1, BusInvariant, PTL

(* A serial or parallel dispatch that is done has an output or a failure for  *)
(* every listener its payload selected, except a once-registration that the   *)
(* dispatch did not claim because it was gone, whatever registered, was       *)
(* removed or panicked meanwhile (no abort, R9).                              *)
THEOREM EveryoneHeard == Spec => []EveryoneIsHeard
<1>1. BusInv => EveryoneIsHeard
  <2> SUFFICES ASSUME BusInv, NEW d \in Dispatch, at[d] = "done", Collects,
                      NEW l \in ToSet(selected[d])
               PROVE  l \in ToSet(outputs[d]) \union failed[d] \/ Elsewhere(d, l)
    BY Zenon DEF EveryoneIsHeard, Collects
  <2>0. TypeOK /\ HeardOf(d)
    BY Zenon DEF BusInv, HeardInv
  <2>1. /\ selected[d] \in Seq(Listener) /\ outputs[d] \in Seq(Listener)
        /\ (at[d] = "calling" <=> current[d] # None)
    BY <2>0, Zenon DEF TypeOK
  <2>2. l \in Listener
    BY <2>1 DEF ToSet
  <2>3. current[d] # l
    BY <2>1, <2>2, BusConstants
  <2>4. Contains(selected[d], l)
    BY <2>1, ContainsIsRange, Zenon
  <2>5. todo[d] = <<>> /\ tasks[d] = <<>>
    BY <2>0, Zenon DEF HeardOf
  <2>6. Held(d, l) \/ Elsewhere(d, l)
    <3>1. at[d] # "dropped"
      OBVIOUS
    <3> QED BY <2>0, <2>2, <2>4, <3>1, Zenon DEF HeardOf
  <2>7. ~Contains(<<>>, l) /\ DOMAIN tasks[d] = {}
    BY <2>5 DEF Contains
  <2>8. Held(d, l) => Contains(outputs[d], l) \/ l \in failed[d]
    BY <2>3, <2>5, <2>7, Zenon DEF Held, Beyond
  <2>9. Contains(outputs[d], l) => l \in ToSet(outputs[d])
    BY <2>1, ContainsIsRange, Zenon
  <2> QED BY <2>6, <2>8, <2>9, Zenon
<1> QED BY <1>1, BusInvariant, PTL

=============================================================================
