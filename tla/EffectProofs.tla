---------------------------- MODULE EffectProofs ----------------------------
(***************************************************************************)
(* What is owed and left behind, for every value of the constants, in the   *)
(* parts of MCEffects. One scope: an inverse has one fate, the teardown     *)
(* keeps its order over all its interruptions, and a clean report is exact. *)
(* Outbound calls and retained effects: an id names one of them for ever.   *)
(* Seats: a batch is whole, and a disposal leaves nothing but strays.       *)
(***************************************************************************)
EXTENDS MCEffects, SequenceFacts

-----------------------------------------------------------------------------
(* The forest: an effect is nested under one registered before it. *)

Registration == [parent : Nat, kind : EffectKind]

Forest(tr) ==
    /\ tr \in Seq(Registration)
    /\ \A e \in 1..Len(tr) : tr[e].parent < e

(* The path of an effect, as a function of the forest.                        *)
PathIn(tr, e) ==
    LET path[x \in 0..Len(tr)] ==
            IF x = 0 THEN {} ELSE {x} \union path[tr[x].parent]
    IN  path[e]

LEMMA PathIsPathIn == \A e : Path(e) = PathIn(tree, e)
BY DEF Path, PathIn

LEMMA ForestFields ==
    ASSUME NEW tr, Forest(tr)
    PROVE  /\ Len(tr) \in Nat
           /\ \A e \in 1..Len(tr) : tr[e].parent \in Nat /\ tr[e].parent < e
                                    /\ tr[e].parent \in 0..Len(tr)
<1>1. Len(tr) \in Nat /\ \A e \in 1..Len(tr) : tr[e] \in Registration
  BY DEF Forest
<1>2. \A e \in 1..Len(tr) : tr[e].parent \in Nat /\ tr[e].parent < e
  BY <1>1 DEF Forest, Registration
<1> QED BY <1>1, <1>2

(* The rule of a path is satisfiable: applied once more, it is right about one *)
(* effect more.                                                               *)
LEMMA PathRule ==
    ASSUME NEW tr, Forest(tr)
    PROVE  /\ PathIn(tr, 0) = {}
           /\ \A e \in 1..Len(tr) : PathIn(tr, e) = {e} \union PathIn(tr, tr[e].parent)
<1> DEFINE D == 0..Len(tr)
           H(f, x) == IF x = 0 THEN {} ELSE {x} \union f[tr[x].parent]
           path == CHOOSE f : f = [x \in D |-> H(f, x)]
<1>1. \A e : PathIn(tr, e) = path[e]
  BY DEF PathIn
<1>2. /\ Len(tr) \in Nat
      /\ \A e \in 1..Len(tr) : tr[e].parent \in Nat /\ tr[e].parent < e /\ tr[e].parent \in D
  BY ForestFields
<1> DEFINE Upto(f, k) == \A x \in D : x <= k => f[x] = H(f, x)
           Some == {k \in Nat : \E f : Upto(f, k)}
<1>3. 0 \in Some
  <2> DEFINE f0 == [x \in D |-> {}]
  <2>1. Upto(f0, 0)
    BY <1>2
  <2> QED BY <2>1
<1>4. ASSUME NEW k \in Some PROVE k + 1 \in Some
  <2>1. k \in Nat
    OBVIOUS
  <2>2. PICK f : Upto(f, k)
    OBVIOUS
  <2> DEFINE g == [x \in D |-> H(f, x)]
  <2>3. ASSUME NEW x \in D, x <= k + 1 PROVE g[x] = H(g, x)
    <3>1. CASE x = 0
      BY <3>1
    <3>2. CASE x # 0
      <4> DEFINE p == tr[x].parent
      <4>1. x \in 1..Len(tr)
        BY <1>2, <3>2
      <4>2. p \in D /\ p <= k
        BY <1>2, <2>1, <2>3, <4>1
      <4>3. g[p] = f[p]
        BY <2>2, <4>2
      <4> QED BY <3>2, <4>3
    <3> QED BY <3>1, <3>2
  <2>4. Upto(g, k + 1)
    BY <2>3
  <2> HIDE DEF g, Upto
  <2> QED BY <2>1, <2>4
<1>5. Some = Nat
  <2> HIDE DEF Some
  <2>1. Some \in SUBSET Nat
    BY DEF Some
  <2> QED BY <1>3, <1>4, <2>1, AllNaturals, Zenon
<1>6. PICK f : Upto(f, Len(tr))
  BY <1>2, <1>5
<1>7. [x \in D |-> f[x]] = [x \in D |-> H([y \in D |-> f[y]], x)]
  <2> DEFINE g == [y \in D |-> f[y]]
  <2>1. ASSUME NEW x \in D PROVE f[x] = H(g, x)
    <3>0. x <= Len(tr)
      BY <1>2
    <3>1. f[x] = H(f, x)
      BY <1>6, <3>0, Zenon
    <3>2. CASE x = 0
      BY <3>1, <3>2
    <3>3. CASE x # 0
      <4>1. tr[x].parent \in D
        BY <1>2, <3>3
      <4> QED BY <3>1, <3>3, <4>1
    <3> QED BY <3>2, <3>3
  <2> HIDE DEF H
  <2> QED BY <2>1
<1>8. path = [x \in D |-> H(path, x)]
  <2> HIDE DEF H, D
  <2> QED BY <1>7
<1> HIDE DEF path
<1>9. path[0] = {}
  BY <1>2, <1>8
<1>10. ASSUME NEW e \in 1..Len(tr) PROVE path[e] = {e} \union path[tr[e].parent]
  <2>1. e \in D /\ e # 0
    BY <1>2
  <2> QED BY <1>8, <2>1
<1> QED BY <1>1, <1>9, <1>10

(* Registering one more leaves every path as it was.                          *)
LEMMA PathGrows ==
    ASSUME NEW tr, Forest(tr), NEW grown, Forest(grown), Len(tr) <= Len(grown),
           \A e \in 1..Len(tr) : grown[e] = tr[e]
    PROVE  \A e \in 0..Len(tr) : PathIn(grown, e) = PathIn(tr, e)
<1> DEFINE Bad == {e \in 0..Len(tr) : PathIn(grown, e) # PathIn(tr, e)}
<1>1. SUFFICES ASSUME Bad # {} PROVE FALSE
  OBVIOUS
<1>2. /\ Len(tr) \in Nat /\ Len(grown) \in Nat
      /\ \A e \in 1..Len(tr) : tr[e].parent \in Nat /\ tr[e].parent < e
                               /\ tr[e].parent \in 0..Len(tr)
  BY ForestFields
<1>3. Bad \in SUBSET Nat
  BY <1>2
<1>4. PICK m \in Bad : \A n \in Bad : m <= n
  <2> HIDE DEF Bad
  <2> QED BY <1>1, <1>3, LeastExists
<1>5. m # 0
  BY PathRule
<1>6. m \in 1..Len(tr) /\ m \in 1..Len(grown)
  BY <1>2, <1>4, <1>5
<1>7. tr[m].parent \notin Bad
  <2> HIDE DEF Bad
  <2> QED BY <1>2, <1>3, <1>4, <1>6
<1>8. PathIn(grown, tr[m].parent) = PathIn(tr, tr[m].parent)
  BY <1>2, <1>6, <1>7
<1>9. PathIn(grown, m) = PathIn(tr, m)
  <2>1. PathIn(grown, m) = {m} \union PathIn(grown, grown[m].parent)
    BY <1>6, PathRule, Zenon
  <2>2. PathIn(tr, m) = {m} \union PathIn(tr, tr[m].parent)
    BY <1>6, PathRule, Zenon
  <2>3. grown[m] = tr[m]
    BY <1>6
  <2> QED BY <1>8, <2>1, <2>2, <2>3
<1> QED BY <1>4, <1>9

-----------------------------------------------------------------------------
(* Paths. *)

LEMMA PathStep ==
    ASSUME Forest(tree)
    PROVE  /\ Path(0) = {}
           /\ \A e \in Effects : Path(e) = {e} \union Path(tree[e].parent)
           /\ \A e \in Effects : /\ tree[e].parent \in Nat /\ tree[e].parent < e
                                 /\ tree[e].parent = 0 \/ tree[e].parent \in Effects
           /\ Len(tree) \in Nat /\ Effects \subseteq Nat
<1>1. Path(0) = {} /\ \A e \in Effects : Path(e) = {e} \union Path(tree[e].parent)
  BY PathRule, PathIsPathIn DEF Effects
<1>2. /\ Len(tree) \in Nat
      /\ \A e \in 1..Len(tree) : tree[e].parent \in Nat /\ tree[e].parent < e
                                 /\ tree[e].parent \in 0..Len(tree)
  BY ForestFields
<1> QED BY <1>1, <1>2 DEF Effects

(* What a path is made of: the effect itself and effects registered before it, *)
(* up to a root; no two of one level, so no two siblings.                     *)
PathSound(x) ==
    /\ x \in Path(x) /\ Path(x) \subseteq Effects
    /\ \A a \in Path(x) : a <= x
    /\ \A a \in Path(x) : tree[a].parent # 0 => tree[a].parent \in Path(x)
    /\ \A a \in Path(x) : Path(a) \subseteq Path(x)
    /\ \A a, b \in Path(x) : tree[a].parent = tree[b].parent => a = b
    /\ \A a \in Path(x) \union {0} : a # x => \E c \in Path(x) : tree[c].parent = a

LEMMA PathsSound ==
    ASSUME Forest(tree)
    PROVE  \A x \in Effects : PathSound(x)
<1> DEFINE Bad == {x \in Effects : ~PathSound(x)}
<1>1. SUFFICES ASSUME Bad # {} PROVE FALSE
  OBVIOUS
<1>2. Bad \in SUBSET Nat
  BY PathStep
<1>3. PICK m \in Bad : \A n \in Bad : m <= n
  <2> HIDE DEF Bad
  <2> QED BY <1>1, <1>2, LeastExists
<1>4. m \in Effects /\ ~PathSound(m)
  BY <1>3
<1> DEFINE p == tree[m].parent
<1>5. Path(m) = {m} \union Path(p) /\ p \in Nat /\ m \in Nat /\ p < m /\ (p = 0 \/ p \in Effects)
  BY <1>4, PathStep
<1>6. p \notin Bad
  <2> HIDE DEF Bad
  <2> QED BY <1>2, <1>3, <1>5
<1> HIDE DEF Bad
<1>7. CASE p = 0
  <2>1. Path(m) = {m}
    BY <1>5, <1>7, PathStep
  <2>2. PathSound(m)
    BY <1>4, <1>5, <1>7, <2>1 DEF PathSound
  <2> QED BY <1>4, <2>2
<1>8. CASE p \in Effects
  <2>1. PathSound(p)
    BY <1>6, <1>8 DEF Bad
  <2>2. \A a \in Path(p) : a \in Effects /\ a \in Nat /\ a <= p /\ a < m
    BY <1>5, <2>1, PathStep DEF PathSound
  <2>3. \A a \in Path(p) : tree[a].parent # p
    BY <1>5, <2>2, PathStep
  <2>4. m \in Path(m) /\ Path(m) \subseteq Effects /\ \A a \in Path(m) : a <= m
    BY <1>4, <1>5, <2>2
  <2>5. \A a \in Path(m) : tree[a].parent # 0 => tree[a].parent \in Path(m)
    BY <1>5, <2>1 DEF PathSound
  <2>6. \A a \in Path(m) : Path(a) \subseteq Path(m)
    BY <1>5, <2>1 DEF PathSound
  <2>7. \A a, b \in Path(m) : tree[a].parent = tree[b].parent => a = b
    BY <1>5, <2>1, <2>3 DEF PathSound
  <2>8. ASSUME NEW a \in Path(m) \union {0}, a # m PROVE \E c \in Path(m) : tree[c].parent = a
    <3>1. CASE a = p
      BY <2>4, <3>1
    <3>2. CASE a # p
      <4>1. a \in Path(p) \union {0}
        BY <1>5, <2>8
      <4>2. PICK c \in Path(p) : tree[c].parent = a
        BY <2>1, <3>2, <4>1 DEF PathSound
      <4> QED BY <1>5, <4>2
    <3> QED BY <3>1, <3>2
  <2>9. PathSound(m)
    BY <2>4, <2>5, <2>6, <2>7, <2>8 DEF PathSound
  <2> QED BY <1>4, <2>9
<1> QED BY <1>5, <1>7, <1>8

-----------------------------------------------------------------------------
(* What is live is a forest too: nothing in it is nested under what is gone. *)

Closed(s) == s \subseteq Effects /\ \A e \in s : tree[e].parent = 0 \/ tree[e].parent \in s

LEMMA ClosedPath ==
    ASSUME Forest(tree), NEW s, Closed(s)
    PROVE  \A x \in s : Path(x) \subseteq s
<1> DEFINE Bad == {x \in s : ~(Path(x) \subseteq s)}
<1>1. SUFFICES ASSUME Bad # {} PROVE FALSE
  OBVIOUS
<1>2. Bad \in SUBSET Nat
  BY PathStep DEF Closed
<1>3. PICK m \in Bad : \A n \in Bad : m <= n
  <2> HIDE DEF Bad
  <2> QED BY <1>1, <1>2, LeastExists
<1>4. m \in s /\ m \in Effects /\ ~(Path(m) \subseteq s)
  BY <1>3 DEF Closed
<1>5. Path(m) = {m} \union Path(tree[m].parent) /\ tree[m].parent \in Nat /\ tree[m].parent < m
  BY <1>4, PathStep
<1>6. m \in Nat
  BY <1>4, PathStep
<1>7. tree[m].parent \notin Bad
  <2> HIDE DEF Bad
  <2> QED BY <1>2, <1>3, <1>5, <1>6
<1>8. tree[m].parent = 0 \/ tree[m].parent \in s
  BY <1>4 DEF Closed
<1>9. Path(tree[m].parent) \subseteq s
  BY <1>7, <1>8, PathStep
<1> QED BY <1>4, <1>5, <1>9

(* From what encloses an effect to the effect, the next one is a live child.  *)
LEMMA OnTheWay ==
    ASSUME Forest(tree), NEW s, Closed(s), NEW x \in s, NEW e \in Path(x) \union {0}, e # x
    PROVE  \E c \in Children(s, e) : c \in Path(x)
<1>1. x \in Effects /\ Path(x) \subseteq s
  BY ClosedPath DEF Closed
<1>2. PICK c \in Path(x) : tree[c].parent = e
  BY <1>1, PathsSound DEF PathSound
<1> QED BY <1>1, <1>2 DEF Children

(* Of two branches that part at siblings, the later one goes first.           *)
LEMMA LaterBranchFirst ==
    ASSUME Forest(tree), NEW x \in Effects, NEW y \in Effects, NEW a \in Path(x), NEW b \in Path(y),
           tree[a].parent = tree[b].parent, a > b
    PROVE  Before(x, y)
<1>1. PathSound(x) /\ PathSound(y)
  BY PathsSound
<1>2. a \in Effects /\ b \in Effects
  BY <1>1 DEF PathSound
<1>3. a # b
  BY <1>2, PathStep
<1>4. a \notin Path(y) /\ b \notin Path(x)
  BY <1>1, <1>3 DEF PathSound
<1> QED BY <1>4 DEF Before

(* The last one of a level.                                                   *)
LEMMA LastFacts ==
    ASSUME Forest(tree), NEW s, s \subseteq Effects, s # {}
    PROVE  LastRegistered(s) \in s /\ \A c \in s : c <= LastRegistered(s)
<1>0. Len(tree) \in Nat /\ \A e \in Effects : e \in Nat /\ e <= Len(tree)
  BY PathStep DEF Effects
<1> DEFINE D == {Len(tree) - e : e \in s}
<1>1. D \in SUBSET Nat /\ D # {}
  BY <1>0
<1>2. PICK d \in D : \A n \in D : d <= n
  <2> HIDE DEF D
  <2> QED BY <1>1, LeastExists
<1>3. PICK e \in s : d = Len(tree) - e
  BY <1>2
<1>4. ASSUME NEW c \in s PROVE c <= e
  <2>1. Len(tree) - c \in D
    OBVIOUS
  <2>2. d <= Len(tree) - c
    BY <1>2, <2>1
  <2> QED BY <1>0, <1>3, <2>2
<1> QED BY <1>4 DEF LastRegistered

-----------------------------------------------------------------------------
(* take_next *)

(* The walk of take_next goes to later and later effects, so it ends.         *)
WalkTo(s, walk) ==
    /\ TakeNext(s) = walk[0]
    /\ \A e \in {0} \union s :
          walk[e] = IF Children(s, e) = {} THEN e ELSE walk[LastRegistered(Children(s, e))]

LEMMA ChildFacts ==
    ASSUME Forest(tree), NEW s, s \subseteq Effects, NEW e, Children(s, e) # {}
    PROVE  LET c == LastRegistered(Children(s, e))
           IN  /\ c \in s /\ tree[c].parent = e /\ c > e
               /\ \A d \in Children(s, e) : d <= c
<1> DEFINE c == LastRegistered(Children(s, e))
<1>1. Children(s, e) \subseteq Effects
  BY DEF Children
<1>2. c \in Children(s, e) /\ \A d \in Children(s, e) : d <= c
  BY <1>1, LastFacts
<1>3. c \in s /\ tree[c].parent = e
  BY <1>2 DEF Children
<1>4. c > e
  BY <1>3, PathStep
<1> QED BY <1>2, <1>3, <1>4

LEMMA WalkExists ==
    ASSUME Forest(tree), NEW s, s \subseteq Effects
    PROVE  \E walk : WalkTo(s, walk)
<1> DEFINE D == {0} \union s
           Down(e) == LastRegistered(Children(s, e))
           G(f, e) == IF Children(s, e) = {} THEN e ELSE f[Down(e)]
           walk == CHOOSE f : f = [e \in D |-> G(f, e)]
<1>1. TakeNext(s) = walk[0]
  BY DEF TakeNext
<1>0. Len(tree) \in Nat /\ \A e \in D : e \in Nat /\ e <= Len(tree)
  BY PathStep DEF Effects
<1>2. \A e \in D : Children(s, e) # {} => Down(e) \in D /\ Down(e) > e
  BY ChildFacts
<1> HIDE DEF Down
<1> DEFINE From(f, k) == \A e \in D : e + k >= Len(tree) => f[e] = G(f, e)
           Some == {k \in Nat : \E f : From(f, k)}
<1>3. 0 \in Some
  <2> DEFINE f0 == [e \in D |-> e]
  <2>1. ASSUME NEW e \in D, e + 0 >= Len(tree) PROVE f0[e] = G(f0, e)
    <3>1. Children(s, e) = {}
      <4>1. SUFFICES ASSUME Children(s, e) # {} PROVE FALSE
        OBVIOUS
      <4>2. Down(e) \in D /\ Down(e) > e
        BY <1>2, <4>1
      <4>3. e \in Nat /\ Down(e) \in Nat /\ Down(e) <= Len(tree) /\ Len(tree) \in Nat
        BY <1>0, <4>2
      <4> QED BY <2>1, <4>2, <4>3
    <3> QED BY <3>1
  <2>2. From(f0, 0)
    BY <2>1
  <2> HIDE DEF f0, From
  <2> QED BY <2>2
<1>4. ASSUME NEW k \in Some PROVE k + 1 \in Some
  <2>1. k \in Nat
    OBVIOUS
  <2>2. PICK f : From(f, k)
    OBVIOUS
  <2> DEFINE g == [e \in D |-> G(f, e)]
  <2>3. ASSUME NEW e \in D, e + (k + 1) >= Len(tree) PROVE g[e] = G(g, e)
    <3>1. CASE Children(s, e) = {}
      BY <3>1
    <3>2. CASE Children(s, e) # {}
      <4>1. Down(e) \in D /\ Down(e) > e
        BY <1>2, <3>2
      <4>2. Down(e) + k >= Len(tree)
        <5>1. e \in Nat /\ Down(e) \in Nat /\ Len(tree) \in Nat
          BY <1>0, <4>1
        <5> QED BY <2>1, <2>3, <4>1, <5>1
      <4>3. g[Down(e)] = f[Down(e)]
        BY <2>2, <4>1, <4>2
      <4> QED BY <3>2, <4>3
    <3> QED BY <3>1, <3>2
  <2>4. From(g, k + 1)
    BY <2>3
  <2> HIDE DEF g, From
  <2> QED BY <2>1, <2>4
<1>5. Some = Nat
  <2> HIDE DEF Some
  <2>1. Some \in SUBSET Nat
    BY DEF Some
  <2> QED BY <1>3, <1>4, <2>1, AllNaturals, Zenon
<1>6. PICK f : From(f, Len(tree))
  BY <1>0, <1>5
<1>7. [e \in D |-> f[e]] = [e \in D |-> G([y \in D |-> f[y]], e)]
  <2> DEFINE g == [y \in D |-> f[y]]
  <2>1. ASSUME NEW e \in D PROVE f[e] = G(g, e)
    <3>0. e + Len(tree) >= Len(tree)
      BY <1>0
    <3>1. f[e] = G(f, e)
      BY <1>6, <3>0, Zenon
    <3>2. CASE Children(s, e) = {}
      BY <3>1, <3>2
    <3>3. CASE Children(s, e) # {}
      <4>1. Down(e) \in D
        BY <1>2, <3>3
      <4> QED BY <3>1, <3>3, <4>1
    <3> QED BY <3>2, <3>3
  <2> HIDE DEF G
  <2> QED BY <2>1
<1>8. walk = [x \in D |-> G(walk, x)]
  <2> HIDE DEF G, D
  <2> QED BY <1>7
<1> HIDE DEF walk
<1>9. \A e \in D : walk[e] = G(walk, e)
  <2> HIDE DEF G, D
  <2> QED BY <1>8, Zenon
<1>10. WalkTo(s, walk)
  BY <1>1, <1>9 DEF WalkTo, Down
<1> QED BY <1>10

(* take_next takes a leaf, and the one that goes before all the others.       *)
LEMMA TakeNextFirst ==
    ASSUME Forest(tree), NEW s, Closed(s), s # {}
    PROVE  /\ TakeNext(s) \in s /\ Children(s, TakeNext(s)) = {}
           /\ \A y \in s \ {TakeNext(s)} : Before(TakeNext(s), y)
<1>0. s \subseteq Effects
  BY DEF Closed
<1>1. PICK walk : WalkTo(s, walk)
  BY <1>0, WalkExists
<1>2. \A e \in {0} \union s :
          walk[e] = IF Children(s, e) = {} THEN e ELSE walk[LastRegistered(Children(s, e))]
  BY <1>1 DEF WalkTo
\* The walk from e ends in e's subtree, at what goes before all the rest of it.
<1> DEFINE Under(e, y) == e = 0 \/ e \in Path(y)
           Right(e) == /\ Children(s, walk[e]) = {}
                       /\ walk[e] = e \/ (walk[e] \in s /\ Under(e, walk[e]))
                       /\ \A y \in s : Under(e, y) /\ y # walk[e] => Before(walk[e], y)
           D == {Len(tree) - e : e \in {e \in {0} \union s : ~Right(e)}}
<1>3. Len(tree) \in Nat /\ \A e \in {0} \union s : e \in Nat /\ e <= Len(tree)
  BY <1>0, PathStep DEF Effects
<1>4. D = {}
  <2> SUFFICES ASSUME D # {} PROVE FALSE
    OBVIOUS
  <2>1. D \in SUBSET Nat
    <3> HIDE DEF Right
    <3> QED BY <1>3
  <2>2. PICK d \in D : \A n \in D : d <= n
    <3> HIDE DEF D
    <3> QED BY <2>1, LeastExists
  <2>3. PICK e \in {0} \union s : ~Right(e) /\ d = Len(tree) - e
    <3> HIDE DEF Right
    <3> QED BY <2>2
  <2>4. ASSUME NEW c \in s, c > e PROVE Right(c)
    <3>1. SUFFICES ASSUME ~Right(c) PROVE FALSE
      OBVIOUS
    <3> HIDE DEF Right
    <3>2. Len(tree) - c \in D
      BY <3>1
    <3>3. d <= Len(tree) - c
      BY <2>2, <3>2
    <3>4. c \in Nat /\ e \in Nat /\ Len(tree) \in Nat /\ d = Len(tree) - e
      BY <1>3, <2>3
    <3> HIDE DEF D
    <3> QED BY <2>4, <3>3, <3>4
  <2>5. CASE Children(s, e) = {}
    <3>1. walk[e] = e
      BY <1>2, <2>5
    <3>2. ASSUME NEW y \in s, Under(e, y), y # e PROVE FALSE
      <4>1. e \in Path(y) \union {0}
        BY <3>2
      <4> QED BY <2>5, <3>2, <4>1, OnTheWay
    <3>3. Right(e)
      BY <2>5, <3>1, <3>2
    <3> QED BY <2>3, <3>3
  <2>6. CASE Children(s, e) # {}
    <3> DEFINE c == LastRegistered(Children(s, e))
               r == walk[c]
    <3>1. c \in s /\ tree[c].parent = e /\ c > e /\ \A b \in Children(s, e) : b <= c
      BY <1>0, <2>6, ChildFacts
    <3>2. walk[e] = r
      BY <1>2, <2>6
    <3> HIDE DEF c
    <3>3. Right(c)
      BY <2>4, <3>1
    <3>4. c \in Effects /\ c # 0 /\ PathSound(c)
      BY <1>0, <3>1, PathsSound, PathStep DEF Effects
    <3>5. r \in s /\ c \in Path(r)
      BY <3>1, <3>3, <3>4 DEF PathSound
    <3>6. r \in Effects /\ PathSound(r) /\ Children(s, r) = {}
      BY <1>0, <3>3, <3>5, PathsSound
    <3>7. Under(e, r) /\ (e \in s => e \in Path(r))
      <4>1. e # 0 => e \in Path(r)
        BY <3>1, <3>5, <3>6 DEF PathSound
      <4>2. 0 \notin s
        BY <1>0 DEF Effects
      <4> QED BY <4>1, <4>2
    <3>8. ASSUME NEW y \in s, Under(e, y), y # r PROVE Before(r, y)
      <4>0. y \in Effects
        BY <1>0
      <4>1. CASE c \in Path(y)
        BY <3>3, <3>8, <4>1
      <4>2. CASE y = e
        BY <3>7, <3>8, <4>2 DEF Before
      <4>3. CASE c \notin Path(y) /\ y # e
        <5>1. e \in Path(y) \union {0}
          BY <3>8
        <5>2. PICK b \in Children(s, e) : b \in Path(y)
          BY <4>3, <5>1, OnTheWay
        <5>3. b <= c /\ b # c /\ tree[b].parent = e /\ b \in Nat /\ c \in Nat
          BY <1>0, <3>1, <3>4, <4>3, <5>2, PathStep DEF Children
        <5>4. c > b
          BY <5>3
        <5> QED BY <3>1, <3>5, <3>6, <4>0, <5>2, <5>3, <5>4, LaterBranchFirst
      <4> QED BY <4>1, <4>2, <4>3
    <3>9. Right(e)
      BY <3>2, <3>5, <3>6, <3>7, <3>8
    <3> QED BY <2>3, <3>9
  <2> QED BY <2>5, <2>6
<1>5. Right(0)
  <2> HIDE DEF Right
  <2> QED BY <1>4
<1>6. TakeNext(s) = walk[0]
  BY <1>1 DEF WalkTo
<1>7. walk[0] # 0
  <2>1. SUFFICES ASSUME walk[0] = 0 PROVE FALSE
    OBVIOUS
  <2>2. PICK y \in s : TRUE
    OBVIOUS
  <2>3. y # 0
    BY <1>0 DEF Effects
  <2> QED BY <1>5, <2>1, <2>2, <2>3, OnTheWay
<1> QED BY <1>5, <1>6, <1>7

-----------------------------------------------------------------------------
(* flatten *)

(* A level, pushed in reverse: each child once, the last registered first.    *)
LEMMA LevelFacts ==
    ASSUME Forest(tree), NEW c, c \subseteq Effects
    PROVE  LET K == Reverse(Ascending(c))
           IN  /\ K \in Seq(c) /\ Len(K) \in Nat
               /\ \A x \in c : \E k \in 1..Len(K) : K[k] = x
               /\ \A i, j \in 1..Len(K) : i < j => K[i] > K[j]
<1> DEFINE t == [e \in Effects |-> e]
           A == Ascending(c)
           K == Reverse(A)
<1>0. Len(tree) \in Nat /\ Effects = 1..Len(tree) /\ Effects \subseteq Nat
  BY PathStep DEF Effects
<1>1. t \in Seq(Effects) /\ Len(t) = Len(tree) /\ \A e \in Effects : t[e] = e
  <2>1. t \in [1..Len(tree) -> Effects]
    BY <1>0
  <2>2. t \in Seq(Effects)
    BY <1>0, <2>1, SeqDef
  <2>3. DOMAIN t = 1..Len(tree)
    BY <1>0
  <2> QED BY <1>0, <2>2, <2>3, LenProperties
<1>2. ToSet(t) = Effects
  BY <1>0, <1>1 DEF ToSet
<1>3. A = Select(t, c)
  BY DEF Ascending
<1> HIDE DEF t
<1>4. A \in Seq(Effects) /\ ToSet(A) = c
  <2>0. t \in Seq(Effects)
    BY <1>1
  <2>1. Select(t, c) \in Seq(Effects) /\ ToSet(Select(t, c)) = ToSet(t) \intersect c
    BY <2>0, SelectRange, Zenon
  <2> HIDE DEF A
  <2> QED BY <1>2, <1>3, <2>1
<1>5. PICK pos \in [1..Len(A) -> 1..Len(t)] :
         /\ \A k \in 1..Len(A) : A[k] = t[pos[k]]
         /\ \A i, j \in 1..Len(A) : i < j => pos[i] < pos[j]
  <2>0. t \in Seq(Effects)
    BY <1>1
  <2>1. \E pos \in [1..Len(Select(t, c)) -> 1..Len(t)] :
           /\ \A k \in 1..Len(Select(t, c)) : Select(t, c)[k] = t[pos[k]]
           /\ \A i, j \in 1..Len(Select(t, c)) : i < j => pos[i] < pos[j]
    BY <2>0, SelectOrder, Zenon
  <2> HIDE DEF A
  <2> QED BY <1>3, <2>1, Zenon
<1> HIDE DEF A
<1>6. Len(A) \in Nat /\ DOMAIN A = 1..Len(A) /\ \A k \in 1..Len(A) : A[k] = pos[k] /\ A[k] \in Nat
  <2>1. Len(A) \in Nat /\ DOMAIN A = 1..Len(A) /\ \A k \in 1..Len(A) : A[k] \in Effects
    BY <1>4
  <2>2. ASSUME NEW k \in 1..Len(A) PROVE A[k] = pos[k]
    <3>1. pos[k] \in Effects
      BY <1>0, <1>1, <1>5
    <3> QED BY <1>1, <1>5, <3>1
  <2> QED BY <1>0, <2>1, <2>2
<1>7. \A i, j \in 1..Len(A) : i < j => A[i] < A[j]
  BY <1>5, <1>6, Zenon
<1> HIDE DEF A
<1>8. /\ K \in Seq(c) /\ Len(K) = Len(A)
      /\ \A k \in 1..Len(A) : /\ (Len(A) - k) + 1 \in 1..Len(A)
                              /\ K[k] = A[(Len(A) - k) + 1] /\ K[(Len(A) - k) + 1] = A[k]
  <2>1. \A k \in 1..Len(A) : A[k] \in c
    BY <1>4, <1>6 DEF ToSet
  <2>2. A \in [1..Len(A) -> Effects]
    BY <1>4
  <2>3. A \in [1..Len(A) -> c]
    BY <2>1, <2>2
  <2>4. A \in Seq(c)
    BY <1>6, <2>3, SeqDef
  <2> QED BY <2>4, ReverseFacts
<1> HIDE DEF K
<1>9. ASSUME NEW x \in c PROVE \E k \in 1..Len(K) : K[k] = x
  <2>1. PICK k \in 1..Len(A) : A[k] = x
    BY <1>4, <1>6 DEF ToSet
  <2> QED BY <1>8, <2>1
<1>10. ASSUME NEW i \in 1..Len(K), NEW j \in 1..Len(K), i < j PROVE K[i] > K[j]
  <2>1. (Len(A) - j) + 1 < (Len(A) - i) + 1
    BY <1>6, <1>8, <1>10
  <2>2. A[(Len(A) - j) + 1] < A[(Len(A) - i) + 1]
    BY <1>7, <1>8, <2>1
  <2>3. A[(Len(A) - j) + 1] \in Nat /\ A[(Len(A) - i) + 1] \in Nat
    BY <1>6, <1>8
  <2> QED BY <1>8, <2>2, <2>3
<1> QED BY <1>6, <1>8, <1>9, <1>10 DEF K, A

(* Where the walk stands after n pops: what is not in the order yet is under   *)
(* exactly what is stacked; of two stacked, the upper one is, or is under, an  *)
(* earlier sibling of the lower; what comes later goes before what is there.   *)
Popped(s, n, stack, order) ==
    /\ stack \in Seq(s) /\ order \in Seq(s) /\ Len(order) = n
    /\ \A i, j \in 1..n : order[i] = order[j] => i = j
    /\ \A x \in s : x \notin ToSet(order) <=> \E k \in 1..Len(stack) : stack[k] \in Path(x)
    /\ \A i, j \in 1..Len(stack) : i < j =>
          \E b \in Path(stack[j]) : tree[b].parent = tree[stack[i]].parent /\ stack[i] > b
    /\ \A i, j \in 1..n : i < j => Before(order[j], order[i])
    /\ \A x \in s : x \notin ToSet(order) => \A i \in 1..n : Before(x, order[i])

(* The first n pops are what they are whatever the stack is: a record a pop.  *)
LEMMA PopStart ==
    ASSUME Forest(tree), NEW s, Closed(s)
    PROVE  Popped(s, 0, Reverse(Ascending(Children(s, 0))), <<>>)
<1> DEFINE c == Children(s, 0)
           K == Reverse(Ascending(c))
<1>1. c \subseteq Effects /\ c \subseteq s /\ \A x \in c : tree[x].parent = 0
  BY DEF Children, Closed
<1>2. /\ K \in Seq(c) /\ Len(K) \in Nat
      /\ \A x \in c : \E k \in 1..Len(K) : K[k] = x
      /\ \A i, j \in 1..Len(K) : i < j => K[i] > K[j]
  BY <1>1, LevelFacts
<1> HIDE DEF K
<1>3. K \in Seq(s) /\ \A k \in 1..Len(K) : K[k] \in c
  BY <1>1, <1>2
<1>4. \A x \in s : \E k \in 1..Len(K) : K[k] \in Path(x)
  <2> SUFFICES ASSUME NEW x \in s PROVE \E k \in 1..Len(K) : K[k] \in Path(x)
    OBVIOUS
  <2>1. x # 0
    BY DEF Closed, Effects
  <2>2. PICK y \in c : y \in Path(x)
    BY <2>1, OnTheWay
  <2> QED BY <1>2, <2>2
<1>5. ASSUME NEW i \in 1..Len(K), NEW j \in 1..Len(K), i < j
      PROVE  \E b \in Path(K[j]) : tree[b].parent = tree[K[i]].parent /\ K[i] > b
  <2>1. K[i] \in c /\ K[j] \in c /\ K[i] > K[j]
    BY <1>2, <1>3, <1>5
  <2>2. K[j] \in Path(K[j])
    BY <1>1, <2>1, PathsSound DEF PathSound
  <2> QED BY <1>1, <2>1, <2>2
<1>6. ToSet(<<>>) = {} /\ <<>> \in Seq(s) /\ Len(<<>>) = 0 /\ 1..0 = {}
  BY DEF ToSet
<1> QED BY <1>3, <1>4, <1>5, <1>6 DEF Popped, K, c

LEMMA PopStep ==
    ASSUME Forest(tree), NEW s, Closed(s), NEW n \in Nat, NEW stack, NEW order,
           Popped(s, n, stack, order), stack # <<>>
    PROVE  LET e == stack[Len(stack)]
           IN  Popped(s, n + 1, Front(stack) \o Reverse(Ascending(Children(s, e))), Append(order, e))
<1> DEFINE e == stack[Len(stack)]
           c == Children(s, e)
           K == Reverse(Ascending(c))
           m == Len(stack) - 1
           grown == Front(stack) \o K
           out == Append(order, e)
<1>0. /\ stack \in Seq(s) /\ order \in Seq(s) /\ Len(order) = n
      /\ \A i, j \in 1..n : order[i] = order[j] => i = j
      /\ \A x \in s : x \notin ToSet(order) <=> \E k \in 1..Len(stack) : stack[k] \in Path(x)
      /\ \A i, j \in 1..Len(stack) : i < j =>
            \E b \in Path(stack[j]) : tree[b].parent = tree[stack[i]].parent /\ stack[i] > b
      /\ \A i, j \in 1..n : i < j => Before(order[j], order[i])
      /\ \A x \in s : x \notin ToSet(order) => \A i \in 1..n : Before(x, order[i])
  BY DEF Popped
<1>1. /\ Len(stack) \in Nat /\ m \in Nat /\ Len(stack) = m + 1 /\ Len(stack) \in 1..Len(stack)
      /\ \A k \in 1..m : k \in 1..Len(stack) /\ k < Len(stack)
      /\ \A k \in 1..Len(stack) : stack[k] \in s /\ (k \in 1..m \/ k = Len(stack))
  BY <1>0
<1>2. e \in s
  BY <1>1
<1> HIDE DEF m
<1>3. s \subseteq Effects /\ \A x \in s : x \in Effects /\ x \in Nat /\ x # 0 /\ PathSound(x)
  BY PathsSound, PathStep DEF Closed, Effects
<1>4. c \subseteq Effects /\ c \subseteq s /\ \A x \in c : tree[x].parent = e
  BY <1>3 DEF Children
<1>5. /\ K \in Seq(c) /\ Len(K) \in Nat
      /\ \A x \in c : \E k \in 1..Len(K) : K[k] = x
      /\ \A i, j \in 1..Len(K) : i < j => K[i] > K[j]
  BY <1>4, LevelFacts
<1> HIDE DEF K, c
<1>6. K \in Seq(s) /\ \A k \in 1..Len(K) : K[k] \in c
  BY <1>4, <1>5
<1>7. Front(stack) \in Seq(s) /\ Len(Front(stack)) = m /\ \A k \in 1..m : Front(stack)[k] = stack[k]
  <2>1. Front(stack) = SubSeq(stack, 1, m)
    BY DEF Front, m
  <2>2. m <= Len(stack)
    BY <1>1
  <2> QED BY <1>0, <1>1, <2>1, <2>2
<1>8. /\ grown \in Seq(s) /\ Len(grown) = m + Len(K)
      /\ \A k \in 1..m : grown[k] = stack[k]
      /\ \A k \in 1..Len(K) : grown[m + k] = K[k]
  <2> DEFINE F == Front(stack)
  <2> HIDE DEF F
  <2>1. F \in Seq(s) /\ K \in Seq(s) /\ Len(F) = m /\ m \in Nat /\ Len(K) \in Nat
    BY <1>1, <1>5, <1>6, <1>7 DEF F
  <2>2. /\ F \o K \in Seq(s) /\ Len(F \o K) = Len(F) + Len(K)
        /\ \A k \in 1..Len(F) : (F \o K)[k] = F[k]
        /\ \A k \in 1..Len(K) : (F \o K)[Len(F) + k] = K[k]
    BY <2>1
  <2> QED BY <1>7, <2>1, <2>2 DEF F
<1>9. /\ out \in Seq(s) /\ Len(out) = n + 1 /\ out[n + 1] = e /\ \A i \in 1..n : out[i] = order[i]
  BY <1>0, <1>2
<1>10. ToSet(out) = ToSet(order) \union {e}
  <2>1. DOMAIN order = 1..n /\ DOMAIN out = 1..(n + 1)
    BY <1>0, <1>9
  <2>2. 1..(n + 1) = 1..n \union {n + 1}
    OBVIOUS
  <2> HIDE DEF out
  <2> QED BY <1>9, <2>1, <2>2 DEF ToSet
<1> HIDE DEF e, grown, out
<1>11. /\ \A k \in 1..Len(grown) : k \in 1..m \/ \E q \in 1..Len(K) : k = m + q
       /\ \A k \in 1..m : k \in 1..Len(grown)
       /\ \A q \in 1..Len(K) : m + q \in 1..Len(grown)
  <2>1. ASSUME NEW k \in 1..Len(grown), ~(k \in 1..m) PROVE \E q \in 1..Len(K) : k = m + q
    <3>1. k - m \in 1..Len(K) /\ k = m + (k - m)
      BY <1>1, <1>5, <1>8, <2>1
    <3> QED BY <3>1
  <2> QED BY <1>1, <1>5, <1>8, <2>1
<1>12. ASSUME NEW k \in 1..m
       PROVE  \E b \in Path(e) : tree[b].parent = tree[stack[k]].parent /\ stack[k] > b
  BY <1>0, <1>1 DEF e
<1>13. e \in Path(e) /\ e \notin ToSet(order)
  <2>1. e \in Path(e)
    BY <1>2, <1>3 DEF PathSound
  <2> QED BY <1>0, <1>1, <1>2, <2>1 DEF e
\* What was popped is under nothing that is stacked now.
<1>14. \A k \in 1..Len(grown) : grown[k] \notin Path(e)
  <2>1. ASSUME NEW k \in 1..m PROVE stack[k] \notin Path(e)
    <3>1. PICK b \in Path(e) : tree[b].parent = tree[stack[k]].parent /\ stack[k] > b
      BY <1>12
    <3>2. stack[k] \in Nat /\ b \in Nat
      BY <1>1, <1>2, <1>3, <3>1, PathStep DEF PathSound
    <3>3. stack[k] # b
      BY <3>1, <3>2
    <3> QED BY <1>2, <1>3, <3>1, <3>3 DEF PathSound
  <2>2. ASSUME NEW q \in 1..Len(K) PROVE K[q] \notin Path(e)
    <3>1. K[q] \in Effects /\ tree[K[q]].parent = e
      BY <1>4, <1>6
    <3>2. K[q] \in Nat /\ e < K[q] /\ e \in Nat
      BY <1>2, <1>3, <3>1, PathStep
    <3>3. ~(K[q] <= e)
      BY <3>2
    <3> QED BY <1>2, <1>3, <3>3 DEF PathSound
  <2> QED BY <1>8, <1>11, <2>1, <2>2
\* What else is under something stacked is what was.
<1>15. ASSUME NEW x \in s, x # e
       PROVE  (\E k \in 1..Len(stack) : stack[k] \in Path(x)) <=> (\E k \in 1..Len(grown) : grown[k] \in Path(x))
  <2>1. ASSUME NEW k \in 1..m, stack[k] \in Path(x) PROVE \E l \in 1..Len(grown) : grown[l] \in Path(x)
    BY <1>8, <1>11, <2>1
  <2>2. ASSUME e \in Path(x) PROVE \E l \in 1..Len(grown) : grown[l] \in Path(x)
    <3>1. PICK y \in c : y \in Path(x)
      BY <1>15, <2>2, OnTheWay DEF c
    <3>2. PICK q \in 1..Len(K) : K[q] = y
      BY <1>5
    <3> QED BY <1>8, <1>11, <3>1, <3>2
  <2>3. ASSUME NEW k \in 1..m, grown[k] \in Path(x) PROVE \E l \in 1..Len(stack) : stack[l] \in Path(x)
    BY <1>1, <1>8, <2>3
  <2>4. ASSUME NEW q \in 1..Len(K), K[q] \in Path(x) PROVE e \in Path(x)
    <3>1. tree[K[q]].parent = e /\ e # 0
      BY <1>2, <1>3, <1>4, <1>6
    <3> QED BY <1>3, <2>4, <3>1 DEF PathSound
  <2>5. ASSUME NEW k \in 1..Len(stack), stack[k] \in Path(x) PROVE \E l \in 1..Len(grown) : grown[l] \in Path(x)
    BY <1>1, <2>1, <2>2, <2>5 DEF e
  <2>6. ASSUME NEW k \in 1..Len(grown), grown[k] \in Path(x) PROVE \E l \in 1..Len(stack) : stack[l] \in Path(x)
    <3>1. CASE k \in 1..m
      BY <2>3, <2>6, <3>1
    <3>2. ASSUME NEW q \in 1..Len(K), k = m + q PROVE \E l \in 1..Len(stack) : stack[l] \in Path(x)
      <4>1. e \in Path(x)
        BY <1>8, <2>4, <2>6, <3>2
      <4> QED BY <1>1, <4>1 DEF e
    <3> QED BY <1>11, <3>1, <3>2
  <2> QED BY <2>5, <2>6
<1>16. \A x \in s : x \notin ToSet(out) <=> \E k \in 1..Len(grown) : grown[k] \in Path(x)
  BY <1>0, <1>10, <1>14, <1>15
<1>17. ASSUME NEW i \in 1..(n + 1), NEW j \in 1..(n + 1), out[i] = out[j] PROVE i = j
  <2>1. \A k \in 1..n : order[k] \in ToSet(order)
    <3>1. DOMAIN order = 1..n
      BY <1>0
    <3> QED BY <3>1, Zenon DEF ToSet
  <2>2. \A k \in 1..(n + 1) : k \in 1..n \/ k = n + 1
    OBVIOUS
  <2> QED BY <1>0, <1>9, <1>13, <1>17, <2>1, <2>2
<1>18. ASSUME NEW i \in 1..Len(grown), NEW j \in 1..Len(grown), i < j
       PROVE  \E b \in Path(grown[j]) : tree[b].parent = tree[grown[i]].parent /\ grown[i] > b
  <2>1. CASE j \in 1..m
    <3>1. i \in 1..m
      BY <1>1, <1>8, <1>18, <2>1
    <3> QED BY <1>0, <1>1, <1>8, <1>18, <2>1, <3>1
  <2>2. ASSUME NEW q \in 1..Len(K), j = m + q, i \in 1..m
        PROVE  \E b \in Path(grown[j]) : tree[b].parent = tree[grown[i]].parent /\ grown[i] > b
    <3>1. PICK b \in Path(e) : tree[b].parent = tree[stack[i]].parent /\ stack[i] > b
      BY <1>12, <2>2
    <3>2. Path(e) \subseteq Path(K[q])
      <4>1. K[q] \in s /\ tree[K[q]].parent = e /\ e # 0
        BY <1>2, <1>3, <1>4, <1>6
      <4>2. e \in Path(K[q])
        BY <1>3, <4>1 DEF PathSound
      <4> QED BY <1>3, <4>1, <4>2 DEF PathSound
    <3>3. grown[j] = K[q] /\ grown[i] = stack[i]
      BY <1>8, <2>2
    <3> QED BY <3>1, <3>2, <3>3
  <2>3. ASSUME NEW p \in 1..Len(K), NEW q \in 1..Len(K), i = m + p, j = m + q
        PROVE  \E b \in Path(grown[j]) : tree[b].parent = tree[grown[i]].parent /\ grown[i] > b
    <3>1. p < q
      BY <1>1, <1>18, <2>3
    <3>2. grown[i] = K[p] /\ grown[j] = K[q] /\ K[p] > K[q] /\ K[p] \in c /\ K[q] \in c
      BY <1>5, <1>6, <1>8, <2>3, <3>1
    <3>3. K[q] \in Path(K[q])
      BY <1>3, <1>4, <3>2 DEF PathSound
    <3> QED BY <1>4, <3>2, <3>3
  <2> QED BY <1>11, <2>1, <2>2, <2>3
<1>19. ASSUME NEW i \in 1..(n + 1), NEW j \in 1..(n + 1), i < j PROVE Before(out[j], out[i])
  <2>1. i \in 1..n /\ (j \in 1..n \/ j = n + 1)
    BY <1>19
  <2>2. CASE j \in 1..n
    BY <1>0, <1>9, <1>19, <2>1, <2>2
  <2>3. CASE j = n + 1
    BY <1>0, <1>2, <1>9, <1>13, <2>1, <2>3
  <2> QED BY <2>1, <2>2, <2>3
<1>20. ASSUME NEW x \in s, x \notin ToSet(out), NEW i \in 1..(n + 1) PROVE Before(x, out[i])
  <2>1. x \notin ToSet(order) /\ x # e
    BY <1>10, <1>20
  <2>2. CASE i \in 1..n
    BY <1>0, <1>9, <2>1, <2>2
  <2>3. CASE i = n + 1
    <3>1. PICK k \in 1..Len(stack) : stack[k] \in Path(x)
      BY <1>0, <2>1
    <3>2. CASE k = Len(stack)
      <4>1. e \in Path(x)
        BY <3>1, <3>2 DEF e
      <4> QED BY <1>9, <2>1, <2>3, <4>1 DEF Before
    <3>3. CASE k \in 1..m
      <4>1. PICK b \in Path(e) : tree[b].parent = tree[stack[k]].parent /\ stack[k] > b
        BY <1>12, <3>3
      <4>2. Before(x, e)
        BY <1>2, <1>3, <3>1, <4>1, LaterBranchFirst
      <4> QED BY <1>9, <2>3, <4>2
    <3> QED BY <1>1, <3>2, <3>3
  <2> QED BY <2>2, <2>3
<1>21. Popped(s, n + 1, grown, out)
  BY <1>8, <1>9, <1>16, <1>17, <1>18, <1>19, <1>20 DEF Popped
<1> QED BY <1>21 DEF grown, out, e, K, c

(* The loop of flatten, over the records popped.                              *)
PushedUnder(s, e) == Reverse(Ascending(Children(s, e)))

TopOf(was) == was.stack[Len(was.stack)]

PopOne(s, was) ==
    [stack |-> Front(was.stack) \o PushedUnder(s, TopOf(was)), order |-> Append(was.order, TopOf(was))]

Pops(pop, s) ==
    /\ Flatten(s) = Reverse(pop[Cardinality(s)].order)
    /\ pop[0] = [stack |-> PushedUnder(s, 0), order |-> <<>>]
    /\ \A n \in 0..(Cardinality(s) - 1) : pop[n + 1] = PopOne(s, pop[n])

LEMMA PopRule ==
    ASSUME NEW s, Cardinality(s) \in Nat
    PROVE  \E pop : Pops(pop, s)
<1> DEFINE N == Cardinality(s)
           none == [stack |-> PushedUnder(s, 0), order |-> <<>>]
           PopAt(f, i) == IF i = 0 THEN none ELSE PopOne(s, f[i - 1])
           Rule(f, n) == f = [i \in 0..n |-> PopAt(f, i)]
           Pop == CHOOSE f : Rule(f, N)
<1>1. Flatten(s) = Reverse(Pop[N].order)
  BY DEF Flatten, PopOne, PushedUnder, TopOf
<1> DEFINE Exists == {n \in Nat : \E f : Rule(f, n)}
<1> HIDE DEF none
<1>2. Exists = Nat
  <2>1. 0 \in Exists
    <3> DEFINE f0 == [i \in 0..0 |-> none]
    <3>1. Rule(f0, 0)
      OBVIOUS
    <3> QED BY <3>1
  <2>2. ASSUME NEW n \in Exists PROVE n + 1 \in Exists
    <3>1. PICK f : Rule(f, n)
      OBVIOUS
    <3> DEFINE popd == PopOne(s, f[n])
               g == [i \in 0..(n + 1) |-> IF i = n + 1 THEN popd ELSE f[i]]
    <3>2. n \in Nat
      OBVIOUS
    <3>3. \A i \in 0..(n + 1) : PopAt(g, i) = g[i]
      <4>1. \A i \in 0..n : f[i] = PopAt(f, i)
        BY <3>1, Zenon
      <4>2. \A i \in 0..n : g[i] = f[i]
        BY <3>2
      <4>3. g[n + 1] = popd
        BY <3>2
      <4> HIDE DEF g
      <4>4. \A i \in 0..n : PopAt(g, i) = PopAt(f, i)
        BY <3>2, <4>2
      <4>5. PopAt(g, n + 1) = popd
        BY <3>2, <4>2
      <4>6. \A i \in 0..(n + 1) : i \in 0..n \/ i = n + 1
        BY <3>2
      <4> HIDE DEF PopAt, popd
      <4> QED BY <4>1, <4>2, <4>3, <4>4, <4>5, <4>6
    <3>4. g = [i \in 0..(n + 1) |-> g[i]]
      BY Zenon
    <3> HIDE DEF g, PopAt
    <3>5. Rule(g, n + 1)
      BY <3>3, <3>4
    <3> QED BY <3>2, <3>5
  <2> HIDE DEF Exists
  <2>3. Exists \in SUBSET Nat
    BY DEF Exists
  <2> QED BY <2>1, <2>2, <2>3, AllNaturals, Zenon
<1>3. Rule(Pop, N)
  BY <1>2
<1> HIDE DEF Pop
<1>4. \A i \in 0..N : Pop[i] = PopAt(Pop, i)
  BY <1>3, Zenon
<1>5. Pop[0] = none
  BY <1>4
<1>6. ASSUME NEW n \in 0..(N - 1) PROVE Pop[n + 1] = PopOne(s, Pop[n])
  <2>1. n \in Nat /\ n + 1 \in 0..N /\ n + 1 # 0 /\ n + 1 - 1 = n
    OBVIOUS
  <2> QED BY <1>4, <2>1
<1> HIDE DEF PopAt, Rule
<1>7. Pops(Pop, s)
  BY <1>1, <1>5, <1>6 DEF Pops, none
<1> QED BY <1>7

(* A walk in the order of the teardown, each record of it once.               *)
Ordered(f) == \A i, j \in 1..Len(f) : i < j => Before(f[i], f[j])

(* flatten lists every record once, each before all it goes before.           *)
LEMMA FlattenFacts ==
    ASSUME Forest(tree), NEW s, Closed(s)
    PROVE  /\ Flatten(s) \in Seq(s) /\ Len(Flatten(s)) = Cardinality(s)
           /\ ToSet(Flatten(s)) = s /\ Ordered(Flatten(s))
<1> DEFINE N == Cardinality(s)
<1>1. IsFiniteSet(s) /\ N \in Nat
  <2>1. Len(tree) \in Nat
    BY PathStep
  <2>2. IsFiniteSet(1..Len(tree))
    BY <2>1, FS_Interval
  <2>3. s \subseteq 1..Len(tree)
    BY DEF Closed, Effects
  <2>4. IsFiniteSet(s)
    BY <2>2, <2>3, FS_Subset
  <2> QED BY <2>4, FS_CardinalityType
<1>2. PICK pop : Pops(pop, s)
  BY <1>1, PopRule
<1>3. /\ Flatten(s) = Reverse(pop[N].order)
      /\ pop[0] = [stack |-> PushedUnder(s, 0), order |-> <<>>]
      /\ \A n \in 0..(N - 1) : pop[n + 1] = PopOne(s, pop[n])
  BY <1>2 DEF Pops
<1> HIDE DEF N
<1> DEFINE OkAt(n) == Popped(s, n, pop[n].stack, pop[n].order)
           Good == {n \in Nat : n <= N => OkAt(n)}
<1>4. 0 \in Good
  <2>1. OkAt(0)
    BY <1>3, PopStart DEF PushedUnder
  <2> HIDE DEF OkAt
  <2> QED BY <2>1
<1>5. ASSUME NEW n \in Good PROVE n + 1 \in Good
  <2>0. n \in Nat
    OBVIOUS
  <2> SUFFICES ASSUME n + 1 <= N PROVE OkAt(n + 1)
    BY <2>0
  <2>1. n <= N /\ n \in 0..(N - 1)
    BY <1>1, <2>0
  <2>2. OkAt(n)
    BY <2>1
  <2> DEFINE stack == pop[n].stack
             order == pop[n].order
  <2>3. /\ order \in Seq(s) /\ Len(order) = n
        /\ \A i, j \in 1..n : order[i] = order[j] => i = j
        /\ \A x \in s : x \notin ToSet(order) <=> \E k \in 1..Len(stack) : stack[k] \in Path(x)
    BY <2>2 DEF Popped
  <2>4. stack # <<>>
    <3> SUFFICES ASSUME stack = <<>> PROVE FALSE
      OBVIOUS
    <3>1. Len(stack) = 0 /\ 1..0 = {}
      OBVIOUS
    <3>2. \A x \in s : x \in ToSet(order)
      BY <2>3, <3>1
    <3> HIDE DEF stack, order, OkAt, Good
    <3>3. order \in [1..n -> s]
      BY <2>3
    <3>4. \A y \in s : \E i \in 1..n : order[i] = y
      BY <2>3, <3>2 DEF ToSet
    <3>5. IsFiniteSet(1..n) /\ Cardinality(1..n) = n
      BY <2>0, FS_Interval
    <3>6. Cardinality(s) = Cardinality(1..n)
      <4>1. \A i, j \in 1..n : order[i] = order[j] => i = j
        BY <2>3, Zenon
      <4> QED BY <3>3, <3>4, <3>5, <4>1, CountedByBijection, Zenon
    <3> QED BY <1>1, <2>0, <2>1, <3>5, <3>6 DEF N
  <2>5. pop[n + 1] = [stack |-> Front(stack) \o Reverse(Ascending(Children(s, stack[Len(stack)]))),
                      order |-> Append(order, stack[Len(stack)])]
    BY <1>3, <2>1 DEF PopOne, PushedUnder, TopOf
  <2> HIDE DEF stack, order
  <2>6. Popped(s, n, stack, order)
    BY <2>2 DEF stack, order
  <2>7. Popped(s, n + 1, Front(stack) \o Reverse(Ascending(Children(s, stack[Len(stack)]))),
               Append(order, stack[Len(stack)]))
    BY <2>0, <2>4, <2>6, PopStep
  <2> QED BY <2>5, <2>7
<1>6. Good = Nat
  <2> HIDE DEF Good
  <2>1. Good \in SUBSET Nat
    BY DEF Good
  <2> QED BY <1>4, <1>5, <2>1, AllNaturals, Zenon
<1>7. OkAt(N)
  <2> HIDE DEF OkAt
  <2> QED BY <1>1, <1>6
<1> DEFINE order == pop[N].order
<1>8. /\ order \in Seq(s) /\ Len(order) = N
      /\ \A i, j \in 1..N : order[i] = order[j] => i = j
      /\ \A i, j \in 1..N : i < j => Before(order[j], order[i])
  BY <1>7 DEF Popped
<1> HIDE DEF OkAt, Good, order
<1>9. ToSet(order) = s
  <2>1. order \in [1..N -> s] /\ DOMAIN order = 1..N
    BY <1>8
  <2>2. ToSet(order) \subseteq s /\ order \in [1..N -> ToSet(order)]
        /\ \A y \in ToSet(order) : \E i \in 1..N : order[i] = y
    BY <2>1 DEF ToSet
  <2>3. IsFiniteSet(1..N) /\ Cardinality(1..N) = N
    BY <1>1, FS_Interval
  <2>4. Cardinality(ToSet(order)) = Cardinality(1..N)
    <3>1. \A i, j \in 1..N : order[i] = order[j] => i = j
      BY <1>8, Zenon
    <3> QED BY <2>2, <2>3, <3>1, CountedByBijection, Zenon
  <2> QED BY <1>1, <2>2, <2>3, <2>4, FS_Subset DEF N
<1> DEFINE f == Reverse(order)
<1>10. /\ f \in Seq(s) /\ Len(f) = N
       /\ \A k \in 1..N : (N - k) + 1 \in 1..N /\ f[k] = order[(N - k) + 1] /\ f[(N - k) + 1] = order[k]
  BY <1>8, ReverseFacts
<1>11. f = Flatten(s)
  BY <1>3 DEF order
<1> HIDE DEF f
<1>12. ToSet(f) = s
  <2>1. DOMAIN f = 1..N /\ DOMAIN order = 1..N
    BY <1>8, <1>10
  <2> QED BY <1>9, <1>10, <2>1 DEF ToSet
<1>13. ASSUME NEW i \in 1..N, NEW j \in 1..N, i < j PROVE Before(f[i], f[j])
  <2>1. (N - j) + 1 < (N - i) + 1
    BY <1>1, <1>13
  <2> QED BY <1>8, <1>10, <2>1
<1> QED BY <1>10, <1>11, <1>12, <1>13 DEF Ordered, N

-----------------------------------------------------------------------------
(* The order and what is live, as functions of the forest. *)

BeforeIn(tr, x, y) ==
    \/ y \in PathIn(tr, x) /\ x # y
    \/ \E a \in PathIn(tr, x), b \in PathIn(tr, y) :
        a \notin PathIn(tr, y) /\ b \notin PathIn(tr, x)
            /\ tr[a].parent = tr[b].parent /\ a > b

ClosedIn(tr, s) ==
    s \subseteq 1..Len(tr) /\ \A e \in s : tr[e].parent = 0 \/ tr[e].parent \in s

OrderedIn(tr, f) == \A i, j \in 1..Len(f) : i < j => BeforeIn(tr, f[i], f[j])

LEMMA BeforeIsBeforeIn == \A x, y : Before(x, y) <=> BeforeIn(tree, x, y)
BY PathIsPathIn DEF Before, BeforeIn

LEMMA ClosedIsClosedIn == \A s : Closed(s) <=> ClosedIn(tree, s)
BY DEF Closed, ClosedIn, Effects

LEMMA NotBeforeItself == \A tr, x : ~BeforeIn(tr, x, x)
BY DEF BeforeIn

(* A new effect leaves the order of the others as it was.                     *)
LEMMA OrderGrows ==
    ASSUME NEW tr, Forest(tr), NEW grown, Forest(grown), Len(tr) <= Len(grown),
           \A e \in 1..Len(tr) : grown[e] = tr[e]
    PROVE  \A x, y \in 1..Len(tr) : BeforeIn(tr, x, y) => BeforeIn(grown, x, y)
<1>1. \A e \in 0..Len(tr) : PathIn(grown, e) = PathIn(tr, e)
  BY PathGrows
<1>2. Len(tr) \in Nat
  BY ForestFields
<1> SUFFICES ASSUME NEW x \in 1..Len(tr), NEW y \in 1..Len(tr), BeforeIn(tr, x, y)
             PROVE  BeforeIn(grown, x, y)
  OBVIOUS
<1>3. PathIn(grown, x) = PathIn(tr, x) /\ PathIn(grown, y) = PathIn(tr, y)
  BY <1>1, <1>2
<1>4. \A z \in 1..Len(tr) : PathIn(tr, z) \subseteq 1..Len(tr)
  <2> DEFINE Bad == {z \in 1..Len(tr) : ~(PathIn(tr, z) \subseteq 1..Len(tr))}
  <2>1. SUFFICES ASSUME Bad # {} PROVE FALSE
    OBVIOUS
  <2>2. Bad \in SUBSET Nat
    BY <1>2
  <2>3. PICK m \in Bad : \A n \in Bad : m <= n
    <3> HIDE DEF Bad
    <3> QED BY <2>1, <2>2, LeastExists
  <2>4. m \in 1..Len(tr) /\ m \in Nat
    BY <1>2, <2>3
  <2>5. tr[m].parent \in Nat /\ tr[m].parent < m /\ tr[m].parent \in 0..Len(tr)
    BY <2>4, ForestFields
  <2>6. tr[m].parent \notin Bad
    <3> HIDE DEF Bad
    <3> QED BY <2>2, <2>3, <2>4, <2>5
  <2>7. PathIn(tr, m) = {m} \union PathIn(tr, tr[m].parent) /\ PathIn(tr, 0) = {}
    BY <2>4, PathRule
  <2>8. PathIn(tr, tr[m].parent) \subseteq 1..Len(tr)
    <3>1. CASE tr[m].parent = 0
      BY <2>7, <3>1
    <3>2. CASE tr[m].parent # 0
      BY <1>2, <2>5, <2>6, <3>2
    <3> QED BY <3>1, <3>2
  <2> QED BY <2>3, <2>4, <2>7, <2>8
<1>5. CASE y \in PathIn(tr, x) /\ x # y
  BY <1>3, <1>5 DEF BeforeIn
<1>6. ASSUME NEW a \in PathIn(tr, x), NEW b \in PathIn(tr, y), a \notin PathIn(tr, y),
             b \notin PathIn(tr, x), tr[a].parent = tr[b].parent, a > b
      PROVE  BeforeIn(grown, x, y)
  <2>1. grown[a] = tr[a] /\ grown[b] = tr[b]
    BY <1>4
  <2> QED BY <1>3, <1>6, <2>1 DEF BeforeIn
<1> QED BY <1>5, <1>6 DEF BeforeIn

-----------------------------------------------------------------------------
(* The lines of a log. *)

Mine(line, e) == line.id = e /\ line.of = "inverse"

Count(lines, e) == Cardinality(LinesIn(lines, e))

LEMMA CountEmpty == \A e : Count(<<>>, e) = 0
<1> SUFFICES ASSUME NEW e PROVE Count(<<>>, e) = 0
  OBVIOUS
<1>1. Len(<<>>) = 0 /\ 1..0 = {}
  OBVIOUS
<1>2. LinesIn(<<>>, e) = {}
  BY <1>1 DEF LinesIn
<1> QED BY <1>2, FS_EmptySet DEF Count

LEMMA CountType ==
    ASSUME NEW L, NEW lines \in Seq(L), NEW e
    PROVE  IsFiniteSet(LinesIn(lines, e)) /\ Count(lines, e) \in Nat
<1>1. Len(lines) \in Nat
  OBVIOUS
<1>2. IsFiniteSet(1..Len(lines))
  BY <1>1, FS_Interval
<1>3. LinesIn(lines, e) \subseteq 1..Len(lines)
  BY DEF LinesIn
<1>4. IsFiniteSet(LinesIn(lines, e))
  BY <1>2, <1>3, FS_Subset
<1> QED BY <1>4, FS_CardinalityType DEF Count

LEMMA CountZero ==
    ASSUME NEW L, NEW lines \in Seq(L), NEW e
    PROVE  Count(lines, e) = 0 <=> \A i \in 1..Len(lines) : ~Mine(lines[i], e)
<1>1. IsFiniteSet(LinesIn(lines, e))
  BY CountType
<1>2. Count(lines, e) = 0 <=> LinesIn(lines, e) = {}
  BY <1>1, FS_EmptySet DEF Count
<1> QED BY <1>2 DEF LinesIn, Mine

(* A line more, and two logs in a row.                                        *)
LEMMA CountAppend ==
    ASSUME NEW L, NEW lines \in Seq(L), NEW line \in L, NEW e
    PROVE  Count(Append(lines, line), e) = Count(lines, e) + OneIf(Mine(line, e))
<1> DEFINE n == Len(lines)
           S == LinesIn(lines, e)
           T == LinesIn(Append(lines, line), e)
<1>1. n \in Nat /\ Len(Append(lines, line)) = n + 1 /\ Append(lines, line)[n + 1] = line
      /\ \A i \in 1..n : Append(lines, line)[i] = lines[i]
  OBVIOUS
<1>2. \A i : i \in 1..(n + 1) <=> i \in 1..n \/ i = n + 1
  BY <1>1
<1>3. n + 1 \notin 1..n
  BY <1>1
<1>4. IsFiniteSet(S) /\ Count(lines, e) \in Nat
  BY CountType
<1> HIDE DEF n
<1>5. S \subseteq 1..n
  BY DEF LinesIn, n
<1>6. CASE Mine(line, e)
  <2>1. T = S \union {n + 1}
    BY <1>1, <1>2, <1>6 DEF LinesIn, Mine, n
  <2>2. Cardinality(T) = Cardinality(S) + 1
    <3> HIDE DEF S, T
    <3> QED BY <1>3, <1>4, <1>5, <2>1, FS_AddElement
  <2> QED BY <1>6, <2>2 DEF Count, OneIf
<1>7. CASE ~Mine(line, e)
  <2>1. T = S
    BY <1>1, <1>2, <1>7 DEF LinesIn, Mine, n
  <2> QED BY <1>4, <1>7, <2>1 DEF Count, OneIf
<1> QED BY <1>6, <1>7

LEMMA CountConcat ==
    ASSUME NEW L, NEW lines \in Seq(L), NEW more \in Seq(L), NEW e
    PROVE  Count(lines \o more, e) = Count(lines, e) + Count(more, e)
<1> DEFINE n == Len(lines)
           k == Len(more)
           u == lines \o more
           S == LinesIn(lines, e)
           M == LinesIn(more, e)
           R == {n + i : i \in M}
           T == LinesIn(u, e)
<1>1. /\ n \in Nat /\ k \in Nat /\ Len(u) = n + k
      /\ \A i \in 1..n : u[i] = lines[i]
      /\ \A i \in 1..k : u[n + i] = more[i]
  OBVIOUS
<1>2. IsFiniteSet(S) /\ IsFiniteSet(M) /\ Count(lines, e) \in Nat /\ Count(more, e) \in Nat
  BY CountType
<1>3. S \subseteq 1..n /\ M \subseteq 1..k
  BY DEF LinesIn
<1> HIDE DEF u
<1>4. \A i \in 1..n : i \in T <=> i \in S
  BY <1>1 DEF LinesIn
<1>5. \A i \in 1..k : n + i \in T <=> i \in M
  BY <1>1 DEF LinesIn
<1>6. T \subseteq 1..(n + k)
  BY <1>1 DEF LinesIn
<1> HIDE DEF S, M, T, n, k
<1>7. \A j \in 1..(n + k) : j \in 1..n \/ (j - n \in 1..k /\ n + (j - n) = j)
  BY <1>1
<1>8. \A i \in 1..k : n + i \notin 1..n
  BY <1>1
<1>9. \A j \in T : j \in S \union R
  <2> SUFFICES ASSUME NEW j \in T PROVE j \in S \union R
    OBVIOUS
  <2>1. CASE j \in 1..n
    BY <1>4, <2>1
  <2>2. CASE j - n \in 1..k /\ n + (j - n) = j
    <3>1. j - n \in M
      BY <1>5, <2>2
    <3> QED BY <2>2, <3>1
  <2> QED BY <1>6, <1>7, <2>1, <2>2
<1>10. S \union R \subseteq T /\ S \intersect R = {}
  BY <1>3, <1>4, <1>5, <1>8
<1>11. T = S \union R
  BY <1>9, <1>10
<1>12. IsFiniteSet(R) /\ Cardinality(R) = Cardinality(M)
  <2> DEFINE F == [i \in M |-> n + i]
  <2>1. F \in [M -> R]
    OBVIOUS
  <2>2. \A x, y \in M : F[x] = F[y] => x = y
    BY <1>1, <1>3
  <2>3. \A y \in R : \E x \in M : F[x] = y
    OBVIOUS
  <2> HIDE DEF F, R
  <2> QED BY <1>2, <2>1, <2>2, <2>3, CountedByBijection
<1> HIDE DEF R
<1>13. Cardinality(T) = Cardinality(S) + Cardinality(R)
  <2>1. Cardinality(S \intersect R) = 0
    BY <1>10, FS_EmptySet
  <2>2. Cardinality(S) \in Nat /\ Cardinality(R) \in Nat
    BY <1>2, <1>12, FS_CardinalityType
  <2>3. Cardinality(S \union R) = Cardinality(S) + Cardinality(R) - Cardinality(S \intersect R)
    BY <1>2, <1>12, FS_Union
  <2> QED BY <1>11, <2>1, <2>2, <2>3
<1> QED BY <1>12, <1>13 DEF Count, S, M, T, u

(* A log of a scope with this forest: its lines are about registered effects. *)
Logged(tr, lines) == lines \in Seq(Line) /\ \A i \in 1..Len(lines) : lines[i].id \in 1..Len(tr)

LEMMA NewLine ==
    ASSUME NEW tr, Len(tr) \in Nat, Len(tr) <= MaxRecords, NEW e \in 1..Len(tr),
           NEW of \in {"drain", "inverse"}, NEW outcome \in Outcome
    PROVE  [id |-> e, of |-> of, outcome |-> outcome] \in Line
BY EffectBounds DEF Line

LEMMA LoggedEmpty == \A tr : Logged(tr, <<>>)
<1>1. <<>> \in Seq(Line) /\ Len(<<>>) = 0 /\ 1..0 = {}
  OBVIOUS
<1> QED BY <1>1 DEF Logged

LEMMA LoggedAppend ==
    ASSUME NEW tr, NEW lines, Logged(tr, lines), NEW line \in Line, line.id \in 1..Len(tr)
    PROVE  Logged(tr, Append(lines, line))
<1>1. /\ lines \in Seq(Line) /\ Len(lines) \in Nat
      /\ Append(lines, line) \in Seq(Line) /\ Len(Append(lines, line)) = Len(lines) + 1
      /\ Append(lines, line)[Len(lines) + 1] = line
      /\ \A i \in 1..Len(lines) : Append(lines, line)[i] = lines[i]
  BY DEF Logged
<1>2. \A i \in 1..(Len(lines) + 1) : i \in 1..Len(lines) \/ i = Len(lines) + 1
  BY <1>1
<1>3. \A i \in 1..Len(lines) : lines[i].id \in 1..Len(tr)
  BY DEF Logged
<1> DEFINE u == Append(lines, line)
<1> HIDE DEF u
<1>4. \A i \in 1..(Len(lines) + 1) : u[i].id \in 1..Len(tr)
  BY <1>1, <1>2, <1>3 DEF u
<1> QED BY <1>1, <1>4 DEF Logged, u

LEMMA LoggedConcat ==
    ASSUME NEW tr, NEW lines, Logged(tr, lines), NEW more, Logged(tr, more)
    PROVE  Logged(tr, lines \o more)
<1> DEFINE u == lines \o more
<1>1. lines \in Seq(Line) /\ more \in Seq(Line)
  BY DEF Logged
<1>2. /\ u \in Seq(Line) /\ Len(lines) \in Nat /\ Len(more) \in Nat /\ Len(u) = Len(lines) + Len(more)
      /\ \A i \in 1..Len(lines) : u[i] = lines[i]
      /\ \A i \in 1..Len(more) : u[Len(lines) + i] = more[i]
  BY <1>1
<1> HIDE DEF u
<1>3. ASSUME NEW i \in 1..Len(u) PROVE u[i].id \in 1..Len(tr)
  <2>1. CASE i \in 1..Len(lines)
    BY <1>2, <2>1 DEF Logged
  <2>2. CASE ~(i \in 1..Len(lines))
    <3>1. i - Len(lines) \in 1..Len(more) /\ Len(lines) + (i - Len(lines)) = i
      BY <1>2, <2>2
    <3>2. u[i] = more[i - Len(lines)]
      BY <1>2, <3>1
    <3> QED BY <3>1, <3>2 DEF Logged
  <2> QED BY <2>1, <2>2
<1> QED BY <1>2, <1>3 DEF Logged, u

LEMMA LoggedGrows ==
    ASSUME NEW tr, NEW grown, Len(tr) \in Nat, Len(grown) \in Nat, Len(tr) <= Len(grown),
           NEW lines, Logged(tr, lines)
    PROVE  Logged(grown, lines)
<1>1. 1..Len(tr) \subseteq 1..Len(grown)
  OBVIOUS
<1> QED BY <1>1 DEF Logged

(* What a log says that is done has been done.                                *)
DoneRan(lines, done) ==
    \A i \in 1..Len(lines) : lines[i].of = "inverse" /\ lines[i].outcome = "Done" => lines[i].id \in done

LEMMA DoneEmpty == \A done : DoneRan(<<>>, done)
<1>1. Len(<<>>) = 0 /\ 1..0 = {}
  OBVIOUS
<1> QED BY <1>1 DEF DoneRan

LEMMA DoneAppend ==
    ASSUME NEW L, NEW lines \in Seq(L), NEW line \in L, NEW done, NEW more, done \subseteq more,
           DoneRan(lines, done), line.of = "inverse" /\ line.outcome = "Done" => line.id \in more
    PROVE  DoneRan(Append(lines, line), more)
<1> DEFINE u == Append(lines, line)
<1>1. /\ Len(lines) \in Nat /\ Len(u) = Len(lines) + 1 /\ u[Len(lines) + 1] = line
      /\ \A i \in 1..Len(lines) : u[i] = lines[i]
  OBVIOUS
<1>2. \A i \in 1..(Len(lines) + 1) : i \in 1..Len(lines) \/ i = Len(lines) + 1
  BY <1>1
<1> HIDE DEF u
<1>3. ASSUME NEW i \in 1..Len(u), u[i].of = "inverse" /\ u[i].outcome = "Done"
      PROVE  u[i].id \in more
  <2>1. CASE i \in 1..Len(lines)
    BY <1>1, <1>3, <2>1 DEF DoneRan
  <2>2. CASE i = Len(lines) + 1
    BY <1>1, <1>3, <2>2
  <2> QED BY <1>1, <1>2, <2>1, <2>2
<1> QED BY <1>3 DEF DoneRan, u

LEMMA DoneConcat ==
    ASSUME NEW L, NEW lines \in Seq(L), NEW more \in Seq(L), NEW done,
           DoneRan(lines, done), DoneRan(more, done)
    PROVE  DoneRan(lines \o more, done)
<1> DEFINE u == lines \o more
<1>2. /\ Len(lines) \in Nat /\ Len(more) \in Nat /\ Len(u) = Len(lines) + Len(more)
      /\ \A i \in 1..Len(lines) : u[i] = lines[i]
      /\ \A i \in 1..Len(more) : u[Len(lines) + i] = more[i]
  OBVIOUS
<1> HIDE DEF u
<1>3. ASSUME NEW i \in 1..Len(u), u[i].of = "inverse" /\ u[i].outcome = "Done"
      PROVE  u[i].id \in done
  <2>1. CASE i \in 1..Len(lines)
    BY <1>2, <1>3, <2>1 DEF DoneRan
  <2>2. CASE ~(i \in 1..Len(lines))
    <3>1. i - Len(lines) \in 1..Len(more) /\ Len(lines) + (i - Len(lines)) = i
      BY <1>2, <2>2
    <3>2. u[i] = more[i - Len(lines)]
      BY <1>2, <3>1
    <3> QED BY <1>3, <3>1, <3>2 DEF DoneRan
  <2> QED BY <2>1, <2>2
<1> QED BY <1>3 DEF DoneRan, u

(* What ran, ran in order, and before all that is left.                       *)
RanIn(lines) == {i \in 1..Len(lines) : lines[i].of = "inverse"}

InOrder(tr, lines, rest) ==
    /\ \A i, j \in RanIn(lines) : i < j => BeforeIn(tr, lines[i].id, lines[j].id)
    /\ \A i \in RanIn(lines) : \A e \in rest : BeforeIn(tr, lines[i].id, e)

LEMMA RanEmpty == RanIn(<<>>) = {} /\ \A tr, rest : InOrder(tr, <<>>, rest)
<1>1. Len(<<>>) = 0 /\ 1..0 = {}
  OBVIOUS
<1> QED BY <1>1 DEF InOrder, RanIn

LEMMA RanAppend ==
    ASSUME NEW L, NEW lines \in Seq(L), NEW line \in L
    PROVE  /\ Len(lines) \in Nat /\ Append(lines, line)[Len(lines) + 1] = line
           /\ \A i \in RanIn(lines) : i \in 1..Len(lines) /\ Append(lines, line)[i] = lines[i]
           /\ line.of # "inverse" => RanIn(Append(lines, line)) = RanIn(lines)
           /\ line.of = "inverse" => RanIn(Append(lines, line)) = RanIn(lines) \union {Len(lines) + 1}
<1> DEFINE u == Append(lines, line)
<1>1. /\ Len(lines) \in Nat /\ Len(u) = Len(lines) + 1 /\ u[Len(lines) + 1] = line
      /\ \A i \in 1..Len(lines) : u[i] = lines[i]
  OBVIOUS
<1>2. \A i : i \in 1..(Len(lines) + 1) <=> i \in 1..Len(lines) \/ i = Len(lines) + 1
  BY <1>1
<1> HIDE DEF u
<1>3. line.of # "inverse" => RanIn(u) = RanIn(lines)
  BY <1>1, <1>2 DEF RanIn
<1>4. line.of = "inverse" => RanIn(u) = RanIn(lines) \union {Len(lines) + 1}
  BY <1>1, <1>2 DEF RanIn
<1>5. \A i \in RanIn(lines) : i \in 1..Len(lines) /\ u[i] = lines[i]
  BY <1>1 DEF RanIn
<1> QED BY <1>1, <1>3, <1>4, <1>5 DEF u

LEMMA DrainLineInOrder ==
    ASSUME NEW L, NEW lines \in Seq(L), NEW line \in L, line.of # "inverse", NEW tr, NEW rest,
           InOrder(tr, lines, rest)
    PROVE  InOrder(tr, Append(lines, line), rest)
<1> DEFINE u == Append(lines, line)
<1>1. RanIn(u) = RanIn(lines) /\ \A i \in RanIn(lines) : u[i] = lines[i]
  BY RanAppend
<1> HIDE DEF u
<1>2. InOrder(tr, u, rest)
  BY <1>1 DEF InOrder
<1> QED BY <1>2 DEF u

LEMMA NextInOrder ==
    ASSUME NEW L, NEW lines \in Seq(L), NEW line \in L, line.of = "inverse", NEW tr, NEW rest, NEW after,
           InOrder(tr, lines, rest), after \subseteq rest, line.id \in rest,
           \A e \in after : BeforeIn(tr, line.id, e)
    PROVE  InOrder(tr, Append(lines, line), after)
<1> DEFINE u == Append(lines, line)
           n == Len(lines) + 1
<1>1. /\ Len(lines) \in Nat /\ u[n] = line /\ RanIn(u) = RanIn(lines) \union {n}
      /\ \A i \in RanIn(lines) : i \in 1..Len(lines) /\ u[i] = lines[i]
  BY RanAppend
<1>2. \A i \in RanIn(lines) : i < n /\ ~(n < i)
  BY <1>1
<1>3. ~(n < n)
  BY <1>1
<1> HIDE DEF u, n
<1>4. ASSUME NEW i \in RanIn(u), NEW j \in RanIn(u), i < j PROVE BeforeIn(tr, u[i].id, u[j].id)
  <2>1. i \in RanIn(lines)
    BY <1>1, <1>2, <1>3, <1>4
  <2>2. CASE j \in RanIn(lines)
    BY <1>1, <1>4, <2>1, <2>2 DEF InOrder
  <2>3. CASE j = n
    BY <1>1, <2>1, <2>3 DEF InOrder
  <2> QED BY <1>1, <2>2, <2>3
<1>5. ASSUME NEW i \in RanIn(u), NEW e \in after PROVE BeforeIn(tr, u[i].id, e)
  <2>1. CASE i \in RanIn(lines)
    BY <1>1, <2>1 DEF InOrder
  <2>2. CASE i = n
    BY <1>1, <2>2
  <2> QED BY <1>1, <2>1, <2>2
<1>6. InOrder(tr, u, after)
  BY <1>4, <1>5 DEF InOrder
<1> QED BY <1>6 DEF u

(* What a handle owes next, and what after it.                                *)
LEMMA NextOwed ==
    ASSUME NEW tr, NEW L, NEW f \in Seq(L), f # <<>>, OrderedIn(tr, f)
    PROVE  /\ Head(f) \in L /\ Tail(f) \in Seq(L) /\ OrderedIn(tr, Tail(f))
           /\ \A i \in 1..Len(Tail(f)) : BeforeIn(tr, Head(f), Tail(f)[i])
           /\ Head(f) \notin ToSet(Tail(f))
           /\ ToSet(f) = ToSet(Tail(f)) \union {Head(f)}
<1> DEFINE h == Head(f)
           r == Tail(f)
<1>1. /\ Len(f) \in Nat \ {0} /\ r \in Seq(L) /\ Len(r) = Len(f) - 1 /\ h = f[1] /\ h \in L
      /\ \A i \in 1..(Len(f) - 1) : r[i] = f[i + 1]
  OBVIOUS
<1>2. DOMAIN f = 1..Len(f) /\ DOMAIN r = 1..(Len(f) - 1)
  BY <1>1
<1> HIDE DEF h, r
<1>3. \A i \in 1..(Len(f) - 1) : i + 1 \in 1..Len(f) /\ 1 \in 1..Len(f) /\ 1 < i + 1
  BY <1>1
<1>4. \A i, j \in 1..(Len(f) - 1) : i < j => i + 1 < j + 1
  BY <1>1
<1>5. OrderedIn(tr, r)
  BY <1>1, <1>3, <1>4 DEF OrderedIn
<1>6. \A i \in 1..Len(r) : BeforeIn(tr, h, r[i])
  BY <1>1, <1>3 DEF OrderedIn
<1>7. h \notin ToSet(r)
  BY <1>1, <1>2, <1>6, NotBeforeItself DEF ToSet
<1>8. \A i \in 1..Len(f) : i = 1 \/ (i - 1 \in 1..(Len(f) - 1) /\ (i - 1) + 1 = i)
  BY <1>1
<1>9. ToSet(f) \subseteq ToSet(r) \union {h}
  <2>1. ASSUME NEW i \in 1..Len(f) PROVE f[i] \in ToSet(r) \union {h}
    <3>1. CASE i = 1
      BY <1>1, <3>1
    <3>2. CASE i - 1 \in 1..(Len(f) - 1) /\ (i - 1) + 1 = i
      BY <1>1, <1>2, <3>2 DEF ToSet
    <3> QED BY <1>8, <3>1, <3>2
  <2> QED BY <1>2, <2>1 DEF ToSet
<1>10. ToSet(r) \union {h} \subseteq ToSet(f)
  <2>1. 1 \in 1..Len(f)
    BY <1>1
  <2> QED BY <1>1, <1>2, <1>3, <2>1 DEF ToSet
<1> QED BY <1>1, <1>5, <1>6, <1>7, <1>9, <1>10 DEF h, r

-----------------------------------------------------------------------------
(* The inductive invariant. *)

ScopeShape ==
    /\ Forest(tree) /\ Len(tree) <= MaxRecords
    /\ ClosedIn(tree, live) /\ drainable \subseteq live
    /\ task \in {"idle", "drain", "replay", "suspend"} /\ replayed \in BOOLEAN
    /\ drains \in Seq(1..Len(tree)) /\ (task = "drain" => drains # <<>>)
    /\ current \in 0..Len(tree) /\ (current # 0 => task \in {"replay", "suspend"})
    /\ task \in {"replay", "suspend"} => replayed
    /\ Logged(tree, withdrawn) /\ Logged(tree, reported)
    /\ completed \subseteq 1..Len(tree) /\ drops \in Nat

HandleShape ==
    /\ owed \in Seq(1..Len(tree)) /\ inHand \in 0..Len(tree) /\ lost \subseteq 1..Len(tree)
    /\ Logged(tree, written) /\ \A i \in 1..Len(written) : written[i].of = "inverse"
    /\ handle \in {"none", "held", "now", "await"}
    /\ handle = "none" => owed = <<>> /\ inHand = 0 /\ written = <<>>
    /\ handle = "held" => owed # <<>> /\ inHand = 0 /\ written = <<>>
    /\ handle \in {"now", "await"} => inHand # 0
    /\ OrderedIn(tree, owed)
    /\ inHand # 0 => \A i \in 1..Len(owed) : BeforeIn(tree, inHand, owed[i])

DoneInv == DoneRan(withdrawn, completed) /\ DoneRan(reported, completed) /\ DoneRan(written, completed)

OrderInv ==
    /\ RanIn(withdrawn) # {} => replayed
    /\ InOrder(tree, withdrawn, live \union ({current} \ {0}))
    /\ current # 0 => \A e \in live : BeforeIn(tree, current, e)

ScopeInv == ScopeShape /\ HandleShape /\ DoneInv /\ OrderInv /\ OneFate

(* The fate of an effect, as counts.                                          *)
FateSum(e) ==
    Count(withdrawn, e) + Count(reported, e) + Count(written, e)
        + OneIf(e \in live) + OneIf(e = current) + OneIf(e \in ToSet(owed))
        + OneIf(e = inHand) + OneIf(e \in lost)

LEMMA FateIsSum == OneFate <=> \A e \in 1..Len(tree) : FateSum(e) = 1
BY DEF OneFate, FateSum, InverseLines, Count, Effects

LEMMA CountsType ==
    ASSUME ScopeShape, HandleShape
    PROVE  \A e : Count(withdrawn, e) \in Nat /\ Count(reported, e) \in Nat /\ Count(written, e) \in Nat
<1>1. withdrawn \in Seq(Line) /\ reported \in Seq(Line) /\ written \in Seq(Line)
  BY DEF ScopeShape, HandleShape, Logged
<1> QED BY <1>1, CountType

(* Registration.                                                              *)
LEMMA Grown ==
    ASSUME ScopeShape, Len(tree) < MaxRecords, NEW kind \in EffectKind, NEW parent \in live \union {0},
           NEW grown, grown = Append(tree, [parent |-> parent, kind |-> kind])
    PROVE  /\ Forest(grown) /\ Len(grown) = Len(tree) + 1 /\ Len(tree) \in Nat /\ Len(grown) <= MaxRecords
           /\ \A e \in 1..Len(tree) : grown[e] = tree[e]
           /\ 1..Len(tree) \subseteq 1..Len(grown)
           /\ ClosedIn(grown, live \union {Len(tree) + 1})
<1> DEFINE new == [parent |-> parent, kind |-> kind]
<1>0. tree \in Seq(Registration) /\ Len(tree) \in Nat /\ live \subseteq 1..Len(tree)
  BY DEF ScopeShape, Forest, ClosedIn
<1>1. parent \in Nat /\ parent < Len(tree) + 1
  BY <1>0
<1>2. new \in Registration
  BY <1>1 DEF Registration
<1>3. new.parent = parent
  OBVIOUS
<1> HIDE DEF new
<1>4. /\ grown \in Seq(Registration) /\ Len(grown) = Len(tree) + 1 /\ grown[Len(tree) + 1] = new
      /\ \A e \in 1..Len(tree) : grown[e] = tree[e]
  BY <1>0, <1>2 DEF new
<1>5. \A e \in 1..Len(grown) : e \in 1..Len(tree) \/ e = Len(tree) + 1
  BY <1>0, <1>4
<1>6. 1..Len(tree) \subseteq 1..Len(grown) /\ Len(tree) + 1 \in 1..Len(grown) /\ Len(grown) <= MaxRecords
  BY <1>0, <1>4, EffectBounds
<1>7. ASSUME NEW e \in 1..Len(grown) PROVE grown[e].parent < e
  <2>1. CASE e \in 1..Len(tree)
    BY <1>4, <2>1 DEF ScopeShape, Forest
  <2>2. CASE e = Len(tree) + 1
    BY <1>1, <1>3, <1>4, <2>2
  <2> QED BY <1>5, <2>1, <2>2
<1>8. Forest(grown)
  BY <1>4, <1>7 DEF Forest
<1>9. ClosedIn(grown, live \union {Len(tree) + 1})
  <2>1. ASSUME NEW e \in live PROVE grown[e].parent = 0 \/ grown[e].parent \in live
    BY <1>0, <1>4 DEF ScopeShape, ClosedIn
  <2>2. grown[Len(tree) + 1].parent = 0 \/ grown[Len(tree) + 1].parent \in live
    BY <1>3, <1>4
  <2> QED BY <1>0, <1>6, <2>1, <2>2 DEF ClosedIn
<1> QED BY <1>0, <1>4, <1>6, <1>8, <1>9

LEMMA RegisterKeeps ==
    ASSUME ScopeInv, NEW kind \in EffectKind, NEW parent \in live \union {0},
           task = "idle", ~replayed, Len(tree) < MaxRecords,
           tree' = Append(tree, [parent |-> parent, kind |-> kind]),
           live' = live \union {Len(tree) + 1},
           drainable' \subseteq drainable \union {Len(tree) + 1},
           UNCHANGED <<task, drains, current, withdrawn, replayed, reported,
                       detachedVars, completed, drops>>
    PROVE  ScopeInv'
<1> DEFINE n == Len(tree) + 1
<1>0. ScopeShape /\ HandleShape /\ DoneInv /\ OrderInv /\ OneFate
  BY DEF ScopeInv
<1>1. /\ Forest(tree') /\ Len(tree') = n /\ Len(tree) \in Nat /\ Len(tree') <= MaxRecords
      /\ \A e \in 1..Len(tree) : tree'[e] = tree[e]
      /\ 1..Len(tree) \subseteq 1..Len(tree')
      /\ ClosedIn(tree', live')
  <2> DEFINE grown == tree'
  <2>1. grown = Append(tree, [parent |-> parent, kind |-> kind])
    OBVIOUS
  <2> HIDE DEF grown
  <2>2. /\ Forest(grown) /\ Len(grown) = n /\ Len(tree) \in Nat /\ Len(grown) <= MaxRecords
        /\ \A e \in 1..Len(tree) : grown[e] = tree[e]
        /\ 1..Len(tree) \subseteq 1..Len(grown)
        /\ ClosedIn(grown, live \union {n})
    BY <1>0, <2>1, Grown
  <2> QED BY <2>2 DEF grown
<1>2. Forest(tree)
  BY <1>0 DEF ScopeShape
<1>3. Len(tree) <= Len(tree') /\ Len(tree') \in Nat
  BY <1>1
<1>4. \A x, y \in 1..Len(tree) : BeforeIn(tree, x, y) => BeforeIn(tree', x, y)
  BY <1>1, <1>2, <1>3, OrderGrows
<1>5. \A lines : Logged(tree, lines) => Logged(tree', lines)
  BY <1>1, <1>3, LoggedGrows
<1>6. ScopeShape'
  <2>1. drains' \in Seq(1..Len(tree')) /\ current' \in 0..Len(tree')
    BY <1>0, <1>1, <1>3 DEF ScopeShape
  <2>2. drainable' \subseteq live'
    BY <1>0 DEF ScopeShape
  <2> QED BY <1>0, <1>1, <1>5, <2>1, <2>2 DEF ScopeShape
<1>7. HandleShape'
  <2>0. UNCHANGED <<owed, inHand, handle, written, lost>>
    BY DEF detachedVars
  <2>1. owed' \in Seq(1..Len(tree')) /\ inHand' \in 0..Len(tree') /\ lost' \subseteq 1..Len(tree')
    BY <1>0, <1>1, <1>3, <2>0 DEF HandleShape
  <2>2. \A i \in 1..Len(owed) : owed[i] \in 1..Len(tree)
    BY <1>0 DEF HandleShape
  <2>3. OrderedIn(tree', owed)
    BY <1>0, <1>4, <2>2 DEF HandleShape, OrderedIn
  <2>4. inHand # 0 => \A i \in 1..Len(owed) : BeforeIn(tree', inHand, owed[i])
    <3>1. inHand # 0 => inHand \in 1..Len(tree)
      BY <1>0, <1>1 DEF HandleShape
    <3> QED BY <1>0, <1>4, <2>2, <3>1 DEF HandleShape
  <2>5. Logged(tree', written')
    BY <1>0, <1>5, <2>0 DEF HandleShape
  <2> QED BY <1>0, <2>0, <2>1, <2>3, <2>4, <2>5 DEF HandleShape
<1>8. DoneInv'
  BY <1>0 DEF DoneInv, detachedVars
<1>9. OrderInv'
  <2>1. RanIn(withdrawn) = {} /\ current = 0
    BY <1>0 DEF OrderInv, ScopeShape
  <2> QED BY <2>1 DEF OrderInv, InOrder
<1>10. OneFate'
  <2>0. UNCHANGED <<withdrawn, reported, written, current, owed, inHand, lost>>
    BY DEF detachedVars
  <2>1. SUFFICES ASSUME NEW e \in 1..Len(tree') PROVE FateSum(e)' = 1
    BY DEF OneFate, FateSum, InverseLines, Count, Effects
  <2>2. \A x : Count(withdrawn, x) \in Nat /\ Count(reported, x) \in Nat /\ Count(written, x) \in Nat
    BY <1>0, CountsType
  <2>3. CASE e \in 1..Len(tree)
    <3>1. e # n
      BY <1>1, <2>3
    <3>2. FateSum(e) = 1
      BY <1>0, <2>3, FateIsSum
    <3>3. e \in live' <=> e \in live
      BY <3>1
    <3> QED BY <2>0, <3>2, <3>3 DEF FateSum
  <2>4. CASE e = n
    <3>1. ~(n \in 1..Len(tree)) /\ n # 0 /\ n \notin 0..Len(tree)
      BY <1>1
    <3>2. \A lines : Logged(tree, lines) => Count(lines, n) = 0
      <4> SUFFICES ASSUME NEW lines, Logged(tree, lines) PROVE Count(lines, n) = 0
        OBVIOUS
      <4>1. lines \in Seq(Line) /\ \A i \in 1..Len(lines) : lines[i].id # n
        BY <3>1 DEF Logged
      <4> QED BY <4>1, CountZero DEF Mine
    <3>3. Count(withdrawn, n) = 0 /\ Count(reported, n) = 0 /\ Count(written, n) = 0
      BY <1>0, <3>2 DEF ScopeShape, HandleShape
    <3>4. n # current /\ n # inHand /\ n \notin lost
      BY <1>0, <3>1 DEF ScopeShape, HandleShape
    <3>5. n \notin ToSet(owed)
      <4>1. \A i \in DOMAIN owed : owed[i] \in 1..Len(tree)
        BY <1>0 DEF HandleShape
      <4> QED BY <3>1, <4>1 DEF ToSet
    <3>6. n \in live'
      OBVIOUS
    <3> HIDE DEF n
    <3> QED BY <2>0, <2>4, <3>3, <3>4, <3>5, <3>6 DEF FateSum, OneIf
  <2> QED BY <1>1, <2>3, <2>4
<1> QED BY <1>6, <1>7, <1>8, <1>9, <1>10 DEF ScopeInv

(* What a step that leaves the handle, or the scope's log, alone keeps.        *)
LEMMA HandleFrame ==
    ASSUME HandleShape, UNCHANGED <<tree, detachedVars>>
    PROVE  HandleShape'
BY DEF HandleShape, detachedVars

LEMMA FateFrame ==
    ASSUME OneFate, UNCHANGED <<tree, live, current, withdrawn, reported, detachedVars>>
    PROVE  OneFate'
BY DEF OneFate, InverseLines, Effects, detachedVars

(* What is selected of what is live, in the order of the teardown.            *)
LEMMA SelectedInOrder ==
    ASSUME ScopeShape, NEW keep, keep \subseteq live
    PROVE  LET f == Select(Flatten(live), keep)
           IN  /\ f \in Seq(1..Len(tree)) /\ ToSet(f) = keep /\ (keep # {} => f # <<>>)
               /\ OrderedIn(tree, f)
<1> DEFINE t == Flatten(live)
           f == Select(t, keep)
<1>1. Forest(tree) /\ Closed(live) /\ live \subseteq 1..Len(tree)
  BY ClosedIsClosedIn DEF ScopeShape, ClosedIn
<1>2. t \in Seq(live) /\ ToSet(t) = live /\ Ordered(t)
  BY <1>1, FlattenFacts
<1> HIDE DEF t
<1>3. f \in Seq(live) /\ ToSet(f) = ToSet(t) \intersect keep
  BY <1>2, SelectRange
<1>4. \E pos \in [1..Len(f) -> 1..Len(t)] :
         /\ \A k \in 1..Len(f) : f[k] = t[pos[k]]
         /\ \A i, j \in 1..Len(f) : i < j => pos[i] < pos[j]
  <2>1. t \in Seq(live)
    BY <1>2
  <2> QED BY <2>1, SelectOrder, Zenon
<1> HIDE DEF f
<1>5. PICK pos \in [1..Len(f) -> 1..Len(t)] :
         /\ \A k \in 1..Len(f) : f[k] = t[pos[k]]
         /\ \A i, j \in 1..Len(f) : i < j => pos[i] < pos[j]
  BY <1>4
<1>6. OrderedIn(tree, f)
  <2> SUFFICES ASSUME NEW i \in 1..Len(f), NEW j \in 1..Len(f), i < j
               PROVE  BeforeIn(tree, f[i], f[j])
    BY DEF OrderedIn
  <2>1. pos[i] \in 1..Len(t) /\ pos[j] \in 1..Len(t) /\ pos[i] < pos[j]
    BY <1>5
  <2>2. Before(t[pos[i]], t[pos[j]])
    BY <1>2, <2>1 DEF Ordered
  <2> QED BY <1>5, <2>2, BeforeIsBeforeIn
<1>7. ToSet(f) = keep
  BY <1>2, <1>3
<1>8. keep # {} => f # <<>>
  <2>1. ToSet(<<>>) = {}
    BY DEF ToSet
  <2> QED BY <1>7, <2>1
<1>9. f \in Seq(1..Len(tree))
  <2>1. f \in Seq(live) /\ live \subseteq 1..Len(tree)
    BY <1>1, <1>3
  <2> QED BY <2>1, SeqWider, Zenon
<1> QED BY <1>6, <1>7, <1>8, <1>9 DEF f, t

-----------------------------------------------------------------------------
(* drain *)

LEMMA StartDrainKeeps ==
    ASSUME ScopeInv, StartDrain
    PROVE  ScopeInv'
<1>0. ScopeShape /\ HandleShape /\ DoneInv /\ OrderInv /\ OneFate
  BY DEF ScopeInv
<1>1. drains' \in Seq(1..Len(tree)) /\ drains' # <<>>
  <2>1. drainable \subseteq live /\ drainable # {}
    BY <1>0 DEF ScopeShape, StartDrain
  <2>2. drains' = Select(Flatten(live), drainable)
    BY DEF StartDrain, TakenDrains
  <2>3. Select(Flatten(live), drainable) \in Seq(1..Len(tree)) /\ Select(Flatten(live), drainable) # <<>>
    BY <1>0, <2>1, SelectedInOrder
  <2> QED BY <2>2, <2>3
<1>2. ScopeShape'
  BY <1>0, <1>1 DEF ScopeShape, StartDrain
<1>3. HandleShape' /\ OneFate'
  BY <1>0, HandleFrame, FateFrame DEF StartDrain
<1>4. DoneInv' /\ OrderInv'
  BY <1>0 DEF DoneInv, OrderInv, StartDrain, detachedVars
<1> QED BY <1>2, <1>3, <1>4 DEF ScopeInv

LEMMA DrainPhaseEndsKeeps ==
    ASSUME ScopeInv, NEW outcome \in Ended, DrainPhaseEnds(outcome)
    PROVE  ScopeInv'
<1> DEFINE line == [id |-> Head(drains), of |-> "drain", outcome |-> outcome]
<1>0. ScopeShape /\ HandleShape /\ DoneInv /\ OrderInv /\ OneFate
  BY DEF ScopeInv
<1>1. /\ drains \in Seq(1..Len(tree)) /\ drains # <<>> /\ Len(tree) \in Nat /\ Len(tree) <= MaxRecords
      /\ Logged(tree, withdrawn) /\ withdrawn \in Seq(Line)
  BY <1>0, ForestFields DEF ScopeShape, DrainPhaseEnds, Logged
<1>2. /\ Head(drains) \in 1..Len(tree) /\ Tail(drains) \in Seq(1..Len(tree))
      /\ Len(drains) # 1 => Tail(drains) # <<>>
  <2>1. Len(drains) \in Nat \ {0} /\ Len(Tail(drains)) = Len(drains) - 1
    BY <1>1
  <2>2. Len(drains) # 1 => Len(Tail(drains)) # 0
    BY <2>1
  <2>3. Len(<<>>) = 0
    OBVIOUS
  <2>4. Len(drains) # 1 => Tail(drains) # <<>>
    <3> DEFINE r == Tail(drains)
    <3> HIDE DEF r
    <3>1. Len(drains) # 1 => Len(r) # 0
      BY <2>2 DEF r
    <3>2. Len(drains) # 1 => r # <<>>
      BY <2>3, <3>1, Zenon
    <3> QED BY <3>2 DEF r
  <2>5. Head(drains) \in 1..Len(tree) /\ Tail(drains) \in Seq(1..Len(tree))
    BY <1>1
  <2> QED BY <2>4, <2>5
<1>3. line \in Line
  <2>1. outcome \in Outcome
    BY DEF Outcome
  <2> QED BY <1>1, <1>2, <2>1, NewLine
<1>4. line.id \in 1..Len(tree) /\ line.of = "drain"
  BY <1>2
<1> HIDE DEF line
<1>5. withdrawn' = withdrawn \/ withdrawn' = Append(withdrawn, line)
  BY DEF DrainPhaseEnds, line
<1>6. /\ tree' = tree /\ live' = live /\ drainable' = drainable /\ current' = current
      /\ replayed' = replayed /\ reported' = reported /\ completed' = completed /\ drops' = drops
      /\ task = "drain" /\ drains' = Tail(drains) /\ task' \in {"idle", "drain"}
      /\ task' = "drain" => Len(drains) # 1
      /\ UNCHANGED detachedVars
  BY DEF DrainPhaseEnds
<1>7. Logged(tree, withdrawn')
  <2>1. Logged(tree, withdrawn) /\ line.id \in 1..Len(tree)
    BY <1>1, <1>4, Zenon
  <2>2. Logged(tree, Append(withdrawn, line))
    BY <1>3, <2>1, LoggedAppend, Zenon
  <2> QED BY <1>5, <2>1, <2>2, Zenon
<1>8. ScopeShape'
  BY <1>0, <1>2, <1>6, <1>7 DEF ScopeShape
<1>9. HandleShape'
  BY <1>0, <1>6, HandleFrame
<1>10. DoneInv'
  <2>1. DoneRan(withdrawn', completed)
    <3>1. DoneRan(withdrawn, completed)
      BY <1>0, Zenon DEF DoneInv
    <3>2. withdrawn \in Seq(Line)
      BY <1>1
    <3>3. line.of # "inverse"
      BY <1>4
    <3>4. DoneRan(Append(withdrawn, line), completed)
      BY <1>3, <3>1, <3>2, <3>3, DoneAppend, Zenon
    <3> QED BY <1>5, <3>1, <3>4, Zenon
  <2> QED BY <1>0, <1>6, <2>1 DEF DoneInv, detachedVars
<1>11. OrderInv'
  <2>1. RanIn(withdrawn') = RanIn(withdrawn)
    <3>1. withdrawn \in Seq(Line) /\ line \in Line /\ line.of # "inverse"
      BY <1>1, <1>3, <1>4
    <3>2. RanIn(Append(withdrawn, line)) = RanIn(withdrawn)
      BY <3>1, RanAppend, SMT
    <3> QED BY <1>5, <3>2
  <2>2. InOrder(tree, withdrawn', live \union ({current} \ {0}))
    BY <1>0, <1>1, <1>3, <1>4, <1>5, DrainLineInOrder DEF OrderInv
  <2> QED BY <1>0, <1>6, <2>1, <2>2 DEF OrderInv
<1>12. OneFate'
  <2>1. \A e : Count(withdrawn', e) = Count(withdrawn, e)
    <3> SUFFICES ASSUME NEW e PROVE Count(withdrawn', e) = Count(withdrawn, e)
      OBVIOUS
    <3>1. CASE withdrawn' = withdrawn
      BY <3>1
    <3>2. CASE withdrawn' = Append(withdrawn, line)
      <4>1. Count(Append(withdrawn, line), e) = Count(withdrawn, e) + 0
        BY <1>1, <1>3, <1>4, CountAppend DEF Mine, OneIf
      <4>2. Count(withdrawn, e) \in Nat
        BY <1>1, CountType
      <4> QED BY <3>2, <4>1, <4>2
    <3> QED BY <1>5, <3>1, <3>2
  <2> QED BY <1>0, <1>6, <2>1 DEF OneFate, InverseLines, Count, Effects, detachedVars
<1> QED BY <1>8, <1>9, <1>10, <1>11, <1>12 DEF ScopeInv

LEMMA DropDrainKeeps ==
    ASSUME ScopeInv, DropDrain
    PROVE  ScopeInv'
<1>0. ScopeShape /\ HandleShape /\ DoneInv /\ OrderInv /\ OneFate
  BY DEF ScopeInv
<1>1. ScopeShape'
  <2>1. <<>> \in Seq(1..Len(tree))
    OBVIOUS
  <2> QED BY <1>0, <2>1 DEF ScopeShape, DropDrain
<1>2. HandleShape' /\ OneFate'
  BY <1>0, HandleFrame, FateFrame DEF DropDrain
<1>3. DoneInv' /\ OrderInv'
  BY <1>0 DEF DoneInv, OrderInv, DropDrain, detachedVars
<1> QED BY <1>1, <1>2, <1>3 DEF ScopeInv

-----------------------------------------------------------------------------
(* replay and suspend *)

(* The next record is a leaf that goes before the others: without it, what is *)
(* live is still a forest.                                                    *)
LEMMA NextLive ==
    ASSUME ScopeShape, live # {}
    PROVE  /\ TakeNext(live) \in live /\ TakeNext(live) \in 1..Len(tree)
           /\ ClosedIn(tree, live \ {TakeNext(live)})
           /\ \A y \in live \ {TakeNext(live)} : BeforeIn(tree, TakeNext(live), y)
<1> DEFINE x == TakeNext(live)
<1>1. Forest(tree) /\ Closed(live) /\ ClosedIn(tree, live)
  BY ClosedIsClosedIn DEF ScopeShape
<1>2. x \in live /\ Children(live, x) = {} /\ \A y \in live \ {x} : Before(x, y)
  BY <1>1, TakeNextFirst
<1> HIDE DEF x
<1>3. \A e \in live : tree[e].parent # x
  BY <1>2 DEF Children
<1>4. ClosedIn(tree, live \ {x})
  BY <1>1, <1>3 DEF ClosedIn
<1>5. \A y \in live \ {x} : BeforeIn(tree, x, y)
  BY <1>2, BeforeIsBeforeIn
<1> QED BY <1>1, <1>2, <1>4, <1>5 DEF x, ClosedIn

LEMMA StartReplayKeeps ==
    ASSUME ScopeInv, NEW replay \in {"replay", "suspend"}, StartReplay(replay)
    PROVE  ScopeInv'
<1>0. ScopeShape /\ HandleShape /\ DoneInv /\ OrderInv /\ OneFate
  BY DEF ScopeInv
<1>1. ScopeShape'
  BY <1>0 DEF ScopeShape, StartReplay
<1>2. HandleShape' /\ OneFate'
  BY <1>0, HandleFrame, FateFrame DEF StartReplay
<1>3. DoneInv' /\ OrderInv'
  BY <1>0 DEF DoneInv, OrderInv, StartReplay, detachedVars
<1> QED BY <1>1, <1>2, <1>3 DEF ScopeInv

LEMMA StartInverseKeeps ==
    ASSUME ScopeInv, StartInverse
    PROVE  ScopeInv'
<1> DEFINE x == TakeNext(live)
<1>0. ScopeShape /\ HandleShape /\ DoneInv /\ OrderInv /\ OneFate
  BY DEF ScopeInv
<1>1. /\ task \in {"replay", "suspend"} /\ current = 0 /\ live # {}
      /\ current' = x /\ live' = live \ {x} /\ drainable' = drainable \ {x}
      /\ UNCHANGED <<tree, task, drains, withdrawn, replayed, reported, detachedVars, completed, drops>>
  BY DEF StartInverse
<1>2. /\ x \in live /\ x \in 1..Len(tree) /\ ClosedIn(tree, live \ {x})
      /\ \A y \in live \ {x} : BeforeIn(tree, x, y)
  BY <1>0, <1>1, NextLive
<1> HIDE DEF x
<1>3. x # 0 /\ x \in 0..Len(tree)
  BY <1>0, <1>2, ForestFields DEF ScopeShape
<1>4. ScopeShape'
  BY <1>0, <1>1, <1>2, <1>3 DEF ScopeShape
<1>5. HandleShape'
  BY <1>0, <1>1, HandleFrame
<1>6. DoneInv'
  BY <1>0, <1>1 DEF DoneInv, detachedVars
<1>7. OrderInv'
  <2>1. live' \union ({current'} \ {0}) = live \union ({current} \ {0})
    BY <1>1, <1>2, <1>3
  <2> QED BY <1>0, <1>1, <1>2, <2>1 DEF OrderInv
<1>8. OneFate'
  <2>0. UNCHANGED <<tree, withdrawn, reported, written, owed, inHand, lost>>
    BY <1>1 DEF detachedVars
  <2>1. SUFFICES ASSUME NEW e \in 1..Len(tree) PROVE FateSum(e)' = 1
    BY <2>0 DEF OneFate, FateSum, InverseLines, Count, Effects
  <2>2. FateSum(e) = 1
    BY <1>0, FateIsSum
  <2>3. Count(withdrawn, e) \in Nat /\ Count(reported, e) \in Nat /\ Count(written, e) \in Nat
    BY <1>0, CountsType
  <2>4. e # current
    BY <1>0, <1>1, ForestFields DEF ScopeShape
  <2>5. (e \in live' <=> e \in live /\ e # x) /\ (e = current' <=> e = x)
    BY <1>1
  <2> QED BY <1>2, <2>0, <2>2, <2>3, <2>4, <2>5 DEF FateSum, OneIf
<1> QED BY <1>4, <1>5, <1>6, <1>7, <1>8 DEF ScopeInv

(* A line for the inverse in flight, or for the one that is next.             *)
LEMMA LineWritten ==
    ASSUME ScopeInv, NEW x \in 1..Len(tree), NEW outcome \in Outcome,
           \/ current = x /\ live' = live
           \/ /\ current = 0 /\ x \in live /\ live' = live \ {x} /\ ClosedIn(tree, live \ {x})
              /\ \A y \in live \ {x} : BeforeIn(tree, x, y),
           drainable' \subseteq live',
           task \in {"replay", "suspend"}, task' \in {"idle", "replay", "suspend"}, current' = 0,
           withdrawn' = Append(withdrawn, [id |-> x, of |-> "inverse", outcome |-> outcome]),
           completed' = IF outcome = "Done" THEN completed \union {x} ELSE completed,
           drops' \in Nat, UNCHANGED <<tree, drains, replayed, reported, detachedVars>>
    PROVE  ScopeInv'
<1> DEFINE line == [id |-> x, of |-> "inverse", outcome |-> outcome]
           rest == live \union ({current} \ {0})
<1>0. ScopeShape /\ HandleShape /\ DoneInv /\ OrderInv /\ OneFate
  BY DEF ScopeInv
<1>1. /\ Len(tree) \in Nat /\ Len(tree) <= MaxRecords /\ x # 0
      /\ Logged(tree, withdrawn) /\ withdrawn \in Seq(Line)
      /\ reported \in Seq(Line) /\ written \in Seq(Line)
  BY <1>0, ForestFields DEF ScopeShape, HandleShape, Logged
<1>2. line \in Line
  BY <1>1, NewLine
<1>3. line.id = x /\ line.of = "inverse" /\ line.outcome = outcome /\ withdrawn' = Append(withdrawn, line)
  OBVIOUS
<1> HIDE DEF line
<1>4. /\ live' \subseteq live /\ x \in rest /\ live' \subseteq rest /\ ClosedIn(tree, live')
      /\ \A y \in live' : BeforeIn(tree, x, y)
  <2>1. ClosedIn(tree, live) /\ (current # 0 => \A e \in live : BeforeIn(tree, current, e))
    BY <1>0 DEF ScopeShape, OrderInv
  <2>2. CASE current = x /\ live' = live
    <3>1. x \in rest /\ live' \subseteq rest
      BY <1>1, <2>2
    <3> QED BY <1>1, <2>1, <2>2, <3>1, Zenon
  <2>3. CASE /\ current = 0 /\ x \in live /\ live' = live \ {x} /\ ClosedIn(tree, live \ {x})
             /\ \A y \in live \ {x} : BeforeIn(tree, x, y)
    <3>1. live' \subseteq live /\ x \in rest /\ live' \subseteq rest
      BY <2>3
    <3> QED BY <2>3, <3>1
  <2> QED BY <2>2, <2>3
<1>5. ScopeShape'
  <2>1. Logged(tree, withdrawn')
    <3>1. line.id \in 1..Len(tree)
      BY <1>3, Zenon
    <3>2. Logged(tree, Append(withdrawn, line))
      BY <1>1, <1>2, <3>1, LoggedAppend, Zenon
    <3> QED BY <1>3, <3>2, Zenon
  <2>2. completed' \subseteq 1..Len(tree)
    BY <1>0 DEF ScopeShape
  <2> QED BY <1>0, <1>1, <1>4, <2>1, <2>2 DEF ScopeShape
<1>6. HandleShape'
  BY <1>0, HandleFrame
<1>7. DoneInv'
  <2>1. completed \subseteq completed' /\ (outcome = "Done" => x \in completed')
    OBVIOUS
  <2>2. DoneRan(withdrawn', completed')
    BY <1>0, <1>1, <1>2, <1>3, <2>1, DoneAppend DEF DoneInv
  <2> QED BY <1>0, <2>1, <2>2 DEF DoneInv, DoneRan, detachedVars
<1>8. OrderInv'
  <2>1. InOrder(tree, withdrawn, rest)
    BY <1>0 DEF OrderInv
  <2>2. InOrder(tree, withdrawn', live')
    <3> DEFINE after == live'
    <3>1. /\ withdrawn \in Seq(Line) /\ line \in Line /\ line.of = "inverse" /\ line.id = x
          /\ InOrder(tree, withdrawn, rest) /\ after \subseteq rest /\ x \in rest
          /\ \A y \in after : BeforeIn(tree, x, y)
      BY <1>1, <1>2, <1>3, <1>4, <2>1
    <3> HIDE DEF rest, after
    <3>2. InOrder(tree, Append(withdrawn, line), after)
      BY <3>1, NextInOrder
    <3> QED BY <1>3, <3>2 DEF after
  <2>3. replayed
    BY <1>0 DEF ScopeShape
  <2>4. live' \union ({current'} \ {0}) = live'
    OBVIOUS
  <2> QED BY <2>2, <2>3, <2>4 DEF OrderInv
<1>9. OneFate'
  <2>0. UNCHANGED <<tree, reported, written, owed, inHand, lost>>
    BY DEF detachedVars
  <2>1. SUFFICES ASSUME NEW e \in 1..Len(tree) PROVE FateSum(e)' = 1
    BY <2>0 DEF OneFate, FateSum, InverseLines, Count, Effects
  <2>2. FateSum(e) = 1
    BY <1>0, FateIsSum
  <2>3. Count(withdrawn, e) \in Nat /\ Count(reported, e) \in Nat /\ Count(written, e) \in Nat
    BY <1>0, CountsType
  <2>4. Count(withdrawn', e) = Count(withdrawn, e) + (IF e = x THEN 1 ELSE 0)
    BY <1>1, <1>2, <1>3, CountAppend DEF Mine, OneIf
  <2>5. e # 0 /\ e # current'
    BY <1>1
  <2>6. CASE current = x /\ live' = live
    BY <2>0, <2>2, <2>3, <2>4, <2>5, <2>6 DEF FateSum, OneIf
  <2>7. CASE current = 0 /\ x \in live /\ live' = live \ {x}
    <3>1. e \in live' <=> e \in live /\ e # x
      BY <2>7
    <3> QED BY <2>0, <2>2, <2>3, <2>4, <2>5, <2>7, <3>1 DEF FateSum, OneIf
  <2> QED BY <2>6, <2>7
<1> QED BY <1>5, <1>6, <1>7, <1>8, <1>9 DEF ScopeInv

LEMMA SkipInverseKeeps ==
    ASSUME ScopeInv, SkipInverse
    PROVE  ScopeInv'
<1> DEFINE x == TakeNext(live)
<1>0. ScopeShape
  BY DEF ScopeInv
<1>1. /\ task = "suspend" /\ current = 0 /\ live # {}
      /\ live' = live \ {x} /\ drainable' = drainable \ {x}
      /\ withdrawn' = Append(withdrawn, [id |-> x, of |-> "inverse", outcome |-> "Stopped"])
      /\ UNCHANGED <<tree, task, drains, current, replayed, reported, detachedVars, completed, drops>>
  BY DEF SkipInverse
<1>2. /\ x \in live /\ x \in 1..Len(tree) /\ ClosedIn(tree, live \ {x})
      /\ \A y \in live \ {x} : BeforeIn(tree, x, y)
  BY <1>0, <1>1, NextLive
<1> HIDE DEF x
<1>3. drainable' \subseteq live' /\ drops' \in Nat /\ "Stopped" \in Outcome
  BY <1>0, <1>1 DEF ScopeShape, Outcome, Ended
<1> QED BY <1>1, <1>2, <1>3, LineWritten

LEMMA InverseEndsKeeps ==
    ASSUME ScopeInv, NEW outcome \in Ended, InverseEnds(outcome)
    PROVE  ScopeInv'
<1>0. ScopeShape
  BY DEF ScopeInv
<1>1. current \in 1..Len(tree) /\ task \in {"replay", "suspend"}
  BY <1>0, ForestFields DEF ScopeShape, InverseEnds
<1>2. drainable' \subseteq live' /\ drops' \in Nat /\ outcome \in Outcome
  BY <1>0 DEF ScopeShape, Outcome, InverseEnds
<1> QED BY <1>1, <1>2, LineWritten DEF InverseEnds

LEMMA DropReplayKeeps ==
    ASSUME ScopeInv, DropReplay
    PROVE  ScopeInv'
<1>0. ScopeShape /\ HandleShape /\ DoneInv /\ OrderInv /\ OneFate
  BY DEF ScopeInv
<1>1. drainable' \subseteq live' /\ drops' \in Nat /\ "Interrupted" \in Outcome
  BY <1>0 DEF ScopeShape, Outcome, DropReplay
<1>2. CASE current = 0
  <2>1. ScopeShape'
    BY <1>0, <1>2 DEF ScopeShape, DropReplay
  <2>2. HandleShape' /\ OneFate'
    BY <1>0, <1>2, HandleFrame, FateFrame DEF DropReplay
  <2>3. DoneInv' /\ OrderInv'
    BY <1>0, <1>2 DEF DoneInv, OrderInv, DropReplay, detachedVars
  <2> QED BY <2>1, <2>2, <2>3 DEF ScopeInv
<1>3. CASE current # 0
  <2>1. current \in 1..Len(tree) /\ "Interrupted" # "Done"
    BY <1>0, <1>3, ForestFields DEF ScopeShape
  <2> QED BY <1>1, <1>3, <2>1, LineWritten DEF DropReplay
<1> QED BY <1>2, <1>3

LEMMA ReportKeeps ==
    ASSUME ScopeInv, Report
    PROVE  ScopeInv'
<1>0. ScopeShape /\ HandleShape /\ DoneInv /\ OrderInv /\ OneFate
  BY DEF ScopeInv
<1>1. /\ Logged(tree, withdrawn) /\ Logged(tree, reported)
      /\ withdrawn \in Seq(Line) /\ reported \in Seq(Line)
  BY <1>0 DEF ScopeShape, Logged
<1>2. /\ reported' = reported \o withdrawn /\ withdrawn' = <<>> /\ task' = "idle"
      /\ current = 0 /\ live = {}
      /\ UNCHANGED <<tree, live, drainable, drains, current, replayed, detachedVars, completed, drops>>
  BY DEF Report
<1>3. Logged(tree, reported') /\ Logged(tree, withdrawn')
  BY <1>1, <1>2, LoggedConcat, LoggedEmpty
<1>4. ScopeShape'
  BY <1>0, <1>2, <1>3 DEF ScopeShape
<1>5. HandleShape'
  BY <1>0, <1>2, HandleFrame
<1>6. DoneInv'
  <2>1. DoneRan(reported', completed) /\ DoneRan(withdrawn', completed)
    BY <1>0, <1>1, <1>2, DoneConcat, DoneEmpty DEF DoneInv
  <2> QED BY <1>0, <1>2, <2>1 DEF DoneInv, detachedVars
<1>7. OrderInv'
  BY <1>2, RanEmpty DEF OrderInv
<1>8. OneFate'
  <2>0. UNCHANGED <<tree, live, current, written, owed, inHand, lost>>
    BY <1>2 DEF detachedVars
  <2>1. SUFFICES ASSUME NEW e \in 1..Len(tree) PROVE FateSum(e)' = 1
    BY <2>0 DEF OneFate, FateSum, InverseLines, Count, Effects
  <2>2. FateSum(e) = 1
    BY <1>0, FateIsSum
  <2>3. Count(withdrawn, e) \in Nat /\ Count(reported, e) \in Nat /\ Count(written, e) \in Nat
    BY <1>0, CountsType
  <2>4. Count(reported', e) = Count(reported, e) + Count(withdrawn, e) /\ Count(withdrawn', e) = 0
    BY <1>1, <1>2, CountConcat, CountEmpty
  <2> QED BY <2>0, <2>2, <2>3, <2>4 DEF FateSum, OneIf
<1> QED BY <1>4, <1>5, <1>6, <1>7, <1>8 DEF ScopeInv

-----------------------------------------------------------------------------
(* detach, and the handle *)

(* What is left of a forest without one record and all that is under it.       *)
LEMMA DetachLeaves ==
    ASSUME ScopeShape, NEW e \in live
    PROVE  /\ e \in Subtree(live, e) /\ Subtree(live, e) \subseteq live
           /\ ClosedIn(tree, live \ Subtree(live, e))
<1> DEFINE S == Subtree(live, e)
<1>1. Forest(tree) /\ ClosedIn(tree, live) /\ live \subseteq Effects
  BY DEF ScopeShape, ClosedIn, Effects
<1>2. \A c \in Effects : c \in Path(c)
  BY <1>1, PathsSound DEF PathSound
<1>3. e \in S /\ S \subseteq live
  BY <1>1, <1>2 DEF Subtree
<1>4. ASSUME NEW c \in live \ S PROVE tree[c].parent = 0 \/ tree[c].parent \in live \ S
  <2>1. e \notin Path(c) /\ c \in Effects
    BY <1>1, <1>4 DEF Subtree
  <2>2. Path(c) = {c} \union Path(tree[c].parent)
    BY <1>1, <2>1, PathStep
  <2>3. tree[c].parent = 0 \/ tree[c].parent \in live
    BY <1>1 DEF ClosedIn
  <2> QED BY <2>1, <2>2, <2>3 DEF Subtree
<1> HIDE DEF S
<1>5. ClosedIn(tree, live \ S)
  BY <1>1, <1>4 DEF ClosedIn
<1> QED BY <1>3, <1>5 DEF S

LEMMA DetachKeeps ==
    ASSUME ScopeInv, NEW x \in live, Detach(x)
    PROVE  ScopeInv'
<1> DEFINE S == Subtree(live, x)
           f == Select(Flatten(live), S)
<1>0. ScopeShape /\ HandleShape /\ DoneInv /\ OrderInv /\ OneFate
  BY DEF ScopeInv
<1>1. /\ task = "idle" /\ handle = "none" /\ live' = live \ S /\ drainable' = drainable \ S
      /\ owed' = f /\ handle' = "held"
      /\ UNCHANGED <<tree, task, drains, current, withdrawn, replayed, reported,
                     inHand, written, lost, completed, drops>>
  BY DEF Detach
<1>2. x \in S /\ S \subseteq live /\ ClosedIn(tree, live \ S)
  BY <1>0, DetachLeaves
<1> HIDE DEF S
<1>3. f \in Seq(1..Len(tree)) /\ ToSet(f) = S /\ f # <<>> /\ OrderedIn(tree, f)
  BY <1>0, <1>2, SelectedInOrder
<1> HIDE DEF f
<1>4. owed = <<>> /\ inHand = 0 /\ written = <<>> /\ current = 0
  BY <1>0, <1>1 DEF HandleShape, ScopeShape
<1>5. ScopeShape'
  BY <1>0, <1>1, <1>2 DEF ScopeShape
<1>6. HandleShape'
  BY <1>0, <1>1, <1>3, <1>4 DEF HandleShape
<1>7. DoneInv'
  BY <1>0, <1>1 DEF DoneInv
<1>8. OrderInv'
  <2>1. InOrder(tree, withdrawn, live \union ({current} \ {0}))
    BY <1>0 DEF OrderInv
  <2>2. live' \union ({current} \ {0}) \subseteq live \union ({current} \ {0})
    BY <1>1
  <2>3. InOrder(tree, withdrawn, live' \union ({current} \ {0}))
    BY <2>1, <2>2 DEF InOrder
  <2> QED BY <1>0, <1>1, <1>4, <2>3 DEF OrderInv
<1>9. OneFate'
  <2>0. UNCHANGED <<tree, withdrawn, reported, written, current, inHand, lost>>
    BY <1>1
  <2>1. SUFFICES ASSUME NEW e \in 1..Len(tree) PROVE FateSum(e)' = 1
    BY <2>0 DEF OneFate, FateSum, InverseLines, Count, Effects
  <2>2. FateSum(e) = 1
    BY <1>0, FateIsSum
  <2>3. Count(withdrawn, e) \in Nat /\ Count(reported, e) \in Nat /\ Count(written, e) \in Nat
    BY <1>0, CountsType
  <2>4. e \notin ToSet(owed)
    BY <1>4 DEF ToSet
  <2>5. /\ (e \in live' <=> e \in live /\ e \notin S) /\ (e \in ToSet(owed') <=> e \in S)
        /\ (e \in S => e \in live)
    BY <1>1, <1>2, <1>3
  <2> QED BY <2>0, <2>2, <2>3, <2>4, <2>5 DEF FateSum, OneIf
<1> QED BY <1>5, <1>6, <1>7, <1>8, <1>9 DEF ScopeInv

LEMMA StartWithdrawalKeeps ==
    ASSUME ScopeInv, NEW how \in {"now", "await"}, StartWithdrawal(how)
    PROVE  ScopeInv'
<1>0. ScopeShape /\ HandleShape /\ DoneInv /\ OrderInv /\ OneFate
  BY DEF ScopeInv
<1>1. /\ handle = "held" /\ handle' = how /\ inHand' = Head(owed) /\ owed' = Tail(owed)
      /\ UNCHANGED <<tree, live, drainable, task, drains, current, withdrawn, replayed, reported,
                     written, lost, completed, drops>>
  BY DEF StartWithdrawal, scopeVars
<1>2. /\ owed \in Seq(1..Len(tree)) /\ owed # <<>> /\ OrderedIn(tree, owed)
      /\ inHand = 0 /\ written = <<>> /\ Len(tree) \in Nat
  BY <1>0, <1>1, ForestFields DEF HandleShape, ScopeShape
<1>3. /\ inHand' \in 1..Len(tree) /\ owed' \in Seq(1..Len(tree)) /\ OrderedIn(tree, owed')
      /\ \A i \in 1..Len(owed') : BeforeIn(tree, inHand', owed'[i])
      /\ inHand' \notin ToSet(owed') /\ ToSet(owed) = ToSet(owed') \union {inHand'}
  <2>1. /\ Head(owed) \in 1..Len(tree) /\ Tail(owed) \in Seq(1..Len(tree)) /\ OrderedIn(tree, Tail(owed))
        /\ \A i \in 1..Len(Tail(owed)) : BeforeIn(tree, Head(owed), Tail(owed)[i])
        /\ Head(owed) \notin ToSet(Tail(owed)) /\ ToSet(owed) = ToSet(Tail(owed)) \union {Head(owed)}
    BY <1>2, NextOwed
  <2> QED BY <1>1, <2>1
<1>4. ScopeShape'
  BY <1>0, <1>1 DEF ScopeShape
<1>5. HandleShape'
  <2>1. inHand' \in 0..Len(tree) /\ inHand' # 0
    BY <1>2, <1>3
  <2> QED BY <1>0, <1>1, <1>3, <2>1 DEF HandleShape
<1>6. DoneInv' /\ OrderInv'
  BY <1>0, <1>1 DEF DoneInv, OrderInv
<1>7. OneFate'
  <2>1. SUFFICES ASSUME NEW e \in 1..Len(tree) PROVE FateSum(e)' = 1
    BY <1>1 DEF OneFate, FateSum, InverseLines, Count, Effects
  <2>2. FateSum(e) = 1
    BY <1>0, FateIsSum
  <2>3. Count(withdrawn, e) \in Nat /\ Count(reported, e) \in Nat /\ Count(written, e) \in Nat
    BY <1>0, CountsType
  <2>4. e # inHand
    BY <1>2
  <2>5. (e \in ToSet(owed) <=> e \in ToSet(owed') \/ e = inHand') /\ ~(e \in ToSet(owed') /\ e = inHand')
    BY <1>3
  <2> QED BY <1>1, <2>2, <2>3, <2>4, <2>5 DEF FateSum, OneIf
<1> QED BY <1>4, <1>5, <1>6, <1>7 DEF ScopeInv

LEMMA DetachedEndsKeeps ==
    ASSUME ScopeInv, NEW outcome \in Outcome, DetachedEnds(outcome)
    PROVE  ScopeInv'
<1> DEFINE line == [id |-> inHand, of |-> "inverse", outcome |-> outcome]
           lines == Append(written, line)
<1>0. ScopeShape /\ HandleShape /\ DoneInv /\ OrderInv /\ OneFate
  BY DEF ScopeInv
<1>1. /\ inHand # 0
      /\ completed' = IF outcome = "Done" THEN completed \union {inHand} ELSE completed
      /\ UNCHANGED <<tree, live, drainable, task, drains, current, withdrawn, replayed, lost, drops>>
      /\ \/ /\ owed = <<>> /\ reported' = reported \o lines /\ written' = <<>> /\ inHand' = 0
            /\ handle' = "none" /\ owed' = owed
         \/ /\ owed # <<>> /\ written' = lines /\ inHand' = Head(owed) /\ owed' = Tail(owed)
            /\ handle' = handle /\ reported' = reported
  BY DEF DetachedEnds
<1>2. /\ Len(tree) \in Nat /\ Len(tree) <= MaxRecords /\ inHand \in 1..Len(tree)
      /\ Logged(tree, written) /\ written \in Seq(Line) /\ withdrawn \in Seq(Line)
      /\ Logged(tree, reported) /\ reported \in Seq(Line)
      /\ owed \in Seq(1..Len(tree)) /\ OrderedIn(tree, owed)
      /\ \A i \in 1..Len(owed) : BeforeIn(tree, inHand, owed[i])
  BY <1>0, <1>1, ForestFields DEF ScopeShape, HandleShape, Logged
<1>3. line \in Line
  BY <1>2, NewLine
<1>4. line.id = inHand /\ line.of = "inverse" /\ line.outcome = outcome
  OBVIOUS
<1> HIDE DEF line
<1>5. /\ Logged(tree, lines) /\ lines \in Seq(Line) /\ \A i \in 1..Len(lines) : lines[i].of = "inverse"
  <2>1. Logged(tree, lines)
    BY <1>2, <1>3, <1>4, LoggedAppend
  <2>2. /\ Len(written) \in Nat /\ Len(lines) = Len(written) + 1 /\ lines[Len(written) + 1] = line
        /\ \A i \in 1..Len(written) : lines[i] = written[i]
    BY <1>2, <1>3
  <2> HIDE DEF lines
  <2>3. \A i \in 1..Len(lines) : i \in 1..Len(written) \/ i = Len(written) + 1
    BY <2>2
  <2>4. \A i \in 1..Len(written) : written[i].of = "inverse"
    BY <1>0 DEF HandleShape
  <2>5. \A i \in 1..Len(lines) : lines[i].of = "inverse"
    BY <1>4, <2>2, <2>3, <2>4
  <2> QED BY <2>1, <2>5 DEF Logged
<1>6. completed \subseteq completed' /\ completed' \subseteq 1..Len(tree) /\ (outcome = "Done" => inHand \in completed')
  BY <1>0, <1>1, <1>2 DEF ScopeShape
<1>7. DoneRan(lines, completed') /\ DoneRan(reported, completed') /\ DoneRan(withdrawn, completed')
  <2>1. DoneRan(written, completed) /\ DoneRan(reported, completed) /\ DoneRan(withdrawn, completed)
    BY <1>0 DEF DoneInv
  <2>2. DoneRan(lines, completed')
    BY <1>2, <1>3, <1>4, <1>6, <2>1, DoneAppend
  <2> QED BY <1>6, <2>1, <2>2 DEF DoneRan
<1>8. \A e : Count(lines, e) = Count(written, e) + (IF e = inHand THEN 1 ELSE 0)
  BY <1>2, <1>3, <1>4, CountAppend DEF Mine, OneIf
<1> HIDE DEF lines
<1>9. OrderInv'
  BY <1>0, <1>1 DEF OrderInv
<1>10. SUFFICES ScopeShape' /\ HandleShape' /\ DoneInv' /\ OneFate'
  BY <1>9 DEF ScopeInv
<1>11. CASE /\ owed = <<>> /\ reported' = reported \o lines /\ written' = <<>> /\ inHand' = 0
            /\ handle' = "none" /\ owed' = owed
  <2>1. Logged(tree, reported')
    BY <1>2, <1>5, <1>11, LoggedConcat
  <2>2. ScopeShape'
    BY <1>0, <1>1, <1>6, <2>1 DEF ScopeShape
  <2>3. HandleShape'
    <3>1. Logged(tree, written') /\ \A i \in 1..Len(written') : written'[i].of = "inverse"
      <4>1. Len(<<>>) = 0 /\ 1..0 = {}
        OBVIOUS
      <4> QED BY <1>11, <4>1, LoggedEmpty
    <3>2. inHand' \in 0..Len(tree)
      BY <1>2, <1>11
    <3> QED BY <1>0, <1>1, <1>2, <1>11, <3>1, <3>2 DEF HandleShape
  <2>4. DoneInv'
    <3>1. DoneRan(reported', completed')
      BY <1>2, <1>5, <1>7, <1>11, DoneConcat
    <3>2. DoneRan(written', completed')
      BY <1>11, DoneEmpty
    <3> QED BY <1>1, <1>7, <3>1, <3>2 DEF DoneInv
  <2>5. OneFate'
    <3>1. SUFFICES ASSUME NEW e \in 1..Len(tree) PROVE FateSum(e)' = 1
      BY <1>1 DEF OneFate, FateSum, InverseLines, Count, Effects
    <3>2. FateSum(e) = 1
      BY <1>0, FateIsSum
    <3>3. Count(withdrawn, e) \in Nat /\ Count(reported, e) \in Nat /\ Count(written, e) \in Nat
      BY <1>0, CountsType
    <3>4. Count(reported', e) = Count(reported, e) + Count(lines, e) /\ Count(written', e) = 0
      BY <1>2, <1>5, <1>11, CountConcat, CountEmpty
    <3>5. e # inHand' /\ Count(lines, e) = Count(written, e) + (IF e = inHand THEN 1 ELSE 0)
      BY <1>2, <1>8, <1>11
    <3> QED BY <1>1, <1>11, <3>2, <3>3, <3>4, <3>5 DEF FateSum, OneIf
  <2> QED BY <2>2, <2>3, <2>4, <2>5
<1>12. CASE /\ owed # <<>> /\ written' = lines /\ inHand' = Head(owed) /\ owed' = Tail(owed)
            /\ handle' = handle /\ reported' = reported
  <2>1. /\ inHand' \in 1..Len(tree) /\ owed' \in Seq(1..Len(tree)) /\ OrderedIn(tree, owed')
        /\ \A i \in 1..Len(owed') : BeforeIn(tree, inHand', owed'[i])
        /\ inHand' \notin ToSet(owed') /\ ToSet(owed) = ToSet(owed') \union {inHand'}
    <3>1. /\ Head(owed) \in 1..Len(tree) /\ Tail(owed) \in Seq(1..Len(tree)) /\ OrderedIn(tree, Tail(owed))
          /\ \A i \in 1..Len(Tail(owed)) : BeforeIn(tree, Head(owed), Tail(owed)[i])
          /\ Head(owed) \notin ToSet(Tail(owed)) /\ ToSet(owed) = ToSet(Tail(owed)) \union {Head(owed)}
      BY <1>2, <1>12, NextOwed
    <3> QED BY <1>12, <3>1
  <2>2. ScopeShape'
    BY <1>0, <1>1, <1>6, <1>12 DEF ScopeShape
  <2>3. HandleShape'
    <3>1. inHand' \in 0..Len(tree) /\ inHand' # 0
      BY <1>2, <2>1
    <3>2. handle \in {"now", "await"}
      BY <1>0, <1>1 DEF HandleShape
    <3> QED BY <1>0, <1>1, <1>5, <1>12, <2>1, <3>1, <3>2 DEF HandleShape
  <2>4. DoneInv'
    BY <1>1, <1>7, <1>12 DEF DoneInv
  <2>5. OneFate'
    <3>1. SUFFICES ASSUME NEW e \in 1..Len(tree) PROVE FateSum(e)' = 1
      BY <1>1 DEF OneFate, FateSum, InverseLines, Count, Effects
    <3>2. FateSum(e) = 1
      BY <1>0, FateIsSum
    <3>3. Count(withdrawn, e) \in Nat /\ Count(reported, e) \in Nat /\ Count(written, e) \in Nat
      BY <1>0, CountsType
    <3>4. Count(written', e) = Count(written, e) + (IF e = inHand THEN 1 ELSE 0)
      BY <1>8, <1>12
    <3>5. (e \in ToSet(owed) <=> e \in ToSet(owed') \/ e = inHand') /\ ~(e \in ToSet(owed') /\ e = inHand')
      BY <2>1
    <3> QED BY <1>1, <1>12, <3>2, <3>3, <3>4, <3>5 DEF FateSum, OneIf
  <2> QED BY <2>2, <2>3, <2>4, <2>5
<1> QED BY <1>1, <1>11, <1>12

LEMMA DropDetachedKeeps ==
    ASSUME ScopeInv, DropDetached
    PROVE  ScopeInv'
<1>0. ScopeShape /\ HandleShape /\ DoneInv /\ OrderInv /\ OneFate
  BY DEF ScopeInv
<1>1. /\ handle \in {"held", "await"} /\ drops' = drops + 1
      /\ lost' = lost \union ToSet(owed) \union ({inHand} \ {0}) \union LoggedIn(written)
      /\ owed' = <<>> /\ inHand' = 0 /\ written' = <<>> /\ handle' = "none"
      /\ UNCHANGED <<tree, live, drainable, task, drains, current, withdrawn, replayed, reported, completed>>
  BY DEF DropDetached, scopeVars
<1>2. /\ Len(tree) \in Nat /\ inHand \in 0..Len(tree) /\ written \in Seq(Line)
      /\ owed \in Seq(1..Len(tree)) /\ \A i \in 1..Len(written) : written[i].id \in 1..Len(tree)
      /\ \A i \in 1..Len(written) : written[i].of = "inverse"
  BY <1>0, ForestFields DEF ScopeShape, HandleShape, Logged
<1>3. ToSet(owed) \subseteq 1..Len(tree) /\ LoggedIn(written) \subseteq 1..Len(tree)
  BY <1>2 DEF ToSet, LoggedIn
<1>4. lost' \subseteq 1..Len(tree)
  <2>1. {inHand} \ {0} \subseteq 1..Len(tree)
    BY <1>2
  <2> QED BY <1>0, <1>1, <1>3, <2>1 DEF HandleShape
<1>5. ScopeShape'
  BY <1>0, <1>1 DEF ScopeShape
<1>6. HandleShape'
  <2>1. Len(<<>>) = 0 /\ 1..0 = {} /\ <<>> \in Seq(1..Len(tree)) /\ 0 \in 0..Len(tree)
    BY <1>2
  <2>2. OrderedIn(tree, <<>>)
    BY <2>1 DEF OrderedIn
  <2> QED BY <1>0, <1>1, <1>4, <2>1, <2>2, LoggedEmpty DEF HandleShape
<1>7. DoneInv' /\ OrderInv'
  BY <1>0, <1>1, DoneEmpty DEF DoneInv, OrderInv
<1>8. OneFate'
  <2>1. SUFFICES ASSUME NEW e \in 1..Len(tree) PROVE FateSum(e)' = 1
    BY <1>1 DEF OneFate, FateSum, InverseLines, Count, Effects
  <2>2. FateSum(e) = 1
    BY <1>0, FateIsSum
  <2>3. Count(withdrawn, e) \in Nat /\ Count(reported, e) \in Nat /\ Count(written, e) \in Nat
    BY <1>0, CountsType
  <2>4. Count(written', e) = 0 /\ e \notin ToSet(owed') /\ e # inHand' /\ e # 0
    BY <1>1, <1>2, CountEmpty DEF ToSet
  <2>5. e \in LoggedIn(written) <=> Count(written, e) # 0
    BY <1>2, CountZero DEF LoggedIn, Mine
  <2>6. e \in lost' <=> e \in lost \/ e \in ToSet(owed) \/ e = inHand \/ Count(written, e) # 0
    BY <1>1, <2>4, <2>5
  <2>7. UNCHANGED <<withdrawn, reported, live, current>>
    BY <1>1
  <2> DEFINE keep == Count(withdrawn, e) + Count(reported, e) + OneIf(e \in live) + OneIf(e = current)
             gone == Count(written, e) + OneIf(e \in ToSet(owed)) + OneIf(e = inHand) + OneIf(e \in lost)
  <2>8. keep \in Nat /\ gone \in Nat /\ keep + gone = 1
    <3> DEFINE a == OneIf(e \in live)
               b == OneIf(e = current)
               c == OneIf(e \in ToSet(owed))
               d == OneIf(e = inHand)
               g == OneIf(e \in lost)
    <3>1. a \in Nat /\ b \in Nat /\ c \in Nat /\ d \in Nat /\ g \in Nat
      BY DEF OneIf
    <3>2. Count(withdrawn, e) + Count(reported, e) + Count(written, e) + a + b + c + d + g = 1
      BY <2>2 DEF FateSum
    <3>3. keep = Count(withdrawn, e) + Count(reported, e) + a + b /\ gone = Count(written, e) + c + d + g
      OBVIOUS
    <3> DEFINE p == Count(withdrawn, e)
               q == Count(reported, e)
               w == Count(written, e)
    <3>4. p \in Nat /\ q \in Nat /\ w \in Nat
      BY <2>3
    <3> HIDE DEF a, b, c, d, g, p, q, w
    <3>5. /\ p + q + a + b \in Nat /\ w + c + d + g \in Nat
          /\ p + q + w + a + b + c + d + g = (p + q + a + b) + (w + c + d + g)
      BY <3>1, <3>4
    <3>6. keep = p + q + a + b /\ gone = w + c + d + g /\ p + q + w + a + b + c + d + g = 1
      BY <3>2, <3>3, Zenon DEF p, q, w
    <3> HIDE DEF keep, gone
    <3> QED BY <3>5, <3>6, Zenon
  <2>9. gone # 0 <=> e \in lost'
    BY <2>3, <2>6 DEF OneIf
  <2>10. FateSum(e)' = keep + OneIf(e \in lost')
    <3>1. keep = Count(withdrawn', e) + Count(reported', e) + OneIf(e \in live') + OneIf(e = current')
      BY <2>7
    <3> QED BY <2>3, <2>4, <2>7, <3>1 DEF FateSum, OneIf
  <2> HIDE DEF keep, gone
  <2> QED BY <2>8, <2>9, <2>10 DEF OneIf
<1> QED BY <1>5, <1>6, <1>7, <1>8 DEF ScopeInv

-----------------------------------------------------------------------------
LEMMA ScopeStarts ==
    ASSUME ScopeInit
    PROVE  ScopeInv
<1>1. /\ tree = <<>> /\ live = {} /\ drainable = {} /\ task = "idle" /\ drains = <<>> /\ current = 0
      /\ withdrawn = <<>> /\ replayed = FALSE /\ reported = <<>> /\ owed = <<>> /\ inHand = 0
      /\ handle = "none" /\ written = <<>> /\ lost = {} /\ completed = {} /\ drops = 0
  BY DEF ScopeInit
<1>2. Len(<<>>) = 0 /\ 1..0 = {} /\ 0 \in 0..0 /\ 0 <= MaxRecords /\ <<>> \in Seq(1..0) /\ <<>> \in Seq(Registration)
  BY EffectBounds
<1>3. Forest(tree) /\ ClosedIn(tree, live) /\ OrderedIn(tree, owed)
  BY <1>1, <1>2 DEF Forest, ClosedIn, OrderedIn
<1>4. ScopeShape /\ HandleShape
  BY <1>1, <1>2, <1>3, LoggedEmpty DEF ScopeShape, HandleShape
<1>5. DoneInv /\ OrderInv
  BY <1>1, DoneEmpty, RanEmpty DEF DoneInv, OrderInv
<1>6. OneFate
  BY <1>1, <1>2 DEF OneFate, Effects
<1> QED BY <1>4, <1>5, <1>6 DEF ScopeInv

LEMMA ScopeSteps ==
    ASSUME ScopeInv, [ScopeNext]_svars
    PROVE  ScopeInv'
<1>0. ScopeShape /\ HandleShape /\ DoneInv /\ OrderInv /\ OneFate
  BY DEF ScopeInv
<1>1. ASSUME NEW kind \in EffectKind, RegisterRoot(kind) PROVE ScopeInv'
  <2>1. drainable' \subseteq drainable \union {Len(tree) + 1} /\ 0 \in live \union {0}
    BY <1>1 DEF RegisterRoot
  <2> QED BY <1>1, <2>1, RegisterKeeps DEF RegisterRoot
<1>2. ASSUME NEW parent \in live, RegisterChild(parent) PROVE ScopeInv'
  <2>1. drainable' \subseteq drainable \union {Len(tree) + 1} /\ parent \in live \union {0}
        /\ "plain" \in EffectKind
    BY <1>2 DEF RegisterChild, EffectKind
  <2> QED BY <1>2, <2>1, RegisterKeeps DEF RegisterChild
<1>3. CASE StartDrain
  BY <1>3, StartDrainKeeps
<1>4. ASSUME NEW outcome \in Ended, DrainPhaseEnds(outcome) PROVE ScopeInv'
  BY <1>4, DrainPhaseEndsKeeps
<1>5. CASE DropDrain
  BY <1>5, DropDrainKeeps
<1>6. ASSUME NEW replay \in {"replay", "suspend"}, StartReplay(replay) PROVE ScopeInv'
  BY <1>6, StartReplayKeeps
<1>7. CASE StartInverse
  BY <1>7, StartInverseKeeps
<1>8. CASE SkipInverse
  BY <1>8, SkipInverseKeeps
<1>9. ASSUME NEW outcome \in Ended, InverseEnds(outcome) PROVE ScopeInv'
  BY <1>9, InverseEndsKeeps
<1>10. CASE Report
  BY <1>10, ReportKeeps
<1>11. CASE DropReplay
  BY <1>11, DropReplayKeeps
<1>12. ASSUME NEW e \in live, Detach(e) PROVE ScopeInv'
  BY <1>12, DetachKeeps
<1>13. ASSUME NEW how \in {"now", "await"}, StartWithdrawal(how) PROVE ScopeInv'
  BY <1>13, StartWithdrawalKeeps
<1>14. ASSUME NEW outcome \in Outcome, DetachedEnds(outcome) PROVE ScopeInv'
  BY <1>14, DetachedEndsKeeps
<1>15. CASE DropDetached
  BY <1>15, DropDetachedKeeps
<1>16. CASE UNCHANGED svars
  <2>1. UNCHANGED <<tree, live, drainable, task, drains, current, withdrawn, replayed, reported,
                    owed, inHand, handle, written, lost, completed, drops>>
    BY <1>16 DEF svars
  <2>2. ScopeShape' /\ HandleShape'
    BY <1>0, <2>1 DEF ScopeShape, HandleShape
  <2>3. DoneInv' /\ OrderInv' /\ OneFate'
    BY <1>0, <2>1 DEF DoneInv, OrderInv, OneFate, InverseLines, Effects
  <2> QED BY <2>2, <2>3 DEF ScopeInv
<1> QED BY <1>1, <1>2, <1>3, <1>4, <1>5, <1>6, <1>7, <1>8, <1>9, <1>10, <1>11, <1>12, <1>13,
           <1>14, <1>15, <1>16 DEF ScopeNext

LEMMA ScopeInvariant == ScopeSpec => []ScopeInv
<1>1. ScopeInit => ScopeInv
  BY ScopeStarts
<1>2. ScopeInv /\ [ScopeNext]_svars => ScopeInv'
  BY ScopeSteps
<1> QED BY <1>1, <1>2, PTL DEF ScopeSpec

(* I1, exactly once: whichever futures are dropped between which polls, an     *)
(* effect is live, in flight, owed by a handle, lost with its handle, or has   *)
(* one line in one report, and never two of these.                            *)
THEOREM InverseHasOneFate == ScopeSpec => []OneFate
<1>1. ScopeInv => OneFate
  BY DEF ScopeInv
<1> QED BY <1>1, ScopeInvariant, PTL

(* The teardown order survives its interruptions: over all the replays it      *)
(* takes, the walk of take_next gives children before what they nest under and *)
(* the later branch first; a handle keeps that order, and flatten lists it.    *)
THEOREM TeardownOrder == ScopeSpec => []TeardownInOrder
<1>1. ASSUME ScopeInv PROVE TeardownInOrder
  <2>0. ScopeShape /\ HandleShape /\ OrderInv
    BY <1>1 DEF ScopeInv
  <2>1. RanIn(withdrawn) = Ran
    BY DEF RanIn, Ran
  <2>2. \A i, j \in Ran : i < j => Before(withdrawn[i].id, withdrawn[j].id)
    BY <2>0, <2>1, BeforeIsBeforeIn DEF OrderInv, InOrder
  <2>3. \A i \in Ran : \A e \in live \union ({current} \ {0}) : Before(withdrawn[i].id, e)
    BY <2>0, <2>1, BeforeIsBeforeIn DEF OrderInv, InOrder
  <2>4. current # 0 => \A e \in live : Before(current, e)
    BY <2>0, BeforeIsBeforeIn DEF OrderInv
  <2>5. inHand # 0 => \A e \in ToSet(owed) : Before(inHand, e)
    <3>1. DOMAIN owed = 1..Len(owed)
      BY <2>0 DEF HandleShape
    <3>2. inHand # 0 => \A i \in 1..Len(owed) : Before(inHand, owed[i])
      BY <2>0, BeforeIsBeforeIn DEF HandleShape
    <3> QED BY <3>1, <3>2 DEF ToSet
  <2>6. \A i, j \in 1..Cardinality(live) : i < j => Before(Flatten(live)[i], Flatten(live)[j])
    <3>1. Forest(tree) /\ Closed(live)
      BY <2>0, ClosedIsClosedIn DEF ScopeShape
    <3>2. Len(Flatten(live)) = Cardinality(live) /\ Ordered(Flatten(live))
      BY <3>1, FlattenFacts
    <3> QED BY <3>2 DEF Ordered
  <2> QED BY <2>2, <2>3, <2>4, <2>5, <2>6 DEF TeardownInOrder
<1> QED BY <1>1, ScopeInvariant, PTL

(* I1, exactness: when every report returned so far is clean and no handle was *)
(* dropped, every effect that is gone from the tree, the log and a handle was  *)
(* withdrawn, or suspended, to completion.                                    *)
THEOREM CleanReportIsExact == ScopeSpec => []CleanMeansExact
<1>1. ASSUME ScopeInv PROVE CleanMeansExact
  <2>0. ScopeShape /\ HandleShape /\ DoneInv /\ OneFate
    BY <1>1 DEF ScopeInv
  <2> SUFFICES ASSUME withdrawn = <<>>, current = 0, handle = "none", lost = {},
                      \A i \in 1..Len(reported) : reported[i].outcome = "Done",
                      NEW e \in Effects, e \notin live
               PROVE  e \in completed
    BY DEF CleanMeansExact
  <2>1. e \in 1..Len(tree) /\ e # 0
    BY <2>0, ForestFields DEF ScopeShape, Effects
  <2>2. owed = <<>> /\ inHand = 0 /\ written = <<>> /\ reported \in Seq(Line)
    BY <2>0 DEF HandleShape, ScopeShape, Logged
  <2>3. Count(withdrawn, e) = 0 /\ Count(written, e) = 0 /\ Count(reported, e) \in Nat
    BY <2>2, CountEmpty, CountType
  <2>4. e \notin ToSet(owed)
    BY <2>2 DEF ToSet
  <2>5. FateSum(e) = 1
    BY <2>0, <2>1, FateIsSum
  <2>6. Count(reported, e) = 1
    BY <2>1, <2>2, <2>3, <2>4, <2>5 DEF FateSum, OneIf
  <2>7. PICK i \in 1..Len(reported) : Mine(reported[i], e)
    BY <2>2, <2>6, CountZero
  <2> QED BY <2>0, <2>7 DEF DoneInv, DoneRan, Mine
<1> QED BY <1>1, ScopeInvariant, PTL
-----------------------------------------------------------------------------
(* A greatest element, and what the next boot takes for it. *)

(* The greatest of some naturals that have a bound is one of them.           *)
LEMMA GreatestExists ==
    ASSUME NEW S \in SUBSET Nat, S # {}, NEW b \in Nat, \A n \in S : n <= b
    PROVE  Max(S) \in S /\ \A n \in S : n <= Max(S)
<1> DEFINE D == {b - n : n \in S}
<1>0. \A n \in S : n \in Nat /\ n <= b /\ b - n \in Nat
  OBVIOUS
<1>1. D \in SUBSET Nat /\ D # {}
  BY <1>0
<1>2. PICK d \in D : \A e \in D : d <= e
  BY <1>1, LeastExists
<1>3. PICK m \in S : d = b - m
  BY <1>2
<1>4. \A n \in S : m >= n
  <2>1. \A n \in S : b - n \in D
    OBVIOUS
  <2> HIDE DEF D
  <2> QED
    BY <2>1, <1>0, <1>2, <1>3
<1>5. Max(S) \in S /\ \A n \in S : Max(S) >= n
  BY <1>3, <1>4 DEF Max
<1> QED
  BY <1>5

-----------------------------------------------------------------------------
(* Outbound calls: what an id names. *)

(* A row of the ledger, and what a guest holds while its call is on its way. *)
Rows == [id : Nat, nth : Nat]
Callers == [at : {"exchange", "recorded"}, id : Nat, nth : Nat]

CallsType ==
    /\ counter \in 0..MaxIds /\ calls \in Nat
    /\ outbound \in [Guests -> {NoCall} \union Callers]
    /\ log \in Seq(Rows) /\ kept \in 0..Len(log) /\ refused \subseteq 1..kept
    /\ down \in BOOLEAN

(* Whatever was minted and not refused is at most the counter, while the     *)
(* process counts.  Between a crash and the seed there is neither a caller   *)
(* nor a row in flight.                                                      *)
Minted ==
    /\ \A i \in 1..Len(log) : log[i].id <= MaxIds
    /\ ~down => \A i \in Standing : log[i].id <= counter
    /\ \A c \in Guests : outbound[c] # NoCall => outbound[c].id <= counter
    /\ down => kept = Len(log) /\ \A c \in Guests : outbound[c] = NoCall

(* Two callers hold two ids, and the id of one that has no row is on none    *)
(* that stands.                                                              *)
Apart ==
    /\ \A c, d \in Guests :
          outbound[c] # NoCall /\ outbound[d] # NoCall /\ outbound[c].id = outbound[d].id => c = d
    /\ \A c \in Guests : outbound[c] # NoCall /\ outbound[c].at # "recorded" =>
          \A i \in Standing : log[i].id # outbound[c].id

(* What the guest was told is on a row, and a unit that asks for it waits    *)
(* for that row.                                                             *)
Told ==
    /\ \A c \in Guests : outbound[c] # NoCall /\ outbound[c].at = "recorded" =>
          \E i \in 1..Len(log) : log[i] = [id |-> outbound[c].id, nth |-> outbound[c].nth]
    /\ \A t \in told : \E i \in 1..Len(log) : log[i] = t
(* A unit's answered calls have a row each that is sent before its read.     *)
Asked ==
    unit # NoUnit =>
        /\ unit = [id |-> unit.id, after |-> unit.after, decided |-> unit.decided,
                   irreversible |-> unit.irreversible, answered |-> unit.answered]
        /\ unit.after \in 0..Len(log)
        /\ ~unit.decided => \A n \in unit.answered :
              \E i \in 1..unit.after : log[i].id = unit.id /\ log[i].nth = n

(* The inductive invariant of the outbound calls.                            *)
CallsInv ==
    CallsType /\ Minted /\ Apart /\ Told /\ Asked /\ EffectNamesOneCall /\ SentIsIrreversible

(* A first boot has minted nothing.                                          *)
LEMMA CallsStart == CallsInit => CallsInv
BY CallsAssumption DEF CallsInit, CallsInv, CallsType, Minted, Apart, Told, Asked,
   EffectNamesOneCall, SentIsIrreversible, NoCall, Standing

(* What a caller holds.                                                      *)
LEMMA CallerFields ==
    ASSUME CallsType, NEW c \in Guests, outbound[c] # NoCall
    PROVE  outbound[c] \in Callers /\ outbound[c].id \in Nat
BY DEF CallsType, Callers

(* What a row holds.                                                         *)
LEMMA RowFields ==
    ASSUME CallsType
    PROVE  /\ log \in Seq(Rows) /\ Len(log) \in Nat /\ kept \in Nat /\ kept <= Len(log)
           /\ \A i \in 1..Len(log) : log[i] \in Rows /\ log[i].id \in Nat
           /\ Standing \subseteq 1..Len(log)
           /\ counter \in Nat /\ counter <= MaxIds
<1>1. \A r \in Rows : r.id \in Nat
  BY DEF Rows
<1>2. log \in Seq(Rows) /\ Len(log) \in Nat /\ kept \in 0..Len(log) /\ counter \in 0..MaxIds
  BY DEF CallsType
<1>3. \A i \in 1..Len(log) : log[i] \in Rows
  BY <1>2
<1> QED
  BY <1>1, <1>2, <1>3, CallsAssumption DEF Standing

(* A call takes an id above every id there is.                               *)
LEMMA OutboundNamed ==
    ASSUME CallsInv, NEW c \in Guests, Outbound(c)
    PROVE  CallsInv'
<1> USE CallsAssumption DEF CallsInv
<1>0. /\ outbound'[c] = [at |-> "exchange", id |-> counter + 1, nth |-> calls + 1]
      /\ \A d \in Guests \ {c} : outbound'[d] = outbound[d]
      /\ outbound'[c] \in Callers
  BY DEF Outbound, CallsType, Callers
<1>1. CallsType'
  <2>0. outbound \in [Guests -> {NoCall} \union Callers]
    BY DEF CallsType
  <2>a. outbound' = [outbound EXCEPT ![c] = outbound'[c]]
    BY <1>0, <2>0 DEF Outbound
  <2>1. outbound' \in [Guests -> {NoCall} \union Callers]
    BY <2>0, <2>a, <1>0
  <2>2. counter' \in 0..MaxIds /\ calls' \in Nat
    BY DEF Outbound, CallsType
  <2> QED BY <2>1, <2>2 DEF Outbound, CallsType
<1>a. \A d \in Guests : outbound[d] # NoCall => outbound[d].id \in Nat
  BY CallerFields
<1>b. /\ counter' = counter + 1 /\ counter \in Nat /\ counter + 1 <= MaxIds
      /\ ~down /\ ~down' /\ UNCHANGED <<log, kept, refused>> /\ log \in Seq(Rows) /\ Len(log) \in Nat
      /\ Standing' = Standing
      /\ \A i \in Standing : log[i].id \in Nat
      /\ outbound'[c].id = counter + 1 /\ outbound'[c].at = "exchange" /\ outbound[c] = NoCall
  BY <1>0, RowFields DEF Outbound, Standing
<1>2. Minted'
  <2>1. \A d \in Guests : outbound'[d] # NoCall => outbound'[d].id <= counter'
    BY <1>0, <1>a, <1>b DEF Minted
  <2>2. \A i \in Standing : log[i].id <= counter'
    BY <1>b DEF Minted
  <2> QED BY <1>b, <2>1, <2>2 DEF Minted
<1>3. Apart'
  <2>1. \A d \in Guests \ {c} : outbound[d] # NoCall => outbound[d].id # counter + 1
    BY <1>a, <1>b DEF Minted
  <2>2. \A i \in Standing : log[i].id # counter + 1
    BY <1>b DEF Minted
  <2> QED BY <1>0, <1>b, <2>1, <2>2 DEF Apart
<1>4. Told' /\ Asked'
  BY <1>0 DEF Outbound, Told, Asked, NoCall
<1>5. EffectNamesOneCall' /\ SentIsIrreversible'
  BY DEF Outbound, EffectNamesOneCall, SentIsIrreversible, Standing
<1> QED BY <1>1, <1>2, <1>3, <1>4, <1>5

(* A caller leaves, and nothing else moves.                                  *)
LEMMA CallerLeaves ==
    ASSUME CallsInv, NEW c \in Guests, Dropped(c)
    PROVE  CallsInv'
<1> USE DEF CallsInv
<1>0. /\ outbound[c] \in Callers
      /\ \A d \in Guests \ {c} : outbound'[d] = outbound[d]
      /\ outbound'[c] = NoCall
      /\ UNCHANGED <<counter, calls, log, kept, refused, told, unit, down, crashes>>
  BY DEF CallsType, Callers, NoCall, Dropped, Exchange
<1>a. outbound[c] # NoCall
  BY <1>0 DEF NoCall, Callers
<1>1. CallsType'
  <2>1. outbound' = [outbound EXCEPT ![c] = NoCall]
    BY DEF Dropped
  <2>2. outbound' \in [Guests -> {NoCall} \union Callers]
    BY <2>1 DEF CallsType
  <2> QED BY <1>0, <2>2 DEF CallsType
<1>s. Standing' = Standing
  BY <1>0 DEF Standing
<1>2. Minted'
  BY <1>0, <1>a, <1>s DEF Minted
<1>3. Apart'
  BY <1>0, <1>a, <1>s DEF Apart
<1>4. Told'
  BY <1>0, <1>a DEF Told
<1>5. Asked' /\ EffectNamesOneCall' /\ SentIsIrreversible'
  BY <1>0, <1>s DEF EffectNamesOneCall, SentIsIrreversible, Asked
<1> QED BY <1>1, <1>2, <1>3, <1>4, <1>5

(* The row of an ended exchange goes to the writer.                          *)
LEMMA RecordNamed ==
    ASSUME CallsInv, NEW c \in Guests, RecordCall(c)
    PROVE  CallsInv'
<1> USE DEF CallsInv
<1> DEFINE row == [id |-> outbound[c].id, nth |-> outbound[c].nth]
<1>0. /\ outbound[c] \in Callers /\ outbound[c].at = "exchange"
      /\ \A d \in Guests \ {c} : outbound'[d] = outbound[d]
      /\ outbound'[c] = [at |-> "recorded", id |-> outbound[c].id, nth |-> outbound[c].nth]
      /\ outbound'[c] \in Callers
  BY DEF CallsType, Callers, NoCall, RecordCall, Exchange
<1>a. outbound[c] # NoCall /\ outbound'[c] # NoCall
  BY <1>0 DEF NoCall, Callers
<1>b. outbound'[c].id = outbound[c].id /\ outbound'[c].nth = outbound[c].nth
      /\ outbound'[c].at = "recorded"
  BY <1>0
<1>c. row \in Rows /\ log \in Seq(Rows) /\ log' = Append(log, row)
  BY <1>0 DEF RecordCall, CallsType, Rows, Callers
<1> HIDE DEF row
<1>d. /\ log' \in Seq(Rows) /\ Len(log') = Len(log) + 1 /\ log'[Len(log) + 1] = row
      /\ \A i \in 1..Len(log) : log'[i] = log[i]
      /\ Len(log) \in Nat
  BY <1>c
<1>e. row.id = outbound[c].id /\ row.nth = outbound[c].nth
  BY DEF row
<1>f. ~down
  BY <1>0, <1>a DEF Minted, CallsType
<1>1. CallsType'
  BY <1>0, <1>d DEF CallsType, RecordCall
<1>s. Standing' = Standing \union {Len(log) + 1} /\ Standing \subseteq 1..Len(log)
  BY <1>d DEF Standing, RecordCall, CallsType
<1>2. Minted'
  <2>1. \A i \in Standing' : log'[i].id <= counter
    BY <1>a, <1>d, <1>e, <1>f, <1>s DEF Minted
  <2> QED
    <3>0. \A r \in Rows : r.id \in Nat
      BY DEF Rows
    <3>1. \A i \in 1..Len(log') : log'[i].id \in Nat
      BY <1>d, <3>0
    <3>2. counter' = counter /\ down' = down
      BY DEF RecordCall
    <3>4. row.id <= MaxIds
      BY <1>a, <1>e, <3>1, <1>d, RowFields, CallerFields, CallsAssumption DEF Minted
    <3>3. \A i \in 1..Len(log') : log'[i].id <= MaxIds
      BY <3>4, <1>d DEF Minted
    <3> QED
      BY <2>1, <3>2, <3>3, <1>0, <1>a, <1>b, <1>f DEF Minted
<1>3. Apart'
  BY <1>0, <1>a, <1>b, <1>d, <1>e, <1>s DEF Apart
<1>4. Told'
  <2>1. \A d \in Guests : outbound'[d] # NoCall /\ outbound'[d].at = "recorded" =>
          \E i \in 1..Len(log') : log'[i] = [id |-> outbound'[d].id, nth |-> outbound'[d].nth]
    <3>1. log'[Len(log) + 1] = [id |-> outbound'[c].id, nth |-> outbound'[c].nth]
          /\ Len(log) + 1 \in 1..Len(log')
      BY <1>b, <1>d DEF row
    <3>2. \A d \in Guests \ {c} : outbound'[d] # NoCall /\ outbound'[d].at = "recorded" =>
          \E i \in 1..Len(log) : log[i] = [id |-> outbound'[d].id, nth |-> outbound'[d].nth]
      BY <1>0 DEF Told
    <3> QED BY <3>1, <3>2, <1>d
  <2>2. \A t \in told : \E i \in 1..Len(log') : log'[i] = t
    BY <1>d DEF Told
  <2> QED BY <2>1, <2>2 DEF Told, RecordCall
<1>5. Asked' /\ SentIsIrreversible'
  <2>1. UNCHANGED <<unit, refused>> /\ refused \subseteq 1..Len(log)
    BY <1>d DEF RecordCall, CallsType
  <2>2. {log'[i].nth : i \in refused} = {log[i].nth : i \in refused}
    BY <1>d, <2>1
  <2> QED BY <1>d, <2>1, <2>2 DEF Asked, SentIsIrreversible
<1>6. EffectNamesOneCall'
  BY <1>0, <1>a, <1>d, <1>e, <1>s DEF Apart, EffectNamesOneCall
<1> QED BY <1>1, <1>2, <1>3, <1>4, <1>5, <1>6

(* The guest is answered after its row was sent, never before.               *)
LEMMA AnswerNamed ==
    ASSUME CallsInv, NEW c \in Guests, AnswerCall(c)
    PROVE  CallsInv'
<1> USE DEF CallsInv
<1>0. /\ outbound[c] \in Callers /\ outbound[c] # NoCall
      /\ \A d \in Guests \ {c} : outbound'[d] = outbound[d]
      /\ outbound'[c] = NoCall
  BY DEF CallsType, Callers, NoCall, AnswerCall
<1>1. CallsType' /\ Minted' /\ Apart'
  BY <1>0 DEF CallsType, Minted, Apart, AnswerCall, Standing
<1>2. Told'
  BY <1>0 DEF Told, AnswerCall
<1>3. Asked' /\ EffectNamesOneCall' /\ SentIsIrreversible'
  BY DEF EffectNamesOneCall, SentIsIrreversible, Asked, AnswerCall, Standing
<1> QED BY <1>1, <1>2, <1>3

(* A crash loses the callers, and the rows that were not written.            *)
LEMMA CrashNamed ==
    ASSUME CallsInv, CallsCrash
    PROVE  CallsInv'
<1> USE CallsAssumption DEF CallsInv
<1>0. kept \in 0..Len(log) /\ log \in Seq(Rows) /\ log' = SubSeq(log, 1, kept)
  BY DEF CallsCrash, CallsType
<1>1. /\ log' \in Seq(Rows) /\ Len(log') = kept
      /\ \A i \in 1..kept : log'[i] = log[i]
  BY <1>0
<1>2. CallsType'
  BY <1>1, <1>0 DEF CallsType, CallsCrash
<1>s. Standing' \subseteq Standing /\ Standing' \subseteq 1..kept
  BY <1>0, <1>1 DEF Standing, CallsCrash
<1>3. Minted' /\ Apart'
  BY <1>0, <1>1 DEF Minted, Apart, CallsCrash
<1>4. Told'
  BY <1>0, <1>1 DEF Told, CallsCrash
<1>5. Asked' /\ SentIsIrreversible'
  BY DEF Asked, SentIsIrreversible, CallsCrash
<1>6. EffectNamesOneCall'
  BY <1>0, <1>1, <1>s DEF EffectNamesOneCall
<1> QED BY <1>2, <1>3, <1>4, <1>5, <1>6

(* The seed is the highest id that survived.                                 *)
LEMMA SeedNamed ==
    ASSUME CallsInv, Seed
    PROVE  CallsInv'
<1> USE CallsAssumption DEF CallsInv
<1> DEFINE ids == {log[i].id : i \in OnRecord}
<1>0. /\ kept = Len(log) /\ log \in Seq(Rows) /\ Len(log) \in Nat
      /\ OnRecord = Standing /\ Standing \subseteq 1..Len(log)
  BY DEF Seed, CallsType, Minted, OnRecord, Standing
<1>1. ids \in SUBSET Nat /\ \A n \in ids : n <= MaxIds
  BY <1>0, RowFields DEF Minted
<1>2. Highest \in 0..MaxIds /\ \A i \in Standing : log[i].id <= Highest
  <2>1. CASE OnRecord = {}
    BY <2>1, <1>0 DEF Highest
  <2>2. CASE OnRecord # {}
    <3>1. ids # {}
      BY <2>2
    <3>2. Max(ids) \in ids /\ \A n \in ids : n <= Max(ids)
      BY <1>1, <3>1, GreatestExists
    <3>3. Highest = Max(ids)
      BY <2>2 DEF Highest
    <3> HIDE DEF ids
    <3>4. \A i \in Standing : log[i].id \in ids
      BY <1>0 DEF ids
    <3>5. Highest \in Nat /\ Highest <= MaxIds
      BY <1>1, <3>2, <3>3
    <3> QED
      BY <3>5, <3>2, <3>3, <3>4
  <2> QED BY <2>1, <2>2
<1>3. counter' \in 0..MaxIds /\ counter' >= Highest /\ counter' >= counter
  BY <1>2 DEF Seed, CallsType
<1>4. CallsType'
  BY <1>3 DEF Seed, CallsType
<1>5. Minted'
  <2>1. \A i \in Standing : log[i].id <= counter'
    BY <1>2, <1>3, RowFields
  <2>2. Standing' = Standing
    BY DEF Seed, Standing
  <2> QED
    BY <2>1, <2>2, <1>0, <1>2, <1>3 DEF Seed, Minted
<1>6. Apart' /\ Told' /\ Asked' /\ SentIsIrreversible' /\ EffectNamesOneCall'
  BY DEF Seed, Apart, Told, Asked, SentIsIrreversible, EffectNamesOneCall, Standing
<1> QED BY <1>4, <1>5, <1>6

(* Handles take ids of the same counter, and the writer serves rows one by   *)
(* one: what storage refuses is one row less that stands.                    *)
LEMMA CounterNamed ==
    ASSUME CallsInv, MintHandle \/ Commit1 \/ RefuseRow
    PROVE  CallsInv'
<1> USE CallsAssumption DEF CallsInv
<1>1. CASE MintHandle
  <2>1. CallsType' /\ Minted'
    <3>1. counter' = counter + 1 /\ counter' \in 0..MaxIds /\ ~down
      BY <1>1, RowFields DEF MintHandle
    <3>2. \A i \in Standing : log[i].id <= counter'
      BY <3>1, RowFields DEF Minted
    <3>3. \A c \in Guests : outbound[c] # NoCall => outbound[c].id <= counter'
      BY <3>1, RowFields, CallerFields DEF Minted
    <3> QED
      BY <1>1, <3>1, <3>2, <3>3 DEF MintHandle, CallsType, Minted, Standing
  <2>2. Apart' /\ Told' /\ Asked' /\ SentIsIrreversible' /\ EffectNamesOneCall'
    BY <1>1 DEF MintHandle, Apart, Told, Asked, SentIsIrreversible, EffectNamesOneCall, Standing
  <2> QED BY <2>1, <2>2
<1>2. CASE Commit1
  <2>1. CallsType' /\ Minted'
    BY <1>2 DEF Commit1, CallsType, Minted, Standing
  <2>2. Apart' /\ Told' /\ Asked' /\ SentIsIrreversible' /\ EffectNamesOneCall'
    BY <1>2 DEF Commit1, Apart, Told, Asked, SentIsIrreversible, EffectNamesOneCall, Standing
  <2> QED BY <2>1, <2>2
<1>3. CASE RefuseRow
  <2>0. /\ UNCHANGED <<counter, outbound, calls, log, told, unit, down, crashes>>
        /\ kept' = kept + 1 /\ kept < Len(log) /\ refused' = refused \union {kept + 1}
    BY <1>3 DEF RefuseRow
  <2>1. Standing' \subseteq Standing
    BY <2>0 DEF Standing
  <2>2. CallsType' /\ Minted'
    BY <2>0, <2>1 DEF CallsType, Minted
  <2>3. Apart' /\ Told' /\ Asked' /\ EffectNamesOneCall'
    BY <2>0, <2>1 DEF Apart, Told, Asked, EffectNamesOneCall
  <2>4. SentIsIrreversible'
    BY <2>0 DEF SentIsIrreversible
  <2> QED BY <2>2, <2>3, <2>4
<1> QED BY <1>1, <1>2, <1>3

(* The read of the ledger answers after the row of what was answered.        *)
LEMMA UnitNamed ==
    ASSUME CallsInv, AskUnit \/ DecideUnit
    PROVE  CallsInv'
<1> USE DEF CallsInv
<1>1. CASE AskUnit
  <2>1. PICK id \in 1..MaxIds :
          unit' = [id |-> id, after |-> Len(log), decided |-> FALSE, irreversible |-> FALSE,
                   answered |-> {t.nth : t \in {r \in told : r.id = id}}]
    BY <1>1 DEF AskUnit
  <2>2. UNCHANGED <<counter, outbound, calls, log, kept, refused, told, down, crashes>>
    BY <1>1 DEF AskUnit
  <2>3. \A n \in unit'.answered : \E i \in 1..Len(log) : log[i].id = id /\ log[i].nth = n
    <3> SUFFICES ASSUME NEW n \in unit'.answered
                 PROVE  \E i \in 1..Len(log) : log[i].id = id /\ log[i].nth = n
      OBVIOUS
    <3>1. PICK t \in told : t.id = id /\ t.nth = n
      BY <2>1
    <3> QED BY <3>1 DEF Told
  <2>4. unit'.after = Len(log) /\ unit'.id = id /\ unit'.decided = FALSE
        /\ unit' = [id |-> unit'.id, after |-> unit'.after, decided |-> unit'.decided,
                   irreversible |-> unit'.irreversible, answered |-> unit'.answered]
    BY <2>1
  <2>5. Asked'
    BY <2>2, <2>3, <2>4 DEF Asked, CallsType
  <2>6. SentIsIrreversible'
    BY <2>4 DEF SentIsIrreversible
  <2> QED
    BY <2>2, <2>5, <2>6 DEF CallsType, Minted, Apart, Told, EffectNamesOneCall, Standing
<1>2. CASE DecideUnit
  <2>2. UNCHANGED <<counter, outbound, calls, log, kept, refused, told, down, crashes>>
    BY <1>2 DEF DecideUnit
  <2>3. unit' = [id |-> unit.id, after |-> unit.after, decided |-> TRUE,
                 irreversible |-> \E i \in OnRecord : log[i].id = unit.id,
                 answered |-> unit.answered]
    BY <1>2 DEF DecideUnit, Asked
  <2>4. \/ \E i \in OnRecord : log[i].id = unit.id
        \/ unit.answered \subseteq {log[i].nth : i \in refused}
    <3>1. \A n \in unit.answered : \E i \in 1..kept : log[i].id = unit.id /\ log[i].nth = n
      BY <1>2 DEF DecideUnit, Asked, CallsType
    <3> QED BY <3>1 DEF OnRecord
  <2>5. Asked'
    BY <2>2, <2>3, <1>2 DEF Asked, DecideUnit
  <2>7. /\ unit'.irreversible <=> \E i \in OnRecord : log[i].id = unit.id
        /\ unit'.answered = unit.answered
    BY <2>3
  <2>8. unit'.irreversible \/ unit'.answered \subseteq {log'[i].nth : i \in refused'}
    <3>1. log' = log /\ refused' = refused
      BY <2>2
    <3> QED BY <2>4, <2>7, <3>1, Zenon
  <2>6. SentIsIrreversible'
    BY <2>8, Zenon DEF SentIsIrreversible
  <2> QED
    BY <2>2, <2>5, <2>6 DEF CallsType, Minted, Apart, Told, EffectNamesOneCall, Standing
<1> QED BY <1>1, <1>2

(* Every step of the outbound calls keeps the invariant.                     *)
LEMMA CallsStep ==
    ASSUME CallsInv, CallsNext
    PROVE  CallsInv'
<1>1. CASE MintHandle \/ Commit1 \/ RefuseRow
  BY <1>1, CounterNamed
<1>2. CASE CallsCrash
  BY <1>2, CrashNamed
<1>3. CASE Seed
  BY <1>3, SeedNamed
<1>4. CASE AskUnit \/ DecideUnit
  BY <1>4, UnitNamed
<1>5. ASSUME NEW c \in Guests,
             Outbound(c) \/ Dropped(c) \/ RecordCall(c) \/ AnswerCall(c)
      PROVE  CallsInv'
  BY <1>5, CallerLeaves, OutboundNamed, RecordNamed, AnswerNamed
<1> QED
  BY <1>1, <1>2, <1>3, <1>4, <1>5 DEF CallsNext

-----------------------------------------------------------------------------
(* Retained effects: what an id names, over all boots. *)

(* The state of a crossing: at rest, or about a label under a key.           *)
CallShape ==
    /\ call = [f \in DOMAIN call |-> call[f]]
    /\ call.pc = "idle" => call = Idle
    /\ "pc" \in DOMAIN call
    /\ call.pc # "idle" => {"label", "key", "prior", "id"} \subseteq DOMAIN call
(* One crossing at a time, so no more effects than the bound are minted.     *)
CallBound ==
    /\ ~up => call = Idle
    /\ call.pc \in {"prior", "salt", "retain"} => Len(minted) < MaxEffects
(* A crossing, as every step finds it.                                       *)
CallInv == CallShape /\ CallBound

(* Counters and records, and the ids of the records below the next one.      *)
IdsType ==
    /\ next \in Nat /\ epoch \in Int /\ epoch >= -1
    /\ faults \in Nat /\ faults <= MaxFaults
    /\ minted \in Seq(Nat) /\ Len(minted) <= MaxEffects
    /\ up => epoch >= 0
    /\ \A i \in DOMAIN spill : i \in Nat /\ i < next
(* With every epoch on record, the ids of a boot end where the next boot's   *)
(* begin: it mints one id for each effect and each refusal at most.          *)
IdsApart ==
    /\ IsInjective(minted)
    /\ \A n \in 1..Len(minted) : minted[n] < next /\ minted[n] < Base(epoch + 1)
    /\ \A i \in DOMAIN spill : i < Base(epoch + 1)
    /\ up => next <= Base(epoch) + Len(minted) + (MaxFaults - faults)
(* An epoch that could not be recorded is the one excuse.                    *)
IdsInv == IdsType /\ ("epoch" \in excuse \/ IdsApart)

(* The first id of an epoch, one boot above that of the epoch before.        *)
LEMMA BaseFacts ==
    /\ IdsPerBoot \in Nat /\ IdsPerBoot = MaxEffects + MaxFaults + 1
    /\ \A e \in Int : Base(e) \in Int /\ Base(e + 1) = Base(e) + IdsPerBoot
    /\ \A e \in Int : e >= -1 => Base(e) >= 0
<1>1. IdsPerBoot \in Nat /\ IdsPerBoot = MaxEffects + MaxFaults + 1
  BY RetentionAssumption DEF IdsPerBoot
<1>2. \A k \in Nat, e \in Int :
        /\ (e + 1) * k \in Int /\ ((e + 1) + 1) * k = (e + 1) * k + k
        /\ e >= -1 => (e + 1) * k >= 0
  <2>1. \A k \in Nat, m \in Int : m * k \in Int /\ (m + 1) * k = m * k + k
    OBVIOUS
  <2>2. \A k \in Nat, m \in Nat : m * k >= 0
    OBVIOUS
  <2> QED BY <2>1, <2>2
<1> QED
  BY <1>1, <1>2 DEF Base

(* Nothing is minted and no epoch moves.                                     *)
LEMMA IdsKept ==
    ASSUME IdsInv, UNCHANGED <<up, epoch, next, minted>>,
           DOMAIN spill' \subseteq DOMAIN spill,
           faults' \in Nat, faults' <= faults, excuse \subseteq excuse'
    PROVE  IdsInv'
<1> USE DEF IdsInv
<1>1. IdsType'
  BY RetentionAssumption DEF IdsType
<1>2. CASE "epoch" \in excuse
  BY <1>1, <1>2
<1>3. CASE IdsApart
  <2>1. epoch' = epoch /\ epoch \in Int /\ Base(epoch) \in Int
    BY BaseFacts DEF IdsType
  <2>2. Base(epoch + 1)' = Base(epoch + 1) /\ Base(epoch)' = Base(epoch)
    BY <2>1 DEF Base
  <2>3. up => next <= Base(epoch) + Len(minted) + (MaxFaults - faults')
    BY <1>3, <2>1, RetentionAssumption DEF IdsApart, IdsType
  <2>4. IdsApart'
    BY <1>3, <2>1, <2>2, <2>3 DEF IdsApart
  <2> QED BY <1>1, <2>4
<1> QED BY <1>2, <1>3

(* A refused write is one fewer to come.                                     *)
LEMMA RefusedLess ==
    ASSUME IdsType, Refused
    PROVE  faults' \in Nat /\ faults' <= faults /\ faults' = faults - 1
BY DEF IdsType, Refused

(* The open: the ids go on above every id of every record.                   *)
LEMMA OpenIds ==
    ASSUME IdsInv, OpenStore
    PROVE  IdsInv'
<1> USE RetentionAssumption DEF IdsInv
<1> DEFINE top(e) == {Base(e)} \cup {i + 1 : i \in DOMAIN spill}
<1>0. /\ ~up /\ UNCHANGED <<spill, minted>>
      /\ epoch \in Int /\ epoch >= -1 /\ next \in Nat
      /\ minted \in Seq(Nat) /\ Len(minted) \in Nat
      /\ \A i \in DOMAIN spill : i \in Nat /\ i < next
  BY DEF OpenStore, IdsType
<1>1. ASSUME NEW e \in Int, e >= 0
      PROVE  Max(top(e)) \in Nat /\ \A n \in top(e) : n <= Max(top(e))
  <2>1. Base(e) \in Nat
    BY <1>1, BaseFacts
  <2>2. top(e) \in SUBSET Nat /\ top(e) # {}
    BY <2>1, <1>0
  <2>3. \A n \in top(e) : n <= Base(e) + next
    BY <2>1, <1>0
  <2> HIDE DEF top
  <2>a. Base(e) + next \in Nat
    BY <2>1, <1>0
  <2>4. Max(top(e)) \in top(e) /\ \A n \in top(e) : n <= Max(top(e))
    BY <2>2, <2>3, <2>a, GreatestExists
  <2> QED BY <2>2, <2>4
<1>2. ASSUME NEW e \in Int, e >= 0, Rehydrate(e), faults' \in Nat, faults' <= faults
      PROVE  IdsType' /\ next' = Max(top(e)) /\ epoch' = e /\ up'
  <2>1. next' = Max(top(e)) /\ epoch' = e /\ up' = TRUE
    BY <1>2 DEF Rehydrate
  <2>2. \A i \in DOMAIN spill : i + 1 \in top(e)
    OBVIOUS
  <2> HIDE DEF top
  <2>3. next' \in Nat /\ \A i \in DOMAIN spill : i < next'
    BY <1>0, <1>1, <1>2, <2>1, <2>2
  <2> QED
    BY <1>0, <1>2, <2>1, <2>3 DEF IdsType
<1>3. NextEpoch(epoch) = epoch + 1 /\ NextEpoch(epoch) \in Int /\ NextEpoch(epoch) >= 0
  BY <1>0 DEF NextEpoch
<1>4. CASE Rehydrate(NextEpoch(epoch)) /\ UNCHANGED <<faults, excuse>>
  <2>1. faults' \in Nat /\ faults' <= faults
    BY <1>4 DEF IdsType
  <2>2. IdsType' /\ next' = Max(top(epoch + 1)) /\ epoch' = epoch + 1 /\ up'
    BY <1>2, <1>3, <1>4, <2>1
  <2>3. CASE "epoch" \in excuse
    BY <1>4, <2>2, <2>3
  <2>4. CASE IdsApart
    <3> DEFINE b == Base(epoch + 1)
    <3>a. epoch + 1 \in Int /\ epoch + 1 >= -1
      BY <1>0
    <3>b. b \in Int /\ b >= 0 /\ Base((epoch + 1) + 1) = b + IdsPerBoot
      BY <3>a, BaseFacts
    <3>1. b \in Int /\ b >= 0 /\ Base((epoch + 1) + 1) = b + IdsPerBoot /\ IdsPerBoot \in Nat
          /\ IdsPerBoot > 0
      BY <3>b, BaseFacts
    <3>2. \A i \in DOMAIN spill : i + 1 <= b
      BY <2>4, <1>0, <3>1 DEF IdsApart
    <3>3. b \in top(epoch + 1) /\ \A n \in top(epoch + 1) : n \in Int /\ n <= b
      BY <3>1, <3>2, <1>0
    <3>4. next' \in Nat /\ \A n \in top(epoch + 1) : n <= next'
      <4>1. epoch + 1 \in Int /\ epoch + 1 >= 0
        BY <1>0
      <4> HIDE DEF top
      <4> QED BY <4>1, <2>2, <1>1
    <3>5. next' \in top(epoch + 1)
      <4>1. \E x \in top(epoch + 1) : \A y \in top(epoch + 1) : x >= y
        BY <3>1, <3>3
      <4> HIDE DEF top
      <4> QED BY <4>1, <2>2 DEF Max
    <3>6. next' = b
      <4> HIDE DEF top, b
      <4> QED BY <3>1, <3>3, <3>4, <3>5
    <3> HIDE DEF top
    <3>7. IsInjective(minted')
      BY <1>0, <2>4 DEF IdsApart
    <3>8. \A n \in 1..Len(minted') : minted'[n] < next' /\ minted'[n] < b + IdsPerBoot
      <4>1. \A n \in 1..Len(minted) : minted[n] < b /\ minted[n] \in Nat
        BY <1>0, <2>4 DEF IdsApart
      <4> HIDE DEF b
      <4> QED BY <4>1, <1>0, <3>1, <3>6
    <3>9. \A i \in DOMAIN spill' : i < b + IdsPerBoot
      <4> HIDE DEF b
      <4> QED BY <1>0, <3>1, <3>2
    <3>10. next' <= b + Len(minted') + (MaxFaults - faults')
      <4> HIDE DEF b
      <4> QED BY <1>0, <3>1, <3>6, <2>2 DEF IdsType
    <3>11. Base(epoch + 1)' = b + IdsPerBoot /\ Base(epoch)' = b
      BY <2>2, <3>1 DEF Base
    <3> HIDE DEF b
    <3>12. IdsApart'
      BY <3>7, <3>8, <3>9, <3>10, <3>11 DEF IdsApart
    <3> QED BY <2>2, <3>12
  <2> QED BY <2>3, <2>4
<1>5. CASE Refused /\ Rehydrate(0) /\ excuse' = excuse \cup {"epoch"}
  <2>1. faults' \in Nat /\ faults' <= faults
    BY <1>5, RefusedLess
  <2> DEFINE none == 0
  <2>a. none \in Int /\ none >= 0 /\ Rehydrate(none)
    BY <1>5
  <2> HIDE DEF none
  <2>2. IdsType'
    BY <1>2, <2>a, <2>1
  <2> QED BY <1>5, <2>2
<1>6. CASE Refused /\ epoch' \in {epoch, NextEpoch(epoch)} /\ UNCHANGED <<up, next, excuse>>
  <2>1. faults' \in Nat /\ faults' <= faults
    BY <1>6, RefusedLess
  <2>2. epoch' \in Int /\ epoch' >= epoch
    BY <1>0, <1>3, <1>6
  <2>3. IdsType'
    BY <1>0, <1>6, <2>1, <2>2 DEF IdsType
  <2>4. CASE IdsApart
    <3>1. Base(epoch + 1)' = Base(epoch' + 1) /\ Base(epoch + 1) \in Int
          /\ Base(epoch' + 1) >= Base(epoch + 1) /\ Base(epoch' + 1) \in Int
      <4>1. Base(epoch + 1)' = Base(epoch' + 1)
        BY DEF Base
      <4>2. epoch' = epoch \/ epoch' = epoch + 1
        BY <1>6, <1>3
      <4>a. epoch + 1 \in Int
        BY <1>0
      <4>3. Base(epoch + 1) \in Int /\ Base((epoch + 1) + 1) = Base(epoch + 1) + IdsPerBoot
            /\ IdsPerBoot \in Nat
        BY <4>a, BaseFacts
      <4> QED BY <4>1, <4>2, <4>3
    <3> DEFINE b == Base(epoch + 1)
               c == Base(epoch' + 1)
    <3>2. b \in Int /\ c \in Int /\ c >= b /\ Base(epoch + 1)' = c
      BY <3>1
    <3>3. /\ \A n \in 1..Len(minted) : minted[n] < next /\ minted[n] < b /\ minted[n] \in Nat
          /\ \A i \in DOMAIN spill : i < b
          /\ IsInjective(minted)
      BY <1>0, <2>4 DEF IdsApart
    <3> HIDE DEF b, c
    <3>4. IdsApart'
      BY <3>2, <3>3, <1>0, <1>6 DEF IdsApart
    <3> QED BY <2>3, <3>4
  <2> QED BY <2>3, <2>4, <1>6
<1> QED
  BY <1>4, <1>5, <1>6 DEF OpenStore

(* A retention takes the next id; refused, it burns it.                      *)
LEMMA RetainIds ==
    ASSUME IdsInv, CallInv, Retain
    PROVE  IdsInv'
<1> USE RetentionAssumption DEF IdsInv
<1>0. /\ up /\ UNCHANGED <<up, epoch, excuse>> /\ next' = next + 1
      /\ epoch \in Int /\ epoch >= 0 /\ next \in Nat
      /\ minted \in Seq(Nat) /\ Len(minted) \in Nat /\ Len(minted) < MaxEffects
      /\ faults \in Nat /\ faults <= MaxFaults
  BY DEF Retain, Calling, IdsType, CallInv, CallBound
<1>a. \/ faults' = faults /\ minted' = Append(minted, next) /\ spill' = With(spill, next, Header)
      \/ /\ faults' = faults - 1 /\ faults > 0
         /\ \/ UNCHANGED <<spill, minted>>
            \/ minted' = Append(minted, next) /\ spill' = With(spill, next, Header)
  BY DEF Retain, Refused
<1>b. DOMAIN With(spill, next, Header) = DOMAIN spill \cup {next}
  BY DEF With
<1>1. /\ \/ minted' = minted /\ DOMAIN spill' = DOMAIN spill
         \/ minted' = Append(minted, next) /\ DOMAIN spill' = DOMAIN spill \cup {next}
      /\ \/ faults' = faults /\ minted' = Append(minted, next)
         \/ faults' = faults - 1 /\ faults > 0
  BY <1>a, <1>b
<1>2. /\ minted' \in Seq(Nat) /\ Len(minted') \in Nat /\ Len(minted') <= MaxEffects
      /\ faults' \in Nat /\ faults' <= MaxFaults
      /\ Len(minted') - faults' >= Len(minted) - faults + 1
  <2>1. Append(minted, next) \in Seq(Nat) /\ Len(Append(minted, next)) = Len(minted) + 1
    BY <1>0
  <2>2. CASE minted' = minted
    <3>1. Append(minted, next) # minted
      BY <1>0, <2>1
    <3>2. faults' = faults - 1 /\ faults > 0
      BY <1>1, <2>2, <3>1
    <3> QED
      BY <1>0, <2>2, <3>2
  <2>3. CASE minted' = Append(minted, next)
    <3>1. faults' \in Nat /\ faults' <= faults
      BY <1>0, <1>1
    <3> QED
      BY <1>0, <2>1, <2>3, <3>1
  <2> QED
    BY <1>1, <2>2, <2>3
<1>3. \A i \in DOMAIN spill' : i \in Nat /\ i < next'
  BY <1>0, <1>1 DEF IdsType
<1>4. IdsType'
  BY <1>0, <1>2, <1>3 DEF IdsType
<1>5. CASE IdsApart
  <2> DEFINE b == Base(epoch)
             d == Base(epoch + 1)
  <2>1. b \in Int /\ d = b + IdsPerBoot /\ IdsPerBoot = MaxEffects + MaxFaults + 1
        /\ Base(epoch)' = b /\ Base(epoch + 1)' = d
    BY <1>0, BaseFacts DEF Base
  <2>2. /\ next <= b + Len(minted) + (MaxFaults - faults) /\ IsInjective(minted)
        /\ \A n \in 1..Len(minted) : minted[n] < next /\ minted[n] < d /\ minted[n] \in Nat
        /\ \A i \in DOMAIN spill : i < d
    BY <1>0, <1>5 DEF IdsApart
  <2> HIDE DEF b, d
  <2>3. next < d /\ next' <= b + Len(minted') + (MaxFaults - faults')
    <3>1. next <= b + Len(minted) + (MaxFaults - faults) /\ b \in Int
          /\ d = b + (MaxEffects + MaxFaults + 1)
      BY <2>1, <2>2
    <3> QED
      BY <1>0, <1>2, <3>1
  <2>4. /\ \A n \in 1..Len(minted') : minted'[n] < next' /\ minted'[n] < d
        /\ IsInjective(minted')
    <3>1. CASE minted' = minted
      BY <3>1, <1>0, <2>2
    <3>2. CASE minted' = Append(minted, next)
      <4>1. /\ Len(minted') = Len(minted) + 1 /\ minted'[Len(minted) + 1] = next
            /\ \A n \in 1..Len(minted) : minted'[n] = minted[n]
            /\ DOMAIN minted' = 1..(Len(minted) + 1)
        BY <3>2, <1>0
      <4>2. IsInjective(minted')
        BY <4>1, <2>2, <1>0 DEF IsInjective
      <4> QED
        BY <4>1, <4>2, <2>2, <2>3, <1>0
    <3> QED BY <1>1, <3>1, <3>2
  <2>5. \A i \in DOMAIN spill' : i < d
    BY <1>1, <2>2, <2>3
  <2>6. IdsApart'
    BY <2>1, <2>3, <2>4, <2>5 DEF IdsApart
  <2> QED BY <1>4, <2>6
<1> QED BY <1>0, <1>4, <1>5

-----------------------------------------------------------------------------
(* Keyed effects of the file system: a key acts once. *)

Unchanged == {"prior", "retain", "mutate", "rename"}   \* the world is as the call found it

(* An index entry is a record and whether it was consumed.                   *)
IndexShape ==
    \A i \in DOMAIN index : index[i] = [rec |-> index[i].rec, consumed |-> index[i].consumed]

(* What stands is indexed, so a key that is not recorded stands for nothing; *)
(* and that stays so until the call that found it has acted itself.          *)
Indexed == up => \A i \in DOMAIN spill \cap applied : i \in DOMAIN index /\ index[i].rec = spill[i]
(* A call that goes on found no standing effect of its owner under its key.  *)
Unanswered ==
    call.pc \in Unchanged => \A i \in DOMAIN spill \cap applied :
        ~(call.key # NoKey /\ spill[i].key = call.key /\ spill[i].owner = owner)
(* The record of the call at hand has its key and is indexed.                *)
OwnRecord ==
    call.pc \in {"mutate", "rename"} /\ call.id \in DOMAIN spill =>
        /\ spill[call.id].key = call.key /\ spill[call.id].owner = owner
        /\ call.id \in DOMAIN index /\ index[call.id].rec = spill[call.id]
(* The change of the call at hand is not made before its last step.          *)
NotYet == call.pc \in {"mutate", "rename", "release"} => call.id \notin applied

(* A document that was not synced is the one excuse.                         *)
KeyedInv ==
    /\ IndexShape
    /\ "unsynced" \notin excuse => KeyedOnce /\ Indexed /\ Unanswered /\ OwnRecord /\ NotYet

(* The crossing goes on with its key and its record, or ends.                *)
GoesOn ==
    /\ call'.pc \in Unchanged => call.pc \in Unchanged /\ call'.key = call.key
    /\ call'.pc \in {"mutate", "rename"} => call.pc \in {"mutate", "rename"}
    /\ call'.pc = "release" => call.pc \in {"mutate", "rename", "release"}
    /\ call'.pc \in {"mutate", "rename", "release"} => call'.id = call.id

(* A step that adds no record and makes no change.                           *)
LEMMA KeyedKept ==
    ASSUME KeyedInv, UNCHANGED <<up, owner, applied>>, excuse \subseteq excuse',
           DOMAIN spill' \subseteq DOMAIN spill, \A i \in DOMAIN spill' : spill'[i] = spill[i],
           IndexShape',
           \A i \in DOMAIN spill' :
               /\ i \in DOMAIN index
               /\ call'.pc \in {"mutate", "rename"} \/ (i \in applied /\ "unsynced" \notin excuse')
               => i \in DOMAIN index' /\ index'[i].rec = index[i].rec,
           GoesOn
    PROVE  KeyedInv'
<1> SUFFICES ASSUME "unsynced" \notin excuse'
             PROVE  (KeyedOnce /\ Indexed /\ Unanswered /\ OwnRecord /\ NotYet)'
  BY DEF KeyedInv
<1>0. "unsynced" \notin excuse /\ KeyedOnce /\ Indexed /\ Unanswered /\ OwnRecord /\ NotYet
  BY DEF KeyedInv
<1>1. KeyedOnce'
  BY <1>0 DEF KeyedOnce
<1>2. Indexed'
  BY <1>0 DEF Indexed
<1>3. Unanswered'
  BY <1>0 DEF Unanswered, GoesOn
<1>4. OwnRecord'
  BY <1>0 DEF OwnRecord, GoesOn, Unchanged
<1>5. NotYet'
  BY <1>0 DEF NotYet, GoesOn
<1> QED BY <1>1, <1>2, <1>3, <1>4, <1>5

(* Nothing of the store changes but the journal and its lists.               *)
LEMMA KeyedFrame ==
    ASSUME KeyedInv, UNCHANGED <<up, owner, applied, spill, index>>, excuse \subseteq excuse', GoesOn
    PROVE  KeyedInv'
BY KeyedKept DEF KeyedInv, IndexShape

(* A boot indexes every record it finds.                                     *)
LEMMA OpenKeyed ==
    ASSUME KeyedInv, CallInv, OpenStore
    PROVE  KeyedInv'
<1>0. /\ ~up /\ call = Idle /\ UNCHANGED <<spill, call, minted, applied>>
      /\ excuse \subseteq excuse'
  BY DEF OpenStore, CallInv, CallBound
<1>1. \/ ~up' /\ UNCHANGED <<up, index, owner>>
      \/ index' = [i \in DOMAIN spill |-> [rec |-> spill[i], consumed |-> FALSE]]
  BY <1>0 DEF OpenStore, Rehydrate
<1>2. IndexShape'
  BY <1>0, <1>1 DEF KeyedInv, IndexShape
<1>3. Indexed'
  BY <1>0, <1>1 DEF Indexed
<1>4. KeyedInv => ("unsynced" \notin excuse' => KeyedOnce')
  BY <1>0 DEF KeyedInv, KeyedOnce
<1>5. Unanswered' /\ OwnRecord' /\ NotYet'
  BY <1>0 DEF Unanswered, OwnRecord, NotYet, Idle, Unchanged
<1> QED BY <1>2, <1>3, <1>4, <1>5 DEF KeyedInv

(* A crash forgets the crossing, and the index with it.                      *)
LEMMA CrashKeyed ==
    ASSUME KeyedInv, Crash
    PROVE  KeyedInv'
<1>0. /\ ~up' /\ call' = Idle /\ index' = <<>> /\ UNCHANGED <<spill, minted, applied, excuse>>
  BY DEF Crash
<1>1. IndexShape' /\ Indexed'
  BY <1>0 DEF IndexShape, Indexed
<1>2. KeyedInv => ("unsynced" \notin excuse' => KeyedOnce')
  BY <1>0 DEF KeyedInv, KeyedOnce
<1>3. Unanswered' /\ OwnRecord' /\ NotYet'
  BY <1>0 DEF Unanswered, OwnRecord, NotYet, Idle, Unchanged
<1> QED BY <1>1, <1>2, <1>3 DEF KeyedInv

(* The check of the key: what is not recorded does not stand.                *)
LEMMA CallKeyed ==
    ASSUME KeyedInv, NEW op, NEW path, NEW key, NEW t, FsCall(op, path, key, t)
    PROVE  KeyedInv'
<1>0. /\ up /\ UNCHANGED <<up, owner, applied, spill, index, excuse>> /\ Recorded(key) = {}
      /\ call'.pc = "prior" /\ call'.key = key
  BY DEF FsCall, Serving
<1>1. IndexShape'
  BY <1>0 DEF KeyedInv, IndexShape
<1>2. ASSUME "unsynced" \notin excuse'
      PROVE  (KeyedOnce /\ Indexed /\ Unanswered /\ OwnRecord /\ NotYet)'
  <2>0. KeyedOnce /\ Indexed
    BY <1>0, <1>2 DEF KeyedInv
  <2>1. KeyedOnce' /\ Indexed'
    BY <1>0, <2>0 DEF KeyedOnce, Indexed
  <2>2. Unanswered'
    BY <1>0, <2>0 DEF Unanswered, Indexed, Recorded
  <2>3. OwnRecord' /\ NotYet'
    BY <1>0 DEF OwnRecord, NotYet
  <2> QED BY <2>1, <2>2, <2>3
<1> QED BY <1>1, <1>2 DEF KeyedInv

(* The record of a retention is new, and stands for nothing yet.             *)
LEMMA RetainKeyed ==
    ASSUME KeyedInv, IdsInv, CallInv, Retain
    PROVE  KeyedInv'
<1>0. /\ up /\ up' = up /\ UNCHANGED <<owner, excuse>> /\ applied' = applied \ {next}
      /\ call.pc = "retain"
      /\ next \notin DOMAIN spill
  BY DEF Retain, Calling, IdsInv, IdsType
<1>1. \/ spill' = With(spill, next, Header)
      \/ UNCHANGED spill
  BY DEF Retain
<1>2. \/ /\ index' = With(index, next, [rec |-> Header, consumed |-> FALSE])
         /\ spill' = With(spill, next, Header)
         /\ call' = [call EXCEPT !.pc = "mutate", !.id = next]
      \/ UNCHANGED index /\ call' = Idle
  BY DEF Retain
<1>3. call' = Idle \/ (call'.pc = "mutate" /\ call'.id = next /\ call'.key = call.key)
  <2>1. CASE call' = [call EXCEPT !.pc = "mutate", !.id = next]
    BY <1>0, <2>1 DEF CallInv, CallShape
  <2> QED BY <1>2, <2>1
<1>4. /\ DOMAIN spill' \cap applied' \subseteq DOMAIN spill \cap applied
      /\ \A i \in DOMAIN spill : spill'[i] = spill[i]
  BY <1>0, <1>1 DEF With
<1>5. IndexShape'
  BY <1>2 DEF KeyedInv, IndexShape, With
<1>6. ASSUME "unsynced" \notin excuse'
      PROVE  (KeyedOnce /\ Indexed /\ Unanswered /\ OwnRecord /\ NotYet)'
  <2>0. KeyedOnce /\ Indexed /\ Unanswered
    BY <1>0, <1>6 DEF KeyedInv
  <2>1. KeyedOnce'
    BY <1>0, <1>4, <2>0 DEF KeyedOnce
  <2>2. Indexed'
    BY <1>0, <1>2, <1>4, <2>0 DEF Indexed, With
  <2>3. Unanswered'
    BY <1>0, <1>3, <1>4, <2>0 DEF Unanswered, Idle, Unchanged
  <2>4. OwnRecord'
    <3>1. call' # Idle => /\ spill'[next] = Header /\ next \in DOMAIN index'
                          /\ index'[next].rec = Header
      BY <1>2 DEF With
    <3>2. Header.key = call.key /\ Header.owner = owner
      BY DEF Header
    <3> QED BY <1>0, <1>3, <3>1, <3>2 DEF OwnRecord, Idle
  <2>5. NotYet'
    BY <1>0, <1>3 DEF NotYet, Idle
  <2> QED BY <2>1, <2>2, <2>3, <2>4, <2>5
<1> QED BY <1>5, <1>6 DEF KeyedInv

(* The change is made: from here on it stands under its key.                 *)
LEMMA AppliedKeyed ==
    ASSUME KeyedInv, UNCHANGED <<up, owner, spill, index, excuse>>,
           call.pc \in {"mutate", "rename"}, applied' = applied \cup {call.id},
           call'.pc \notin {"prior", "retain", "mutate", "rename", "release"}
    PROVE  KeyedInv'
<1>1. IndexShape'
  BY DEF KeyedInv, IndexShape
<1>2. ASSUME "unsynced" \notin excuse'
      PROVE  (KeyedOnce /\ Indexed /\ Unanswered /\ OwnRecord /\ NotYet)'
  <2>0. KeyedOnce /\ Indexed /\ Unanswered /\ OwnRecord
    BY <1>2 DEF KeyedInv
  <2>1. KeyedOnce'
    BY <2>0 DEF KeyedOnce, Unanswered, OwnRecord, Unchanged
  <2>2. Indexed'
    BY <2>0 DEF Indexed, OwnRecord
  <2>3. Unanswered' /\ OwnRecord' /\ NotYet'
    BY DEF Unanswered, OwnRecord, NotYet, Unchanged
  <2> QED BY <2>1, <2>2, <2>3
<1> QED BY <1>1, <1>2 DEF KeyedInv

(* The steps of the store that the providers share.                          *)
LEMMA IdleCall ==
    ASSUME call' = Idle
    PROVE  CallInv' /\ GoesOn
BY DEF CallInv, CallShape, CallBound, Idle, GoesOn, Unchanged

(* A crossing that goes on about the same label and key.                     *)
LEMMA StepCall ==
    ASSUME CallInv, NEW p, p \notin {"idle", "prior", "salt", "retain"}, call.pc # "idle", up, up',
           call' = [call EXCEPT !.pc = p]
    PROVE  CallInv' /\ call'.pc = p /\ call'.id = call.id /\ call'.key = call.key
           /\ call'.label = call.label /\ call'.prior = call.prior
BY DEF CallInv, CallShape, CallBound

(* A step that leaves the crossing as it is.                                 *)
LEMMA RestingCall ==
    ASSUME CallInv, UNCHANGED <<call, minted>>, up' => up \/ call = Idle, ~up' => ~up
    PROVE  CallInv' /\ GoesOn
BY DEF CallInv, CallShape, CallBound, GoesOn, Unchanged, Idle

(* Withdrawals, disposals and suspensions mint nothing, and what they remove *)
(* stands for nothing any more.                                              *)
StoreUndo ==
    \/ Retire \/ Suspend \/ Withdraw
    \/ \E u \in Undoers : Load(u) \/ Reclaim(u) \/ Mark(u)
    \/ \E id \in DOMAIN index : RevertEffect(id)

(* A function without one of its points.                                     *)
LEMMA WithoutFacts ==
    ASSUME NEW f, NEW id
    PROVE  /\ DOMAIN Without(f, id) = DOMAIN f \ {id}
           /\ \A i \in DOMAIN Without(f, id) : Without(f, id)[i] = f[i]
BY DEF Without

(* A step that only removes records keeps the ids apart.                     *)
LEMMA UndoStore ==
    ASSUME IdsInv, CallInv, StoreUndo
    PROVE  /\ IdsInv' /\ CallInv'
           /\ UNCHANGED <<call, up, applied, excuse, minted>>
           /\ owner' # owner => call = Idle
           /\ DOMAIN spill' \subseteq DOMAIN spill /\ \A i \in DOMAIN spill' : spill'[i] = spill[i]
           /\ IndexShape => IndexShape'
           /\ \A i \in DOMAIN index : i \in DOMAIN index'
           /\ IndexShape => \A i \in DOMAIN index : index'[i].rec = index[i].rec
<1>1. UNCHANGED <<call, up, applied, excuse, minted, epoch, next>> /\ (owner' # owner => call = Idle)
  BY DEF StoreUndo, Retire, Suspend, Withdraw, Load, Reclaim, Mark, RevertEffect, Serving
<1>2. faults' \in Nat /\ faults' <= faults
  <2>1. UNCHANGED faults \/ Refused
    BY DEF StoreUndo, Retire, Suspend, Withdraw, Load, Reclaim, Mark, RevertEffect
  <2> QED BY <2>1, RefusedLess DEF IdsInv, IdsType
<1>3. UNCHANGED spill \/ \E id : spill' = Without(spill, id)
  BY DEF StoreUndo, Retire, Suspend, Withdraw, Load, Reclaim, Mark, RevertEffect
<1>4. DOMAIN spill' \subseteq DOMAIN spill /\ \A i \in DOMAIN spill' : spill'[i] = spill[i]
  <2>1. ASSUME NEW id, spill' = Without(spill, id)
        PROVE  DOMAIN spill' \subseteq DOMAIN spill /\ \A i \in DOMAIN spill' : spill'[i] = spill[i]
    BY <2>1 DEF Without
  <2> QED BY <1>3, <2>1
<1>5. /\ IndexShape => IndexShape'
      /\ \A i \in DOMAIN index : i \in DOMAIN index'
      /\ IndexShape => \A i \in DOMAIN index : index'[i].rec = index[i].rec
  <2>1. CASE UNCHANGED index
    BY <2>1 DEF IndexShape
  <2>2. ASSUME NEW u \in Undoers, Mark(u)
        PROVE  /\ IndexShape => IndexShape'
               /\ \A i \in DOMAIN index : i \in DOMAIN index'
               /\ IndexShape => \A i \in DOMAIN index : index'[i].rec = index[i].rec
    <3>1. /\ DOMAIN index' = DOMAIN index
          /\ \A i \in DOMAIN index : index'[i] = index[i]
                                     \/ index'[i] = [index[i] EXCEPT !.consumed = TRUE]
      BY <2>2 DEF Mark
    <3>2. IndexShape => \A i \in DOMAIN index :
            /\ index'[i].rec = index[i].rec
            /\ index'[i] = [rec |-> index'[i].rec, consumed |-> index'[i].consumed]
      BY <3>1 DEF IndexShape
    <3> QED BY <3>1, <3>2 DEF IndexShape
  <2> QED
    BY <2>1, <2>2 DEF StoreUndo, Retire, Suspend, Withdraw, Load, Reclaim, RevertEffect
<1>6. IdsInv'
  BY <1>1, <1>2, <1>4, IdsKept
<1>7. CallInv'
  BY <1>1, RestingCall
<1> QED BY <1>1, <1>4, <1>5, <1>6, <1>7

(* A step that only removes records keeps a key acting once.                 *)
LEMMA UndoKeyed ==
    ASSUME IdsInv, CallInv, KeyedInv, StoreUndo
    PROVE  KeyedInv'
<1>1. CASE UNCHANGED owner
  <2>1. GoesOn
    BY UndoStore DEF GoesOn, Unchanged
  <2> QED
    BY <1>1, <2>1, UndoStore, KeyedKept DEF KeyedInv
<1>2. CASE call = Idle
  <2>0. /\ UNCHANGED <<call, up, applied, excuse, minted>>
        /\ DOMAIN spill' \subseteq DOMAIN spill /\ \A i \in DOMAIN spill' : spill'[i] = spill[i]
        /\ IndexShape' /\ \A i \in DOMAIN index : i \in DOMAIN index' /\ index'[i].rec = index[i].rec
    BY UndoStore DEF KeyedInv
  <2>1. Unanswered' /\ OwnRecord' /\ NotYet'
    BY <2>0, <1>2 DEF Unanswered, OwnRecord, NotYet, Idle, Unchanged
  <2>2. "unsynced" \notin excuse' => KeyedOnce' /\ Indexed'
    BY <2>0 DEF KeyedInv, KeyedOnce, Indexed
  <2> QED BY <2>0, <2>1, <2>2 DEF KeyedInv
<1> QED BY <1>1, <1>2, UndoStore

(* The steps of a crossing that leave the store's records alone.             *)
LEMMA QuietIds ==
    ASSUME IdsInv, UNCHANGED <<up, epoch, next, minted, spill>>, excuse \subseteq excuse',
           UNCHANGED faults \/ Refused
    PROVE  IdsInv'
<1>1. faults' \in Nat /\ faults' <= faults
  BY RefusedLess DEF IdsInv, IdsType
<1> QED BY <1>1, IdsKept

(* A call that cannot make its change gives its record back.                 *)
LEMMA ReleaseNamed ==
    ASSUME IdsInv, CallInv, Release
    PROVE  /\ IdsInv' /\ CallInv' /\ (KeyedInv => KeyedInv')
           /\ DOMAIN spill' \subseteq DOMAIN spill /\ \A i \in DOMAIN spill' : spill'[i] = spill[i]
<1>0. /\ call.pc = "release" /\ call' = Idle /\ index' = Without(index, call.id)
      /\ UNCHANGED <<up, epoch, next, owner, minted, applied, excuse>>
      /\ UNCHANGED faults \/ Refused
      /\ UNCHANGED spill \/ spill' = Without(spill, call.id)
  BY DEF Release, Calling
<1>1. DOMAIN spill' \subseteq DOMAIN spill /\ \A i \in DOMAIN spill' : spill'[i] = spill[i]
  BY <1>0 DEF Without
<1>2. faults' \in Nat /\ faults' <= faults
  BY <1>0, RefusedLess DEF IdsInv, IdsType
<1>3. IdsInv'
  BY <1>0, <1>1, <1>2, IdsKept
<1>4. CallInv' /\ GoesOn
  BY <1>0, IdleCall
<1>5. ASSUME KeyedInv PROVE KeyedInv'
  <2>1. IndexShape' /\ \A i \in DOMAIN index \ {call.id} : i \in DOMAIN index' /\ index'[i] = index[i]
    BY <1>0, <1>5 DEF KeyedInv, IndexShape, Without
  <2>2. "unsynced" \notin excuse' => call.id \notin applied
    BY <1>0, <1>5 DEF KeyedInv, NotYet
  <2>3. call'.pc \notin {"mutate", "rename"}
    BY <1>0 DEF Idle
  <2> QED BY <1>0, <1>1, <1>4, <1>5, <2>1, <2>2, <2>3, KeyedKept
<1> QED BY <1>1, <1>3, <1>4, <1>5

(* A retention leaves a crossing with a record of its own.                   *)
LEMMA RetainCall ==
    ASSUME CallInv, IdsInv, Retain
    PROVE  CallInv'
<1>1. CASE call' = Idle
  BY <1>1, IdleCall
<1>2. CASE call' = [call EXCEPT !.pc = "mutate", !.id = next]
  BY <1>2 DEF CallInv, CallShape, CallBound, Retain, Calling
<1> QED BY <1>1, <1>2 DEF Retain

(* Every step of the file system provider.                                   *)
LEMMA FsNamed ==
    ASSUME IdsInv, CallInv, KeyedInv, FsNext \/ FsOperatorNext
    PROVE  IdsInv' /\ CallInv' /\ KeyedInv'
<1>1. CASE FsOpen
  <2>1. OpenStore
    BY <1>1 DEF FsOpen
  <2>2. CallInv'
    BY <2>1, RestingCall DEF OpenStore, CallInv, CallBound
  <2> QED BY <2>1, <2>2, OpenIds, OpenKeyed
<1>2. CASE FsCrash
  <2>1. Crash
    BY <1>2 DEF FsCrash
  <2>2. ~up' /\ UNCHANGED <<epoch, next, minted, spill, excuse, faults>> /\ call' = Idle
    BY <2>1 DEF Crash
  <2>3. IdsInv'
    BY <2>2 DEF IdsInv, IdsType, IdsApart, Base
  <2> QED BY <2>1, <2>2, <2>3, IdleCall, CrashKeyed
<1>3. CASE StoreUndo
  BY <1>3, UndoStore, UndoKeyed
<1>4. CASE FsCancel \/ (\E key \in Keys : FsReplay(key)) \/ FsRow
  <2>1. call' = Idle /\ UNCHANGED <<up, epoch, next, minted, spill, excuse, faults, owner, applied, index>>
    BY <1>4 DEF FsCancel, Cancel, FsReplay, FsRow, Answer
  <2> QED BY <2>1, IdleCall, QuietIds, KeyedFrame
<1>5. ASSUME NEW op, NEW path, NEW key, NEW t, FsCall(op, path, key, t)
      PROVE  IdsInv' /\ CallInv' /\ KeyedInv'
  <2>1. IdsInv'
    BY <1>5, QuietIds DEF FsCall
  <2>2. CallInv'
    BY <1>5 DEF FsCall, Serving, MayRetain, CallInv, CallShape, CallBound
  <2> QED BY <1>5, <2>1, <2>2, CallKeyed
<1>6. CASE FsPrior
  <2>1. /\ UNCHANGED <<up, epoch, next, minted, spill, owner, applied, index>>
        /\ excuse \subseteq excuse'
        /\ UNCHANGED faults \/ Refused
        /\ up /\ call.pc = "prior"
    BY <1>6 DEF FsPrior, Calling
  <2>2. CASE call' = Idle
    BY <2>1, <2>2, IdleCall, QuietIds, KeyedFrame
  <2>3. ASSUME NEW x, call' = [call EXCEPT !.pc = "retain", !.prior = x]
        PROVE  IdsInv' /\ CallInv' /\ KeyedInv'
    <3>1. CallInv' /\ call'.pc = "retain" /\ call'.key = call.key
      BY <2>1, <2>3 DEF CallInv, CallShape, CallBound
    <3>2. GoesOn
      BY <2>1, <3>1 DEF GoesOn, Unchanged
    <3> QED BY <2>1, <3>1, <3>2, QuietIds, KeyedFrame
  <2> QED BY <1>6, <2>2, <2>3 DEF FsPrior
<1>7. CASE FsRetain
  BY <1>7, RetainIds, RetainKeyed, RetainCall DEF FsRetain
<1>8. CASE FsRelease
  BY <1>8, ReleaseNamed DEF FsRelease
<1>9. CASE FsStage \/ FsSync
  <2>1. /\ UNCHANGED <<up, epoch, next, minted, spill, owner, applied, index>>
        /\ up /\ excuse \subseteq excuse'
        /\ UNCHANGED faults \/ Refused
    BY <1>9 DEF FsStage, FsSync, Calling
  <2>2. IdsInv'
    BY <2>1, QuietIds
  <2>3. PICK p \in {"rename", "release", "row"} : call' = [call EXCEPT !.pc = p]
    BY <1>9 DEF FsStage, FsSync, Step
  <2>4. CallInv' /\ call'.pc = p /\ call'.id = call.id /\ call'.key = call.key
    BY <1>9, <2>1, <2>3, StepCall DEF FsStage, FsSync, Calling
  <2>5. CASE FsStage
    <3>1. GoesOn
      BY <2>3, <2>4, <2>5 DEF GoesOn, FsStage, Calling, Unchanged, Step
    <3> QED BY <2>1, <2>2, <2>4, <3>1, KeyedFrame
  <2>6. CASE FsSync /\ call' = [call EXCEPT !.pc = "row"]
    <3>1. call'.pc = "row"
      BY <2>6 DEF CallInv, CallShape
    <3>2. GoesOn
      BY <3>1 DEF GoesOn, Unchanged
    <3> QED BY <2>1, <2>2, <2>4, <3>2, KeyedFrame
  <2>7. CASE "unsynced" \in excuse'
    BY <2>1, <2>2, <2>4, <2>7 DEF KeyedInv, IndexShape
  <2> QED BY <1>9, <2>5, <2>6, <2>7 DEF FsSync, Step
<1>10. CASE FsRename \/ FsRemove
  <2>1. /\ UNCHANGED <<up, epoch, next, minted, spill, owner, excuse, index>>
        /\ UNCHANGED faults \/ Refused
        /\ up /\ call.pc \in {"mutate", "rename"}
    BY <1>10 DEF FsRename, FsRemove, Calling
  <2>2. IdsInv'
    BY <2>1, QuietIds
  <2>3. \/ applied' = applied \cup {call.id} /\ call' \in {[call EXCEPT !.pc = "sync"], [call EXCEPT !.pc = "row"]}
        \/ UNCHANGED applied /\ call' = [call EXCEPT !.pc = "release"]
    BY <1>10 DEF FsRename, FsRemove, Step
  <2>4. PICK p \in {"sync", "release", "row"} : call' = [call EXCEPT !.pc = p]
    BY <2>3
  <2>5. CallInv' /\ call'.pc = p /\ call'.id = call.id /\ call'.key = call.key
    BY <2>1, <2>4, StepCall
  <2>6. CASE UNCHANGED applied
    <3>1. GoesOn
      BY <2>1, <2>5 DEF GoesOn, Unchanged
    <3> QED BY <2>1, <2>2, <2>5, <2>6, <3>1, KeyedFrame
  <2>7. CASE applied' = applied \cup {call.id} /\ call' \in {[call EXCEPT !.pc = "sync"], [call EXCEPT !.pc = "row"]}
    <3>1. call'.pc \in {"sync", "row"}
      BY <2>7 DEF CallInv, CallShape
    <3> QED BY <2>1, <2>2, <2>5, <2>7, <3>1, AppliedKeyed
  <2> QED BY <2>3, <2>6, <2>7
<1>11. CASE FsAttest \/ \E u \in Undoers : FsApply(u) \/ FsRefill(u)
  <2>1. /\ UNCHANGED <<up, epoch, next, minted, spill, owner, applied, index, call>>
        /\ excuse \subseteq excuse'
        /\ UNCHANGED faults \/ Refused
    BY <1>11 DEF FsAttest, FsApply, FsRefill
  <2> QED BY <2>1, RestingCall, QuietIds, KeyedFrame
<1> QED
  BY <1>1, <1>2, <1>3, <1>4, <1>5, <1>6, <1>7, <1>8, <1>9, <1>10, <1>11
  DEF FsNext, FsOperatorNext, FsGuestNext, FsUndoNext, StoreUndo, FsRetire, FsSuspend,
      FsWithdraw, FsLoad, FsReclaim, FsMark, FsRevert

-----------------------------------------------------------------------------
(* The key store sends no key, so its ids are all there is to say. *)

(* No crossing and no record has a key.                                      *)
Keyless ==
    /\ call.pc # "idle" => call.key = NoKey
    /\ \A i \in DOMAIN spill : spill[i].key = NoKey

(* Without a key nothing acts under one twice.                               *)
LEMMA KeylessOnce == Keyless => KeyedOnce
BY DEF Keyless, KeyedOnce

(* A step that leaves the records alone sends no key either.                 *)
LEMMA KeylessFrame ==
    ASSUME Keyless, UNCHANGED spill, call' = Idle \/ call'.key = NoKey
    PROVE  Keyless'
BY DEF Keyless, Idle

(* Every step of the key store provider.                                     *)
LEMMA KsNamed ==
    ASSUME IdsInv, CallInv, Keyless, KsNext \/ KsOperatorNext
    PROVE  IdsInv' /\ CallInv' /\ Keyless'
<1>1. CASE KsOpen
  <2>1. OpenStore
    BY <1>1 DEF KsOpen
  <2>2. CallInv'
    BY <2>1, RestingCall DEF OpenStore, CallInv, CallBound
  <2> QED BY <2>1, <2>2, OpenIds DEF OpenStore, Keyless
<1>2. CASE KsCrash
  <2>1. ~up' /\ UNCHANGED <<epoch, next, minted, spill, excuse, faults>> /\ call' = Idle
    BY <1>2 DEF KsCrash, Crash
  <2>2. IdsInv'
    BY <2>1 DEF IdsInv, IdsType, IdsApart, Base
  <2> QED BY <2>1, <2>2, IdleCall, KeylessFrame
<1>3. CASE StoreUndo
  BY <1>3, UndoStore DEF Keyless
<1>4. CASE KsCancel \/ KsRow
  <2>1. call' = Idle /\ UNCHANGED <<up, epoch, next, minted, spill, excuse, faults>>
    BY <1>4 DEF KsCancel, Cancel, KsRow, Answer
  <2> QED BY <2>1, IdleCall, QuietIds, KeylessFrame
<1>5. ASSUME NEW n, NEW v, KsCall(n, v)
      PROVE  IdsInv' /\ CallInv' /\ Keyless'
  <2>1. IdsInv'
    BY <1>5, QuietIds DEF KsCall
  <2>2. CallInv'
    BY <1>5 DEF KsCall, Serving, MayRetain, CallInv, CallShape, CallBound
  <2> QED BY <1>5, <2>1, <2>2, KeylessFrame DEF KsCall
<1>6. CASE KsUnlock \/ KsSalt \/ KsPrior
  <2>1. /\ UNCHANGED <<up, epoch, next, minted, spill, excuse, faults>>
        /\ up /\ call.pc \in {"prior", "salt"} /\ call.pc # "idle"
    BY <1>6 DEF KsUnlock, KsSalt, KsPrior, Calling
  <2>2. CASE call' = Idle
    BY <2>1, <2>2, IdleCall, QuietIds, KeylessFrame
  <2>3. CASE UNCHANGED call
    BY <2>1, <2>3, RestingCall, QuietIds DEF Keyless
  <2>4. ASSUME NEW p \in {"salt", "prior"}, call' = [call EXCEPT !.pc = p]
        PROVE  IdsInv' /\ CallInv' /\ Keyless'
    <3>1. CallInv' /\ call'.key = call.key
      BY <2>1, <2>4 DEF CallInv, CallShape, CallBound
    <3> QED BY <2>1, <3>1, QuietIds DEF Keyless
  <2>5. ASSUME NEW x, call' = [call EXCEPT !.pc = "retain", !.prior = x]
        PROVE  IdsInv' /\ CallInv' /\ Keyless'
    <3>1. CallInv' /\ call'.key = call.key
      BY <2>1, <2>5 DEF CallInv, CallShape, CallBound
    <3> QED BY <2>1, <3>1, QuietIds DEF Keyless
  <2> QED BY <1>6, <2>2, <2>3, <2>4, <2>5 DEF KsUnlock, KsSalt, KsPrior, Step
<1>7. CASE KsRetain
  <2>1. Retain /\ call.pc = "retain"
    BY <1>7 DEF KsRetain, Retain, Calling
  <2>2. /\ UNCHANGED spill \/ spill' = With(spill, next, Header)
        /\ call' = Idle \/ call' = [call EXCEPT !.pc = "mutate", !.id = next]
    BY <2>1 DEF Retain
  <2>3. Header.key = NoKey /\ (call' = Idle \/ call'.key = NoKey)
    BY <2>1, <2>2 DEF Header, Keyless, CallInv, CallShape
  <2>4. Keyless'
    BY <2>2, <2>3 DEF Keyless, With, Idle
  <2> QED BY <2>1, <2>4, RetainIds, RetainCall
<1>8. CASE KsRelease
  <2>1. Release /\ call' = Idle
    BY <1>8 DEF KsRelease, Release
  <2> QED BY <2>1, ReleaseNamed DEF Keyless, Idle
<1>9. CASE KsSet \/ KsCommit
  <2>1. /\ UNCHANGED <<up, epoch, next, minted, spill>> /\ up /\ call.pc # "idle"
        /\ excuse \subseteq excuse'
        /\ UNCHANGED faults \/ Refused
    BY <1>9 DEF KsSet, KsCommit, Calling
  <2>2. PICK p \in {"commit", "row", "release"} : call' = [call EXCEPT !.pc = p]
    BY <1>9 DEF KsSet, KsCommit, Step
  <2>3. CallInv' /\ call'.key = call.key
    BY <2>1, <2>2, StepCall
  <2> QED BY <2>1, <2>3, QuietIds DEF Keyless
<1>10. CASE KsOpenRefused \/ KsAttest \/ \E u \in Undoers : KsApply(u) \/ KsApplyCommit(u)
  <2>1. /\ UNCHANGED <<up, epoch, next, minted, spill, call>>
        /\ excuse \subseteq excuse'
        /\ UNCHANGED faults \/ Refused
    BY <1>10 DEF KsOpenRefused, KsAttest, KsApply, KsApplyCommit
  <2> QED BY <2>1, RestingCall, QuietIds DEF Keyless
<1> QED
  BY <1>1, <1>2, <1>3, <1>4, <1>5, <1>6, <1>7, <1>8, <1>9, <1>10
  DEF KsNext, KsOperatorNext, StoreUndo, KsRetire, KsSuspend, KsWithdraw, KsLoad, KsReclaim,
      KsMark, KsRevert

-----------------------------------------------------------------------------
(* The inductive invariant of EffectsAreNamed.                               *)
NamedInv ==
    /\ CallsInv /\ IdsInv /\ CallInv
    /\ part.of # "keystore" => KeyedInv
    /\ part.of = "keystore" => Keyless

(* Over all boots an id names one effect, and a key acts once; the id of an  *)
(* outbound call whose row storage takes names one call, and a unit that     *)
(* names an answered one is refused as irreversible unless storage refused   *)
(* the row (HostFs::open, HostFs::recorded, HostNet::seed_effects,           *)
(* Daemon::revert_unit): for every number of boots, refusals, effects,       *)
(* guests and ids.                                                           *)
THEOREM NamesAreForEver == Spec => []EffectsAreNamed
<1>1. Init => NamedInv
  <2>1. SUFFICES ASSUME Init PROVE NamedInv
    OBVIOUS
  <2>2. RetentionInit /\ CallsInit
    BY <2>1 DEF Init, FsInit
  <2>3. call = Idle /\ spill = <<>> /\ index = <<>> /\ minted = <<>> /\ applied = {} /\ ~up
    BY <2>2 DEF RetentionInit
  <2>4. CallInv
    BY <2>3 DEF CallInv, CallShape, CallBound, Idle
  <2>5. IdsInv
    <3>1. IdsType
      BY <2>2, RetentionAssumption DEF RetentionInit, IdsType
    <3>2. IdsApart
      BY <2>3 DEF IdsApart, IsInjective
    <3> QED BY <3>1, <3>2 DEF IdsInv
  <2>6. KeyedInv
    BY <2>3 DEF KeyedInv, IndexShape, KeyedOnce, Indexed, Unanswered, OwnRecord, NotYet, Idle,
                Unchanged
  <2>7. Keyless
    BY <2>3 DEF Keyless, Idle
  <2> QED BY <2>2, <2>4, <2>5, <2>6, <2>7, CallsStart DEF NamedInv
<1>2. NamedInv /\ [Next]_<<part, svars, gvars, rvars, fsvars, ksvars, cvars>> => NamedInv'
  <2>1. SUFFICES ASSUME NamedInv, [Next]_<<part, svars, gvars, rvars, fsvars, ksvars, cvars>>
                 PROVE  NamedInv'
    OBVIOUS
  <2>2. ASSUME UNCHANGED cvars PROVE CallsInv'
    BY <2>1, <2>2 DEF NamedInv, cvars, CallsInv, CallsType, Minted, Apart, Told, Asked,
       EffectNamesOneCall, SentIsIrreversible, Standing
  <2>3. ASSUME UNCHANGED rvars
        PROVE  IdsInv' /\ CallInv' /\ (KeyedInv => KeyedInv') /\ (Keyless => Keyless')
    BY <2>1, <2>3 DEF NamedInv, rvars, IdsInv, IdsType, IdsApart, Base, CallInv, CallShape,
       CallBound, KeyedInv, IndexShape, KeyedOnce, Indexed, Unanswered, OwnRecord, NotYet, Keyless
  <2>4. UNCHANGED part
    BY <2>1 DEF Next
  <2>5. CASE CallsNext /\ UNCHANGED rvars
    BY <2>1, <2>3, <2>4, <2>5, CallsStep DEF NamedInv
  <2>6. CASE part.of = "fs" /\ (FsNext \/ FsOperatorNext) /\ UNCHANGED cvars
    BY <2>1, <2>2, <2>4, <2>6, FsNamed DEF NamedInv
  <2>7. CASE part.of = "keystore" /\ (KsNext \/ KsOperatorNext) /\ UNCHANGED cvars
    BY <2>1, <2>2, <2>4, <2>7, KsNamed DEF NamedInv
  <2>8. CASE UNCHANGED <<rvars, cvars>>
    BY <2>1, <2>2, <2>3, <2>4, <2>8 DEF NamedInv
  <2> QED BY <2>1, <2>5, <2>6, <2>7, <2>8 DEF Next
<1>3. NamedInv => EffectsAreNamed
  BY KeylessOnce, RetentionAssumption DEF NamedInv, EffectsAreNamed, IdsInv, IdsApart, UniqueIds,
     KeyedInv, CallsInv, KeyedOnce
<1> QED BY <1>1, <1>2, <1>3, PTL DEF Spec

-----------------------------------------------------------------------------
(* Seats and batches: what a step finds. *)

(* What a seat, an instance, an entry and a batch are made of.               *)
Regs == [kind : Kind, entry : Entry, by : Inst \union {Nobody}, n : Nat]
Artifacts == {"old", "new"}
Made == [state : {"alive", "dead"}, artifact : Artifacts, seated : BOOLEAN, staging : BOOLEAN,
         flip : BOOLEAN, busy : {"activate", "entry", "idle"}, recorded : Seq(Regs), made : Nat]
SeatRec == [at : Inst \union {Nobody}, journal : Seq(Regs), closing : BOOLEAN, sealed : BOOLEAN,
            ever : BOOLEAN]
Outcomes == [entry : Entry, inst : Inst, outcome : Seq(Regs)]
RowIds == Entry \X Nat
Lives ==
    [at : {"none", "down", "failed", "journal", "gone"}]
    \union [at : {"activating"}, inst : Inst]
    \union [at : {"landing"}, ok : BOOLEAN, commit : BOOLEAN, c : Outcomes]
    \union [at : {"up"}, ok : BOOLEAN]
    \union [at : {"draining"}, how : {"suspend", "dispose", "fail"}]
Displacement == [entry : Entry, inst : Inst, journal : SUBSET Regs]
Batches ==
    [at : {"idle", "begin", "prepare", "activate", "retire", "rollback"}, todo : Seq(RowIds),
     begun : SUBSET RowIds, staged : SUBSET Outcomes, displaced : Seq(Displacement),
     hit : SUBSET RowIds]

(* The types of all of it.                                                   *)
SeatType ==
    /\ inst \in [Inst -> {NoInstance} \union Made]
    /\ slot \in [Entry -> SeatRec]
    /\ phase \in [Entry -> Seq({"Steady", "Preparing", "Tombstone"})]
    /\ life \in [Entry -> Lives]
    /\ routed \subseteq Regs /\ inherited \in [Entry -> SUBSET Regs]
    /\ pinned \in Artifacts
    /\ batch \in Batches

(* The instances of an entry are made in the order of their numbers.         *)
InOrderMade ==
    \A e \in Entry : \E k \in 0..MaxInst : \A n \in 1..MaxInst : inst[<<e, n>>] # NoInstance <=> n <= k

(* Whose instance is where.                                                  *)
OwnInstance(e, i) == i \in Inst /\ i[1] = e /\ inst[i] # NoInstance
Whereabouts ==
    \A e \in Entry :
        /\ slot[e].at # Nobody => OwnInstance(e, slot[e].at)
        /\ life[e].at = "activating" => OwnInstance(e, life[e].inst)
        /\ life[e].at = "landing" => life[e].c.entry = e /\ OwnInstance(e, life[e].c.inst)
        /\ slot[e].at # Nobody <=> life[e].at \in {"up", "draining"}
        /\ slot[e].at = Nobody => slot[e].journal = <<>>

(* A seat that is rostered has a slot id.                                    *)
Numbered == \A e \in Entry : Rostered(e) => Len(phase[e]) > 0

(* A slot id that was not tombstoned is the entry's last, and its seat is    *)
(* not being closed.                                                         *)
LastStanding ==
    \A e \in Entry : \A n \in 1..Len(phase[e]) :
        phase[e][n] # "Tombstone" => n = Len(phase[e]) /\ life[e].at \in {"activating", "landing", "up"}

(* The batch: what is begun is staged but for the row at hand.               *)
Running == batch.at \in {"begin", "prepare", "activate"}
Pending == ToSet(batch.todo)
BatchRows ==
    /\ \A a, b \in batch.hit : a[1] = b[1] => a = b
    /\ \A x \in batch.hit : x[2] \in 1..Len(phase[x[1]])
    /\ batch.begun \subseteq batch.hit
    /\ Running => /\ batch.begun \union Pending = batch.hit
                  /\ \A m, n \in 1..Len(batch.todo) : batch.todo[m] = batch.todo[n] => m = n
    /\ batch.at = "begin" => batch.begun \cap Pending = {}
    /\ batch.at \in {"prepare", "activate"} =>
          batch.todo # <<>> /\ batch.begun \cap Pending = {Head(batch.todo)}
(* What is staged is of the new artifact, one for each row that is prepared. *)
BatchStaged ==
    /\ batch.at \in {"idle", "retire"} => batch.staged = {}
    /\ IsFiniteSet(batch.staged)
    /\ \A c, d \in batch.staged : c.entry = d.entry => c = d
    /\ \A c \in batch.staged : OwnInstance(c.entry, c.inst) /\ inst[c.inst].artifact = "new"
    /\ \A d \in ToSet(batch.displaced) : OwnInstance(d.entry, d.inst)
    /\ \A c \in batch.staged : \E b \in batch.begun : b[1] = c.entry
    /\ batch.at \in {"begin", "activate"} => \A b \in batch.begun : \E c \in batch.staged : c.entry = b[1]
    /\ batch.at = "prepare" => \A b \in batch.begun :
          (\E c \in batch.staged : c.entry = b[1]) <=> b # Head(batch.todo)
(* A begun row whose slot id stands has a seat that is up.                   *)
BatchUp ==
    Running => \A c \in batch.staged, b \in batch.begun :
        b[1] = c.entry /\ phase[b[1]][b[2]] = "Preparing" => life[b[1]].at = "up"

(* Before the claim every seat runs the old artifact, after it every seat    *)
(* the batch was about the new one.                                          *)
Claimed == batch.at = "retire" \/ pinned = "new"
(* Before the claim: no seat runs the new artifact.                          *)
AllOld ==
    \A e \in Entry :
        /\ slot[e].at # Nobody => inst[slot[e].at].artifact = "old"
        /\ life[e].at = "activating" => inst[life[e].inst].artifact = "old"
        /\ life[e].at = "landing" => inst[life[e].c.inst].artifact = "old"
(* After it: a seat of the batch that was not replaced runs the new one.     *)
HitNew ==
    \A x \in batch.hit : SlotId(x[1]) = x[2] =>
        /\ life[x[1]].at \notin {"activating", "landing"}
        /\ slot[x[1]].at # Nobody => inst[slot[x[1]].at].artifact = "new"
(* The pin moves once the batch has retired what it displaced.               *)
Wholeness ==
    /\ pinned = "new" => batch.at = "idle"
    /\ ~Claimed => AllOld
    /\ Claimed => HitNew

(* The inductive invariant of SwapIsWhole.                                   *)
SeatInv ==
    /\ SeatType /\ InOrderMade /\ Whereabouts /\ Numbered /\ LastStanding
    /\ BatchRows /\ BatchStaged /\ BatchUp /\ Wholeness

(* Everything in force has somebody to withdraw it, or is a stray.           *)
OwnRegs ==
    /\ \A i \in Inst : inst[i] # NoInstance => \A r \in ToSet(inst[i].recorded) : r.entry = i[1]
    /\ \A e \in Entry : /\ \A r \in Journal(e) : r.entry = e
                        /\ \A r \in inherited[e] : r.entry = e
                        /\ life[e].at = "landing" => \A r \in ToSet(life[e].c.outcome) : r.entry = e
    /\ \A c \in batch.staged : \A r \in ToSet(c.outcome) : r.entry = c.entry
    /\ \A d \in ToSet(batch.displaced) : \A r \in d.journal : r.entry = d.entry
(* Of the world: a host or a kernel socket, in force from the call itself.   *)
World == {"Host", "Kernel"}
\* An instance at work withdraws what it recorded; a staging one, what is of the world.
AtWork(i, r) ==
    /\ Alive(i) /\ inst[i].busy # "idle" /\ r \in ToSet(inst[i].recorded)
    /\ inst[i].staging => r.kind \in World
(* Who withdraws what is in force: a journal, a landing, an instance, a batch.*)
Held(e, r) ==
    \/ r \in stray \/ r \in Journal(e) \/ r \in inherited[e]
    \/ life[e].at = "landing" /\ r \in ToSet(life[e].c.outcome)
    \/ \E i \in Inst : AtWork(i, r)
    \/ r.kind \in World /\ \E c \in batch.staged : r \in ToSet(c.outcome)
(* Of an entry no batch replaced, everything in force is held.               *)
Accounted == \A e \in Entry \ swapped : \A r \in Of(e, routed) : Held(e, r)
(* A staged instance has not been flipped.                                   *)
StillStaging == \A c \in batch.staged : inst[c.inst].staging
(* Gone is without inheritance; what is displaced is of a replaced entry.    *)
Rest ==
    /\ \A e \in Entry \ swapped : life[e].at = "gone" => inherited[e] = {}
    /\ \A d \in ToSet(batch.displaced) : d.entry \in swapped

\* A staged activation that has not settled has no outcome yet.
Blank == batch.at = "activate" => \A c \in batch.staged : c.entry = At[1] => c.outcome = <<>>

(* The inductive invariant of OnlyStraysAreLeft, beside SeatInv.             *)
HeldInv == OwnRegs /\ Accounted /\ StillStaging /\ Rest /\ Blank

(* An instance is an entry and a number.                                     *)
LEMMA InstFacts ==
    /\ \A i \in Inst : i[1] \in Entry /\ i[2] \in 1..MaxInst /\ i = <<i[1], i[2]>> /\ i # Nobody
    /\ \A e \in Entry, n \in 1..MaxInst : <<e, n>> \in Inst
    /\ NoInstance \notin Made
BY DEF Inst, Nobody, NoInstance, Made

(* What an instance is.                                                      *)
LEMMA MadeFields ==
    ASSUME SeatType, NEW i \in Inst, inst[i] # NoInstance
    PROVE  inst[i] \in Made
BY DEF SeatType

(* What a batch holds.                                                       *)
LEMMA BatchFields ==
    ASSUME SeatType
    PROVE  /\ batch \in Batches /\ batch.todo \in Seq(RowIds) /\ batch.begun \in SUBSET RowIds
           /\ batch.hit \in SUBSET RowIds /\ batch.staged \in SUBSET Outcomes
           /\ batch.displaced \in Seq(Displacement)
           /\ \A x \in RowIds : x[1] \in Entry /\ x[2] \in Nat /\ x = <<x[1], x[2]>>
           /\ \A c \in Outcomes : c.entry \in Entry /\ c.inst \in Inst /\ c.outcome \in Seq(Regs)
           /\ \A d \in Displacement : d.entry \in Entry /\ d.inst \in Inst /\ d.journal \in SUBSET Regs
<1>1. batch \in Batches
  BY DEF SeatType
<1>2. /\ batch.todo \in Seq(RowIds) /\ batch.begun \in SUBSET RowIds
      /\ batch.hit \in SUBSET RowIds /\ batch.staged \in SUBSET Outcomes
      /\ batch.displaced \in Seq(Displacement)
  BY <1>1 DEF Batches
<1>3. \A x \in RowIds : x[1] \in Entry /\ x[2] \in Nat /\ x = <<x[1], x[2]>>
  BY DEF RowIds
<1>4. \A c \in Outcomes : c.entry \in Entry /\ c.inst \in Inst /\ c.outcome \in Seq(Regs)
  BY DEF Outcomes
<1>5. \A d \in Displacement : d.entry \in Entry /\ d.inst \in Inst /\ d.journal \in SUBSET Regs
  BY DEF Displacement
<1> QED BY <1>1, <1>2, <1>3, <1>4, <1>5

(* A step that makes no instance and gives none another artifact.            *)
InstKept ==
    /\ inst' \in [Inst -> {NoInstance} \union Made]
    /\ \A i \in Inst : /\ inst[i] # NoInstance <=> inst'[i] # NoInstance
                       /\ inst[i] # NoInstance => inst'[i].artifact = inst[i].artifact

(* One instance changes, and keeps its artifact.                             *)
LEMMA OneMoves ==
    ASSUME SeatType, NEW i \in Inst, inst[i] # NoInstance, NEW v \in Made,
           v.artifact = inst[i].artifact, inst' = [inst EXCEPT ![i] = v]
    PROVE  InstKept
<1>1. inst \in [Inst -> {NoInstance} \union Made] /\ NoInstance \notin Made
  BY InstFacts DEF SeatType
<1>2. inst' \in [Inst -> {NoInstance} \union Made]
  BY <1>1
<1>3. inst'[i] = v /\ \A j \in Inst \ {i} : inst'[j] = inst[j]
  BY <1>1
<1> QED BY <1>1, <1>2, <1>3 DEF InstKept

(* No instance changes.                                                      *)
LEMMA NoneMoves ==
    ASSUME SeatType, UNCHANGED inst
    PROVE  InstKept
BY DEF SeatType, InstKept

(* An instance is stopped.                                                   *)
LEMMA LeaveMoves ==
    ASSUME SeatType, NEW i \in Inst, inst[i] # NoInstance, inst' = Leave(i)
    PROVE  InstKept
<1>1. inst[i] \in Made
  BY MadeFields
<1>2. [inst[i] EXCEPT !.state = "dead"] \in Made
      /\ [inst[i] EXCEPT !.state = "dead"].artifact = inst[i].artifact
  BY <1>1 DEF Made
<1>3. inst' = [inst EXCEPT ![i] = [inst[i] EXCEPT !.state = "dead"]]
  BY DEF Leave
<1> QED BY <1>2, <1>3, OneMoves

(* A step of the instances, and of what is journaled for them.               *)
SlotKept ==
    /\ slot' \in [Entry -> SeatRec]
    /\ \A e \in Entry : /\ slot'[e].at = slot[e].at
                        /\ slot[e].at = Nobody => slot'[e].journal = slot[e].journal

(* The order of the numbers, when none is made.                              *)
LEMMA InOrderKept ==
    ASSUME InOrderMade, InstKept
    PROVE  InOrderMade'
BY InstFacts DEF InOrderMade, InstKept

(* A step of the guests that leaves the seats where they are.                *)
LEMMA GuestFrame ==
    ASSUME SeatInv, InstKept, SlotKept, UNCHANGED <<phase, life, batch, pinned, inherited>>,
           routed' \subseteq Regs
    PROVE  SeatInv'
<1> USE DEF SeatInv
<1>1. SeatType'
  BY DEF SeatType, InstKept, SlotKept
<1>2. InOrderMade'
  BY InOrderKept
<1>3. Whereabouts'
  BY DEF Whereabouts, OwnInstance, InstKept, SlotKept
<1>4. LastStanding' /\ Numbered'
  BY DEF LastStanding, Numbered, Rostered
<1>5. BatchRows'
  BY DEF BatchRows, Running, Pending
<1>6. BatchStaged'
  BY DEF BatchStaged, OwnInstance, InstKept
<1>7. BatchUp'
  BY DEF BatchUp, Running
<1>8. Wholeness'
  <2>1. AllOld => AllOld'
    BY DEF AllOld, InstKept, SlotKept, Whereabouts, OwnInstance
  <2>2. HitNew => HitNew'
    <3>1. \A x \in batch.hit : x[1] \in Entry
      BY BatchFields
    <3> QED
      BY <3>1 DEF HitNew, InstKept, SlotKept, Whereabouts, OwnInstance, SlotId
  <2> QED BY <2>1, <2>2 DEF Wholeness, Claimed
<1> QED BY <1>1, <1>2, <1>3, <1>4, <1>5, <1>6, <1>7, <1>8

-----------------------------------------------------------------------------
(* The instances' steps. *)

(* What is alive was made.                                                   *)
LEMMA AliveMade ==
    ASSUME SeatType, NEW i \in Inst, Alive(i)
    PROVE  inst[i] \in Made /\ inst[i] # NoInstance
BY InstFacts DEF SeatType, Alive, NoInstance

(* What a registration is.                                                   *)
LEMMA RegFacts ==
    /\ \A k \in Kind, i \in Inst, n \in Nat : Reg(k, i, n) \in Regs /\ Reg(k, i, n).entry = i[1]
                                              /\ Reg(k, i, n).kind = k
    /\ \A e \in Entry : ProvisionOf(e) \in Regs /\ ProvisionOf(e).entry = e
                        /\ ProvisionOf(e).kind = "Provision"
    /\ \A r \in Regs : r.kind \in Kind /\ r.entry \in Entry
<1>1. \A i \in Inst : i[1] \in Entry
  BY InstFacts
<1> QED BY <1>1 DEF Reg, ProvisionOf, Regs, Kind

(* A late handler hands over what it registered.                             *)
LEMMA CommitLateMoves ==
    ASSUME SeatType, NEW i \in Inst, inst[i] # NoInstance,
           NEW v \in Made, v.artifact = inst[i].artifact, v.recorded = inst[i].recorded,
           CommitLate(i, v)
    PROVE  InstKept /\ SlotKept /\ routed' \subseteq Regs
<1> DEFINE e == i[1]
           late == inst[i].recorded
           handed == late # <<>> /\ ~inst[i].staging
           lands == handed /\ inst[i].seated /\ slot[e].at # Nobody
           w == [v EXCEPT !.recorded = IF lands THEN <<>> ELSE @]
<1>0. e \in Entry /\ inst[i] \in Made /\ late \in Seq(Regs)
  BY MadeFields, InstFacts DEF Made
<1>1. w \in Made /\ w.artifact = v.artifact
  <2>1. \A q \in Seq(Regs) : [v EXCEPT !.recorded = q] \in Made
                             /\ [v EXCEPT !.recorded = q].artifact = v.artifact
    BY DEF Made
  <2>2. (IF lands THEN <<>> ELSE v.recorded) \in Seq(Regs)
    BY <1>0
  <2> QED BY <2>1, <2>2
<1>2. inst' = [inst EXCEPT ![i] = w]
  BY DEF CommitLate
<1>3. InstKept
  <2> HIDE DEF w
  <2> QED BY <1>1, <1>2, OneMoves
<1>4. slot' = slot \/ (slot[e].at # Nobody /\ slot' = [slot EXCEPT ![e].journal = @ \o late])
  BY DEF CommitLate
<1>5. slot[e] \in SeatRec /\ slot[e].journal \in Seq(Regs) /\ slot[e].journal \o late \in Seq(Regs)
  <2>1. slot[e] \in SeatRec
    BY <1>0 DEF SeatType
  <2>2. slot[e].journal \in Seq(Regs)
    BY <2>1 DEF SeatRec
  <2> QED BY <1>0, <2>1, <2>2
<1>6. SlotKept
  <2> HIDE DEF late, e
  <2>1. slot \in [Entry -> SeatRec]
    BY DEF SeatType
  <2>2. CASE slot' = slot
    BY <2>1, <2>2 DEF SlotKept
  <2>3. CASE slot[e].at # Nobody /\ slot' = [slot EXCEPT ![e].journal = @ \o late]
    <3>1. [slot[e] EXCEPT !.journal = slot[e].journal \o late] \in SeatRec
          /\ [slot[e] EXCEPT !.journal = slot[e].journal \o late].at = slot[e].at
      BY <1>5 DEF SeatRec
    <3>2. slot' = [slot EXCEPT ![e] = [slot[e] EXCEPT !.journal = slot[e].journal \o late]]
      BY <2>3
    <3> HIDE <2>3
    <3> QED BY <2>1, <2>3, <3>1, <3>2, <1>0 DEF SlotKept
  <2> QED BY <1>4, <2>2, <2>3
<1>7. routed' \subseteq Regs
  <2>1. ToSet(late) \subseteq Regs
    BY <1>0 DEF ToSet
  <2>2. routed' \subseteq routed \union ToSet(late)
    BY DEF CommitLate, OfKind
  <2> QED BY <2>1, <2>2 DEF SeatType
<1> QED BY <1>3, <1>6, <1>7

(* Every step of a guest keeps SeatInv.                                      *)
LEMMA GuestSteps ==
    ASSUME SeatInv, NEW i \in Inst, Guest(i)
    PROVE  SeatInv'
<1> USE DEF SeatInv
<1>a. Alive(i) => inst[i] \in Made /\ inst[i] # NoInstance
  BY AliveMade
<1>b. UNCHANGED slot => SlotKept
  BY DEF SlotKept, SeatType
<1>c. routed \subseteq Regs
  BY DEF SeatType
<1>1. CASE StartEntry(i)
  <2>1. Alive(i) /\ UNCHANGED <<slot, routed, phase, life, inherited, pinned, batch>>
    BY <1>1 DEF StartEntry, InstIdle, seatVars
  <2>2. inst' = [inst EXCEPT ![i] = [inst[i] EXCEPT !.busy = "entry"]]
    BY <1>1 DEF StartEntry
  <2>3. [inst[i] EXCEPT !.busy = "entry"] \in Made
        /\ [inst[i] EXCEPT !.busy = "entry"].artifact = inst[i].artifact
    BY <1>a, <2>1 DEF Made
  <2>4. InstKept
    BY <1>a, <2>1, <2>2, <2>3, OneMoves
  <2> QED BY <1>b, <1>c, <2>1, <2>4, GuestFrame
<1>2. CASE EndEntry(i)
  <2>1. Alive(i) /\ UNCHANGED <<phase, life, inherited, pinned, batch>>
        /\ CommitLate(i, [inst[i] EXCEPT !.busy = "idle"])
    BY <1>2 DEF EndEntry, seatVars
  <2>2. [inst[i] EXCEPT !.busy = "idle"] \in Made
        /\ [inst[i] EXCEPT !.busy = "idle"].artifact = inst[i].artifact
        /\ [inst[i] EXCEPT !.busy = "idle"].recorded = inst[i].recorded
    BY <1>a, <2>1 DEF Made
  <2> QED BY <1>a, <2>1, <2>2, CommitLateMoves, GuestFrame
<1>3. CASE Die(i)
  <2>1. Alive(i) /\ UNCHANGED <<phase, life, inherited, pinned, batch>>
        /\ CommitLate(i, [inst[i] EXCEPT !.state = "dead", !.busy = "idle"])
    BY <1>3 DEF Die, seatVars
  <2>2. [inst[i] EXCEPT !.state = "dead", !.busy = "idle"] \in Made
        /\ [inst[i] EXCEPT !.state = "dead", !.busy = "idle"].artifact = inst[i].artifact
        /\ [inst[i] EXCEPT !.state = "dead", !.busy = "idle"].recorded = inst[i].recorded
    BY <1>a, <2>1 DEF Made
  <2> QED BY <1>a, <2>1, <2>2, CommitLateMoves, GuestFrame
<1>4. CASE Flip(i)
  <2>1. Alive(i) /\ UNCHANGED <<phase, life, inherited, pinned, batch>>
        /\ CommitLate(i, [inst[i] EXCEPT !.flip = FALSE])
    BY <1>4 DEF Flip, seatVars
  <2>2. [inst[i] EXCEPT !.flip = FALSE] \in Made
        /\ [inst[i] EXCEPT !.flip = FALSE].artifact = inst[i].artifact
        /\ [inst[i] EXCEPT !.flip = FALSE].recorded = inst[i].recorded
    BY <1>a, <2>1 DEF Made
  <2> QED BY <1>a, <2>1, <2>2, CommitLateMoves, GuestFrame
<1>5. ASSUME NEW k \in Kind, Register(i, k) PROVE SeatInv'
  <2> DEFINE r == IF k = "Provision" THEN ProvisionOf(i[1]) ELSE Reg(k, i, inst[i].made + 1)
             v == [inst[i] EXCEPT !.recorded = Append(@, r), !.made = @ + 1]
  <2>1. Alive(i) /\ UNCHANGED <<slot, phase, life, inherited, pinned, batch>>
    BY <1>5 DEF Register, seatVars
  <2>2. inst' = [inst EXCEPT ![i] = v] /\ routed' = routed \union InForce(i, r)
    BY <1>5 DEF Register
  <2>3. inst[i].made \in Nat /\ inst[i].recorded \in Seq(Regs)
    BY <1>a, <2>1 DEF Made
  <2>4. r \in Regs
    BY <2>3, RegFacts, InstFacts
  <2>5. v \in Made /\ v.artifact = inst[i].artifact
    <3> HIDE DEF r
    <3>1. Append(inst[i].recorded, r) \in Seq(Regs) /\ inst[i].made + 1 \in Nat
      BY <2>3, <2>4
    <3> QED BY <1>a, <2>1, <3>1 DEF Made
  <2>6. InstKept
    <3> HIDE DEF v
    <3> QED BY <1>a, <2>1, <2>2, <2>5, OneMoves
  <2>7. routed' \subseteq Regs
    <3> HIDE DEF r
    <3> QED BY <1>c, <2>2, <2>4 DEF InForce
  <2> QED BY <1>b, <2>1, <2>6, <2>7, GuestFrame
<1>6. ASSUME NEW r \in routed, Replay(i, r) PROVE SeatInv'
  <2> DEFINE v == [inst[i] EXCEPT !.recorded = Append(@, r)]
  <2>1. Alive(i) /\ UNCHANGED <<slot, routed, phase, life, inherited, pinned, batch>>
    BY <1>6 DEF Replay, seatVars
  <2>2. inst' = [inst EXCEPT ![i] = v]
    BY <1>6 DEF Replay
  <2>3. inst[i].recorded \in Seq(Regs) /\ r \in Regs
    BY <1>a, <1>c, <2>1 DEF Made
  <2>4. v \in Made /\ v.artifact = inst[i].artifact
    <3>1. Append(inst[i].recorded, r) \in Seq(Regs)
      BY <2>3
    <3> QED BY <1>a, <2>1, <3>1 DEF Made
  <2>5. InstKept
    <3> HIDE DEF v
    <3> QED BY <1>a, <2>1, <2>2, <2>4, OneMoves
  <2> QED BY <1>b, <1>c, <2>1, <2>5, GuestFrame
<1> QED BY <1>1, <1>2, <1>3, <1>4, <1>5, <1>6 DEF Guest

-----------------------------------------------------------------------------
(* The engine's steps. *)

(* What the life of an entry says in each of its states.                     *)
LEMMA LifeFields ==
    ASSUME SeatType, NEW e \in Entry
    PROVE  /\ slot[e] \in SeatRec /\ slot[e].at \in Inst \union {Nobody} /\ slot[e].journal \in Seq(Regs)
           /\ life[e] \in Lives
           /\ life[e].at = "activating" => life[e].inst \in Inst
           /\ life[e].at = "landing" => life[e].c \in Outcomes /\ life[e].ok \in BOOLEAN
                                        /\ life[e].commit \in BOOLEAN
           /\ life[e].at = "up" => life[e].ok \in BOOLEAN
           /\ phase[e] \in Seq({"Steady", "Preparing", "Tombstone"}) /\ Len(phase[e]) \in Nat
<1>1. slot[e] \in SeatRec /\ life[e] \in Lives /\ phase[e] \in Seq({"Steady", "Preparing", "Tombstone"})
  BY DEF SeatType
<1>2. slot[e].at \in Inst \union {Nobody} /\ slot[e].journal \in Seq(Regs)
  BY <1>1 DEF SeatRec
<1>3. /\ life[e].at = "activating" => life[e].inst \in Inst
      /\ life[e].at = "landing" => life[e].c \in Outcomes /\ life[e].ok \in BOOLEAN
                                   /\ life[e].commit \in BOOLEAN
      /\ life[e].at = "up" => life[e].ok \in BOOLEAN
  BY <1>1 DEF Lives
<1> QED BY <1>1, <1>2, <1>3

(* The number of the next instance: as many as there are, and one.           *)
LEMMA FreshIsNew ==
    ASSUME SeatInv, NEW e \in Entry, Fresh(e) \in Inst
    PROVE  /\ Fresh(e)[1] = e /\ inst[Fresh(e)] = NoInstance
           /\ \A v \in Made : inst' = [inst EXCEPT ![Fresh(e)] = v] => InOrderMade'
<1>1. PICK k \in 0..MaxInst : \A n \in 1..MaxInst : inst[<<e, n>>] # NoInstance <=> n <= k
  BY DEF SeatInv, InOrderMade
<1> DEFINE S == {i \in Inst : i[1] = e /\ inst[i] # NoInstance}
           f == [n \in 1..k |-> <<e, n>>]
<1>2. k \in Nat /\ MaxInst \in Nat /\ \A n \in 1..k : n \in 1..MaxInst
  BY SeatConstants
<1>3. f \in Bijection(1..k, S)
  <2>1. \A n \in 1..k : <<e, n>> \in S
    BY <1>1, <1>2, InstFacts
  <2>2. \A i \in S : i[2] \in 1..k /\ i = <<e, i[2]>>
    BY <1>1, <1>2, InstFacts
  <2>3. \A m, n \in 1..k : f[m] = f[n] => m = n
    OBVIOUS
  <2>4. \A i \in S : \E n \in 1..k : f[n] = i
    BY <2>2
  <2>5. f \in [1..k -> S]
    BY <2>1
  <2> HIDE DEF f, S
  <2> QED BY <2>3, <2>4, <2>5, Fun_IsBij DEF Bijection
<1>4. Cardinality(S) = k
  <2> HIDE DEF f, S
  <2>1. IsFiniteSet(1..k) /\ Cardinality(1..k) = k
    BY <1>2, FS_Interval
  <2> QED BY <2>1, <1>3, FS_Bijection DEF ExistsBijection
<1>5. Fresh(e) = <<e, 1 + k>>
  BY <1>4 DEF Fresh
<1>6. 1 + k \in 1..MaxInst
  BY <1>5, InstFacts
<1>7. inst[Fresh(e)] = NoInstance
  BY <1>1, <1>2, <1>5, <1>6
<1>8. ASSUME NEW v \in Made, inst' = [inst EXCEPT ![Fresh(e)] = v]
      PROVE  InOrderMade'
  <2>1. inst \in [Inst -> {NoInstance} \union Made] /\ NoInstance \notin Made
    BY InstFacts DEF SeatInv, SeatType
  <2>2. \A n \in 1..MaxInst : inst'[<<e, n>>] # NoInstance <=> n <= k + 1
    BY <1>1, <1>2, <1>5, <1>6, <1>8, <2>1, InstFacts
  <2>3. \A d \in Entry \ {e} : \A n \in 1..MaxInst : inst'[<<d, n>>] = inst[<<d, n>>]
    BY <1>5, <1>8, <2>1, InstFacts
  <2>4. k + 1 \in 0..MaxInst
    BY <1>6
  <2> QED BY <2>2, <2>3, <2>4 DEF SeatInv, InOrderMade
<1> QED BY <1>5, <1>7, <1>8

(* A step about one entry that leaves the batch alone and closes slots at    *)
(* most: what it must see to, for that entry only.                           *)
EntryPlace(e) ==
    /\ slot[e].at # Nobody => OwnInstance(e, slot[e].at)
    /\ life[e].at = "activating" => OwnInstance(e, life[e].inst)
    /\ life[e].at = "landing" => life[e].c.entry = e /\ OwnInstance(e, life[e].c.inst)
    /\ slot[e].at # Nobody <=> life[e].at \in {"up", "draining"}
    /\ slot[e].at = Nobody => slot[e].journal = <<>>
(* An entry that runs the old artifact, and one that is coming up.           *)
EntryOld(e) ==
    /\ slot[e].at # Nobody => inst[slot[e].at].artifact = "old"
    /\ life[e].at = "activating" => inst[life[e].inst].artifact = "old"
    /\ life[e].at = "landing" => inst[life[e].c.inst].artifact = "old"
Starting(e) == life[e].at \in {"activating", "landing"}

(* A step about one entry that leaves the batch alone.                       *)
LEMMA EntryFrame ==
    ASSUME SeatInv, InstKept, NEW e \in Entry, UNCHANGED <<batch, pinned>>,
           slot' \in [Entry -> SeatRec], life' \in [Entry -> Lives],
           phase' \in [Entry -> Seq({"Steady", "Preparing", "Tombstone"})],
           routed' \subseteq Regs, inherited' \in [Entry -> SUBSET Regs],
           \A d \in Entry \ {e} : slot'[d] = slot[d] /\ life'[d] = life[d],
           \A d \in Entry : /\ Len(phase'[d]) = Len(phase[d])
                            /\ \A n \in 1..Len(phase[d]) :
                                  phase'[d][n] # "Tombstone" => phase'[d][n] = phase[d][n],
           EntryPlace(e)',
           (\E n \in 1..Len(phase[e]) : phase'[e][n] # "Tombstone") => life'[e].at \in {"activating", "landing", "up"},
           life[e].at = "up" /\ (\E n \in 1..Len(phase[e]) : phase'[e][n] = "Preparing") => life'[e].at = "up",
           EntryOld(e) => EntryOld(e)',
           Starting(e)' => Starting(e),
           slot'[e].at # Nobody => slot'[e].at = slot[e].at \/ Starting(e)
    PROVE  SeatInv'
<1> USE DEF SeatInv
<1>a. \A x \in batch.hit : x[1] \in Entry /\ x[2] \in Nat
  BY BatchFields
<1>b. \A x \in batch.begun : x \in batch.hit /\ x[2] \in 1..Len(phase[x[1]])
  BY DEF BatchRows
<1>1. SeatType'
  BY DEF SeatType, InstKept
<1>2. InOrderMade'
  BY InOrderKept
<1>3. Whereabouts'
  <2>1. \A d \in Entry \ {e} : EntryPlace(d) => EntryPlace(d)'
    BY DEF EntryPlace, OwnInstance, InstKept
  <2>2. \A d \in Entry : EntryPlace(d)
    BY DEF Whereabouts, EntryPlace
  <2>3. \A d \in Entry : EntryPlace(d)'
    BY <2>1, <2>2
  <2> QED BY <2>3 DEF Whereabouts, EntryPlace
<1>4. LastStanding'
  BY DEF LastStanding
<1>9. Numbered'
  <2>1. Rostered(e)' => Rostered(e)
    BY DEF Rostered, EntryPlace, Starting, Whereabouts
  <2>2. \A d \in Entry \ {e} : Rostered(d)' => Rostered(d)
    BY DEF Rostered
  <2> QED BY <2>1, <2>2 DEF Numbered
<1>5. BatchRows'
  BY <1>a DEF BatchRows, Running, Pending
<1>6. BatchStaged'
  BY DEF BatchStaged, OwnInstance, InstKept
<1>7. BatchUp'
  <2>1. \A b \in batch.begun : phase'[b[1]][b[2]] = "Preparing" => phase[b[1]][b[2]] = "Preparing"
    BY <1>a, <1>b
  <2>2. SUFFICES ASSUME Running, NEW c \in batch.staged, NEW b \in batch.begun, b[1] = c.entry,
                        phase'[b[1]][b[2]] = "Preparing"
                 PROVE  life'[b[1]].at = "up"
    BY DEF BatchUp, Running
  <2>3. b[1] \in Entry /\ b[2] \in 1..Len(phase[b[1]])
    BY <1>a, <1>b
  <2>4. life[b[1]].at = "up"
    BY <2>1, <2>2 DEF BatchUp
  <2>5. CASE b[1] = e
    BY <2>2, <2>3, <2>4, <2>5
  <2>6. CASE b[1] # e
    BY <2>3, <2>4, <2>6
  <2> QED BY <2>5, <2>6
<1>8. Wholeness'
  <2>1. AllOld => AllOld'
    <3>1. \A d \in Entry \ {e} : EntryOld(d) => EntryOld(d)'
      BY DEF EntryOld, InstKept, Whereabouts, OwnInstance
    <3>2. AllOld => \A d \in Entry : EntryOld(d)
      BY DEF AllOld, EntryOld
    <3>3. AllOld => \A d \in Entry : EntryOld(d)'
      BY <3>1, <3>2
    <3> QED BY <3>3 DEF AllOld, EntryOld
  <2>2. ASSUME HitNew PROVE HitNew'
    <3>1. SUFFICES ASSUME NEW x \in batch.hit, Len(phase[x[1]]) = x[2]
                   PROVE  /\ life'[x[1]].at \notin {"activating", "landing"}
                          /\ slot'[x[1]].at # Nobody => inst'[slot'[x[1]].at].artifact = "new"
      BY <1>a DEF HitNew, SlotId
    <3>2. /\ x[1] \in Entry
          /\ life[x[1]].at \notin {"activating", "landing"}
          /\ slot[x[1]].at # Nobody => inst[slot[x[1]].at].artifact = "new"
      BY <1>a, <2>2, <3>1 DEF HitNew, SlotId
    <3>3. slot'[x[1]].at # Nobody => slot'[x[1]].at = slot[x[1]].at
      BY <3>2 DEF Starting
    <3>4. life'[x[1]].at \notin {"activating", "landing"}
      BY <3>2 DEF Starting
    <3>5. slot[x[1]].at # Nobody => inst'[slot[x[1]].at].artifact = inst[slot[x[1]].at].artifact
      BY <3>2 DEF InstKept, Whereabouts, OwnInstance
    <3> QED BY <3>2, <3>3, <3>4, <3>5
  <2> QED BY <2>1, <2>2 DEF Wholeness, Claimed
<1> QED BY <1>1, <1>2, <1>3, <1>4, <1>5, <1>6, <1>7, <1>8, <1>9

(* An activation settles.                                                    *)
LEMMA SettleKeeps ==
    ASSUME SeatInv, NEW e \in Entry, NEW ok \in BOOLEAN, Settle(e, ok)
    PROVE  SeatInv'
<1> USE DEF SeatInv
<1> DEFINE i == life[e].inst
           v == [inst[i] EXCEPT !.recorded = <<>>, !.busy = "idle"]
           l == [at |-> "landing", ok |-> ok, commit |-> ok /\ slot[e].ever,
                 c |-> [entry |-> e, inst |-> i, outcome |-> inst[i].recorded]]
<1>0. life[e].at = "activating" /\ i \in Inst /\ i[1] = e /\ inst[i] # NoInstance /\ inst[i] \in Made
      /\ inst[i].recorded \in Seq(Regs) /\ slot[e].ever \in BOOLEAN
  <2>1. life[e].at = "activating"
    BY DEF Settle
  <2>2. OwnInstance(e, i)
    BY <2>1 DEF Whereabouts
  <2>3. inst[i] \in Made
    BY <2>2, MadeFields DEF OwnInstance
  <2>4. slot[e].ever \in BOOLEAN
    BY LifeFields DEF SeatRec
  <2> QED BY <2>1, <2>2, <2>3, <2>4 DEF OwnInstance, Made
<1>1. inst' = [inst EXCEPT ![i] = v] /\ life' = [life EXCEPT ![e] = l]
      /\ UNCHANGED <<slot, phase, routed, inherited, pinned, batch>>
  BY DEF Settle
<1>2. v \in Made /\ v.artifact = inst[i].artifact
  <2>1. \A q \in Seq(Regs) : [inst[i] EXCEPT !.recorded = q, !.busy = "idle"] \in Made
    BY <1>0 DEF Made
  <2>2. <<>> \in Seq(Regs)
    OBVIOUS
  <2>3. v \in Made
    BY <2>1, <2>2
  <2> QED BY <1>0, <2>3 DEF Made
<1>3. l \in Lives /\ l.at = "landing" /\ l.c.entry = e /\ l.c.inst = i
  BY <1>0 DEF Lives, Outcomes
<1> HIDE DEF v, l, i
<1>4. InstKept
  BY <1>0, <1>1, <1>2, OneMoves
<1>5. life' \in [Entry -> Lives] /\ life'[e] = l /\ \A d \in Entry \ {e} : life'[d] = life[d]
  BY <1>1, <1>3 DEF SeatType
<1>6. EntryPlace(e)'
  BY <1>0, <1>1, <1>3, <1>4, <1>5 DEF Whereabouts, EntryPlace, OwnInstance, InstKept
<1>7. EntryOld(e) => EntryOld(e)'
  BY <1>0, <1>1, <1>3, <1>4, <1>5 DEF Whereabouts, EntryOld, OwnInstance, InstKept, i
<1>8. Starting(e) /\ life'[e].at = "landing"
  BY <1>0, <1>3, <1>5 DEF Starting
<1>9. SeatType
  OBVIOUS
<1> QED
  BY <1>1, <1>4, <1>5, <1>6, <1>7, <1>8, <1>0, <1>9, EntryFrame DEF SeatType

(* An entry at rest is disposed, and its journal withdrawn.                  *)
LEMMA RestKeeps ==
    ASSUME SeatInv, NEW e \in Entry, DisposeResting(e) \/ WithdrawJournal(e)
    PROVE  SeatInv'
<1> USE DEF SeatInv
<1>1. /\ UNCHANGED <<inst, slot, phase, pinned, batch>>
      /\ life[e].at \in {"failed", "down", "journal"}
      /\ \E a \in {"journal", "gone"} : life' = [life EXCEPT ![e] = [at |-> a]]
      /\ routed' \subseteq routed
  BY DEF DisposeResting, WithdrawJournal
<1>2. inherited' \in [Entry -> SUBSET Regs]
  BY DEF DisposeResting, WithdrawJournal, SeatType
<1>3. PICK a \in {"journal", "gone"} : life' = [life EXCEPT ![e] = [at |-> a]]
  BY <1>1
<1>4. [at |-> a] \in Lives
  BY DEF Lives
<1>5. life' \in [Entry -> Lives] /\ life'[e].at = a /\ \A d \in Entry \ {e} : life'[d] = life[d]
  BY <1>3, <1>4 DEF SeatType
<1>6. EntryPlace(e)'
  BY <1>1, <1>5 DEF Whereabouts, EntryPlace
<1>7. EntryOld(e) => EntryOld(e)'
  BY <1>1, <1>5 DEF EntryOld
<1>8. ~Starting(e)' /\ \A n \in 1..Len(phase[e]) : phase[e][n] = "Tombstone"
  BY <1>1, <1>5 DEF Starting, LastStanding
<1>9. routed' \subseteq Regs
  BY <1>1 DEF SeatType
<1>10. InstKept
  BY <1>1, NoneMoves
<1> QED
  BY <1>1, <1>2, <1>5, <1>6, <1>7, <1>8, <1>9, <1>10, EntryFrame DEF SeatType

(* A closing tombstones the slot id and seals the seat.                      *)
LEMMA CloseKeeps ==
    ASSUME SeatInv, NEW e \in Entry, NEW how \in {"suspend", "dispose", "fail"}, Close(e, how)
    PROVE  SeatInv'
<1> USE DEF SeatInv
<1> DEFINE s == [slot[e] EXCEPT !.closing = TRUE]
           l == [at |-> "draining", how |-> how]
           p == [phase[e] EXCEPT ![SlotId(e)] = "Tombstone"]
<1>1. /\ life[e].at = "up"
      /\ slot' = [slot EXCEPT ![e] = s] /\ life' = [life EXCEPT ![e] = l]
      /\ phase' = [phase EXCEPT ![e] = p]
      /\ UNCHANGED <<inst, routed, inherited, pinned, batch>>
  BY DEF Close
<1>2. s \in SeatRec /\ s.at = slot[e].at /\ s.journal = slot[e].journal
  BY LifeFields DEF SeatRec
<1>3. l \in Lives /\ l.at = "draining"
  BY DEF Lives
<1>4. /\ p \in Seq({"Steady", "Preparing", "Tombstone"}) /\ Len(p) = Len(phase[e])
      /\ \A n \in 1..Len(phase[e]) : p[n] = "Tombstone"
  <2>1. /\ p \in Seq({"Steady", "Preparing", "Tombstone"}) /\ Len(p) = Len(phase[e])
        /\ \A n \in 1..Len(phase[e]) : p[n] = IF n = Len(phase[e]) THEN "Tombstone" ELSE phase[e][n]
    <3>1. phase[e] \in Seq({"Steady", "Preparing", "Tombstone"})
      BY LifeFields
    <3> DEFINE P == {"Steady", "Preparing", "Tombstone"}
    <3>2. "Tombstone" \in P
      OBVIOUS
    <3> HIDE DEF P
    <3>3. \A w \in Seq(P) : \A k : /\ [w EXCEPT ![k] = "Tombstone"] \in Seq(P)
                                     /\ Len([w EXCEPT ![k] = "Tombstone"]) = Len(w)
                                     /\ \A n \in 1..Len(w) : [w EXCEPT ![k] = "Tombstone"][n] =
                                                               IF n = k THEN "Tombstone" ELSE w[n]
      BY <3>2, OneReplaced
    <3>4. phase[e] \in Seq(P)
      BY <3>1 DEF P
    <3>5. p \in Seq(P)
      BY <3>3, <3>4
    <3>6. p \in Seq({"Steady", "Preparing", "Tombstone"})
      BY <3>5 DEF P
    <3> QED BY <3>3, <3>4, <3>6 DEF SlotId
  <2> QED BY <2>1 DEF LastStanding
<1> HIDE DEF s, l, p
<1>5. /\ slot' \in [Entry -> SeatRec] /\ slot'[e] = s
      /\ life' \in [Entry -> Lives] /\ life'[e] = l
      /\ phase' \in [Entry -> Seq({"Steady", "Preparing", "Tombstone"})] /\ phase'[e] = p
      /\ \A d \in Entry \ {e} : slot'[d] = slot[d] /\ life'[d] = life[d] /\ phase'[d] = phase[d]
  BY <1>1, <1>2, <1>3, <1>4 DEF SeatType
<1>6. InstKept
  BY <1>1, NoneMoves
<1>7. EntryPlace(e)'
  BY <1>1, <1>2, <1>3, <1>5 DEF Whereabouts, EntryPlace, OwnInstance
<1>8. EntryOld(e) => EntryOld(e)'
  BY <1>1, <1>2, <1>3, <1>5 DEF EntryOld
<1>9. ~Starting(e)' /\ slot'[e].at = slot[e].at
  BY <1>2, <1>3, <1>5 DEF Starting
<1>10. \A n \in 1..Len(phase[e]) : phase'[e][n] = "Tombstone"
  BY <1>4, <1>5
<1>11. \A d \in Entry : /\ Len(phase'[d]) = Len(phase[d])
                        /\ \A n \in 1..Len(phase[d]) :
                              phase'[d][n] # "Tombstone" => phase'[d][n] = phase[d][n]
  BY <1>4, <1>5
<1>12. routed' \subseteq Regs /\ inherited' \in [Entry -> SUBSET Regs]
  BY <1>1 DEF SeatType
<1> QED
  BY <1>1, <1>5, <1>6, <1>7, <1>8, <1>9, <1>10, <1>11, <1>12, EntryFrame

(* A seat that is emptied.                                                   *)
LEMMA EmptyKeeps ==
    ASSUME SeatInv, NEW e \in Entry, NEW a \in {"failed", "journal", "down"},
           life[e].at = "draining", slot' = Taken(e), inst' = Leave(slot[e].at),
           life' = [life EXCEPT ![e] = [at |-> a]], routed' \subseteq routed,
           inherited' \in [Entry -> SUBSET Regs], UNCHANGED <<phase, pinned, batch>>
    PROVE  SeatInv'
<1> USE DEF SeatInv
<1> DEFINE s == [slot[e] EXCEPT !.sealed = TRUE, !.at = Nobody, !.journal = <<>>]
           l == [at |-> a]
<1>1. slot' = [slot EXCEPT ![e] = s] /\ life' = [life EXCEPT ![e] = l]
  BY DEF Taken
<1>2. s \in SeatRec /\ s.at = Nobody /\ s.journal = <<>>
  <2>1. <<>> \in Seq(Regs) /\ Nobody \in Inst \union {Nobody}
    OBVIOUS
  <2>2. \A q \in Seq(Regs), m \in Inst \union {Nobody} :
            [slot[e] EXCEPT !.sealed = TRUE, !.at = m, !.journal = q] \in SeatRec
    BY LifeFields DEF SeatRec
  <2>3. s \in SeatRec
    BY <2>1, <2>2
  <2> QED BY <2>3, LifeFields DEF SeatRec
<1>3. l \in Lives /\ l.at = a
  BY DEF Lives
<1> HIDE DEF s, l
<1>4. OwnInstance(e, slot[e].at)
  BY DEF Whereabouts
<1>5. /\ slot' \in [Entry -> SeatRec] /\ slot'[e] = s
      /\ life' \in [Entry -> Lives] /\ life'[e] = l
      /\ \A d \in Entry \ {e} : slot'[d] = slot[d] /\ life'[d] = life[d]
  BY <1>1, <1>2, <1>3 DEF SeatType
<1>6. InstKept
  BY <1>4, LeaveMoves DEF OwnInstance
<1>7. EntryPlace(e)'
  BY <1>2, <1>3, <1>5 DEF EntryPlace
<1>8. EntryOld(e)'
  BY <1>2, <1>3, <1>5 DEF EntryOld
<1>9. ~Starting(e)' /\ slot'[e].at = Nobody
  BY <1>2, <1>3, <1>5 DEF Starting
<1>10. \A n \in 1..Len(phase[e]) : phase'[e][n] = "Tombstone"
  BY DEF LastStanding
<1>11. routed' \subseteq Regs /\ phase' \in [Entry -> Seq({"Steady", "Preparing", "Tombstone"})]
  BY DEF SeatType
<1> QED
  BY <1>5, <1>6, <1>7, <1>8, <1>9, <1>10, <1>11, EntryFrame

(* A seat is retired or suspended, and its slot ids end.                     *)
LEMMA SeatEndKeeps ==
    ASSUME SeatInv, NEW e \in Entry, RetireSeat(e) \/ SuspendSeat(e) \/ EndTombstones(e)
    PROVE  SeatInv'
<1>1. CASE RetireSeat(e)
  <2>1. inherited' \in [Entry -> SUBSET Regs]
    BY <1>1 DEF RetireSeat, SeatInv, SeatType
  <2>2. PICK a \in {"failed", "journal"} : life' = [life EXCEPT ![e] = [at |-> a]]
    BY <1>1 DEF RetireSeat
  <2>3. /\ life[e].at = "draining" /\ slot' = Taken(e) /\ inst' = Leave(slot[e].at)
        /\ routed' \subseteq routed /\ UNCHANGED <<phase, pinned, batch>>
    BY <1>1 DEF RetireSeat
  <2> QED BY <2>1, <2>2, <2>3, EmptyKeeps
<1>2. CASE SuspendSeat(e)
  <2>1. OfKind({"Host"}, Journal(e)) \subseteq Regs
    <3>1. slot[e].journal \in Seq(Regs)
      BY LifeFields DEF SeatInv
    <3> QED BY <3>1 DEF OfKind, Journal, ToSet
  <2>2. inherited' \in [Entry -> SUBSET Regs]
    BY <1>2, <2>1 DEF SuspendSeat, Inherit, SeatInv, SeatType
  <2>3. /\ life[e].at = "draining" /\ slot' = Taken(e) /\ inst' = Leave(slot[e].at)
        /\ life' = [life EXCEPT ![e] = [at |-> "down"]]
        /\ routed' \subseteq routed /\ UNCHANGED <<phase, pinned, batch>>
    BY <1>2 DEF SuspendSeat
  <2> QED BY <2>2, <2>3, EmptyKeeps
<1>3. CASE EndTombstones(e)
  <2>1. UNCHANGED <<inst, slot, phase, life, batch, pinned, inherited, routed>>
    BY <1>3 DEF EndTombstones, seatVars
  <2>2. InstKept /\ SlotKept /\ routed' \subseteq Regs
    BY <2>1, NoneMoves DEF SlotKept, SeatInv, SeatType
  <2> QED BY <2>1, <2>2, GuestFrame
<1> QED BY <1>1, <1>2, <1>3
(* What a commit does to the seats: those it is about, and no other.         *)
LEMMA CommitSeats ==
    ASSUME SeatType, NEW C \in SUBSET Outcomes, CommitStaged(C),
           \A c, d \in C : c.entry = d.entry => c = d,
           \A c \in C : inst[c.inst] # NoInstance
    PROVE  /\ InstKept /\ slot' \in [Entry -> SeatRec] /\ routed' \subseteq Regs
           /\ \A c \in C : slot'[c.entry].at = c.inst /\ slot'[c.entry].journal = c.outcome
           /\ \A d \in Entry : (\A c \in C : c.entry # d) => slot'[d] = slot[d]
<1>0. \A c \in C : c.entry \in Entry /\ c.inst \in Inst /\ c.outcome \in Seq(Regs)
  BY BatchFields
<1>1. \A c \in C : (CHOOSE x \in C : x.entry = c.entry) = c
  OBVIOUS
<1>2. slot' = [d \in Entry |-> IF d \notin {c.entry : c \in C} THEN slot[d] ELSE
                 [slot[d] EXCEPT !.at = (CHOOSE c \in C : c.entry = d).inst,
                                 !.journal = (CHOOSE c \in C : c.entry = d).outcome, !.ever = TRUE]]
  BY DEF CommitStaged
<1>3. \A c \in C : slot'[c.entry] =
          [slot[c.entry] EXCEPT !.at = c.inst, !.journal = c.outcome, !.ever = TRUE]
  BY <1>0, <1>1, <1>2
<1>4. \A d \in Entry : (\A c \in C : c.entry # d) => slot'[d] = slot[d]
  BY <1>2
<1>5. \A c \in C : /\ slot'[c.entry] \in SeatRec
                   /\ slot'[c.entry].at = c.inst /\ slot'[c.entry].journal = c.outcome
  <2>2. \A c \in C : slot[c.entry] \in SeatRec
    BY <1>0 DEF SeatType
  <2> SUFFICES ASSUME NEW c \in C
               PROVE  /\ slot'[c.entry] \in SeatRec
                      /\ slot'[c.entry].at = c.inst /\ slot'[c.entry].journal = c.outcome
    OBVIOUS
  <2>3. slot[c.entry] \in SeatRec /\ c.inst \in Inst /\ c.outcome \in Seq(Regs)
    BY <1>0, <2>2
  <2>4. slot'[c.entry] = [slot[c.entry] EXCEPT !.at = c.inst, !.journal = c.outcome, !.ever = TRUE]
    BY <1>3
  <2> DEFINE s == [slot[c.entry] EXCEPT !.at = c.inst, !.journal = c.outcome, !.ever = TRUE]
  <2>5. s \in SeatRec /\ s.at = c.inst /\ s.journal = c.outcome
    BY <2>3 DEF SeatRec
  <2> HIDE DEF s
  <2>6. slot'[c.entry] = s
    BY <2>4 DEF s
  <2> QED BY <2>5, <2>6
<1>6. slot' \in [Entry -> SeatRec]
  <2>1. \A d \in Entry : slot'[d] \in SeatRec
    BY <1>4, <1>5 DEF SeatType
  <2>2. DOMAIN slot' = Entry /\ slot' = [d \in Entry |-> slot'[d]]
    BY <1>2
  <2> HIDE DEF SeatType
  <2> QED BY <2>1, <2>2
<1>7. routed' \subseteq Regs
  <2>1. \A c \in C : Come(c) \subseteq Regs
    BY <1>0 DEF Come, OfKind, ToSet
  <2>2. routed' \subseteq routed \union UNION {Come(c) : c \in C}
    BY DEF CommitStaged
  <2> QED BY <2>1, <2>2 DEF SeatType
<1>8. InstKept
  <2>1. inst' = [i \in Inst |-> IF \E c \in C : c.inst = i
                    THEN [inst[i] EXCEPT !.staging = FALSE, !.flip = TRUE] ELSE inst[i]]
    BY DEF CommitStaged
  <2>2. \A v \in Made : /\ [v EXCEPT !.staging = FALSE, !.flip = TRUE] \in Made
                        /\ [v EXCEPT !.staging = FALSE, !.flip = TRUE].artifact = v.artifact
    BY DEF Made
  <2>3. \A i \in Inst : inst[i] \in {NoInstance} \union Made
    BY DEF SeatType
  <2>4. NoInstance \notin Made
    BY InstFacts
  <2>5. \A i \in Inst : /\ inst'[i] \in {NoInstance} \union Made
                        /\ inst[i] # NoInstance <=> inst'[i] # NoInstance
                        /\ inst[i] # NoInstance => inst'[i].artifact = inst[i].artifact
    BY <1>0, <2>1, <2>2, <2>3, <2>4
  <2>6. inst' \in [Inst -> {NoInstance} \union Made]
    BY <2>1, <2>5
  <2> QED BY <2>5, <2>6 DEF InstKept
<1> QED BY <1>4, <1>5, <1>6, <1>7, <1>8

(* An activation lands: seated, or refused.                                  *)
LEMMA LandKeeps ==
    ASSUME SeatInv, NEW e \in Entry, Land(e)
    PROVE  SeatInv'
<1> USE DEF SeatInv
<1> DEFINE c == life[e].c
           l == [at |-> "up", ok |-> life[e].ok]
<1>0. /\ life[e].at = "landing" /\ c \in Outcomes /\ c.entry = e /\ OwnInstance(e, c.inst)
      /\ c.inst \in Inst /\ c.outcome \in Seq(Regs) /\ life[e].ok \in BOOLEAN
  BY LifeFields, BatchFields DEF Land, Whereabouts
<1>1. /\ life' = [life EXCEPT ![e] = l] /\ UNCHANGED <<phase, inherited, pinned, batch>>
  BY DEF Land
<1>2. l \in Lives /\ l.at = "up"
  BY <1>0 DEF Lives
<1>3. /\ InstKept /\ slot' \in [Entry -> SeatRec] /\ routed' \subseteq Regs
      /\ slot'[e].at = c.inst
      /\ \A d \in Entry \ {e} : slot'[d] = slot[d]
  <2>1. CASE life[e].commit
    <3>1. CommitStaged({c}) /\ {c} \in SUBSET Outcomes
      BY <1>0, <2>1 DEF Land
    <3>2. inst[c.inst] # NoInstance
      BY <1>0 DEF OwnInstance
    <3> HIDE DEF c
    <3> QED BY <1>0, <3>1, <3>2, CommitSeats
  <2>2. CASE ~life[e].commit
    <3> DEFINE s == [slot[e] EXCEPT !.at = c.inst, !.journal = c.outcome, !.ever = TRUE]
    <3>1. slot' = [slot EXCEPT ![e] = s] /\ UNCHANGED <<inst, routed>>
      BY <2>2 DEF Land
    <3>2. s \in SeatRec /\ s.at = c.inst
      BY <1>0, LifeFields DEF SeatRec
    <3> HIDE DEF s, c
    <3> QED BY <3>1, <3>2, NoneMoves DEF SeatType
  <2> QED BY <2>1, <2>2
<1>4. EntryOld(e) => inst[c.inst].artifact = "old"
  BY <1>0 DEF EntryOld
<1> HIDE DEF c, l
<1>5. life' \in [Entry -> Lives] /\ life'[e] = l /\ \A d \in Entry \ {e} : life'[d] = life[d]
  BY <1>1, <1>2 DEF SeatType
<1>6. inst[c.inst] # NoInstance /\ inst'[c.inst] # NoInstance /\ inst'[c.inst].artifact = inst[c.inst].artifact
  BY <1>0, <1>3 DEF OwnInstance, InstKept
<1>7. c.inst # Nobody
  BY <1>0, InstFacts
<1>8. EntryPlace(e)'
  BY <1>0, <1>2, <1>3, <1>5, <1>6, <1>7 DEF EntryPlace, OwnInstance
<1>9. EntryOld(e) => EntryOld(e)'
  BY <1>2, <1>3, <1>4, <1>5, <1>6 DEF EntryOld
<1>10. Starting(e) /\ life'[e].at = "up"
  BY <1>0, <1>2, <1>5 DEF Starting
<1>11. phase' \in [Entry -> Seq({"Steady", "Preparing", "Tombstone"})] /\ inherited' \in [Entry -> SUBSET Regs]
  BY <1>1 DEF SeatType
<1> QED
  BY <1>1, <1>3, <1>5, <1>8, <1>9, <1>10, <1>11, EntryFrame DEF Starting

(* A new instance disturbs no other.                                         *)
LEMMA OneMade ==
    ASSUME SeatInv, NEW e \in Entry, Fresh(e) \in Inst, NEW v \in Made,
           inst' = [inst EXCEPT ![Fresh(e)] = v]
    PROVE  /\ InOrderMade' /\ inst' \in [Inst -> {NoInstance} \union Made]
           /\ \A i \in Inst : inst[i] # NoInstance => inst'[i] = inst[i]
           /\ Fresh(e)[1] = e /\ inst'[Fresh(e)] = v /\ v # NoInstance
           /\ \A d \in Entry, i \in Inst : OwnInstance(d, i) => OwnInstance(d, i)' /\ inst'[i] = inst[i]
           /\ inst[Fresh(e)] = NoInstance
<1>1. InOrderMade' /\ Fresh(e)[1] = e /\ inst[Fresh(e)] = NoInstance
  BY FreshIsNew
<1>2. inst \in [Inst -> {NoInstance} \union Made] /\ v # NoInstance
  BY InstFacts DEF SeatInv, SeatType
<1>3. \A i \in Inst \ {Fresh(e)} : inst'[i] = inst[i]
  BY <1>2
<1>4. inst'[Fresh(e)] = v /\ inst' \in [Inst -> {NoInstance} \union Made]
  BY <1>2
<1> QED BY <1>1, <1>2, <1>3, <1>4 DEF OwnInstance

(* An activation makes an instance of the pinned artifact under a new slot id.*)
LEMMA ActivateKeeps ==
    ASSUME SeatInv, NEW e \in Entry, Activate(e)
    PROVE  SeatInv'
<1> USE DEF SeatInv
<1> DEFINE i == Fresh(e)
           v == Instance(pinned, TRUE, slot[e].ever)
           s == [slot[e] EXCEPT !.closing = FALSE, !.sealed = FALSE]
           l == [at |-> "activating", inst |-> i]
           p == Append(phase[e], "Steady")
<1>1. /\ life[e].at \in {"down", "failed"} /\ i \in Inst
      /\ phase' = [phase EXCEPT ![e] = p] /\ slot' = [slot EXCEPT ![e] = s]
      /\ inst' = [inst EXCEPT ![i] = v] /\ life' = [life EXCEPT ![e] = l]
      /\ UNCHANGED <<routed, inherited, pinned, batch>>
  BY DEF Activate
<1>2. v \in Made /\ v.artifact = pinned
  <2>1. slot[e].ever \in BOOLEAN /\ pinned \in Artifacts
    BY LifeFields DEF SeatRec, SeatType
  <2>2. <<>> \in Seq(Regs) /\ 0 \in Nat
    OBVIOUS
  <2>3. \A a \in Artifacts, g \in BOOLEAN, q \in Seq(Regs), z \in Nat :
            [state |-> "alive", artifact |-> a, seated |-> TRUE, staging |-> g,
             flip |-> FALSE, busy |-> "activate", recorded |-> q, made |-> z] \in Made
    BY DEF Made
  <2>4. v \in Made
    BY <2>1, <2>2, <2>3 DEF Instance
  <2> QED BY <2>4 DEF Instance
<1>3. s \in SeatRec /\ s.at = slot[e].at /\ s.journal = slot[e].journal
  BY LifeFields DEF SeatRec
<1>4. l \in Lives /\ l.at = "activating" /\ l.inst = i
  BY <1>1 DEF Lives
<1>5. /\ p \in Seq({"Steady", "Preparing", "Tombstone"}) /\ Len(p) = Len(phase[e]) + 1
      /\ Len(phase[e]) \in Nat /\ \A n \in 1..Len(phase[e]) : p[n] = phase[e][n]
  BY LifeFields
<1> HIDE DEF v, s, l, p
<1>6. /\ InOrderMade' /\ inst' \in [Inst -> {NoInstance} \union Made]
      /\ i[1] = e /\ inst'[i] = v /\ v # NoInstance
      /\ \A d \in Entry, j \in Inst : OwnInstance(d, j) => OwnInstance(d, j)' /\ inst'[j] = inst[j]
  BY <1>1, <1>2, OneMade
<1> HIDE DEF i
<1>7. /\ slot' \in [Entry -> SeatRec] /\ slot'[e] = s
      /\ life' \in [Entry -> Lives] /\ life'[e] = l
      /\ phase' \in [Entry -> Seq({"Steady", "Preparing", "Tombstone"})] /\ phase'[e] = p
      /\ \A d \in Entry \ {e} : slot'[d] = slot[d] /\ life'[d] = life[d] /\ phase'[d] = phase[d]
  BY <1>1, <1>3, <1>4, <1>5 DEF SeatType
<1>8. slot[e].at = Nobody /\ \A n \in 1..Len(phase[e]) : phase[e][n] = "Tombstone"
  BY <1>1 DEF Whereabouts, LastStanding
<1>9. \A d \in Entry : /\ slot'[d].at = slot[d].at /\ slot'[d].journal = slot[d].journal
                       /\ Len(phase'[d]) \in Nat /\ Len(phase[d]) \in Nat
                       /\ Len(phase'[d]) = IF d = e THEN Len(phase[d]) + 1 ELSE Len(phase[d])
                       /\ \A n \in 1..Len(phase[d]) : phase'[d][n] = phase[d][n]
  <2>1. \A d \in Entry : Len(phase[d]) \in Nat
    BY LifeFields
  <2> SUFFICES ASSUME NEW d \in Entry
               PROVE  /\ slot'[d].at = slot[d].at /\ slot'[d].journal = slot[d].journal
                      /\ Len(phase'[d]) \in Nat /\ Len(phase[d]) \in Nat
                      /\ Len(phase'[d]) = IF d = e THEN Len(phase[d]) + 1 ELSE Len(phase[d])
                      /\ \A n \in 1..Len(phase[d]) : phase'[d][n] = phase[d][n]
    OBVIOUS
  <2>2. CASE d = e
    BY <1>3, <1>5, <1>7, <2>2
  <2>3. CASE d # e
    BY <1>7, <2>1, <2>3
  <2> QED BY <2>2, <2>3
<1>a. \A x \in batch.hit : x[1] \in Entry /\ x[2] \in Nat
  BY BatchFields
<1>b. \A d \in Entry : slot[d].at \in Inst \union {Nobody}
  BY LifeFields
<1>10. SeatType'
  BY <1>1, <1>6, <1>7 DEF SeatType
<1>11. Whereabouts'
  <2>1. \A d \in Entry : EntryPlace(d)
    BY DEF Whereabouts, EntryPlace
  <2>2. \A d \in Entry \ {e} : EntryPlace(d)'
    <3> SUFFICES ASSUME NEW d \in Entry \ {e} PROVE EntryPlace(d)'
      OBVIOUS
    <3>1. EntryPlace(d) /\ slot'[d] = slot[d] /\ life'[d] = life[d]
      BY <1>7, <2>1
    <3>2. \A j : OwnInstance(d, j) => OwnInstance(d, j)'
      BY <1>6 DEF OwnInstance
    <3> QED BY <3>1, <3>2 DEF EntryPlace
  <2>3. EntryPlace(e)'
    BY <1>1, <1>3, <1>4, <1>6, <1>7, <1>8, <2>1 DEF EntryPlace, OwnInstance
  <2>4. \A d \in Entry : EntryPlace(d)'
    BY <2>2, <2>3
  <2> QED BY <2>4 DEF Whereabouts, EntryPlace
<1>12. LastStanding'
  <2> SUFFICES ASSUME NEW d \in Entry, NEW n \in 1..Len(phase'[d]), phase'[d][n] # "Tombstone"
               PROVE  n = Len(phase'[d]) /\ life'[d].at \in {"activating", "landing", "up"}
    BY DEF LastStanding
  <2>1. CASE d = e
    <3>1. n = Len(phase'[e])
      BY <1>8, <1>9, <2>1
    <3> QED BY <1>4, <1>7, <2>1, <3>1
  <2>2. CASE d # e
    BY <1>7, <2>2 DEF LastStanding
  <2> QED BY <2>1, <2>2
<1>17. Numbered'
  BY <1>7, <1>9 DEF Numbered, Rostered
<1>13. BatchRows'
  <2>1. \A x \in batch.hit : x[2] \in 1..Len(phase'[x[1]])
    BY <1>9, <1>a DEF BatchRows
  <2> QED BY <1>1, <2>1 DEF BatchRows, Running, Pending
<1>14. BatchStaged'
  <2>1. \A c \in batch.staged : OwnInstance(c.entry, c.inst)' /\ inst'[c.inst].artifact = "new"
    BY <1>6, BatchFields DEF BatchStaged
  <2>2. \A d \in ToSet(batch.displaced) : OwnInstance(d.entry, d.inst)'
    <3>1. \A d \in ToSet(batch.displaced) : d \in Displacement
      BY BatchFields DEF ToSet
    <3> QED BY <1>6, <3>1, BatchFields DEF BatchStaged
  <2> QED BY <1>1, <2>1, <2>2 DEF BatchStaged
<1>15. BatchUp'
  <2> SUFFICES ASSUME Running, NEW c \in batch.staged, NEW b \in batch.begun, b[1] = c.entry,
                      phase'[b[1]][b[2]] = "Preparing"
               PROVE  life'[b[1]].at = "up"
    BY <1>1 DEF BatchUp, Running
  <2>1. b[1] \in Entry /\ b[2] \in 1..Len(phase[b[1]])
    BY <1>a DEF BatchRows
  <2>2. phase[b[1]][b[2]] = "Preparing"
    BY <1>9, <2>1
  <2>3. b[1] # e
    BY <1>8, <2>1, <2>2
  <2> QED BY <1>7, <2>1, <2>2, <2>3 DEF BatchUp
<1>16. Wholeness'
  <2>1. Claimed' = Claimed
    BY <1>1 DEF Claimed
  <2>2. ASSUME ~Claimed PROVE AllOld'
    <3>1. pinned = "old"
      BY <2>2 DEF Claimed, SeatType, Artifacts
    <3>2. \A d \in Entry : EntryOld(d)
      BY <2>2 DEF Wholeness, AllOld, EntryOld
    <3>3. ASSUME NEW d \in Entry \ {e} PROVE EntryOld(d)'
      <4>1. EntryOld(d) /\ slot'[d] = slot[d] /\ life'[d] = life[d]
        BY <1>7, <3>2
      <4>2. \A j : OwnInstance(d, j) => inst'[j] = inst[j]
        BY <1>6 DEF OwnInstance
      <4> QED BY <4>1, <4>2 DEF EntryOld, Whereabouts
    <3>4. EntryOld(e)'
      BY <1>2, <1>4, <1>6, <1>7, <1>8, <1>9, <3>1 DEF EntryOld
    <3>5. \A d \in Entry : EntryOld(d)'
      BY <3>3, <3>4
    <3> QED BY <3>5 DEF AllOld, EntryOld
  <2>3. ASSUME Claimed PROVE HitNew'
    <3>1. SUFFICES ASSUME NEW x \in batch.hit, Len(phase'[x[1]]) = x[2]
                   PROVE  /\ life'[x[1]].at \notin {"activating", "landing"}
                          /\ slot'[x[1]].at # Nobody => inst'[slot'[x[1]].at].artifact = "new"
      BY <1>1 DEF HitNew, SlotId
    <3>2. x[1] \in Entry /\ x[1] # e
      BY <1>9, <1>a, <3>1 DEF BatchRows
    <3>3. Len(phase[x[1]]) = x[2] /\ life'[x[1]] = life[x[1]] /\ slot'[x[1]] = slot[x[1]]
      BY <1>7, <3>1, <3>2
    <3>4. /\ life[x[1]].at \notin {"activating", "landing"}
          /\ slot[x[1]].at # Nobody => inst[slot[x[1]].at].artifact = "new"
      BY <2>3, <3>3 DEF Wholeness, HitNew, SlotId
    <3>5. slot[x[1]].at # Nobody => inst'[slot[x[1]].at] = inst[slot[x[1]].at]
      BY <1>6, <1>b, <3>2 DEF Whereabouts
    <3> QED BY <3>3, <3>4, <3>5
  <2> QED BY <1>1, <2>1, <2>2, <2>3 DEF Wholeness
<1> QED BY <1>6, <1>10, <1>11, <1>12, <1>13, <1>14, <1>15, <1>16, <1>17
-----------------------------------------------------------------------------
(* The batch's steps. *)

(* A step of the batch that leaves the seats where they are.                 *)
LEMMA BatchFrame ==
    ASSUME SeatInv, InstKept, UNCHANGED <<slot, life>>, routed' \subseteq Regs,
           inherited' \in [Entry -> SUBSET Regs], pinned' \in Artifacts, batch' \in Batches,
           phase' \in [Entry -> Seq({"Steady", "Preparing", "Tombstone"})],
           \A d \in Entry : /\ Len(phase'[d]) = Len(phase[d])
                            /\ \A n \in 1..Len(phase[d]) :
                                  phase'[d][n] # "Tombstone" => phase[d][n] # "Tombstone",
           BatchRows', BatchStaged', BatchUp',
           pinned' = "new" => batch'.at = "idle",
           ~Claimed' => ~Claimed, Claimed' => Claimed /\ batch'.hit = batch.hit
    PROVE  SeatInv'
<1> USE DEF SeatInv
<1>1. SeatType'
  BY DEF SeatType, InstKept
<1>2. InOrderMade'
  BY InOrderKept
<1>3. Whereabouts'
  BY DEF Whereabouts, OwnInstance, InstKept
<1>4. LastStanding' /\ Numbered'
  BY DEF LastStanding, Numbered, Rostered
<1>5. Wholeness'
  <2>1. AllOld => AllOld'
    BY DEF AllOld, InstKept, Whereabouts, OwnInstance
  <2>2. batch'.hit = batch.hit => (HitNew => HitNew')
    <3>1. \A x \in batch.hit : x[1] \in Entry
      BY BatchFields
    <3> QED
      BY <3>1 DEF HitNew, InstKept, Whereabouts, OwnInstance, SlotId
  <2> QED BY <2>1, <2>2 DEF Wholeness
<1> QED BY <1>1, <1>2, <1>3, <1>4, <1>5

(* A batch takes the rows of the package as it finds them.                   *)
LEMMA SwapStartKeeps ==
    ASSUME SeatInv, SwapStart
    PROVE  SeatInv'
<1> USE DEF SeatInv
<1> DEFINE R == {d \in Entry : Rostered(d)}
           on == {<<e, SlotId(e)>> : e \in R}
           t == SetToSeq(on)
<1>1. /\ batch.at = "idle" /\ pinned = "old"
      /\ batch' = [at |-> "begin", todo |-> t, begun |-> {}, staged |-> {}, displaced |-> <<>>, hit |-> on]
      /\ UNCHANGED <<inst, slot, phase, life, routed, inherited, pinned>>
  BY DEF SwapStart, NoBatch
<1>2. IsFiniteSet(on)
  <2>1. IsFiniteSet(R)
    BY SeatConstants, FS_Subset
  <2> DEFINE F == [e \in R |-> <<e, SlotId(e)>>]
  <2>2. F \in [R -> on] /\ \A y \in on : \E x \in R : F[x] = y
    OBVIOUS
  <2> HIDE DEF F, on, R
  <2> QED BY <2>1, <2>2, FiniteImage
<1>3. /\ \A x \in on : x \in RowIds /\ x[2] \in 1..Len(phase[x[1]])
      /\ \A a, b \in on : a[1] = b[1] => a = b
  <2>1. \A e \in R : Len(phase[e]) \in Nat /\ Len(phase[e]) > 0
    BY LifeFields DEF Numbered
  <2> QED BY <2>1 DEF RowIds, SlotId
<1> HIDE DEF on
<1>4. t \in Seq(on) /\ ToSet(t) = on /\ \A x, y \in 1..Len(t) : t[x] = t[y] => x = y
  BY <1>2, SetToSeqRange
<1>5. t \in Seq(RowIds)
  BY <1>3, <1>4, SeqWider
<1> HIDE DEF t
<1>6. /\ batch'.at = "begin" /\ batch'.todo = t /\ batch'.begun = {} /\ batch'.staged = {}
      /\ batch'.displaced = <<>> /\ batch'.hit = on
  BY <1>1
<1>7. batch' \in Batches
  <2>1. <<>> \in Seq(Displacement) /\ on \in SUBSET RowIds /\ {} \in SUBSET RowIds /\ {} \in SUBSET Outcomes
    BY <1>3
  <2>2. \A q \in Seq(Displacement), a \in SUBSET RowIds, b \in SUBSET Outcomes, g \in SUBSET RowIds :
            [at |-> "begin", todo |-> t, begun |-> g, staged |-> b, displaced |-> q, hit |-> a] \in Batches
    BY <1>5 DEF Batches
  <2> QED BY <1>1, <2>1, <2>2
<1>8. BatchRows'
  BY <1>1, <1>3, <1>4, <1>6 DEF BatchRows, Running, Pending
<1>9. BatchStaged'
  <2>1. IsFiniteSet({}) /\ ToSet(<<>>) = {}
    BY FS_EmptySet DEF ToSet
  <2> QED BY <1>6, <2>1 DEF BatchStaged
<1>10. BatchUp'
  BY <1>6 DEF BatchUp
<1>11. ~Claimed /\ ~Claimed' /\ pinned' # "new"
  BY <1>1, <1>6 DEF Claimed
<1>12. InstKept
  BY <1>1, NoneMoves
<1>13. /\ routed' \subseteq Regs /\ inherited' \in [Entry -> SUBSET Regs] /\ pinned' \in Artifacts
       /\ phase' \in [Entry -> Seq({"Steady", "Preparing", "Tombstone"})]
  BY <1>1 DEF SeatType
<1> QED
  BY <1>1, <1>7, <1>8, <1>9, <1>10, <1>11, <1>12, <1>13, BatchFrame

(* The row at hand.                                                          *)
LEMMA AtHand ==
    ASSUME SeatType, batch.todo # <<>>
    PROVE  /\ At = Head(batch.todo) /\ At \in Pending /\ At \in RowIds
           /\ At[1] \in Entry /\ At[2] \in Nat /\ At = <<At[1], At[2]>>
           /\ Pending = {At} \union ToSet(Tail(batch.todo)) /\ Tail(batch.todo) \in Seq(RowIds)
<1> DEFINE t == batch.todo
<1>1. t \in Seq(RowIds) /\ t # <<>>
  BY BatchFields
<1>2. At = Head(t)
  BY DEF At
<1> HIDE DEF t
<1>3. Len(t) \in Nat /\ Len(t) > 0 /\ Head(t) = t[1] /\ Tail(t) \in Seq(RowIds) /\ Len(Tail(t)) = Len(t) - 1
      /\ \A k \in 1..Len(t) - 1 : Tail(t)[k] = t[k + 1]
  BY <1>1
<1>4. t[1] \in ToSet(t) /\ t[1] \in RowIds
  BY <1>1, <1>3 DEF ToSet
<1>5. ToSet(t) \subseteq {t[1]} \union ToSet(Tail(t))
  <2> SUFFICES ASSUME NEW k \in 1..Len(t), k # 1 PROVE t[k] \in ToSet(Tail(t))
    BY <1>1 DEF ToSet
  <2>1. k - 1 \in 1..Len(t) - 1 /\ (k - 1) + 1 = k
    BY <1>3
  <2>2. Tail(t)[k - 1] = t[k] /\ k - 1 \in 1..Len(Tail(t))
    BY <1>3, <2>1
  <2>3. DOMAIN Tail(t) = 1..Len(Tail(t))
    BY <1>3
  <2> QED BY <2>2, <2>3 DEF ToSet
<1>6. ToSet(Tail(t)) \subseteq ToSet(t)
  <2> SUFFICES ASSUME NEW k \in 1..Len(t) - 1 PROVE t[k + 1] \in ToSet(t)
    BY <1>3 DEF ToSet
  <2> QED BY <1>1, <1>3 DEF ToSet
<1>7. At[1] \in Entry /\ At[2] \in Nat /\ At = <<At[1], At[2]>>
  BY <1>2, <1>3, <1>4, BatchFields
<1> QED BY <1>2, <1>3, <1>4, <1>5, <1>6, <1>7 DEF t, Pending
(* A batch that is lost before its claim: what was staged is still known.    *)
LEMMA LostKeeps ==
    ASSUME SeatInv, InstKept, UNCHANGED <<slot, phase, life, inherited, pinned>>, routed' \subseteq routed,
           Running, NEW S \in SUBSET batch.staged,
           batch' = [batch EXCEPT !.at = "rollback", !.staged = S]
    PROVE  SeatInv'
<1> USE DEF SeatInv
<1>1. batch \in Batches /\ batch.staged \in SUBSET Outcomes
  BY BatchFields
<1>2. /\ batch' \in Batches /\ batch'.at = "rollback" /\ batch'.staged = S /\ batch'.todo = batch.todo
      /\ batch'.begun = batch.begun /\ batch'.displaced = batch.displaced /\ batch'.hit = batch.hit
  BY <1>1 DEF Batches
<1>3. BatchRows'
  BY <1>2 DEF BatchRows, Running
<1>4. BatchStaged'
  <2>1. IsFiniteSet(S)
    BY FS_Subset DEF BatchStaged
  <2>2. \A c \in batch.staged : c.entry \in Entry /\ c.inst \in Inst
    BY BatchFields
  <2> QED BY <1>2, <2>1, <2>2 DEF BatchStaged, OwnInstance, InstKept
<1>5. BatchUp'
  BY <1>2 DEF BatchUp, Running
<1>6. ~Claimed /\ ~Claimed' /\ pinned' # "new"
  BY <1>2 DEF Claimed, Running, Wholeness
<1>7. /\ routed' \subseteq Regs /\ inherited' \in [Entry -> SUBSET Regs] /\ pinned' \in Artifacts
      /\ phase' \in [Entry -> Seq({"Steady", "Preparing", "Tombstone"})]
  BY DEF SeatType
<1> QED
  BY <1>2, <1>3, <1>4, <1>5, <1>6, <1>7, BatchFrame

(* A row that cannot go on sends its batch to the rollback, as it is.        *)
LEMMA LostAsItIs ==
    ASSUME SeatInv, UNCHANGED <<inst, slot, phase, life, inherited, pinned, routed>>, Running,
           batch' = [batch EXCEPT !.at = "rollback"]
    PROVE  SeatInv'
<1>1. batch \in Batches
  BY DEF SeatInv, SeatType
<1>2. batch' = [batch EXCEPT !.at = "rollback", !.staged = batch.staged]
  BY <1>1 DEF Batches
<1>3. InstKept
  BY NoneMoves DEF SeatInv
<1> QED BY <1>2, <1>3, LostKeeps

(* A row begins, unless its seat is being closed.                            *)
LEMMA SwapBeginKeeps ==
    ASSUME SeatInv, SwapBegin
    PROVE  SeatInv'
<1> USE DEF SeatInv
<1> DEFINE e == At[1]
           n == At[2]
<1>0. /\ batch.at = "begin" /\ batch.todo # <<>> /\ Running
      /\ UNCHANGED <<inst, slot, life, routed, inherited, pinned>>
  BY DEF SwapBegin, Running
<1>1. CASE phase[At[1]][At[2]] # "Steady"
  BY <1>0, <1>1, LostAsItIs DEF SwapBegin
<1>2. CASE phase[At[1]][At[2]] = "Steady"
  <2> DEFINE p == [phase[e] EXCEPT ![n] = "Preparing"]
             P == {"Steady", "Preparing", "Tombstone"}
  <2>1. /\ phase' = [phase EXCEPT ![e] = p]
        /\ batch' = [batch EXCEPT !.at = "prepare", !.begun = @ \union {At}]
    BY <1>2 DEF SwapBegin
  <2>2. /\ At = Head(batch.todo) /\ At \in Pending /\ At \in RowIds /\ e \in Entry
        /\ At \in batch.hit /\ At \notin batch.begun /\ n \in 1..Len(phase[e])
    BY <1>0, AtHand DEF BatchRows
  <2>3. phase[e] \in Seq(P) /\ Len(phase[e]) \in Nat
    BY <2>2, LifeFields
  <2>4. /\ p \in Seq(P) /\ Len(p) = Len(phase[e])
        /\ \A k \in 1..Len(phase[e]) : p[k] = IF k = n THEN "Preparing" ELSE phase[e][k]
    <3>1. "Preparing" \in P
      OBVIOUS
    <3> HIDE DEF P, e, n
    <3> QED BY <2>3, <3>1, OneReplaced
  <2> HIDE DEF p
  <2>5. /\ phase' \in [Entry -> Seq(P)] /\ phase'[e] = p
        /\ \A d \in Entry \ {e} : phase'[d] = phase[d]
    BY <2>1, <2>2, <2>4 DEF SeatType
  <2> HIDE DEF P
  <2>6. \A d \in Entry : /\ Len(phase'[d]) = Len(phase[d])
                         /\ \A k \in 1..Len(phase[d]) :
                               phase'[d][k] # "Tombstone" => phase[d][k] # "Tombstone"
    BY <1>2, <2>4, <2>5
  <2>7. batch \in Batches /\ batch.begun \in SUBSET RowIds
    BY BatchFields
  <2>8. /\ batch' \in Batches /\ batch'.at = "prepare" /\ batch'.todo = batch.todo
        /\ batch'.begun = batch.begun \union {At} /\ batch'.staged = batch.staged
        /\ batch'.displaced = batch.displaced /\ batch'.hit = batch.hit
    BY <2>1, <2>2, <2>7 DEF Batches
  <2>9. \A b \in batch.begun : b \in batch.hit /\ b[1] \in Entry /\ b[1] # e
    BY <2>2, BatchFields DEF BatchRows
  <2>10. BatchRows'
    <3>1. \A x \in batch.hit : x[1] \in Entry
      BY BatchFields
    <3>2. \A x \in batch.hit : x[2] \in 1..Len(phase'[x[1]])
      BY <2>6, <3>1 DEF BatchRows
    <3> QED BY <1>0, <2>2, <2>8, <3>2 DEF BatchRows, Running, Pending
  <2>11. BatchStaged'
    <3>1. \A b \in batch.begun \union {At} : (\E c \in batch.staged : c.entry = b[1]) <=> b # At
      <4>1. \A c \in batch.staged : c.entry # e
        BY <2>9 DEF BatchStaged
      <4> QED BY <1>0, <2>2, <4>1 DEF BatchStaged
    <3>2. \A c \in batch.staged : \E b \in batch.begun \union {At} : b[1] = c.entry
      BY DEF BatchStaged
    <3> QED BY <1>0, <2>2, <2>8, <3>1, <3>2 DEF BatchStaged, OwnInstance
  <2>12. BatchUp'
    <3> SUFFICES ASSUME NEW c \in batch.staged, NEW b \in batch.begun \union {At}, b[1] = c.entry,
                        phase'[b[1]][b[2]] = "Preparing"
                 PROVE  life[b[1]].at = "up"
      BY <1>0, <2>8 DEF BatchUp
    <3>1. c.entry # e
      BY <2>9 DEF BatchStaged
    <3>2. b \in batch.begun /\ b[1] \in Entry \ {e}
      BY <2>9, <3>1
    <3>3. phase[b[1]][b[2]] = "Preparing"
      BY <2>5, <3>2
    <3> QED BY <1>0, <3>2, <3>3 DEF BatchUp
  <2>13. ~Claimed /\ ~Claimed' /\ pinned' # "new"
    BY <1>0, <2>8 DEF Claimed, Wholeness
  <2>14. /\ routed' \subseteq Regs /\ inherited' \in [Entry -> SUBSET Regs] /\ pinned' \in Artifacts
         /\ phase' \in [Entry -> Seq({"Steady", "Preparing", "Tombstone"})] /\ InstKept
    BY <1>0, <2>5, NoneMoves DEF SeatType, P
  <2> HIDE DEF e, n
  <2> QED
    BY <1>0, <2>6, <2>8, <2>10, <2>11, <2>12, <2>13, <2>14, BatchFrame
<1> QED BY <1>1, <1>2

(* An instance of the new artifact is staged for the row at hand.            *)
LEMMA SwapPrepareKeeps ==
    ASSUME SeatInv, SwapPrepare
    PROVE  SeatInv'
<1> USE DEF SeatInv
<1> DEFINE e == At[1]
<1>0. /\ batch.at = "prepare" /\ Running /\ batch.todo # <<>>
      /\ UNCHANGED <<slot, phase, life, routed, inherited, pinned>>
  BY DEF SwapPrepare, Running, BatchRows
<1>1. CASE ~(Rostered(e) /\ slot[e].at # Nobody /\ Alive(slot[e].at))
  <2>1. batch' = [batch EXCEPT !.at = "rollback"] /\ UNCHANGED inst
    BY <1>1 DEF SwapPrepare
  <2> QED BY <1>0, <2>1, LostAsItIs
<1>2. CASE Rostered(e) /\ slot[e].at # Nobody /\ Alive(slot[e].at)
  <2> DEFINE i == Fresh(e)
             v == Instance("new", FALSE, TRUE)
             c0 == [entry |-> e, inst |-> i, outcome |-> <<>>]
  <2>1. /\ i \in Inst /\ inst' = [inst EXCEPT ![i] = v]
        /\ batch' = [batch EXCEPT !.at = "activate", !.staged = @ \union {c0}]
    BY <1>2 DEF SwapPrepare
  <2>2. v \in Made /\ v.artifact = "new"
    <3>1. <<>> \in Seq(Regs) /\ 0 \in Nat
      OBVIOUS
    <3>2. \A q \in Seq(Regs), z \in Nat :
              [state |-> "alive", artifact |-> "new", seated |-> FALSE, staging |-> TRUE,
               flip |-> FALSE, busy |-> "activate", recorded |-> q, made |-> z] \in Made
      BY DEF Made, Artifacts
    <3>3. v \in Made
      BY <3>1, <3>2 DEF Instance
    <3> QED BY <3>3 DEF Instance
  <2>3. /\ At = Head(batch.todo) /\ At \in Pending /\ At \in RowIds /\ e \in Entry
        /\ At \in batch.hit /\ At \in batch.begun /\ At[2] \in 1..Len(phase[e])
    BY <1>0, AtHand DEF BatchRows
  <2>4. c0 \in Outcomes /\ c0.entry = e /\ c0.inst = i
    <3>1. <<>> \in Seq(Regs)
      OBVIOUS
    <3>2. \A q \in Seq(Regs) : [entry |-> e, inst |-> i, outcome |-> q] \in Outcomes
      BY <2>1, <2>3 DEF Outcomes
    <3>3. c0 \in Outcomes
      BY <3>1, <3>2
    <3> QED BY <3>3
  <2> HIDE DEF v, c0
  <2>5. /\ InOrderMade' /\ inst' \in [Inst -> {NoInstance} \union Made]
        /\ i[1] = e /\ inst'[i] = v /\ v # NoInstance
        /\ \A d \in Entry, j \in Inst : OwnInstance(d, j) => OwnInstance(d, j)' /\ inst'[j] = inst[j]
    BY <2>1, <2>2, <2>3, OneMade
  <2>6. i \in Inst /\ i[1] = e /\ inst'[i] # NoInstance /\ inst'[i].artifact = "new"
    BY <2>1, <2>2, <2>5
  <2> HIDE DEF i
  <2>7. batch \in Batches /\ batch.staged \in SUBSET Outcomes
    BY BatchFields
  <2>8. /\ batch' \in Batches /\ batch'.at = "activate" /\ batch'.todo = batch.todo
        /\ batch'.begun = batch.begun /\ batch'.staged = batch.staged \union {c0}
        /\ batch'.displaced = batch.displaced /\ batch'.hit = batch.hit
    BY <2>1, <2>4, <2>7 DEF Batches
  <2>9. \A d \in Entry : \A j : OwnInstance(d, j) => OwnInstance(d, j)' /\ inst'[j] = inst[j]
    BY <2>5 DEF OwnInstance
  <2>10. SeatType'
    BY <1>0, <2>5, <2>8 DEF SeatType
  <2>11. Whereabouts'
    BY <1>0, <2>9 DEF Whereabouts
  <2>12. LastStanding' /\ Numbered'
    BY <1>0 DEF LastStanding, Numbered, Rostered
  <2>13. BatchRows'
    BY <1>0, <2>8 DEF BatchRows, Running, Pending
  <2>14. \A c \in batch.staged : c.entry # e
    BY <1>0, <2>3 DEF BatchStaged
  <2>15. BatchStaged'
    <3>1. \A c \in batch.staged : OwnInstance(c.entry, c.inst)' /\ inst'[c.inst].artifact = "new"
      BY <2>9, BatchFields DEF BatchStaged
    <3>2. \A d \in ToSet(batch.displaced) : OwnInstance(d.entry, d.inst)'
      <4>1. \A d \in ToSet(batch.displaced) : d \in Displacement
        BY BatchFields DEF ToSet
      <4> QED BY <2>9, <4>1, BatchFields DEF BatchStaged
    <3>3. IsFiniteSet(batch.staged \union {c0})
      BY FS_AddElement DEF BatchStaged
    <3>4. \A b \in batch.begun : \E c \in batch.staged \union {c0} : c.entry = b[1]
      BY <1>0, <2>3, <2>4 DEF BatchStaged
    <3>5. \A c \in batch.staged \union {c0} : \E b \in batch.begun : b[1] = c.entry
      BY <2>3, <2>4 DEF BatchStaged
    <3>6. \A c, d \in batch.staged \union {c0} : c.entry = d.entry => c = d
      BY <2>4, <2>14 DEF BatchStaged
    <3>7. \A c \in batch'.staged : OwnInstance(c.entry, c.inst)' /\ inst'[c.inst].artifact = "new"
      BY <2>4, <2>6, <2>8, <3>1 DEF OwnInstance
    <3> QED BY <2>8, <3>2, <3>3, <3>4, <3>5, <3>6, <3>7 DEF BatchStaged
  <2>16. BatchUp'
    <3> SUFFICES ASSUME NEW c \in batch.staged \union {c0}, NEW b \in batch.begun, b[1] = c.entry,
                        phase[b[1]][b[2]] = "Preparing"
                 PROVE  life[b[1]].at = "up"
      BY <1>0, <2>8 DEF BatchUp
    <3>1. CASE c \in batch.staged
      BY <1>0, <3>1 DEF BatchUp
    <3>2. CASE c = c0
      <4>1. b = At
        BY <2>3, <2>4, <3>2 DEF BatchRows
      <4>2. life[e].at \in {"up", "draining"}
        BY <1>2, <2>3 DEF Whereabouts
      <4>3. life[e].at \in {"activating", "landing", "up"}
        BY <2>3, <4>1 DEF LastStanding
      <4> QED BY <4>1, <4>2, <4>3
    <3> QED BY <3>1, <3>2
  <2>17. Wholeness'
    <3>1. ~Claimed /\ ~Claimed' /\ pinned' # "new"
      BY <1>0, <2>8 DEF Claimed, Wholeness
    <3>2. AllOld'
      BY <1>0, <2>9, <3>1 DEF Wholeness, AllOld, Whereabouts
    <3> QED BY <3>1, <3>2 DEF Wholeness
  <2> QED BY <2>5, <2>10, <2>11, <2>12, <2>13, <2>15, <2>16, <2>17
<1> QED BY <1>1, <1>2

(* The row at hand, and what is staged for it.                               *)
LEMMA StagingFacts ==
    ASSUME SeatInv, batch.at = "activate"
    PROVE  /\ Staging \in batch.staged /\ Staging.entry = At[1] /\ Staging \in Outcomes
           /\ Staging.inst \in Inst /\ inst[Staging.inst] \in Made
           /\ inst[Staging.inst] # NoInstance /\ inst[Staging.inst].recorded \in Seq(Regs)
<1> USE DEF SeatInv
<1>1. batch.todo # <<>> /\ At \in batch.begun
  BY AtHand DEF BatchRows
<1>2. \E c \in batch.staged : c.entry = At[1]
  BY <1>1 DEF BatchStaged
<1>3. Staging \in batch.staged /\ Staging.entry = At[1]
  BY <1>2 DEF Staging
<1>4. Staging \in Outcomes /\ Staging.inst \in Inst
  BY <1>3, BatchFields
<1>5. inst[Staging.inst] # NoInstance
  BY <1>3 DEF BatchStaged, OwnInstance
<1>6. inst[Staging.inst] \in Made
  BY <1>4, <1>5, MadeFields
<1> QED BY <1>3, <1>4, <1>5, <1>6 DEF Made

(* The staged activation settles: on to the next row, or rolled back.        *)
LEMMA SwapSettleKeeps ==
    ASSUME SeatInv, NEW ok \in BOOLEAN, SwapSettle(ok)
    PROVE  SeatInv'
<1> USE DEF SeatInv
<1> DEFINE g == Staging
           c0 == [g EXCEPT !.outcome = inst[g.inst].recorded]
           others == batch.staged \ {g}
<1>0. /\ batch.at = "activate" /\ Running /\ batch.todo # <<>>
      /\ UNCHANGED <<slot, phase, life, inherited, pinned>>
  BY DEF SwapSettle, Running, BatchRows
<1>1. /\ g \in batch.staged /\ g.entry = At[1] /\ g \in Outcomes
      /\ g.inst \in Inst /\ inst[g.inst] \in Made
      /\ inst[g.inst] # NoInstance /\ inst[g.inst].recorded \in Seq(Regs)
  BY <1>0, StagingFacts
<1>2. c0 \in Outcomes /\ c0.entry = g.entry /\ c0.inst = g.inst
  BY <1>1 DEF Outcomes
<1>3. CASE ~ok
  <2>1. /\ inst' = Leave(c0.inst)
        /\ batch' = [batch EXCEPT !.at = "rollback", !.staged = others]
        /\ routed' \subseteq routed
    BY <1>3 DEF SwapSettle
  <2>2. InstKept
    BY <1>1, <1>2, <2>1, LeaveMoves
  <2>3. others \in SUBSET batch.staged
    OBVIOUS
  <2> QED BY <1>0, <2>1, <2>2, <2>3, LostKeeps
<1>4. CASE ok
  <2> DEFINE v == [inst[g.inst] EXCEPT !.busy = "idle", !.recorded = <<>>]
             t == batch.todo
  <2>1. /\ inst' = [inst EXCEPT ![c0.inst].busy = "idle", ![c0.inst].recorded = <<>>]
        /\ batch' = [batch EXCEPT !.at = "begin", !.todo = Tail(t), !.staged = others \union {c0}]
        /\ UNCHANGED routed
    BY <1>4 DEF SwapSettle
  <2>2. inst' = [inst EXCEPT ![g.inst] = v]
    <3>1. c0.inst = g.inst
      BY <1>2
    <3> HIDE DEF c0, g
    <3>2. inst' = [inst EXCEPT ![g.inst].busy = "idle", ![g.inst].recorded = <<>>]
      BY <2>1, <3>1
    <3> QED BY <3>2
  <2>3. v \in Made /\ v.artifact = inst[g.inst].artifact
    <3>1. \A q \in Seq(Regs) : [inst[g.inst] EXCEPT !.busy = "idle", !.recorded = q] \in Made
      BY <1>1 DEF Made
    <3>2. <<>> \in Seq(Regs)
      OBVIOUS
    <3>3. v \in Made
      BY <3>1, <3>2
    <3> QED BY <1>1, <3>3 DEF Made
  <2> HIDE DEF v, c0, g, others
  <2>4. InstKept
    BY <1>1, <2>2, <2>3, OneMoves
  <2>5. batch \in Batches /\ batch.staged \in SUBSET Outcomes /\ Tail(t) \in Seq(RowIds)
    BY <1>0, BatchFields, AtHand
  <2>6. others \union {c0} \in SUBSET Outcomes
    BY <1>2, <2>5 DEF others
  <2>7. /\ batch' \in Batches /\ batch'.at = "begin" /\ batch'.todo = Tail(t)
        /\ batch'.begun = batch.begun /\ batch'.staged = others \union {c0}
        /\ batch'.displaced = batch.displaced /\ batch'.hit = batch.hit
    BY <2>1, <2>5, <2>6 DEF Batches
  <2>8. BatchRows'
    <3>1. /\ At = Head(t) /\ Pending = {At} \union ToSet(Tail(t)) /\ At \in batch.begun
          /\ batch.begun \cap Pending = {At} /\ batch.begun \union Pending = batch.hit
      BY <1>0, AtHand DEF BatchRows
    <3>2. t \in Seq(RowIds) /\ t # <<>> /\ \A x, y \in 1..Len(t) : t[x] = t[y] => x = y
      BY <1>0, BatchFields DEF BatchRows
    <3> HIDE DEF t
    <3>3. /\ Len(t) \in Nat /\ Len(t) > 0 /\ Head(t) = t[1] /\ Len(Tail(t)) = Len(t) - 1
          /\ DOMAIN Tail(t) = 1..Len(Tail(t))
          /\ \A k \in 1..Len(t) - 1 : Tail(t)[k] = t[k + 1]
      BY <3>2
    <3>4. \A x, y \in 1..Len(Tail(t)) : Tail(t)[x] = Tail(t)[y] => x = y
      BY <3>2, <3>3
    <3>5. At \notin ToSet(Tail(t))
      <4>1. \A k \in 1..Len(t) - 1 : t[k + 1] # t[1]
        BY <3>2, <3>3
      <4> QED BY <3>1, <3>3, <4>1 DEF ToSet
    <3>6. batch.begun \cap ToSet(Tail(t)) = {} /\ batch.begun \union ToSet(Tail(t)) = batch.hit
      BY <3>1, <3>5
    <3> QED BY <1>0, <2>7, <3>4, <3>6 DEF BatchRows, Running, Pending
  <2>9. \A c \in batch'.staged : \E d \in batch.staged : d.entry = c.entry /\ d.inst = c.inst
    BY <1>1, <1>2, <2>7 DEF others
  <2>10. BatchStaged'
    <3>1. IsFiniteSet(others \union {c0})
      <4>1. IsFiniteSet(others)
        BY FS_Subset DEF BatchStaged, others
      <4> QED BY <4>1, FS_AddElement
    <3>2. \A c, d \in others \union {c0} : c.entry = d.entry => c = d
      BY <1>1, <1>2 DEF BatchStaged, others
    <3>3. \A c \in batch'.staged : OwnInstance(c.entry, c.inst)' /\ inst'[c.inst].artifact = "new"
      BY <2>4, <2>9 DEF BatchStaged, OwnInstance, InstKept
    <3>4. \A d \in ToSet(batch.displaced) : OwnInstance(d.entry, d.inst)'
      BY <2>4 DEF BatchStaged, OwnInstance, InstKept
    <3>5. \A c \in batch'.staged : \E b \in batch.begun : b[1] = c.entry
      BY <2>9 DEF BatchStaged
    <3>6. \A b \in batch.begun : \E c \in others \union {c0} : c.entry = b[1]
      BY <1>0, <1>2 DEF BatchStaged, others
    <3> QED BY <2>7, <3>1, <3>2, <3>3, <3>4, <3>5, <3>6 DEF BatchStaged
  <2>11. BatchUp'
    BY <1>0, <2>7, <2>9 DEF BatchUp
  <2>12. ~Claimed /\ ~Claimed' /\ pinned' # "new"
    BY <1>0, <2>7 DEF Claimed, Wholeness
  <2>13. /\ routed' \subseteq Regs /\ inherited' \in [Entry -> SUBSET Regs] /\ pinned' \in Artifacts
         /\ phase' \in [Entry -> Seq({"Steady", "Preparing", "Tombstone"})]
    BY <1>0, <2>1 DEF SeatType
  <2> QED
    BY <1>0, <2>4, <2>7, <2>8, <2>10, <2>11, <2>12, <2>13, BatchFrame
<1> QED BY <1>3, <1>4

(* A batch that has ended keeps nothing but the rows it was about.           *)
LEMMA EndedBatch ==
    ASSUME SeatInv, batch' = [NoBatch EXCEPT !.hit = batch.hit],
           \A d \in Entry : Len(phase'[d]) = Len(phase[d])
    PROVE  /\ BatchRows' /\ BatchStaged' /\ BatchUp' /\ batch' \in Batches
           /\ batch'.at = "idle" /\ batch'.hit = batch.hit
<1> USE DEF SeatInv
<1>1. /\ batch'.at = "idle" /\ batch'.todo = <<>> /\ batch'.begun = {} /\ batch'.staged = {}
      /\ batch'.displaced = <<>> /\ batch'.hit = batch.hit
  BY DEF NoBatch
<1>2. batch' = [at |-> "idle", todo |-> <<>>, begun |-> {}, staged |-> {}, displaced |-> <<>>,
                hit |-> batch.hit]
  BY DEF NoBatch
<1>3. batch' \in Batches
  <2>1. /\ <<>> \in Seq(Displacement) /\ <<>> \in Seq(RowIds) /\ batch.hit \in SUBSET RowIds
        /\ {} \in SUBSET RowIds /\ {} \in SUBSET Outcomes
    BY BatchFields
  <2>2. /\ batch'.at = "idle" /\ batch'.todo \in Seq(RowIds) /\ batch'.begun \in SUBSET RowIds
        /\ batch'.staged \in SUBSET Outcomes /\ batch'.displaced \in Seq(Displacement)
        /\ batch'.hit \in SUBSET RowIds
    BY <1>1, <2>1
  <2>3. batch' = [at |-> batch'.at, todo |-> batch'.todo, begun |-> batch'.begun,
                  staged |-> batch'.staged, displaced |-> batch'.displaced, hit |-> batch'.hit]
    BY <1>2
  <2> QED BY <2>2, <2>3 DEF Batches
<1>4. BatchRows'
  <2>1. \A x \in batch.hit : x[1] \in Entry
    BY BatchFields
  <2> QED BY <1>1, <2>1 DEF BatchRows, Running
<1>5. BatchStaged'
  <2>1. IsFiniteSet({}) /\ ToSet(<<>>) = {}
    BY FS_EmptySet DEF ToSet
  <2> QED BY <1>1, <2>1 DEF BatchStaged
<1>6. BatchUp'
  BY <1>1 DEF BatchUp, Running
<1> QED BY <1>1, <1>3, <1>4, <1>5, <1>6

(* What was displaced is retired, then the pin moves.                        *)
LEMMA SwapRetireKeeps ==
    ASSUME SeatInv, SwapRetire \/ SwapRetarget
    PROVE  SeatInv'
<1> USE DEF SeatInv
<1>0. batch.at = "retire" /\ batch \in Batches /\ batch.displaced \in Seq(Displacement)
  BY BatchFields DEF SwapRetire, SwapRetarget
<1>1. CASE SwapRetire
  <2> DEFINE q == batch.displaced
             d == Head(q)
  <2>1. /\ q # <<>> /\ inherited' = Inherit(d.entry, d.journal) /\ inst' = Leave(d.inst)
        /\ batch' = [batch EXCEPT !.displaced = Tail(q)]
        /\ UNCHANGED <<slot, phase, life, routed, pinned>>
    BY <1>1 DEF SwapRetire
  <2>2. /\ d \in ToSet(q) /\ d \in Displacement /\ Tail(q) \in Seq(Displacement)
        /\ ToSet(Tail(q)) \subseteq ToSet(q)
    <3>1. q \in Seq(Displacement) /\ q # <<>>
      BY <1>0, <2>1
    <3> HIDE DEF q
    <3>2. Tail(q) \in Seq(Displacement) /\ Head(q) = q[1] /\ 1 \in DOMAIN q
      BY <3>1
    <3>3. \A k \in DOMAIN Tail(q) : k + 1 \in DOMAIN q /\ Tail(q)[k] = q[k + 1]
      BY <3>1
    <3> QED BY <3>1, <3>2, <3>3 DEF ToSet
  <2>3. d.entry \in Entry /\ d.inst \in Inst /\ d.journal \in SUBSET Regs /\ inst[d.inst] # NoInstance
    BY <2>2, BatchFields DEF BatchStaged, OwnInstance
  <2> HIDE DEF d
  <2>4. InstKept
    BY <2>1, <2>3, LeaveMoves
  <2>5. inherited' \in [Entry -> SUBSET Regs]
    <3>1. OfKind({"Host"}, d.journal) \in SUBSET Regs
      BY <2>3 DEF OfKind
    <3> QED BY <2>1, <2>3, <3>1 DEF Inherit, SeatType
  <2>6. /\ batch' \in Batches /\ batch'.at = "retire" /\ batch'.todo = batch.todo
        /\ batch'.begun = batch.begun /\ batch'.staged = batch.staged
        /\ batch'.displaced = Tail(q) /\ batch'.hit = batch.hit
    BY <1>0, <2>1, <2>2 DEF Batches
  <2>7. BatchRows'
    BY <2>1, <2>6 DEF BatchRows, Running
  <2>8. BatchStaged'
    <3>1. \A x \in ToSet(Tail(q)) : OwnInstance(x.entry, x.inst)'
      BY <2>2, <2>4 DEF BatchStaged, OwnInstance, InstKept
    <3> QED BY <1>0, <2>6, <3>1 DEF BatchStaged
  <2>9. BatchUp'
    BY <2>6 DEF BatchUp, Running
  <2>10. Claimed /\ Claimed' /\ pinned' # "new"
    BY <1>0, <2>1, <2>6 DEF Claimed, Wholeness
  <2>11. /\ routed' \subseteq Regs /\ pinned' \in Artifacts
         /\ phase' \in [Entry -> Seq({"Steady", "Preparing", "Tombstone"})]
    BY <2>1 DEF SeatType
  <2> QED
    BY <2>1, <2>4, <2>5, <2>6, <2>7, <2>8, <2>9, <2>10, <2>11, BatchFrame
<1>2. CASE SwapRetarget
  <2>1. /\ pinned' = "new" /\ batch' = [NoBatch EXCEPT !.hit = batch.hit]
        /\ UNCHANGED <<inst, slot, phase, life, routed, inherited>>
    BY <1>2 DEF SwapRetarget
  <2>2. BatchRows' /\ BatchStaged' /\ BatchUp' /\ batch' \in Batches /\ batch'.at = "idle" /\ batch'.hit = batch.hit
    BY <2>1, EndedBatch
  <2>3. Claimed /\ Claimed'
    BY <1>0, <2>1 DEF Claimed
  <2>4. /\ routed' \subseteq Regs /\ inherited' \in [Entry -> SUBSET Regs] /\ pinned' \in Artifacts
        /\ phase' \in [Entry -> Seq({"Steady", "Preparing", "Tombstone"})] /\ InstKept
    BY <2>1, NoneMoves DEF SeatType, Artifacts
  <2> QED BY <2>1, <2>2, <2>3, <2>4, BatchFrame
<1> QED BY <1>1, <1>2
(* The phases after a batch set some of them steady.                         *)
LEMMA RowsRedone ==
    ASSUME SeatType, NEW G,
           phase' = [d \in Entry |-> [n \in 1..Len(phase[d]) |-> IF <<d, n>> \in G THEN "Steady" ELSE phase[d][n]]],
           \A d \in Entry : \A n \in 1..Len(phase[d]) : <<d, n>> \in G => phase[d][n] # "Tombstone"
    PROVE  /\ phase' \in [Entry -> Seq({"Steady", "Preparing", "Tombstone"})]
           /\ \A d \in Entry : /\ Len(phase'[d]) = Len(phase[d])
                               /\ \A n \in 1..Len(phase[d]) :
                                     phase'[d][n] # "Tombstone" => phase[d][n] # "Tombstone"
<1> DEFINE P == {"Steady", "Preparing", "Tombstone"}
           Q(d) == [n \in 1..Len(phase[d]) |-> IF <<d, n>> \in G THEN "Steady" ELSE phase[d][n]]
<1>1. ASSUME NEW d \in Entry
      PROVE  /\ Q(d) \in Seq(P) /\ Len(Q(d)) = Len(phase[d])
             /\ \A n \in 1..Len(phase[d]) : Q(d)[n] # "Tombstone" => phase[d][n] # "Tombstone"
  <2>1. phase[d] \in Seq(P) /\ Len(phase[d]) \in Nat
    BY LifeFields
  <2>2. Q(d) \in [1..Len(phase[d]) -> P]
    BY <2>1
  <2>3. \A n \in 1..Len(phase[d]) : Q(d)[n] # "Tombstone" => phase[d][n] # "Tombstone"
    OBVIOUS
  <2> DEFINE w == Q(d)
  <2> HIDE DEF w, P
  <2>4. w \in [1..Len(phase[d]) -> P]
    BY <2>2 DEF w
  <2>5. w \in Seq(P) /\ Len(w) = Len(phase[d])
    <3>1. \A m \in Nat : w \in [1..m -> P] => w \in Seq(P) /\ Len(w) = m
      OBVIOUS
    <3> QED BY <2>1, <2>4, <3>1
  <2> QED BY <2>3, <2>5 DEF w
<1>2. phase' = [d \in Entry |-> Q(d)]
  OBVIOUS
<1> HIDE DEF Q
<1> QED BY <1>1, <1>2

(* A rollback leaves every old seat as it is.                                *)
LEMMA SwapRollbackKeeps ==
    ASSUME SeatInv, SwapRollback
    PROVE  SeatInv'
<1> USE DEF SeatInv
<1>0. /\ batch.at = "rollback" /\ batch' = [NoBatch EXCEPT !.hit = batch.hit]
      /\ routed' \subseteq routed /\ UNCHANGED <<slot, life, inherited, pinned>>
  BY DEF SwapRollback
<1>1. InstKept
  <2>1. inst' = [i \in Inst |-> IF \E c \in batch.staged : c.inst = i
                    THEN [inst[i] EXCEPT !.state = "dead"] ELSE inst[i]]
    BY DEF SwapRollback
  <2>2. \A v \in Made : /\ [v EXCEPT !.state = "dead"] \in Made
                        /\ [v EXCEPT !.state = "dead"].artifact = v.artifact
    BY DEF Made
  <2>3. \A i \in Inst : inst[i] \in {NoInstance} \union Made
    BY DEF SeatType
  <2>4. NoInstance \notin Made
    BY InstFacts
  <2>5. \A c \in batch.staged : inst[c.inst] # NoInstance
    BY DEF BatchStaged, OwnInstance
  <2>6. \A i \in Inst : /\ inst'[i] \in {NoInstance} \union Made
                        /\ inst[i] # NoInstance <=> inst'[i] # NoInstance
                        /\ inst[i] # NoInstance => inst'[i].artifact = inst[i].artifact
    BY <2>1, <2>2, <2>3, <2>4, <2>5
  <2>7. inst' \in [Inst -> {NoInstance} \union Made]
    BY <2>1, <2>6
  <2> QED BY <2>6, <2>7 DEF InstKept
<1>2. /\ phase' \in [Entry -> Seq({"Steady", "Preparing", "Tombstone"})]
      /\ \A d \in Entry : /\ Len(phase'[d]) = Len(phase[d])
                          /\ \A n \in 1..Len(phase[d]) :
                                phase'[d][n] # "Tombstone" => phase[d][n] # "Tombstone"
  <2> DEFINE G == {b \in batch.begun : phase[b[1]][b[2]] = "Preparing"}
  <2>1. phase' = [d \in Entry |-> [n \in 1..Len(phase[d]) |->
                     IF <<d, n>> \in G THEN "Steady" ELSE phase[d][n]]]
    BY DEF SwapRollback, SlotId
  <2>2. \A d \in Entry : \A n \in 1..Len(phase[d]) : <<d, n>> \in G => phase[d][n] # "Tombstone"
    OBVIOUS
  <2> HIDE DEF G
  <2> QED BY <2>1, <2>2, RowsRedone
<1>3. BatchRows' /\ BatchStaged' /\ BatchUp' /\ batch' \in Batches /\ batch'.at = "idle" /\ batch'.hit = batch.hit
  BY <1>0, <1>2, EndedBatch
<1>4. ~Claimed /\ ~Claimed' /\ pinned' # "new"
  BY <1>0, <1>3 DEF Claimed, Wholeness
<1>5. /\ routed' \subseteq Regs /\ inherited' \in [Entry -> SUBSET Regs] /\ pinned' \in Artifacts
  BY <1>0 DEF SeatType
<1> QED BY <1>0, <1>1, <1>2, <1>3, <1>4, <1>5, BatchFrame

(* The claim: every seat in one step, or none.                               *)
LEMMA SwapClaimKeeps ==
    ASSUME SeatInv, SwapClaim
    PROVE  SeatInv'
<1> USE DEF SeatInv
<1>0. /\ batch.at = "begin" /\ batch.todo = <<>> /\ Running
      /\ UNCHANGED <<life, inherited, pinned>>
  BY DEF SwapClaim, Running
<1>1. CASE ~AllPreparing
  BY <1>0, <1>1, LostAsItIs DEF SwapClaim
<1>2. CASE AllPreparing
  <2> DEFINE C == batch.staged
             D(c) == [entry |-> c.entry, inst |-> slot[c.entry].at, journal |-> Old(c)]
             J == {D(c) : c \in C}
  <2>1. /\ CommitStaged(C)
        /\ phase' = [d \in Entry |-> [n \in 1..Len(phase[d]) |->
                        IF <<d, n>> \in batch.begun THEN "Steady" ELSE phase[d][n]]]
        /\ batch' = [batch EXCEPT !.at = "retire", !.staged = {}, !.displaced = SetToSeq(J)]
    BY <1>2 DEF SwapClaim, SlotId
  <2>2. C \in SUBSET Outcomes /\ batch \in Batches /\ \A c \in C : c.entry \in Entry /\ c.inst \in Inst
    BY BatchFields
  <2>3. batch.begun = batch.hit
    <3>1. ToSet(<<>>) = {}
      BY DEF ToSet
    <3> QED BY <1>0, <3>1 DEF BatchRows, Pending
  <2>4. \A b \in batch.begun : b[1] \in Entry /\ b[2] \in 1..Len(phase[b[1]]) /\ b = <<b[1], b[2]>>
                               /\ phase[b[1]][b[2]] = "Preparing"
    BY <1>2, BatchFields DEF BatchRows, AllPreparing
  <2>5. \A c \in C : life[c.entry].at = "up"
    BY <1>0, <2>4 DEF BatchUp, BatchStaged
  <2>6. \A c \in C : slot[c.entry].at \in Inst /\ OwnInstance(c.entry, slot[c.entry].at)
    BY <2>2, <2>5 DEF Whereabouts, OwnInstance
  <2>7. /\ InstKept /\ slot' \in [Entry -> SeatRec] /\ routed' \subseteq Regs
        /\ \A c \in C : slot'[c.entry].at = c.inst /\ slot'[c.entry].journal = c.outcome
        /\ \A d \in Entry : (\A c \in C : c.entry # d) => slot'[d] = slot[d]
    <3>1. /\ \A c, d \in C : c.entry = d.entry => c = d
          /\ \A c \in C : inst[c.inst] # NoInstance
      BY DEF BatchStaged, OwnInstance
    <3> HIDE DEF C
    <3> QED BY <2>1, <2>2, <3>1, CommitSeats
  <2>8. /\ phase' \in [Entry -> Seq({"Steady", "Preparing", "Tombstone"})]
        /\ \A d \in Entry : /\ Len(phase'[d]) = Len(phase[d])
                            /\ \A n \in 1..Len(phase[d]) :
                                  phase'[d][n] # "Tombstone" => phase[d][n] # "Tombstone"
    <3>1. \A d \in Entry : \A n \in 1..Len(phase[d]) : <<d, n>> \in batch.begun => phase[d][n] # "Tombstone"
      BY <2>4
    <3> QED BY <2>1, <3>1, RowsRedone
  <2>9. SetToSeq(J) \in Seq(Displacement) /\ \A x \in ToSet(SetToSeq(J)) : OwnInstance(x.entry, x.inst)
    <3>1. \A c \in C : D(c) \in Displacement /\ OwnInstance(D(c).entry, D(c).inst)
      <4> SUFFICES ASSUME NEW c \in C PROVE D(c) \in Displacement /\ OwnInstance(D(c).entry, D(c).inst)
        OBVIOUS
      <4>1. Old(c) \in SUBSET Regs
        <5>1. slot[c.entry].journal \in Seq(Regs)
          BY <2>2, LifeFields
        <5> QED BY <5>1 DEF Old, ToSet
      <4> HIDE DEF C
      <4> QED BY <2>2, <2>6, <4>1 DEF Displacement
    <3>2. IsFiniteSet(J)
      <4> DEFINE F == [c \in C |-> D(c)]
      <4>1. F \in [C -> J] /\ \A y \in J : \E x \in C : F[x] = y
        OBVIOUS
      <4>2. IsFiniteSet(C)
        BY DEF BatchStaged
      <4> HIDE DEF C, J, F
      <4> QED BY <4>1, <4>2, FiniteImage
    <3>3. \A x \in J : x \in Displacement /\ OwnInstance(x.entry, x.inst)
      BY <3>1
    <3> HIDE DEF J
    <3>4. SetToSeq(J) \in Seq(J) /\ ToSet(SetToSeq(J)) = J
      BY <3>2, SetToSeqRange
    <3>5. J \subseteq Displacement
      BY <3>3
    <3> QED BY <3>3, <3>4, <3>5, SeqWider
  <2> DEFINE q == SetToSeq(J)
  <2>10. /\ batch' \in Batches /\ batch'.at = "retire" /\ batch'.todo = batch.todo
         /\ batch'.begun = batch.begun /\ batch'.staged = {}
         /\ batch'.displaced = q /\ batch'.hit = batch.hit
    <3> HIDE DEF q
    <3>1. batch' = [batch EXCEPT !.at = "retire", !.staged = {}, !.displaced = q] /\ q \in Seq(Displacement)
      BY <2>1, <2>9 DEF q
    <3> QED BY <2>2, <3>1 DEF Batches
  <2> HIDE DEF q, J, D, C
  <2>11. SeatType'
    BY <1>0, <2>7, <2>8, <2>10 DEF SeatType, InstKept
  <2>12. InOrderMade'
    BY <2>7, InOrderKept
  <2>13. Whereabouts'
    <3> SUFFICES ASSUME NEW d \in Entry PROVE EntryPlace(d)'
      BY DEF Whereabouts, EntryPlace
    <3>1. CASE \E c \in C : c.entry = d
      <4>1. PICK c \in C : c.entry = d
        BY <3>1
      <4>2. slot'[d].at = c.inst /\ life'[d].at = "up" /\ c.inst # Nobody
        BY <1>0, <2>2, <2>5, <2>7, <4>1, InstFacts
      <4>3. OwnInstance(d, c.inst)
        BY <4>1 DEF BatchStaged, C
      <4>4. OwnInstance(d, c.inst)'
        BY <2>7, <4>3 DEF OwnInstance, InstKept
      <4> QED BY <4>2, <4>4 DEF EntryPlace
    <3>2. CASE ~\E c \in C : c.entry = d
      <4>1. slot'[d] = slot[d] /\ life'[d] = life[d]
        BY <1>0, <2>7, <3>2
      <4> QED BY <2>7, <4>1 DEF Whereabouts, EntryPlace, OwnInstance, InstKept
    <3> QED BY <3>1, <3>2
  <2>14. LastStanding' /\ Numbered'
    BY <1>0, <2>8 DEF LastStanding, Numbered, Rostered
  <2>15. BatchRows'
    <3>1. \A x \in batch.hit : x[1] \in Entry
      BY BatchFields
    <3> QED BY <2>8, <2>10, <3>1 DEF BatchRows, Running
  <2>16. BatchStaged'
    <3>1. IsFiniteSet({})
      BY FS_EmptySet
    <3>2. \A x \in ToSet(q) : OwnInstance(x.entry, x.inst)'
      BY <2>7, <2>9 DEF OwnInstance, InstKept, q
    <3> QED BY <2>10, <3>1, <3>2 DEF BatchStaged
  <2>17. BatchUp'
    BY <2>10 DEF BatchUp, Running
  <2>18. Wholeness'
    <3>1. pinned' # "new" /\ Claimed'
      BY <1>0, <2>10 DEF Claimed, Wholeness
    <3>2. HitNew'
      <4> SUFFICES ASSUME NEW x \in batch.hit
                   PROVE  /\ life'[x[1]].at \notin {"activating", "landing"}
                          /\ slot'[x[1]].at # Nobody => inst'[slot'[x[1]].at].artifact = "new"
        BY <2>10 DEF HitNew
      <4>1. PICK c \in C : c.entry = x[1]
        BY <1>0, <2>3 DEF BatchStaged, C
      <4>2. slot'[x[1]].at = c.inst /\ life'[x[1]].at = "up" /\ c.inst \in Inst
        BY <1>0, <2>2, <2>5, <2>7, <4>1
      <4>3. OwnInstance(c.entry, c.inst) /\ inst[c.inst].artifact = "new"
        BY <4>1 DEF BatchStaged, C
      <4> QED BY <2>7, <4>2, <4>3 DEF OwnInstance, InstKept
    <3> QED BY <3>1, <3>2 DEF Wholeness
  <2> QED BY <2>11, <2>12, <2>13, <2>14, <2>15, <2>16, <2>17, <2>18
<1> QED BY <1>1, <1>2

(* Every step of the seats keeps SeatInv.                                    *)
LEMMA SeatStep ==
    ASSUME SeatInv, [SeatNext]_gvars
    PROVE  SeatInv'
<1>1. ASSUME NEW i \in Inst, Guest(i) PROVE SeatInv'
  BY <1>1, GuestSteps
<1>2. ASSUME NEW e \in Entry, Engine(e) PROVE SeatInv'
  BY <1>2, ActivateKeeps, SettleKeeps, LandKeeps, CloseKeeps, SeatEndKeeps, RestKeeps DEF Engine
<1>3. CASE Swap
  BY <1>3, SwapStartKeeps, SwapBeginKeeps, SwapPrepareKeeps, SwapSettleKeeps, SwapClaimKeeps,
     SwapRetireKeeps, SwapRollbackKeeps DEF Swap
<1>4. CASE UNCHANGED gvars
  <2>1. UNCHANGED <<inst, slot, phase, life, batch, pinned, inherited, routed>>
    BY <1>4 DEF gvars
  <2>2. InstKept /\ SlotKept /\ routed' \subseteq Regs
    BY <2>1, NoneMoves DEF SlotKept, SeatInv, SeatType
  <2> QED BY <2>1, <2>2, GuestFrame
<1> QED BY <1>1, <1>2, <1>3, <1>4 DEF SeatNext

(* A first boot has no seat.                                                 *)
LEMMA SeatStart ==
    ASSUME SeatInit
    PROVE  SeatInv
<1>1. /\ inst = [i \in Inst |-> NoInstance] /\ slot = [e \in Entry |-> EmptySlot]
      /\ phase = [e \in Entry |-> <<>>] /\ routed = {} /\ inherited = [e \in Entry |-> {}]
      /\ pinned = "old" /\ batch = NoBatch
      /\ \A e \in Entry : life[e].at \in {"down", "none"}
  BY DEF SeatInit
<1>2. life \in [Entry -> Lives]
  <2>1. [at |-> "down"] \in Lives /\ [at |-> "none"] \in Lives
    BY DEF Lives
  <2> QED BY <2>1 DEF SeatInit
<1>3. /\ batch.at = "idle" /\ batch.todo = <<>> /\ batch.begun = {} /\ batch.staged = {}
      /\ batch.displaced = <<>> /\ batch.hit = {}
  BY <1>1 DEF NoBatch
<1>4. batch \in Batches
  <2>1. /\ <<>> \in Seq(Displacement) /\ <<>> \in Seq(RowIds)
        /\ {} \in SUBSET RowIds /\ {} \in SUBSET Outcomes
    OBVIOUS
  <2>2. /\ batch.todo \in Seq(RowIds) /\ batch.begun \in SUBSET RowIds
        /\ batch.staged \in SUBSET Outcomes /\ batch.displaced \in Seq(Displacement)
        /\ batch.hit \in SUBSET RowIds
    BY <1>3, <2>1
  <2>3. batch = [at |-> batch.at, todo |-> batch.todo, begun |-> batch.begun,
                 staged |-> batch.staged, displaced |-> batch.displaced, hit |-> batch.hit]
    BY <1>1 DEF NoBatch
  <2> QED BY <1>3, <2>2, <2>3 DEF Batches
<1>5. EmptySlot \in SeatRec /\ EmptySlot.at = Nobody /\ EmptySlot.journal = <<>>
  <2>1. \A q \in Seq(Regs), m \in Inst \union {Nobody} :
            [at |-> m, journal |-> q, closing |-> FALSE, sealed |-> FALSE, ever |-> FALSE] \in SeatRec
    BY DEF SeatRec
  <2>2. <<>> \in Seq(Regs) /\ Nobody \in Inst \union {Nobody}
    OBVIOUS
  <2>3. EmptySlot \in SeatRec
    BY <2>1, <2>2 DEF EmptySlot
  <2> QED BY <2>3 DEF EmptySlot
<1>6. SeatType
  <2>1. <<>> \in Seq({"Steady", "Preparing", "Tombstone"})
    OBVIOUS
  <2> QED BY <1>1, <1>2, <1>4, <1>5, <2>1 DEF SeatType, Artifacts
<1>7. InOrderMade
  <2>1. MaxInst \in Nat /\ 0 \in 0..MaxInst
    BY SeatConstants
  <2>2. \A e \in Entry, n \in 1..MaxInst : inst[<<e, n>>] = NoInstance /\ ~(n <= 0)
    <3>1. \A e \in Entry, n \in 1..MaxInst : inst[<<e, n>>] = NoInstance
      BY <1>1, InstFacts
    <3>2. \A n \in 1..MaxInst : ~(n <= 0)
      BY <2>1
    <3> QED BY <3>1, <3>2
  <2> QED BY <2>1, <2>2 DEF InOrderMade
<1>8. Whereabouts /\ Numbered
  BY <1>1, <1>5 DEF Whereabouts, Numbered, Rostered
<1>9. LastStanding
  BY <1>1 DEF LastStanding
<1>10. BatchRows /\ BatchUp
  BY <1>3 DEF BatchRows, BatchUp, Running
<1>11. BatchStaged
  <2>1. IsFiniteSet({}) /\ ToSet(<<>>) = {}
    BY FS_EmptySet DEF ToSet
  <2> QED BY <1>3, <2>1 DEF BatchStaged
<1>12. Wholeness
  BY <1>1, <1>3, <1>5 DEF Wholeness, Claimed, AllOld
<1> QED BY <1>6, <1>7, <1>8, <1>9, <1>10, <1>11, <1>12 DEF SeatInv

(* What the invariant says of the batch's seats.                             *)
LEMMA WholeBatch == SeatInv => BatchIsWhole
<1> SUFFICES ASSUME SeatInv PROVE BatchIsWhole
  OBVIOUS
<1>1. \A x \in batch.hit : x[1] \in Entry
  BY BatchFields DEF SeatInv
<1> QED BY <1>1 DEF SeatInv, Wholeness, AllOld, HitNew, BatchIsWhole

(* A seat is installed by an activation that lands and by a claim, and by    *)
(* neither while it is being closed.                                         *)
LEMMA ClosersKeep ==
    ASSUME SeatInv, SeatNext
    PROVE  DisposalWins
<1> USE DEF SeatInv
<1>0. slot \in [Entry -> SeatRec]
  BY DEF SeatType
<1>a. \A d \in Entry : slot[d] \in SeatRec
  BY <1>0
<1>1. ASSUME NEW i \in Inst, Guest(i) PROVE DisposalWins
  <2>1. UNCHANGED slot \/ \E q : slot' = [slot EXCEPT ![i[1]].journal = q]
    <3>1. ASSUME NEW v, CommitLate(i, v) PROVE UNCHANGED slot \/ \E q : slot' = [slot EXCEPT ![i[1]].journal = q]
      BY <3>1 DEF CommitLate
    <3> QED BY <1>1, <3>1 DEF Guest, StartEntry, EndEntry, Die, Flip, Register, Replay
  <2>2. ASSUME NEW q, slot' = [slot EXCEPT ![i[1]].journal = q], NEW e \in Entry
        PROVE  slot'[e].at = slot[e].at
    <3>1. [slot[e] EXCEPT !.journal = q].at = slot[e].at
      BY <1>a DEF SeatRec
    <3>2. slot'[e] = IF e = i[1] THEN [slot[e] EXCEPT !.journal = q] ELSE slot[e]
      BY <1>0, <2>2
    <3> QED BY <3>1, <3>2
  <2>3. \A e \in Entry : slot'[e].at = slot[e].at
    BY <2>1, <2>2
  <2> QED BY <2>3 DEF DisposalWins
<1>2. ASSUME NEW e \in Entry, Engine(e) PROVE DisposalWins
  <2>1. CASE Land(e)
    <3>1. life[e].at = "landing"
      BY <2>1 DEF Land
    <3>2. ASSUME NEW d \in Entry \ {e} PROVE slot'[d] = slot[d]
      <4> DEFINE c == life[e].c
      <4>1. c.entry = e
        BY <3>1 DEF Whereabouts
      <4>2. CASE life[e].commit
        <5>1. CommitStaged({c})
          BY <2>1, <4>2 DEF Land
        <5> HIDE DEF c
        <5>2. d \notin {x.entry : x \in {c}}
          BY <4>1
        <5> QED BY <5>1, <5>2 DEF CommitStaged
      <4>3. CASE ~life[e].commit
        <5>1. slot' = [slot EXCEPT ![e].at = c.inst, ![e].journal = c.outcome, ![e].ever = TRUE]
          BY <2>1, <4>3 DEF Land
        <5> HIDE DEF c
        <5> QED BY <1>0, <5>1
      <4> QED BY <4>2, <4>3
    <3> QED BY <3>1, <3>2 DEF DisposalWins
  <2>2. ASSUME NEW s, slot' = [slot EXCEPT ![e] = s], s.at \in {slot[e].at, Nobody}
        PROVE  DisposalWins
    BY <1>0, <2>2 DEF DisposalWins
  <2>3. CASE Activate(e)
    <3> DEFINE s == [slot[e] EXCEPT !.closing = FALSE, !.sealed = FALSE]
    <3>1. slot' = [slot EXCEPT ![e] = s]
      BY <2>3 DEF Activate
    <3>2. s.at = slot[e].at
      BY <1>a DEF SeatRec
    <3> HIDE DEF s
    <3> QED BY <2>2, <3>1, <3>2
  <2>4. ASSUME NEW how, Close(e, how) PROVE DisposalWins
    <3> DEFINE s == [slot[e] EXCEPT !.closing = TRUE]
    <3>1. slot' = [slot EXCEPT ![e] = s]
      BY <2>4 DEF Close
    <3>2. s.at = slot[e].at
      BY <1>a DEF SeatRec
    <3> HIDE DEF s
    <3> QED BY <2>2, <3>1, <3>2
  <2>5. CASE RetireSeat(e) \/ SuspendSeat(e)
    <3> DEFINE s == [slot[e] EXCEPT !.sealed = TRUE, !.at = Nobody, !.journal = <<>>]
    <3>1. slot' = [slot EXCEPT ![e] = s]
      BY <2>5 DEF RetireSeat, SuspendSeat, Taken
    <3>2. s.at = Nobody
      BY <1>a DEF SeatRec
    <3> HIDE DEF s
    <3> QED BY <2>2, <3>1, <3>2
  <2>6. CASE DisposeResting(e) \/ WithdrawJournal(e) \/ EndTombstones(e) \/ \E ok \in BOOLEAN : Settle(e, ok)
    <3>1. UNCHANGED slot
      BY <2>6 DEF DisposeResting, WithdrawJournal, EndTombstones, Settle
    <3> QED BY <3>1 DEF DisposalWins
  <2> QED BY <1>2, <2>1, <2>3, <2>4, <2>5, <2>6 DEF Engine
<1>3. CASE Swap
  <2>1. CASE SwapClaim /\ AllPreparing
    <3>1. CommitStaged(batch.staged) /\ batch.at = "begin"
      BY <2>1 DEF SwapClaim
    <3>2. \A c \in batch.staged : life[c.entry].at = "up"
      <4>1. \A c \in batch.staged : \E b \in batch.begun : b[1] = c.entry /\ phase[b[1]][b[2]] = "Preparing"
        BY <2>1 DEF AllPreparing, BatchStaged
      <4> QED BY <3>1, <4>1 DEF BatchUp, Running
    <3>3. \A d \in Entry : (\A c \in batch.staged : c.entry # d) => slot'[d] = slot[d]
      BY <3>1 DEF CommitStaged
    <3> QED BY <3>2, <3>3 DEF DisposalWins
  <2>2. CASE ~(SwapClaim /\ AllPreparing)
    <3>1. UNCHANGED slot
      BY <1>3, <2>2 DEF Swap, SwapStart, SwapBegin, SwapPrepare, SwapSettle, SwapClaim, SwapRetire,
         SwapRetarget, SwapRollback
    <3> QED BY <3>1 DEF DisposalWins
  <2> QED BY <2>1, <2>2
<1> QED BY <1>1, <1>2, <1>3 DEF SeatNext

(* SeatInv holds in every state.                                             *)
LEMMA SeatsHold == Spec => []SeatInv
<1>1. Init => SeatInv
  BY SeatStart DEF Init
<1>2. SeatInv /\ [Next]_<<part, svars, gvars, rvars, fsvars, ksvars, cvars>> => SeatInv'
  BY SeatStep DEF Next
<1> QED BY <1>1, <1>2, PTL DEF Spec

(* A batch is never partly committed, whatever is disposed, restarted or     *)
(* dies meanwhile, and never takes a seat from under the hands of its closer *)
(* (SwapCore::begin, SwapCore::commit_all_with, SeatClosing::close): for     *)
(* every number of entries and of instances, and every story.                *)
THEOREM BatchesAreWhole == Spec => SwapIsWhole
<1>1. SeatInv /\ [Next]_<<part, svars, gvars, rvars, fsvars, ksvars, cvars>> => [DisposalWins]_gvars
  <2> SUFFICES ASSUME SeatInv, [Next]_<<part, svars, gvars, rvars, fsvars, ksvars, cvars>>
               PROVE  [DisposalWins]_gvars
    OBVIOUS
  <2>1. SeatNext \/ UNCHANGED gvars
    BY DEF Next
  <2> QED BY <2>1, ClosersKeep
<1>2. SeatInv => BatchIsWhole
  BY WholeBatch
<1> QED BY <1>1, <1>2, SeatsHold, PTL DEF Spec, SwapIsWhole
-----------------------------------------------------------------------------
(* Whatever is in force has somebody who withdraws it. *)

(* The range of a sequence and one more.                                     *)
LEMMA AppendRange ==
    ASSUME NEW L, NEW s \in Seq(L), NEW x \in L
    PROVE  ToSet(Append(s, x)) = ToSet(s) \union {x}
<1> DEFINE u == Append(s, x)
<1>1. /\ Len(s) \in Nat /\ DOMAIN s = 1..Len(s) /\ DOMAIN u = 1..(Len(s) + 1)
      /\ \A k \in 1..Len(s) : u[k] = s[k]
      /\ u[Len(s) + 1] = x
  OBVIOUS
<1> HIDE DEF u
<1>2. \A k \in DOMAIN u : u[k] \in ToSet(s) \union {x}
  BY <1>1 DEF ToSet
<1>3. \A k \in DOMAIN s : k \in DOMAIN u /\ u[k] = s[k]
  BY <1>1
<1>4. Len(s) + 1 \in DOMAIN u
  BY <1>1
<1> QED BY <1>1, <1>2, <1>3, <1>4 DEF ToSet, u

(* A step of one instance: what it lets go of joins the journal or strays.   *)
LEMMA GuestHeld ==
    ASSUME SeatInv, HeldInv, NEW i \in Inst, inst[i] # NoInstance, NEW v, inst' = [inst EXCEPT ![i] = v],
           v.staging = inst[i].staging, v # NoInstance, \A r \in ToSet(v.recorded) : r.entry = i[1],
           \A d \in Entry : Journal(d) \subseteq Journal(d)' /\ \A r \in Journal(d)' : r.entry = d,
           UNCHANGED <<life, inherited, batch, swapped>>,
           \A r \in stray \ stray' : r.entry = i[1] /\ r \in Journal(i[1])',
           \A r : AtWork(i, r) => AtWork(i, r)' \/ r \in stray' \/ r \in Journal(i[1])',
           \A r \in routed' \ routed :
               r.entry = i[1] /\ (AtWork(i, r)' \/ r \in stray' \/ r \in Journal(i[1])')
    PROVE  HeldInv'
<1> USE DEF HeldInv
<1>0. i[1] \in Entry
  BY InstFacts
<1>1. inst'[i] = v /\ \A j \in Inst \ {i} : inst'[j] = inst[j]
  BY DEF SeatInv, SeatType
<1>2. OwnRegs'
  <2>1. \A j \in Inst : inst'[j] # NoInstance => \A r \in ToSet(inst'[j].recorded) : r.entry = j[1]
    BY <1>1 DEF OwnRegs
  <2> QED BY <2>1 DEF OwnRegs
<1>3. StillStaging'
  BY <1>1, BatchFields DEF StillStaging, SeatInv
<1>4. Rest'
  BY DEF Rest
<1>5. Accounted'
  <2> SUFFICES ASSUME NEW e \in Entry \ swapped, NEW r \in Of(e, routed') PROVE Held(e, r)'
    BY DEF Accounted, Of
  <2>0. r.entry = e /\ r \in routed'
    BY DEF Of
  <2>1. CASE r \notin routed
    BY <1>0, <2>0, <2>1 DEF Held
  <2>2. CASE r \in routed
    <3>1. Held(e, r)
      BY <2>0, <2>2 DEF Accounted, Of
    <3>2. CASE r \in stray
      BY <2>0, <3>2 DEF Held
    <3>3. CASE r \in Journal(e)
      BY <3>3 DEF Held
    <3>4. CASE r \in inherited[e]
      BY <3>4 DEF Held
    <3>5. CASE life[e].at = "landing" /\ r \in ToSet(life[e].c.outcome)
      BY <3>5 DEF Held
    <3>6. CASE \E j \in Inst : AtWork(j, r)
      <4>1. PICK j \in Inst : AtWork(j, r)
        BY <3>6
      <4>2. CASE j = i
        <5>1. r.entry = i[1]
          BY <4>1, <4>2 DEF AtWork, OwnRegs
        <5> QED BY <2>0, <4>1, <4>2, <5>1 DEF Held
      <4>3. CASE j # i
        <5>1. inst'[j] = inst[j]
          BY <1>1, <4>3
        <5>2. AtWork(j, r)'
          BY <4>1, <5>1 DEF AtWork, Alive
        <5> QED BY <5>2 DEF Held
      <4> QED BY <4>2, <4>3
    <3>7. CASE r.kind \in World /\ \E c \in batch.staged : r \in ToSet(c.outcome)
      BY <3>7 DEF Held
    <3> QED BY <3>1, <3>2, <3>3, <3>4, <3>5, <3>6, <3>7 DEF Held
  <2> QED BY <2>1, <2>2
<1>6. Blank'
  BY DEF Blank, At
<1> QED BY <1>2, <1>3, <1>4, <1>5, <1>6

(* What a late handler registered is journaled, or is a stray.               *)
LEMMA CommitLateHeld ==
    ASSUME SeatInv, HeldInv, NEW i \in Inst, inst[i] # NoInstance, NEW v \in Made,
           v.recorded = inst[i].recorded, v.staging = inst[i].staging, v.busy = "idle",
           CommitLate(i, v), UNCHANGED <<life, inherited, batch, swapped>>
    PROVE  HeldInv'
<1> DEFINE e == i[1]
           late == inst[i].recorded
           handed == late # <<>> /\ ~inst[i].staging
           lands == handed /\ inst[i].seated /\ slot[e].at # Nobody
           w == [v EXCEPT !.recorded = IF lands THEN <<>> ELSE @]
<1>0. e \in Entry /\ inst[i] \in Made /\ late \in Seq(Regs) /\ \A r \in ToSet(late) : r.entry = e
  <2>1. inst[i] \in Made
    BY MadeFields DEF SeatInv
  <2> QED BY <2>1, InstFacts DEF Made, HeldInv, OwnRegs
<1>1. /\ inst' = [inst EXCEPT ![i] = w]
      /\ slot' = IF lands THEN [slot EXCEPT ![e].journal = @ \o late] ELSE slot
      /\ routed' \subseteq routed \union ToSet(late)
      /\ stray' = IF lands THEN stray \ ToSet(late) ELSE stray \union ToSet(late)
  BY DEF CommitLate, OfKind
<1>2. w \in Made /\ w.staging = v.staging /\ w.busy = "idle" /\ ToSet(w.recorded) \subseteq ToSet(late)
  <2>1. \A q \in Seq(Regs) : /\ [v EXCEPT !.recorded = q] \in Made
                             /\ [v EXCEPT !.recorded = q].staging = v.staging
                             /\ [v EXCEPT !.recorded = q].busy = v.busy
                             /\ [v EXCEPT !.recorded = q].recorded = q
    BY DEF Made
  <2> DEFINE q0 == IF lands THEN <<>> ELSE v.recorded
  <2>2. q0 \in Seq(Regs)
    BY <1>0
  <2>3. ToSet(q0) \subseteq ToSet(late)
    BY DEF ToSet
  <2>4. w = [v EXCEPT !.recorded = q0]
    OBVIOUS
  <2> HIDE DEF q0, w
  <2> QED BY <2>1, <2>2, <2>3, <2>4
<1> HIDE DEF w
<1>3. /\ \A d \in Entry \ {e} : slot'[d] = slot[d]
      /\ ToSet(slot'[e].journal) = IF lands THEN ToSet(slot[e].journal) \union ToSet(late)
                                   ELSE ToSet(slot[e].journal)
  <2>1. slot \in [Entry -> SeatRec] /\ slot[e] \in SeatRec /\ slot[e].journal \in Seq(Regs)
    BY <1>0, LifeFields DEF SeatInv, SeatType
  <2>2. CASE ~lands
    BY <1>1, <2>2
  <2>3. CASE lands
    <3> DEFINE q == slot[e].journal \o late
    <3>1. q \in Seq(Regs) /\ ToSet(q) = ToSet(slot[e].journal) \union ToSet(late)
      <4> HIDE DEF late
      <4> QED BY <1>0, <2>1, ConcatRange
    <3>2. slot' = [slot EXCEPT ![e].journal = q]
      BY <1>1, <2>3
    <3> HIDE DEF q, late, lands
    <3>3. [slot[e] EXCEPT !.journal = q].journal = q
      BY <2>1 DEF SeatRec
    <3>4. slot'[e] = [slot[e] EXCEPT !.journal = q] /\ \A d \in Entry \ {e} : slot'[d] = slot[d]
      BY <1>0, <2>1, <3>2
    <3> QED BY <2>3, <3>1, <3>3, <3>4
  <2> QED BY <2>2, <2>3
<1>4. \A d \in Entry : Journal(d) \subseteq Journal(d)' /\ \A r \in Journal(d)' : r.entry = d
  BY <1>0, <1>3 DEF HeldInv, OwnRegs, Journal
<1>5. \A r \in ToSet(late) : r \in stray' \/ r \in Journal(e)'
  BY <1>1, <1>3 DEF Journal
<1>6. \A r \in stray \ stray' : r.entry = e /\ r \in Journal(e)'
  BY <1>0, <1>1, <1>5
<1>7. \A r : AtWork(i, r) => r \in ToSet(late)
  BY DEF AtWork
<1>8. w # NoInstance /\ w.staging = inst[i].staging /\ \A r \in ToSet(w.recorded) : r.entry = e
  BY <1>0, <1>2, InstFacts
<1> HIDE DEF lands, handed, late
<1> QED
  BY <1>0, <1>1, <1>4, <1>5, <1>6, <1>7, <1>8, GuestHeld

(* Every step of a guest leaves what is in force in hand.                    *)
LEMMA GuestKeepsHeld ==
    ASSUME SeatInv, HeldInv, NEW i \in Inst, Guest(i)
    PROVE  HeldInv'
<1>a. Alive(i) => inst[i] \in Made /\ inst[i] # NoInstance
  BY AliveMade DEF SeatInv
<1>b. UNCHANGED slot => \A d \in Entry : Journal(d) \subseteq Journal(d)' /\ \A r \in Journal(d)' : r.entry = d
  BY DEF HeldInv, OwnRegs, Journal
<1>c. Alive(i) => inst[i].recorded \in Seq(Regs) /\ \A r \in ToSet(inst[i].recorded) : r.entry = i[1]
  BY <1>a DEF Made, HeldInv, OwnRegs
<1>1. CASE StartEntry(i)
  <2> DEFINE v == [inst[i] EXCEPT !.busy = "entry"]
  <2>1. Alive(i) /\ inst[i].busy = "idle" /\ UNCHANGED <<slot, routed, stray, swapped, life, inherited, batch>>
    BY <1>1 DEF StartEntry, InstIdle, seatVars
  <2>2. inst' = [inst EXCEPT ![i] = v]
    BY <1>1 DEF StartEntry
  <2>3. v \in Made /\ v.staging = inst[i].staging /\ v.recorded = inst[i].recorded
    BY <1>a, <2>1 DEF Made
  <2>4. \A r : ~AtWork(i, r)
    BY <2>1 DEF AtWork
  <2>5. v # NoInstance
    BY <2>3, InstFacts
  <2> HIDE DEF v
  <2> QED BY <1>a, <1>b, <1>c, <2>1, <2>2, <2>3, <2>4, <2>5, GuestHeld
<1>2. CASE EndEntry(i)
  <2> DEFINE v == [inst[i] EXCEPT !.busy = "idle"]
  <2>1. Alive(i) /\ UNCHANGED <<life, inherited, batch, swapped>> /\ CommitLate(i, v)
    BY <1>2 DEF EndEntry, seatVars
  <2>2. v \in Made /\ v.recorded = inst[i].recorded /\ v.staging = inst[i].staging /\ v.busy = "idle"
    BY <1>a, <2>1 DEF Made
  <2> HIDE DEF v
  <2> QED BY <1>a, <2>1, <2>2, CommitLateHeld
<1>3. CASE Die(i)
  <2> DEFINE v == [inst[i] EXCEPT !.state = "dead", !.busy = "idle"]
  <2>1. Alive(i) /\ UNCHANGED <<life, inherited, batch, swapped>> /\ CommitLate(i, v)
    BY <1>3 DEF Die, seatVars
  <2>2. v \in Made /\ v.recorded = inst[i].recorded /\ v.staging = inst[i].staging /\ v.busy = "idle"
    BY <1>a, <2>1 DEF Made
  <2> HIDE DEF v
  <2> QED BY <1>a, <2>1, <2>2, CommitLateHeld
<1>4. CASE Flip(i)
  <2> DEFINE v == [inst[i] EXCEPT !.flip = FALSE]
  <2>1. Alive(i) /\ UNCHANGED <<life, inherited, batch, swapped>> /\ CommitLate(i, v) /\ inst[i].busy = "idle"
    BY <1>4 DEF Flip, seatVars
  <2>2. v \in Made /\ v.recorded = inst[i].recorded /\ v.staging = inst[i].staging /\ v.busy = "idle"
    BY <1>a, <2>1 DEF Made
  <2> HIDE DEF v
  <2> QED BY <1>a, <2>1, <2>2, CommitLateHeld
<1>5. ASSUME NEW k \in Kind, Register(i, k) PROVE HeldInv'
  <2> DEFINE r == IF k = "Provision" THEN ProvisionOf(i[1]) ELSE Reg(k, i, inst[i].made + 1)
             q == Append(inst[i].recorded, r)
             v == [inst[i] EXCEPT !.recorded = q, !.made = @ + 1]
  <2>1. /\ Alive(i) /\ inst[i].busy # "idle"
        /\ UNCHANGED <<slot, stray, swapped, life, inherited, batch>>
    BY <1>5 DEF Register, seatVars
  <2>2. inst' = [inst EXCEPT ![i] = v] /\ routed' = routed \union InForce(i, r)
    BY <1>5 DEF Register
  <2>3. inst[i].made \in Nat
    BY <1>a, <2>1 DEF Made
  <2>4. r \in Regs /\ r.entry = i[1] /\ r.kind = k
    BY <2>3, RegFacts, InstFacts
  <2> HIDE DEF r
  <2>5. q \in Seq(Regs) /\ ToSet(q) = ToSet(inst[i].recorded) \union {r}
    BY <1>c, <2>1, <2>4, AppendRange
  <2> HIDE DEF q
  <2>6. v \in Made /\ v.staging = inst[i].staging /\ v.recorded = q /\ v.busy = inst[i].busy
        /\ v.state = inst[i].state
    <3>1. inst[i].made + 1 \in Nat
      BY <2>3
    <3>2. \A m \in Nat : [inst[i] EXCEPT !.recorded = q, !.made = m] \in Made
      BY <1>a, <2>1, <2>5 DEF Made
    <3>3. v \in Made
      BY <3>1, <3>2
    <3> QED BY <1>a, <2>1, <3>3 DEF Made
  <2>7. v # NoInstance
    BY <2>6, InstFacts
  <2> HIDE DEF v
  <2>8. inst'[i] = v
    BY <2>2 DEF SeatInv, SeatType
  <2>9. \A x : AtWork(i, x) => AtWork(i, x)'
    BY <2>5, <2>6, <2>8 DEF AtWork, Alive
  <2>10. \A x \in routed' \ routed : x.entry = i[1] /\ AtWork(i, x)'
    <3>1. \A x \in routed' \ routed : x = r /\ x \in InForce(i, r)
      BY <2>2 DEF InForce
    <3>2. r \in InForce(i, r) => (inst[i].staging => r.kind \in World)
      BY <2>4 DEF InForce, Kind, Routable, World
    <3>3. ASSUME NEW x, x = r, r \in InForce(i, r) PROVE AtWork(i, x)'
      BY <2>1, <2>5, <2>6, <2>8, <3>2, <3>3 DEF AtWork, Alive
    <3> QED BY <2>4, <3>1, <3>3
  <2>11. \A x \in ToSet(v.recorded) : x.entry = i[1]
    BY <1>c, <2>1, <2>4, <2>5, <2>6
  <2> QED BY <1>a, <1>b, <2>1, <2>2, <2>6, <2>7, <2>9, <2>10, <2>11, GuestHeld
<1>6. ASSUME NEW r \in routed, Replay(i, r) PROVE HeldInv'
  <2> DEFINE q == Append(inst[i].recorded, r)
             v == [inst[i] EXCEPT !.recorded = q]
  <2>1. /\ Alive(i) /\ inst[i].busy # "idle" /\ r \in inherited[i[1]]
        /\ UNCHANGED <<slot, routed, stray, swapped, life, inherited, batch>>
    BY <1>6 DEF Replay, seatVars
  <2>2. inst' = [inst EXCEPT ![i] = v]
    BY <1>6 DEF Replay
  <2>3. r \in Regs /\ r.entry = i[1]
    BY <2>1, InstFacts DEF SeatInv, SeatType, HeldInv, OwnRegs
  <2>4. q \in Seq(Regs) /\ ToSet(q) = ToSet(inst[i].recorded) \union {r}
    BY <1>c, <2>1, <2>3, AppendRange
  <2> HIDE DEF q
  <2>5. v \in Made /\ v.staging = inst[i].staging /\ v.recorded = q /\ v.busy = inst[i].busy
        /\ v.state = inst[i].state
    BY <1>a, <2>1, <2>4 DEF Made
  <2>6. v # NoInstance
    BY <2>5, InstFacts
  <2> HIDE DEF v
  <2>7. inst'[i] = v
    BY <2>2 DEF SeatInv, SeatType
  <2>8. \A x : AtWork(i, x) => AtWork(i, x)'
    BY <2>4, <2>5, <2>7 DEF AtWork, Alive
  <2>9. \A x \in ToSet(v.recorded) : x.entry = i[1]
    BY <1>c, <2>1, <2>3, <2>4, <2>5
  <2> QED BY <1>a, <1>b, <2>1, <2>2, <2>5, <2>6, <2>8, <2>9, GuestHeld
<1> QED BY <1>1, <1>2, <1>3, <1>4, <1>5, <1>6 DEF Guest
(* A step about one entry: what its seat, its journal and its instances let  *)
(* go of has another holder, or is no longer in force.                       *)
LEMMA EngineHeld ==
    ASSUME SeatInv, HeldInv, NEW e \in Entry, UNCHANGED <<batch, stray, swapped>>,
           \A d \in Entry \ {e} : slot'[d] = slot[d] /\ life'[d] = life[d] /\ inherited'[d] = inherited[d],
           \A r \in routed' \ routed : r.entry = e,
           \A i \in Inst : i[1] # e => inst'[i] = inst[i],
           \A i \in Inst : inst'[i] # NoInstance => \A r \in ToSet(inst'[i].recorded) : r.entry = i[1],
           \A c \in batch.staged : inst'[c.inst].staging,
           \A r \in Journal(e)' : r.entry = e, \A r \in inherited'[e] : r.entry = e,
           life'[e].at = "landing" => \A r \in ToSet(life'[e].c.outcome) : r.entry = e,
           life'[e].at = "gone" => inherited'[e] = {} \/ (life[e].at = "gone" /\ inherited'[e] = inherited[e]),
           \A r \in routed' :
               /\ r.entry = e
               /\ \/ r \notin routed \/ r \in Journal(e) \/ r \in inherited[e]
                  \/ life[e].at = "landing" /\ r \in ToSet(life[e].c.outcome)
                  \/ \E i \in Inst : i[1] = e /\ AtWork(i, r)
               => Held(e, r)'
    PROVE  HeldInv'
<1> USE DEF HeldInv
<1>1. OwnRegs'
  <2>1. \A d \in Entry \ {e} : Journal(d)' = Journal(d)
    BY DEF Journal
  <2> QED BY <2>1 DEF OwnRegs
<1>2. StillStaging'
  BY DEF StillStaging
<1>3. Rest'
  BY DEF Rest
<1>4. Accounted'
  <2> SUFFICES ASSUME NEW d \in Entry \ swapped, NEW r \in Of(d, routed') PROVE Held(d, r)'
    BY DEF Accounted, Of
  <2>0. r.entry = d /\ r \in routed'
    BY DEF Of
  <2>1. CASE r \notin routed
    BY <2>0, <2>1
  <2>2. CASE r \in routed
    <3>1. Held(d, r)
      BY <2>0, <2>2 DEF Accounted, Of
    <3>2. CASE r \in stray
      BY <3>2 DEF Held
    <3>3. CASE r.kind \in World /\ \E c \in batch.staged : r \in ToSet(c.outcome)
      BY <3>3 DEF Held
    <3>4. \A i \in Inst : AtWork(i, r) => i[1] = d
      <4>1. \A i \in Inst : AtWork(i, r) => r \in ToSet(inst[i].recorded) /\ inst[i] # NoInstance
        BY AliveMade DEF AtWork, SeatInv
      <4> QED BY <2>0, <4>1 DEF OwnRegs
    <3>5. CASE d = e /\ ~(r \in stray) /\ ~(r.kind \in World /\ \E c \in batch.staged : r \in ToSet(c.outcome))
      BY <2>0, <3>1, <3>4, <3>5 DEF Held
    <3>6. CASE d # e /\ ~(r \in stray) /\ ~(r.kind \in World /\ \E c \in batch.staged : r \in ToSet(c.outcome))
      <4>1. Journal(d)' = Journal(d) /\ life'[d] = life[d] /\ inherited'[d] = inherited[d]
        BY <3>6 DEF Journal
      <4>2. \A i \in Inst : AtWork(i, r) => AtWork(i, r)'
        BY <3>4, <3>6 DEF AtWork, Alive
      <4> QED BY <3>1, <3>6, <4>1, <4>2 DEF Held
    <3> QED BY <3>2, <3>3, <3>5, <3>6
  <2> QED BY <2>1, <2>2
<1>5. Blank'
  BY DEF Blank, At
<1> QED BY <1>1, <1>2, <1>3, <1>4, <1>5

(* The steps that move nothing but the life of an entry.                     *)
LEMMA RestHeld ==
    ASSUME SeatInv, HeldInv, NEW e \in Entry,
           \/ DisposeResting(e) \/ WithdrawJournal(e) \/ EndTombstones(e)
           \/ \E how \in {"suspend", "dispose", "fail"} : Close(e, how)
    PROVE  HeldInv'
<1>0. slot \in [Entry -> SeatRec] /\ life \in [Entry -> Lives] /\ inherited \in [Entry -> SUBSET Regs]
  BY DEF SeatInv, SeatType
<1>1. /\ UNCHANGED <<batch, stray, swapped, inst>> /\ routed' \subseteq routed
      /\ \A d \in Entry : Journal(d)' = Journal(d)
      /\ \A d \in Entry \ {e} : slot'[d] = slot[d] /\ life'[d] = life[d] /\ inherited'[d] = inherited[d]
  <2>1. CASE DisposeResting(e) \/ WithdrawJournal(e) \/ EndTombstones(e)
    BY <1>0, <2>1 DEF DisposeResting, WithdrawJournal, EndTombstones, seatVars, Journal
  <2>2. ASSUME NEW how \in {"suspend", "dispose", "fail"}, Close(e, how)
        PROVE  /\ UNCHANGED <<batch, stray, swapped, inst>> /\ routed' \subseteq routed
               /\ \A d \in Entry : Journal(d)' = Journal(d)
               /\ \A d \in Entry \ {e} : slot'[d] = slot[d] /\ life'[d] = life[d] /\ inherited'[d] = inherited[d]
    <3> DEFINE s == [slot[e] EXCEPT !.closing = TRUE]
    <3>1. /\ slot' = [slot EXCEPT ![e] = s]
          /\ UNCHANGED <<batch, stray, swapped, inst, routed, inherited>>
          /\ \A d \in Entry \ {e} : life'[d] = life[d]
      BY <1>0, <2>2 DEF Close
    <3>2. s.journal = slot[e].journal
      BY <1>0 DEF SeatRec
    <3> HIDE DEF s
    <3> QED BY <1>0, <3>1, <3>2 DEF Journal
  <2> QED BY <2>1, <2>2
<1>2. /\ life'[e].at = "landing" => life'[e] = life[e]
      /\ life'[e].at = "gone" => inherited'[e] = {} \/ (life[e].at = "gone" /\ inherited'[e] = inherited[e])
      /\ life[e].at = "landing" => life'[e] = life[e]
      /\ inherited'[e] \subseteq inherited[e]
      /\ \A r \in routed' : r \in inherited[e] => r \in inherited'[e]
  <2> DEFINE G == /\ life'[e].at = "landing" => life'[e] = life[e]
                  /\ life'[e].at = "gone" =>
                        inherited'[e] = {} \/ (life[e].at = "gone" /\ inherited'[e] = inherited[e])
                  /\ life[e].at = "landing" => life'[e] = life[e]
                  /\ inherited'[e] \subseteq inherited[e]
                  /\ \A r \in routed' : r \in inherited[e] => r \in inherited'[e]
  <2>1. CASE DisposeResting(e)
    <3>1. life'[e].at = "journal" /\ life[e].at # "landing" /\ inherited' = inherited
      BY <1>0, <2>1 DEF DisposeResting
    <3> QED BY <3>1
  <2>2. CASE WithdrawJournal(e)
    <3>1. life'[e].at = "gone" /\ life[e].at # "landing" /\ inherited'[e] = {}
      BY <1>0, <2>2 DEF WithdrawJournal
    <3>2. \A r \in routed' : r \notin inherited[e]
      BY <2>2 DEF WithdrawJournal
    <3>3. inherited'[e] \subseteq inherited[e]
      BY <3>1
    <3>4. life'[e].at # "landing" /\ life[e].at # "landing" /\ inherited'[e] = {}
      BY <3>1
    <3>5. \A r \in routed' : r \in inherited[e] => r \in inherited'[e]
      BY <3>2
    <3>6. life'[e].at = "landing" => life'[e] = life[e]
      BY <3>4
    <3>7. life[e].at = "landing" => life'[e] = life[e]
      BY <3>4
    <3> QED BY <3>3, <3>4, <3>5, <3>6, <3>7
  <2>3. CASE EndTombstones(e)
    BY <2>3 DEF EndTombstones, seatVars
  <2>4. ASSUME NEW how, Close(e, how) PROVE G
    <3>1. life'[e].at = "draining" /\ life[e].at = "up" /\ inherited' = inherited
      BY <1>0, <2>4 DEF Close
    <3> QED BY <3>1
  <2> QED BY <2>1, <2>2, <2>3, <2>4
<1>3. \A i \in Inst : \A r : AtWork(i, r) => AtWork(i, r)'
  BY <1>1 DEF AtWork, Alive
<1>4. \A r \in routed' :
          /\ r.entry = e
          /\ \/ r \notin routed \/ r \in Journal(e) \/ r \in inherited[e]
             \/ life[e].at = "landing" /\ r \in ToSet(life[e].c.outcome)
             \/ \E i \in Inst : i[1] = e /\ AtWork(i, r)
          => Held(e, r)'
  BY <1>1, <1>2, <1>3 DEF Held
<1>5. /\ \A r \in Journal(e)' : r.entry = e
      /\ \A r \in inherited'[e] : r.entry = e
      /\ life'[e].at = "landing" => \A r \in ToSet(life'[e].c.outcome) : r.entry = e
      /\ \A i \in Inst : inst'[i] # NoInstance => \A r \in ToSet(inst'[i].recorded) : r.entry = i[1]
      /\ \A c \in batch.staged : inst'[c.inst].staging
  BY <1>1, <1>2 DEF HeldInv, OwnRegs, StillStaging
<1> QED BY <1>1, <1>2, <1>4, <1>5, EngineHeld

(* A seat that is emptied: its instance is at rest, what was in its journal  *)
(* is withdrawn or the entry's.                                              *)
LEMMA EmptyHeld ==
    ASSUME SeatInv, HeldInv, NEW e \in Entry, RetireSeat(e) \/ SuspendSeat(e)
    PROVE  HeldInv'
<1>0. slot \in [Entry -> SeatRec] /\ life \in [Entry -> Lives] /\ inherited \in [Entry -> SUBSET Regs]
  BY DEF SeatInv, SeatType
<1>1. /\ life[e].at = "draining" /\ Drained(e) /\ slot' = Taken(e) /\ inst' = Leave(slot[e].at)
      /\ routed' \subseteq routed /\ UNCHANGED <<batch, stray, swapped>>
      /\ \E a \in {"failed", "journal", "down"} : life' = [life EXCEPT ![e] = [at |-> a]]
  BY DEF RetireSeat, SuspendSeat
<1> DEFINE i == slot[e].at
           v == [inst[i] EXCEPT !.state = "dead"]
<1>2. i \in Inst /\ i[1] = e /\ inst[i] # NoInstance /\ inst[i] \in Made
  <2>1. OwnInstance(e, i)
    BY <1>1 DEF SeatInv, Whereabouts
  <2> QED BY <2>1, MadeFields DEF OwnInstance, SeatInv
<1>3. v \in Made /\ v.recorded = inst[i].recorded /\ v.staging = inst[i].staging
  BY <1>2 DEF Made
<1>4. inst'[i] = v /\ \A j \in Inst \ {i} : inst'[j] = inst[j]
  BY <1>1, <1>2 DEF Leave, SeatInv, SeatType
<1>5. \A r : ~AtWork(i, r)
  BY <1>1 DEF Drained, Stopped, InstIdle, AtWork
<1> HIDE DEF v, i
<1>6. Journal(e)' = {} /\ \A d \in Entry \ {e} : slot'[d] = slot[d]
  <2> DEFINE s == [slot[e] EXCEPT !.sealed = TRUE, !.at = Nobody, !.journal = <<>>]
  <2>1. slot' = [slot EXCEPT ![e] = s]
    BY <1>1 DEF Taken
  <2>2. s.journal = <<>>
    BY <1>0 DEF SeatRec
  <2> HIDE DEF s
  <2> QED BY <1>0, <2>1, <2>2 DEF Journal, ToSet
<1>7. life'[e].at \in {"failed", "journal", "down"} /\ \A d \in Entry \ {e} : life'[d] = life[d]
  BY <1>0, <1>1
<1>8. /\ \A d \in Entry \ {e} : inherited'[d] = inherited[d]
      /\ inherited'[e] \subseteq inherited[e] \union Journal(e)
      /\ \A r \in routed' : r \in Journal(e) \union inherited[e] => r \in inherited'[e]
  <2>1. CASE RetireSeat(e)
    BY <1>0, <2>1 DEF RetireSeat
  <2>2. CASE SuspendSeat(e)
    <3>1. \A r \in Journal(e) : r.kind \in Kind
      <4>1. \A r \in Journal(e) : r \in Regs
        <5>1. slot[e].journal \in Seq(Regs)
          BY LifeFields DEF SeatInv
        <5> QED BY <5>1 DEF Journal, ToSet
      <4> QED BY <4>1, RegFacts
    <3> QED BY <1>0, <2>2, <3>1 DEF SuspendSeat, Inherit, OfKind
  <2> QED BY <2>1, <2>2
<1>9. \A j \in Inst : \A r : AtWork(j, r) => AtWork(j, r)'
  BY <1>4, <1>5 DEF AtWork, Alive
<1>10. \A r \in routed' :
          /\ r.entry = e
          /\ \/ r \notin routed \/ r \in Journal(e) \/ r \in inherited[e]
             \/ life[e].at = "landing" /\ r \in ToSet(life[e].c.outcome)
             \/ \E j \in Inst : j[1] = e /\ AtWork(j, r)
          => Held(e, r)'
  BY <1>1, <1>8, <1>9 DEF Held
<1>11. /\ \A r \in Journal(e)' : r.entry = e
       /\ \A r \in inherited'[e] : r.entry = e
       /\ \A j \in Inst : inst'[j] # NoInstance => \A r \in ToSet(inst'[j].recorded) : r.entry = j[1]
       /\ \A c \in batch.staged : inst'[c.inst].staging
       /\ \A j \in Inst : j[1] # e => inst'[j] = inst[j]
  <2>1. \A c \in batch.staged : c.inst \in Inst
    BY BatchFields DEF SeatInv
  <2> QED BY <1>2, <1>3, <1>4, <1>6, <1>8, <2>1 DEF HeldInv, OwnRegs, StillStaging
<1> QED BY <1>1, <1>6, <1>7, <1>8, <1>10, <1>11, EngineHeld

(* A new instance has recorded nothing.                                      *)
LEMMA ActivateHeld ==
    ASSUME SeatInv, HeldInv, NEW e \in Entry, Activate(e)
    PROVE  HeldInv'
<1>0. slot \in [Entry -> SeatRec] /\ life \in [Entry -> Lives] /\ inst \in [Inst -> {NoInstance} \union Made]
  BY DEF SeatInv, SeatType
<1> DEFINE i == Fresh(e)
           v == Instance(pinned, TRUE, slot[e].ever)
           s == [slot[e] EXCEPT !.closing = FALSE, !.sealed = FALSE]
<1>1. /\ life[e].at \in {"down", "failed"} /\ i \in Inst /\ inst' = [inst EXCEPT ![i] = v]
      /\ slot' = [slot EXCEPT ![e] = s] /\ life' = [life EXCEPT ![e] = [at |-> "activating", inst |-> i]]
      /\ UNCHANGED <<routed, inherited, batch, stray, swapped>>
  BY DEF Activate
<1>2. i[1] = e /\ inst[i] = NoInstance
  BY <1>1, FreshIsNew
<1>3. ToSet(v.recorded) = {}
  BY DEF Instance, ToSet
<1>4. s.journal = slot[e].journal
  BY <1>0 DEF SeatRec
<1> HIDE DEF i, v, s
<1>5. inst'[i] = v /\ \A j \in Inst \ {i} : inst'[j] = inst[j]
  BY <1>0, <1>1
<1>6. /\ \A d \in Entry \ {e} : slot'[d] = slot[d] /\ life'[d] = life[d]
      /\ Journal(e)' = Journal(e) /\ life'[e].at = "activating"
  BY <1>0, <1>1, <1>4 DEF Journal
<1>7. \A j \in Inst : \A r : AtWork(j, r) => AtWork(j, r)'
  <2>1. \A r : ~AtWork(i, r)
    BY <1>2 DEF AtWork, Alive, NoInstance
  <2> QED BY <1>5, <2>1 DEF AtWork, Alive
<1>8. \A r \in routed' :
          /\ r.entry = e
          /\ \/ r \notin routed \/ r \in Journal(e) \/ r \in inherited[e]
             \/ life[e].at = "landing" /\ r \in ToSet(life[e].c.outcome)
             \/ \E j \in Inst : j[1] = e /\ AtWork(j, r)
          => Held(e, r)'
  BY <1>1, <1>6, <1>7 DEF Held
<1>9. /\ \A j \in Inst : inst'[j] # NoInstance => \A r \in ToSet(inst'[j].recorded) : r.entry = j[1]
      /\ \A j \in Inst : j[1] # e => inst'[j] = inst[j]
  BY <1>2, <1>3, <1>5 DEF HeldInv, OwnRegs
<1>10. \A c \in batch.staged : inst'[c.inst].staging
  <2>1. \A c \in batch.staged : c.inst \in Inst /\ inst[c.inst] # NoInstance
    BY DEF SeatInv, BatchStaged, OwnInstance
  <2> QED BY <1>2, <1>5, <2>1 DEF HeldInv, StillStaging
<1>11. (\A r \in Journal(e)' : r.entry = e) /\ \A r \in inherited'[e] : r.entry = e
  BY <1>1, <1>6 DEF HeldInv, OwnRegs
<1> QED BY <1>1, <1>6, <1>8, <1>9, <1>10, <1>11, EngineHeld

(* What an activation recorded goes to its landing.                          *)
LEMMA SettleHeld ==
    ASSUME SeatInv, HeldInv, NEW e \in Entry, NEW ok \in BOOLEAN, Settle(e, ok)
    PROVE  HeldInv'
<1>0. life \in [Entry -> Lives] /\ inst \in [Inst -> {NoInstance} \union Made]
  BY DEF SeatInv, SeatType
<1> DEFINE i == life[e].inst
           v == [inst[i] EXCEPT !.recorded = <<>>, !.busy = "idle"]
           l == [at |-> "landing", ok |-> ok, commit |-> ok /\ slot[e].ever,
                 c |-> [entry |-> e, inst |-> i, outcome |-> inst[i].recorded]]
<1>1. /\ life[e].at = "activating" /\ inst' = [inst EXCEPT ![i] = v] /\ life' = [life EXCEPT ![e] = l]
      /\ UNCHANGED <<slot, routed, inherited, batch, stray, swapped>>
  BY DEF Settle
<1>2. i \in Inst /\ i[1] = e /\ inst[i] # NoInstance /\ inst[i] \in Made
  <2>1. OwnInstance(e, i)
    BY <1>1 DEF SeatInv, Whereabouts
  <2> QED BY <2>1, MadeFields DEF OwnInstance, SeatInv
<1>3. ToSet(v.recorded) = {} /\ v.staging = inst[i].staging
  <2>1. v.recorded = <<>> /\ v.staging = inst[i].staging
    BY <1>2 DEF Made
  <2>2. ToSet(<<>>) = {}
    BY DEF ToSet
  <2> HIDE DEF v
  <2> QED BY <2>1, <2>2
<1>4. l.at = "landing" /\ l.c.outcome = inst[i].recorded
  OBVIOUS
<1> HIDE DEF i, v, l
<1>5. inst'[i] = v /\ \A j \in Inst \ {i} : inst'[j] = inst[j]
  BY <1>0, <1>1, <1>2
<1>6. /\ \A d \in Entry \ {e} : life'[d] = life[d]
      /\ life'[e].at = "landing" /\ life'[e].c.outcome = inst[i].recorded
      /\ Journal(e)' = Journal(e)
  BY <1>0, <1>1, <1>4 DEF Journal
<1>7. \A j \in Inst : \A r : AtWork(j, r) => AtWork(j, r)' \/ r \in ToSet(inst[i].recorded)
  BY <1>5 DEF AtWork, Alive
<1>8. \A r \in routed' :
          /\ r.entry = e
          /\ \/ r \notin routed \/ r \in Journal(e) \/ r \in inherited[e]
             \/ life[e].at = "landing" /\ r \in ToSet(life[e].c.outcome)
             \/ \E j \in Inst : j[1] = e /\ AtWork(j, r)
          => Held(e, r)'
  BY <1>1, <1>6, <1>7 DEF Held
<1>9. /\ \A j \in Inst : inst'[j] # NoInstance => \A r \in ToSet(inst'[j].recorded) : r.entry = j[1]
      /\ \A j \in Inst : j[1] # e => inst'[j] = inst[j]
      /\ \A r \in ToSet(life'[e].c.outcome) : r.entry = e
  BY <1>2, <1>3, <1>5, <1>6 DEF HeldInv, OwnRegs
<1>10. \A c \in batch.staged : inst'[c.inst].staging
  <2>1. \A c \in batch.staged : c.inst \in Inst
    BY BatchFields DEF SeatInv
  <2> QED BY <1>3, <1>5, <2>1 DEF HeldInv, StillStaging
<1>11. (\A r \in Journal(e)' : r.entry = e) /\ \A r \in inherited'[e] : r.entry = e
  BY <1>1, <1>6 DEF HeldInv, OwnRegs
<1> QED BY <1>1, <1>6, <1>8, <1>9, <1>10, <1>11, EngineHeld

(* A landing seats the instance, and journals what it recorded.              *)
LEMMA LandHeld ==
    ASSUME SeatInv, HeldInv, NEW e \in Entry, Land(e)
    PROVE  HeldInv'
<1>0. /\ life \in [Entry -> Lives] /\ inst \in [Inst -> {NoInstance} \union Made]
      /\ slot \in [Entry -> SeatRec]
  BY DEF SeatInv, SeatType
<1> DEFINE c == life[e].c
<1>1. /\ life[e].at = "landing" /\ life' = [life EXCEPT ![e] = [at |-> "up", ok |-> @.ok]]
      /\ UNCHANGED <<inherited, batch, stray, swapped>>
  BY DEF Land
<1>2. /\ c \in Outcomes /\ c.entry = e /\ c.inst \in Inst /\ c.inst[1] = e /\ inst[c.inst] # NoInstance
      /\ inst[c.inst] \in Made /\ c.outcome \in Seq(Regs) /\ slot[e].journal = <<>>
      /\ \A r \in ToSet(c.outcome) : r.entry = e
  <2>1. OwnInstance(e, c.inst) /\ c.entry = e
    BY <1>1 DEF SeatInv, Whereabouts
  <2>2. c \in Outcomes /\ c.outcome \in Seq(Regs)
    BY <1>1, LifeFields, BatchFields DEF SeatInv
  <2>3. inst[c.inst] \in Made
    BY <2>1, MadeFields DEF OwnInstance, SeatInv
  <2>4. slot[e].journal = <<>>
    BY <1>1 DEF SeatInv, Whereabouts
  <2>5. \A r \in ToSet(c.outcome) : r.entry = e
    BY <1>1 DEF HeldInv, OwnRegs
  <2> QED BY <2>1, <2>2, <2>3, <2>4, <2>5 DEF OwnInstance
<1>3. life'[e].at = "up" /\ \A d \in Entry \ {e} : life'[d] = life[d]
  BY <1>0, <1>1
<1>4. /\ \A d \in Entry \ {e} : slot'[d] = slot[d]
      /\ slot'[e].journal = c.outcome
      /\ routed' \subseteq routed \union ToSet(c.outcome)
      /\ \A j \in Inst \ {c.inst} : inst'[j] = inst[j]
      /\ inst'[c.inst] = inst[c.inst] \/ inst'[c.inst] = [inst[c.inst] EXCEPT !.staging = FALSE, !.flip = TRUE]
  <2>1. CASE life[e].commit
    <3>1. CommitStaged({c})
      BY <2>1 DEF Land
    <3> HIDE DEF c
    <3>2. \A x, y \in {c} : x.entry = y.entry => x = y
      OBVIOUS
    <3>3. slot'[e].journal = c.outcome /\ \A d \in Entry \ {e} : slot'[d] = slot[d]
      BY <1>2, <3>1, <3>2, CommitSeats DEF SeatInv
    <3>4. routed' \subseteq routed \union ToSet(c.outcome)
      BY <3>1 DEF CommitStaged, Come, OfKind
    <3>5. inst' = [i \in Inst |-> IF \E x \in {c} : x.inst = i
                      THEN [inst[i] EXCEPT !.staging = FALSE, !.flip = TRUE] ELSE inst[i]]
      BY <3>1 DEF CommitStaged
    <3> QED BY <1>2, <3>3, <3>4, <3>5
  <2>2. CASE ~life[e].commit
    <3> DEFINE s == [slot[e] EXCEPT !.at = c.inst, !.journal = c.outcome, !.ever = TRUE]
    <3>1. slot' = [slot EXCEPT ![e] = s] /\ UNCHANGED <<inst, routed>>
      BY <2>2 DEF Land
    <3>2. s.journal = c.outcome
      BY <1>0 DEF SeatRec
    <3> HIDE DEF s, c
    <3> QED BY <1>0, <3>1, <3>2
  <2> QED BY <2>1, <2>2
<1>5. Journal(e) = {} /\ Journal(e)' = ToSet(c.outcome)
  BY <1>2, <1>4 DEF Journal, ToSet
<1>6. life[e].c = c
  OBVIOUS
<1>7. \A x \in batch.staged : x.inst \in Inst /\ x.inst # c.inst
  <2>1. ASSUME NEW x \in batch.staged PROVE x.inst # c.inst
    <3>1. inst[x.inst].artifact = "new" /\ batch.at \notin {"idle", "retire"}
      BY DEF SeatInv, BatchStaged
    <3>2. ~Claimed
      BY <3>1 DEF SeatInv, Wholeness, Claimed
    <3>3. inst[c.inst].artifact = "old"
      BY <1>1, <3>2 DEF SeatInv, Wholeness, AllOld
    <3> QED BY <3>1, <3>3
  <2> QED BY <2>1, BatchFields DEF SeatInv
<1> HIDE DEF c
<1>8. /\ inst'[c.inst].recorded = inst[c.inst].recorded /\ inst'[c.inst].state = inst[c.inst].state
      /\ inst'[c.inst].busy = inst[c.inst].busy
      /\ inst'[c.inst].staging => inst[c.inst].staging
  BY <1>2, <1>4 DEF Made
<1>9. \A j \in Inst : \A r : AtWork(j, r) => AtWork(j, r)'
  BY <1>4, <1>8 DEF AtWork, Alive
<1>10. \A r \in routed' :
          /\ r.entry = e
          /\ \/ r \notin routed \/ r \in Journal(e) \/ r \in inherited[e]
             \/ life[e].at = "landing" /\ r \in ToSet(life[e].c.outcome)
             \/ \E j \in Inst : j[1] = e /\ AtWork(j, r)
          => Held(e, r)'
  BY <1>1, <1>4, <1>5, <1>6, <1>9 DEF Held
<1>11. /\ \A j \in Inst : inst'[j] # NoInstance => \A r \in ToSet(inst'[j].recorded) : r.entry = j[1]
       /\ \A j \in Inst : j[1] # e => inst'[j] = inst[j]
       /\ \A r \in routed' \ routed : r.entry = e
  BY <1>2, <1>4, <1>8 DEF HeldInv, OwnRegs
<1>12. \A x \in batch.staged : inst'[x.inst].staging
  BY <1>4, <1>7 DEF HeldInv, StillStaging
<1>13. (\A r \in Journal(e)' : r.entry = e) /\ \A r \in inherited'[e] : r.entry = e
  BY <1>1, <1>2, <1>5 DEF HeldInv, OwnRegs
<1> QED BY <1>1, <1>3, <1>4, <1>10, <1>11, <1>12, <1>13, EngineHeld
(* A step of the batch before its claim: no seat and no journal moves.       *)
LEMMA BatchHeld ==
    ASSUME SeatInv, HeldInv, UNCHANGED <<slot, life, inherited, stray, swapped>>,
           routed' \subseteq routed, ToSet(batch'.displaced) \subseteq ToSet(batch.displaced), Blank',
           \A i \in Inst : inst'[i] # NoInstance => \A r \in ToSet(inst'[i].recorded) : r.entry = i[1],
           \A c \in batch'.staged : inst'[c.inst].staging /\ \A r \in ToSet(c.outcome) : r.entry = c.entry,
           \A r \in routed' :
               \/ \E i \in Inst : AtWork(i, r)
               \/ r.kind \in World /\ \E c \in batch.staged : r \in ToSet(c.outcome)
               => \/ \E i \in Inst : AtWork(i, r)'
                  \/ r.kind \in World /\ \E c \in batch'.staged : r \in ToSet(c.outcome)
    PROVE  HeldInv'
<1> USE DEF HeldInv
<1>1. \A d \in Entry : Journal(d)' = Journal(d)
  BY DEF Journal
<1>2. OwnRegs'
  BY <1>1 DEF OwnRegs
<1>3. StillStaging' /\ Rest'
  BY DEF StillStaging, Rest
<1>4. Accounted'
  <2> SUFFICES ASSUME NEW d \in Entry \ swapped, NEW r \in Of(d, routed') PROVE Held(d, r)'
    BY DEF Accounted, Of
  <2>1. r \in routed' /\ Held(d, r)
    BY DEF Accounted, Of
  <2> QED BY <1>1, <2>1 DEF Held
<1> QED BY <1>2, <1>3, <1>4

(* A step of the batch that registers and withdraws nothing.                 *)
LEMMA QuietBatchHeld ==
    ASSUME SeatInv, HeldInv, UNCHANGED <<inst, slot, life, inherited, stray, swapped, routed>>,
           batch'.staged = batch.staged, ToSet(batch'.displaced) \subseteq ToSet(batch.displaced),
           batch'.at # "activate"
    PROVE  HeldInv'
<1>1. \A i \in Inst : \A r : AtWork(i, r) => AtWork(i, r)'
  BY DEF AtWork, Alive
<1>2. \A i \in Inst : inst'[i] # NoInstance => \A r \in ToSet(inst'[i].recorded) : r.entry = i[1]
  BY DEF HeldInv, OwnRegs
<1>3. \A c \in batch'.staged : inst'[c.inst].staging /\ \A r \in ToSet(c.outcome) : r.entry = c.entry
  BY DEF HeldInv, OwnRegs, StillStaging
<1>4. Blank'
  BY DEF Blank
<1> QED BY <1>1, <1>2, <1>3, <1>4, BatchHeld

(* The steps that move only the batch's own books.                           *)
LEMMA BooksHeld ==
    ASSUME SeatInv, HeldInv,
           \/ SwapStart \/ SwapBegin \/ SwapRetarget
           \/ SwapClaim /\ ~AllPreparing
           \/ SwapPrepare /\ UNCHANGED inst
    PROVE  HeldInv'
<1>0. batch \in Batches
  BY DEF SeatInv, SeatType
<1>1. UNCHANGED <<inst, slot, life, inherited, stray, swapped, routed>>
  BY DEF SwapStart, SwapBegin, SwapRetarget, SwapClaim, SwapPrepare
<1>2. ToSet(<<>>) = {}
  BY DEF ToSet
<1>3. CASE SwapStart \/ SwapRetarget
  <2>1. batch'.staged = {} /\ batch'.displaced = <<>> /\ batch.staged = {} /\ batch'.at # "activate"
    BY <1>3 DEF SwapStart, SwapRetarget, NoBatch, SeatInv, BatchStaged
  <2> QED BY <1>1, <1>2, <2>1, QuietBatchHeld
<1>4. CASE SwapBegin \/ (SwapClaim /\ ~AllPreparing)
  <2>1. batch'.staged = batch.staged /\ batch'.displaced = batch.displaced /\ batch'.at # "activate"
    BY <1>0, <1>4 DEF SwapBegin, SwapClaim, Batches
  <2> QED BY <1>1, <2>1, QuietBatchHeld
<1>5. CASE SwapPrepare /\ UNCHANGED inst
  <2>1. CASE Rostered(At[1]) /\ slot[At[1]].at # Nobody /\ Alive(slot[At[1]].at)
    <3> DEFINE e == At[1]
    <3>1. e \in Entry /\ Fresh(e) \in Inst /\ inst' = [inst EXCEPT ![Fresh(e)] = Instance("new", FALSE, TRUE)]
      <4>1. batch.todo # <<>>
        BY <1>5 DEF SwapPrepare, SeatInv, BatchRows
      <4> QED BY <1>5, <2>1, <4>1, AtHand DEF SwapPrepare, SeatInv
    <3>2. inst[Fresh(e)] = NoInstance
      BY <3>1, FreshIsNew
    <3>3. inst'[Fresh(e)] = Instance("new", FALSE, TRUE)
      BY <3>1 DEF SeatInv, SeatType
    <3>4. FALSE
      BY <1>5, <3>2, <3>3 DEF Instance, NoInstance
    <3> QED BY <3>4
  <2>2. CASE ~(Rostered(At[1]) /\ slot[At[1]].at # Nobody /\ Alive(slot[At[1]].at))
    <3>1. batch' = [batch EXCEPT !.at = "rollback"]
      BY <1>5, <2>2 DEF SwapPrepare
    <3>2. batch'.staged = batch.staged /\ batch'.displaced = batch.displaced /\ batch'.at # "activate"
      BY <1>0, <3>1 DEF Batches
    <3> QED BY <1>1, <3>2, QuietBatchHeld
  <2> QED BY <2>1, <2>2
<1> QED BY <1>3, <1>4, <1>5

(* A staged instance starts with nothing recorded.                           *)
LEMMA PrepareHeld ==
    ASSUME SeatInv, HeldInv, SwapPrepare
    PROVE  HeldInv'
<1> DEFINE e == At[1]
<1>0. batch \in Batches /\ inst \in [Inst -> {NoInstance} \union Made]
  BY DEF SeatInv, SeatType
<1>1. CASE ~(Rostered(e) /\ slot[e].at # Nobody /\ Alive(slot[e].at))
  <2>1. UNCHANGED inst
    BY <1>1 DEF SwapPrepare
  <2> QED BY <2>1, BooksHeld
<1>2. CASE Rostered(e) /\ slot[e].at # Nobody /\ Alive(slot[e].at)
  <2> DEFINE i == Fresh(e)
             v == Instance("new", FALSE, TRUE)
             c0 == [entry |-> e, inst |-> i, outcome |-> <<>>]
  <2>1. /\ i \in Inst /\ inst' = [inst EXCEPT ![i] = v]
        /\ batch' = [batch EXCEPT !.at = "activate", !.staged = @ \union {c0}]
        /\ UNCHANGED <<slot, life, inherited, stray, swapped, routed>> /\ batch.at = "prepare"
    BY <1>2 DEF SwapPrepare
  <2>2. e \in Entry
    BY <2>1, AtHand DEF SeatInv, BatchRows
  <2>3. inst[i] = NoInstance
    BY <2>1, <2>2, FreshIsNew
  <2>4. ToSet(v.recorded) = {} /\ v.staging
    BY DEF Instance, ToSet
  <2>5. c0.inst = i /\ ToSet(c0.outcome) = {} /\ c0.entry = e /\ c0.outcome = <<>>
    BY DEF ToSet
  <2>a. \A c \in batch.staged : c.entry # e
    BY <2>1, AtHand DEF SeatInv, BatchRows, BatchStaged
  <2> HIDE DEF v, c0, i, e
  <2>6. inst'[i] = v /\ \A j \in Inst \ {i} : inst'[j] = inst[j]
    BY <1>0, <2>1
  <2>7. batch'.staged = batch.staged \union {c0} /\ batch'.displaced = batch.displaced
    BY <1>0, <2>1 DEF Batches
  <2>8. \A j \in Inst : \A r : AtWork(j, r) => AtWork(j, r)'
    <3>1. \A r : ~AtWork(i, r)
      BY <2>3 DEF AtWork, Alive, NoInstance
    <3> QED BY <2>6, <3>1 DEF AtWork, Alive
  <2>9. \A j \in Inst : inst'[j] # NoInstance => \A r \in ToSet(inst'[j].recorded) : r.entry = j[1]
    BY <2>4, <2>6 DEF HeldInv, OwnRegs
  <2>10. \A c \in batch'.staged : inst'[c.inst].staging /\ \A r \in ToSet(c.outcome) : r.entry = c.entry
    <3>1. \A c \in batch.staged : c.inst \in Inst /\ inst[c.inst] # NoInstance
      BY DEF SeatInv, BatchStaged, OwnInstance
    <3>2. \A c \in batch.staged : inst'[c.inst].staging /\ \A r \in ToSet(c.outcome) : r.entry = c.entry
      BY <2>3, <2>6, <3>1 DEF HeldInv, OwnRegs, StillStaging
    <3> QED BY <2>4, <2>5, <2>6, <2>7, <3>2
  <2>11. Blank'
    <3>1. At' = At /\ batch'.staged = batch.staged \union {c0}
      BY <1>0, <2>1, <2>7 DEF At, Batches
    <3>2. \A c \in batch'.staged : c.entry = At[1] => c.outcome = <<>>
      BY <2>5, <2>a, <3>1 DEF e
    <3> QED BY <3>1, <3>2 DEF Blank
  <2> QED BY <2>1, <2>7, <2>8, <2>9, <2>10, <2>11, BatchHeld
<1> QED BY <1>1, <1>2

(* What a staged activation recorded goes to the batch.                      *)
LEMMA SwapSettleHeld ==
    ASSUME SeatInv, HeldInv, NEW ok \in BOOLEAN, SwapSettle(ok)
    PROVE  HeldInv'
<1> DEFINE g == Staging
           c0 == [g EXCEPT !.outcome = inst[g.inst].recorded]
           others == batch.staged \ {g}
<1>0. batch \in Batches /\ inst \in [Inst -> {NoInstance} \union Made]
  BY DEF SeatInv, SeatType
<1>1. /\ batch.at = "activate" /\ UNCHANGED <<slot, life, inherited, stray, swapped>>
  BY DEF SwapSettle
<1>2. /\ g \in batch.staged /\ g \in Outcomes /\ g.inst \in Inst /\ inst[g.inst] \in Made
      /\ inst[g.inst] # NoInstance /\ inst[g.inst].recorded \in Seq(Regs) /\ g.entry = g.inst[1]
      /\ inst[g.inst].staging
  <2>1. g \in batch.staged
    BY <1>1, StagingFacts
  <2>2. OwnInstance(g.entry, g.inst) /\ inst[g.inst].staging
    BY <2>1 DEF SeatInv, BatchStaged, HeldInv, StillStaging
  <2> QED BY <1>1, <2>1, <2>2, StagingFacts DEF OwnInstance
<1>3. c0.entry = g.entry /\ c0.inst = g.inst /\ c0.outcome = inst[g.inst].recorded
  BY <1>2 DEF Outcomes
<1>4. \A r \in ToSet(inst[g.inst].recorded) : r.entry = g.inst[1]
  BY <1>2 DEF HeldInv, OwnRegs
<1>5. \A c \in batch.staged : c.inst \in Inst /\ inst[c.inst].staging /\ \A r \in ToSet(c.outcome) : r.entry = c.entry
  BY BatchFields DEF SeatInv, HeldInv, OwnRegs, StillStaging
<1>6. \A r : AtWork(g.inst, r) => r.kind \in World /\ r \in ToSet(inst[g.inst].recorded)
  BY <1>2 DEF AtWork
<1>a. \A c \in batch.staged \ {g} : c.inst # g.inst
  BY <1>2 DEF SeatInv, BatchStaged, OwnInstance
<1>b. ToSet(g.outcome) = {}
  <2>1. g.outcome = <<>>
    BY <1>1, StagingFacts DEF HeldInv, Blank
  <2>2. ToSet(<<>>) = {}
    BY DEF ToSet
  <2> HIDE DEF g
  <2> QED BY <2>1, <2>2
<1>7. CASE ok
  <2> DEFINE v == [inst[g.inst] EXCEPT !.busy = "idle", !.recorded = <<>>]
  <2>1. /\ inst' = [inst EXCEPT ![c0.inst].busy = "idle", ![c0.inst].recorded = <<>>]
        /\ batch' = [batch EXCEPT !.at = "begin", !.todo = Tail(@), !.staged = others \union {c0}]
        /\ UNCHANGED routed
    BY <1>7 DEF SwapSettle
  <2>2. inst' = [inst EXCEPT ![g.inst] = v]
    <3>1. c0.inst = g.inst
      BY <1>3
    <3> HIDE DEF c0, g
    <3>2. inst' = [inst EXCEPT ![g.inst].busy = "idle", ![g.inst].recorded = <<>>]
      BY <2>1, <3>1
    <3> QED BY <3>2
  <2>3. ToSet(v.recorded) = {} /\ v.staging
    <3>1. v.recorded = <<>> /\ v.staging = inst[g.inst].staging
      BY <1>2 DEF Made
    <3>2. ToSet(<<>>) = {}
      BY DEF ToSet
    <3> HIDE DEF v, g
    <3> QED BY <1>2, <3>1, <3>2
  <2> HIDE DEF v, c0, g, others
  <2>4. inst'[g.inst] = v /\ \A j \in Inst \ {g.inst} : inst'[j] = inst[j]
    BY <1>0, <1>2, <2>2
  <2>5. /\ batch'.staged = others \union {c0} /\ batch'.displaced = batch.displaced
        /\ batch'.at = "begin"
    BY <1>0, <2>1 DEF Batches
  <2>6. \A i \in Inst : inst'[i] # NoInstance => \A r \in ToSet(inst'[i].recorded) : r.entry = i[1]
    BY <2>3, <2>4 DEF HeldInv, OwnRegs
  <2>7. \A c \in batch'.staged : inst'[c.inst].staging /\ \A r \in ToSet(c.outcome) : r.entry = c.entry
    BY <1>2, <1>3, <1>4, <1>5, <1>a, <2>3, <2>4, <2>5 DEF others
  <2>8. ASSUME NEW r \in routed',
               \/ \E i \in Inst : AtWork(i, r)
               \/ r.kind \in World /\ \E c \in batch.staged : r \in ToSet(c.outcome)
        PROVE  \/ \E i \in Inst : AtWork(i, r)'
               \/ r.kind \in World /\ \E c \in batch'.staged : r \in ToSet(c.outcome)
    <3>1. CASE AtWork(g.inst, r)
      BY <1>3, <1>6, <2>5, <3>1
    <3>2. ASSUME NEW i \in Inst \ {g.inst}, AtWork(i, r) PROVE AtWork(i, r)'
      BY <2>4, <3>2 DEF AtWork, Alive
    <3>3. ASSUME NEW c \in batch.staged, r \in ToSet(c.outcome), r.kind \in World
          PROVE  \E x \in batch'.staged : r \in ToSet(x.outcome)
      <4>1. CASE c # g
        BY <2>5, <3>3, <4>1 DEF others
      <4>2. CASE c = g
        BY <1>b, <3>3, <4>2
      <4> QED BY <4>1, <4>2
    <3> QED BY <2>8, <3>1, <3>2, <3>3
  <2>9. Blank'
    BY <2>5 DEF Blank
  <2> QED BY <1>1, <2>1, <2>5, <2>6, <2>7, <2>8, <2>9, BatchHeld
<1>8. CASE ~ok
  <2> DEFINE v == [inst[g.inst] EXCEPT !.state = "dead"]
  <2>1. /\ inst' = Leave(c0.inst)
        /\ batch' = [batch EXCEPT !.at = "rollback", !.staged = others]
        /\ routed' = routed \ Unwound({c0})
    BY <1>8 DEF SwapSettle
  <2>2. inst' = [inst EXCEPT ![g.inst] = v]
    BY <1>3, <2>1 DEF Leave
  <2>3. v.recorded = inst[g.inst].recorded /\ v.staging = inst[g.inst].staging
    BY <1>2 DEF Made
  <2> HIDE DEF v, c0, g, others
  <2>4. inst'[g.inst] = v /\ \A j \in Inst \ {g.inst} : inst'[j] = inst[j]
    BY <1>0, <1>2, <2>2
  <2>5. /\ batch'.staged = others /\ batch'.displaced = batch.displaced /\ batch'.at = "rollback"
    BY <1>0, <2>1 DEF Batches
  <2>6. \A i \in Inst : inst'[i] # NoInstance => \A r \in ToSet(inst'[i].recorded) : r.entry = i[1]
    BY <1>4, <2>3, <2>4 DEF HeldInv, OwnRegs
  <2>7. \A c \in batch'.staged : inst'[c.inst].staging /\ \A r \in ToSet(c.outcome) : r.entry = c.entry
    BY <1>2, <1>5, <1>a, <2>4, <2>5 DEF others
  <2>8. ASSUME NEW r \in routed',
               \/ \E i \in Inst : AtWork(i, r)
               \/ r.kind \in World /\ \E c \in batch.staged : r \in ToSet(c.outcome)
        PROVE  \/ \E i \in Inst : AtWork(i, r)'
               \/ r.kind \in World /\ \E c \in batch'.staged : r \in ToSet(c.outcome)
    <3>1. ~AtWork(g.inst, r)
      BY <1>3, <1>6, <2>1, <2>8 DEF Unwound, OfKind, World
    <3>2. ASSUME NEW i \in Inst \ {g.inst}, AtWork(i, r) PROVE AtWork(i, r)'
      BY <2>4, <3>2 DEF AtWork, Alive
    <3>3. ASSUME NEW c \in batch.staged, r \in ToSet(c.outcome), r.kind \in World
          PROVE  \E x \in batch'.staged : r \in ToSet(x.outcome)
      BY <1>b, <2>5, <3>3 DEF others
    <3> QED BY <2>8, <3>1, <3>2, <3>3
  <2>9. Blank'
    BY <2>5 DEF Blank
  <2>10. routed' \subseteq routed
    BY <2>1
  <2> QED BY <1>1, <2>5, <2>6, <2>7, <2>8, <2>9, <2>10, BatchHeld
<1> QED BY <1>7, <1>8

(* The claim journals what is staged, and displaces what was there.          *)
LEMMA ClaimHeld ==
    ASSUME SeatInv, HeldInv, SwapClaim, AllPreparing
    PROVE  HeldInv'
<1> USE DEF HeldInv
<1> DEFINE C == batch.staged
           D(c) == [entry |-> c.entry, inst |-> slot[c.entry].at, journal |-> Old(c)]
           J == {D(c) : c \in C}
<1>0. batch \in Batches /\ inst \in [Inst -> {NoInstance} \union Made]
  BY DEF SeatInv, SeatType
<1>1. /\ CommitStaged(C) /\ UNCHANGED <<life, inherited, stray>>
      /\ batch' = [batch EXCEPT !.at = "retire", !.staged = {}, !.displaced = SetToSeq(J)]
      /\ swapped' = swapped \union {c.entry : c \in C}
  BY DEF SwapClaim
<1>2. /\ \A c, d \in C : c.entry = d.entry => c = d
      /\ \A c \in C : /\ c \in Outcomes /\ c.entry \in Entry /\ c.inst \in Inst /\ inst[c.inst] # NoInstance
                      /\ \A r \in ToSet(c.outcome) : r.entry = c.entry
      /\ C \in SUBSET Outcomes /\ IsFiniteSet(C)
  BY BatchFields DEF SeatInv, BatchStaged, OwnInstance, OwnRegs
<1>3. /\ batch'.at = "retire" /\ batch'.staged = {} /\ batch'.displaced = SetToSeq(J)
  BY <1>0, <1>1 DEF Batches
<1>4. ToSet(batch'.displaced) = J
  <2>1. IsFiniteSet(J)
    <3> DEFINE F == [c \in C |-> D(c)]
    <3>1. F \in [C -> J] /\ \A y \in J : \E x \in C : F[x] = y
      OBVIOUS
    <3> HIDE DEF C, J, F
    <3> QED BY <1>2, <3>1, FiniteImage
  <2> HIDE DEF J
  <2> QED BY <1>3, <2>1, SetToSeqRange
<1>5. \A x \in J : x.entry \in swapped' /\ \A r \in x.journal : r.entry = x.entry
  BY <1>1, <1>2 DEF OwnRegs, Journal, Old
<1> HIDE DEF J, D, C
<1>6. /\ \A c \in C : slot'[c.entry].journal = c.outcome
      /\ \A d \in Entry : (\A c \in C : c.entry # d) => slot'[d] = slot[d]
  BY <1>1, <1>2, CommitSeats DEF SeatInv
<1>7. inst' = [i \in Inst |-> IF \E c \in C : c.inst = i
                  THEN [inst[i] EXCEPT !.staging = FALSE, !.flip = TRUE] ELSE inst[i]]
  BY <1>1 DEF CommitStaged
<1>8. \A i \in Inst : inst[i] # NoInstance =>
          /\ inst'[i].recorded = inst[i].recorded /\ inst'[i].state = inst[i].state
          /\ inst'[i].busy = inst[i].busy /\ (inst'[i].staging => inst[i].staging)
  <2>1. \A v \in Made : LET w == [v EXCEPT !.staging = FALSE, !.flip = TRUE] IN
            w.recorded = v.recorded /\ w.state = v.state /\ w.busy = v.busy /\ ~w.staging
    BY DEF Made
  <2>2. \A i \in Inst : inst[i] # NoInstance => inst[i] \in Made
    BY <1>0
  <2> QED BY <1>7, <2>1, <2>2
<1>9. \A i \in Inst : inst[i] = NoInstance => inst'[i] = NoInstance
  BY <1>2, <1>7
<1>10. OwnRegs'
  <2>1. \A i \in Inst : inst'[i] # NoInstance => \A r \in ToSet(inst'[i].recorded) : r.entry = i[1]
    BY <1>8, <1>9 DEF OwnRegs
  <2>2. \A d \in Entry : \A r \in Journal(d)' : r.entry = d
    <3> SUFFICES ASSUME NEW d \in Entry, NEW r \in Journal(d)' PROVE r.entry = d
      OBVIOUS
    <3>1. CASE \E c \in C : c.entry = d
      BY <1>2, <1>6, <3>1 DEF Journal
    <3>2. CASE ~\E c \in C : c.entry = d
      BY <1>6, <3>2 DEF Journal, OwnRegs
    <3> QED BY <3>1, <3>2
  <2> QED BY <1>1, <1>3, <1>4, <1>5, <2>1, <2>2 DEF OwnRegs
<1>11. StillStaging' /\ Blank'
  BY <1>3 DEF StillStaging, Blank
<1>12. Rest'
  BY <1>1, <1>4, <1>5 DEF Rest
<1>13. Accounted'
  <2> SUFFICES ASSUME NEW d \in Entry \ swapped', NEW r \in Of(d, routed') PROVE Held(d, r)'
    BY DEF Accounted, Of
  <2>1. r.entry = d /\ r \in routed' /\ d \notin swapped /\ \A c \in C : c.entry # d
    BY <1>1 DEF Of
  <2>2. r \in routed
    <3>1. \A c \in C : r \notin Come(c)
      BY <1>2, <2>1 DEF Come, OfKind
    <3> QED BY <1>1, <2>1, <3>1 DEF CommitStaged
  <2>3. Held(d, r)
    BY <2>1, <2>2 DEF Accounted, Of
  <2>4. Journal(d)' = Journal(d)
    BY <1>6, <2>1 DEF Journal
  <2>5. \A i \in Inst : AtWork(i, r) => AtWork(i, r)'
    <3>1. \A i \in Inst : Alive(i) => inst[i] # NoInstance
      BY AliveMade DEF SeatInv
    <3> QED BY <1>8, <3>1 DEF AtWork, Alive
  <2>6. ~\E c \in batch.staged : r \in ToSet(c.outcome)
    BY <1>2, <2>1 DEF C
  <2> QED BY <1>1, <2>3, <2>4, <2>5, <2>6 DEF Held
<1> QED BY <1>10, <1>11, <1>12, <1>13

(* What is displaced is of an entry the batch replaced.                      *)
LEMMA RetireHeld ==
    ASSUME SeatInv, HeldInv, SwapRetire
    PROVE  HeldInv'
<1> USE DEF HeldInv
<1> DEFINE q == batch.displaced
           d == Head(q)
           v == [inst[d.inst] EXCEPT !.state = "dead"]
<1>0. /\ batch \in Batches /\ q \in Seq(Displacement) /\ inst \in [Inst -> {NoInstance} \union Made]
      /\ inherited \in [Entry -> SUBSET Regs]
  BY BatchFields DEF SeatInv, SeatType
<1>1. /\ q # <<>> /\ batch.at = "retire" /\ Stopped(d.inst)
      /\ inherited' = Inherit(d.entry, d.journal) /\ inst' = Leave(d.inst)
      /\ batch' = [batch EXCEPT !.displaced = Tail(q)]
      /\ UNCHANGED <<slot, life, routed, stray, swapped>>
  BY DEF SwapRetire
<1>2. d \in ToSet(q) /\ ToSet(Tail(q)) \subseteq ToSet(q)
  <2>1. q \in Seq(Displacement) /\ q # <<>>
    BY <1>0, <1>1
  <2> HIDE DEF q
  <2>2. Tail(q) \in Seq(Displacement) /\ Head(q) = q[1] /\ 1 \in DOMAIN q
    BY <2>1
  <2>3. \A k \in DOMAIN Tail(q) : k + 1 \in DOMAIN q /\ Tail(q)[k] = q[k + 1]
    BY <2>1
  <2> QED BY <2>2, <2>3 DEF ToSet
<1>3. /\ d.inst \in Inst /\ inst[d.inst] # NoInstance /\ inst[d.inst] \in Made /\ d.entry \in swapped
      /\ \A r \in d.journal : r.entry = d.entry
  <2>1. OwnInstance(d.entry, d.inst)
    BY <1>2 DEF SeatInv, BatchStaged
  <2> QED BY <1>0, <1>2, <2>1 DEF OwnInstance, Rest, OwnRegs
<1>4. v.recorded = inst[d.inst].recorded
  BY <1>3 DEF Made
<1>5. \A r : ~AtWork(d.inst, r)
  BY <1>1 DEF Stopped, InstIdle, AtWork
<1>6. batch'.staged = batch.staged /\ batch'.displaced = Tail(q) /\ batch'.at = "retire"
  BY <1>0, <1>1 DEF Batches
<1>7. batch.staged = {}
  BY <1>1 DEF SeatInv, BatchStaged
<1> HIDE DEF d, v
<1>8. inst'[d.inst] = v /\ \A j \in Inst \ {d.inst} : inst'[j] = inst[j]
  BY <1>0, <1>1, <1>3 DEF Leave, v
<1>9. /\ \A e \in Entry \ {d.entry} : inherited'[e] = inherited[e]
      /\ \A e \in Entry : \A r \in inherited'[e] : r \in inherited[e] \/ (e = d.entry /\ r \in d.journal)
  BY <1>0, <1>1 DEF Inherit, OfKind
<1>10. \A e \in Entry : Journal(e)' = Journal(e)
  BY <1>1 DEF Journal
<1>11. OwnRegs'
  <2>1. \A i \in Inst : inst'[i] # NoInstance => \A r \in ToSet(inst'[i].recorded) : r.entry = i[1]
    BY <1>3, <1>4, <1>8 DEF OwnRegs
  <2>2. \A e \in Entry : \A r \in inherited'[e] : r.entry = e
    BY <1>3, <1>9 DEF OwnRegs
  <2> QED BY <1>1, <1>2, <1>6, <1>7, <1>10, <2>1, <2>2 DEF OwnRegs
<1>12. StillStaging' /\ Blank' /\ Rest'
  BY <1>1, <1>2, <1>3, <1>6, <1>7, <1>9 DEF StillStaging, Blank, Rest
<1>13. Accounted'
  <2> SUFFICES ASSUME NEW e \in Entry \ swapped, NEW r \in Of(e, routed) PROVE Held(e, r)'
    BY <1>1 DEF Accounted, Of
  <2>1. Held(e, r) /\ e # d.entry
    BY <1>3 DEF Accounted
  <2>2. \A i \in Inst : AtWork(i, r) => AtWork(i, r)'
    BY <1>5, <1>8 DEF AtWork, Alive
  <2> QED BY <1>1, <1>6, <1>9, <1>10, <2>1, <2>2 DEF Held
<1> QED BY <1>11, <1>12, <1>13

(* A rollback withdraws what its staged instances recorded.                  *)
LEMMA RollbackHeld ==
    ASSUME SeatInv, HeldInv, SwapRollback
    PROVE  HeldInv'
<1>0. inst \in [Inst -> {NoInstance} \union Made]
  BY DEF SeatInv, SeatType
<1>1. /\ \A c \in batch.staged : Stopped(c.inst)
      /\ routed' = routed \ Unwound(batch.staged)
      /\ UNCHANGED <<slot, life, inherited, stray, swapped>>
      /\ inst' = [i \in Inst |-> IF \E c \in batch.staged : c.inst = i
                    THEN [inst[i] EXCEPT !.state = "dead"] ELSE inst[i]]
  BY DEF SwapRollback
<1>2. batch'.staged = {} /\ batch'.displaced = <<>> /\ batch'.at = "idle"
  BY DEF SwapRollback, NoBatch
<1>3. ToSet(<<>>) = {}
  BY DEF ToSet
<1>4. \A c \in batch.staged : inst[c.inst] # NoInstance
  BY DEF SeatInv, BatchStaged, OwnInstance
<1>5. \A i \in Inst : inst[i] # NoInstance => inst'[i].recorded = inst[i].recorded
  <2>1. \A v \in Made : [v EXCEPT !.state = "dead"].recorded = v.recorded
    BY DEF Made
  <2> QED BY <1>0, <1>1, <2>1
<1>6. \A i \in Inst : inst'[i] # NoInstance => \A r \in ToSet(inst'[i].recorded) : r.entry = i[1]
  <2>1. \A i \in Inst : inst[i] = NoInstance => inst'[i] = NoInstance
    BY <1>1, <1>4
  <2> QED BY <1>5, <2>1 DEF HeldInv, OwnRegs
<1>7. ASSUME NEW i \in Inst, NEW r, AtWork(i, r) PROVE AtWork(i, r)'
  <2>1. ~\E c \in batch.staged : c.inst = i
    BY <1>1, <1>7 DEF Stopped, InstIdle, AtWork
  <2>2. inst'[i] = inst[i]
    BY <1>1, <2>1
  <2> QED BY <1>7, <2>2 DEF AtWork, Alive
<1>8. \A r \in routed' : ~(r.kind \in World /\ \E c \in batch.staged : r \in ToSet(c.outcome))
  BY <1>1 DEF Unwound, OfKind, World
<1>9. Blank' /\ routed' \subseteq routed
  BY <1>1, <1>2 DEF Blank
<1> QED BY <1>1, <1>2, <1>3, <1>6, <1>7, <1>8, <1>9, BatchHeld

-----------------------------------------------------------------------------
(* Every step of the seats keeps HeldInv.                                    *)
LEMMA HeldStep ==
    ASSUME SeatInv, HeldInv, [SeatNext]_gvars
    PROVE  HeldInv'
<1>1. ASSUME NEW i \in Inst, Guest(i) PROVE HeldInv'
  BY <1>1, GuestKeepsHeld
<1>2. ASSUME NEW e \in Entry, Engine(e) PROVE HeldInv'
  BY <1>2, ActivateHeld, SettleHeld, LandHeld, EmptyHeld, RestHeld DEF Engine
<1>3. CASE Swap
  BY <1>3, BooksHeld, PrepareHeld, SwapSettleHeld, ClaimHeld, RetireHeld, RollbackHeld DEF Swap
<1>4. CASE UNCHANGED gvars
  BY <1>4 DEF gvars, HeldInv, OwnRegs, Accounted, StillStaging, Rest, Blank, Held, AtWork, Alive,
     Journal, Of, At
<1> QED BY <1>1, <1>2, <1>3, <1>4 DEF SeatNext

(* At first nothing is in force.                                             *)
LEMMA HeldStart ==
    ASSUME SeatInit
    PROVE  HeldInv
<1>1. /\ \A i \in Inst : inst[i] = NoInstance
      /\ \A e \in Entry : slot[e] = EmptySlot /\ inherited[e] = {} /\ life[e].at \in {"down", "none"}
      /\ routed = {} /\ batch = NoBatch
  BY DEF SeatInit
<1>2. batch.staged = {} /\ batch.displaced = <<>> /\ batch.at = "idle"
  BY <1>1 DEF NoBatch
<1>3. ToSet(<<>>) = {}
  BY DEF ToSet
<1>4. \A e \in Entry : Journal(e) = {}
  BY <1>1, <1>3 DEF Journal, EmptySlot
<1>5. OwnRegs
  BY <1>1, <1>2, <1>3, <1>4 DEF OwnRegs
<1>6. Accounted /\ StillStaging /\ Rest /\ Blank
  BY <1>1, <1>2, <1>3 DEF Accounted, Of, StillStaging, Rest, Blank
<1> QED BY <1>5, <1>6 DEF HeldInv

(* A disposed entry no batch replaced leaves nothing in force but what a     *)
(* late handler registered where no journal takes it over (SeatState::retire,*)
(* LaneCore::withdraw_journal, instance/late.rs): for every number of        *)
(* entries and of instances, and every story.                                *)
THEOREM DisposalsAreExact == Spec => []OnlyStraysAreLeft
<1>1. Init => HeldInv
  BY HeldStart DEF Init
<1>2. SeatInv /\ HeldInv /\ [Next]_<<part, svars, gvars, rvars, fsvars, ksvars, cvars>> => HeldInv'
  BY HeldStep DEF Next
<1>3. SeatInv /\ HeldInv => OnlyStraysAreLeft
  <2> SUFFICES ASSUME SeatInv, HeldInv, NEW e \in Entry \ swapped, AtRest(e), NEW r \in Of(e, routed)
               PROVE  r \in stray
    BY DEF OnlyStraysAreLeft
  <2>1. Held(e, r) /\ r.entry = e
    BY DEF HeldInv, Accounted, Of
  <2>2. life[e].at = "gone" /\ batch.at = "idle" /\ \A i \in Inst : i[1] = e => ~Alive(i)
    BY DEF AtRest
  <2>3. Journal(e) = {}
    <3>1. slot[e].journal = <<>>
      BY <2>2 DEF SeatInv, Whereabouts
    <3> QED BY <3>1 DEF Journal, ToSet
  <2>4. inherited[e] = {} /\ batch.staged = {}
    BY <2>2 DEF HeldInv, Rest, SeatInv, BatchStaged
  <2>5. \A i \in Inst : ~AtWork(i, r)
    <3> SUFFICES ASSUME NEW i \in Inst, AtWork(i, r) PROVE FALSE
      OBVIOUS
    <3>1. Alive(i) /\ r \in ToSet(inst[i].recorded)
      BY DEF AtWork
    <3>2. inst[i] # NoInstance
      BY <3>1, AliveMade DEF SeatInv
    <3>3. i[1] = e
      BY <2>1, <3>1, <3>2 DEF HeldInv, OwnRegs
    <3> QED BY <2>2, <3>1, <3>3
  <2> QED BY <2>1, <2>2, <2>3, <2>4, <2>5 DEF Held
<1> QED BY <1>1, <1>2, <1>3, SeatsHold, PTL DEF Spec
=============================================================================
