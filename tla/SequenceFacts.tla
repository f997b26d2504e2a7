---------------------------- MODULE SequenceFacts ----------------------------
(***************************************************************************)
(* What the proofs about tables and chains share: induction over the       *)
(* naturals, and what a selection, a removal, a push and a pop do to the   *)
(* members of a sequence, and what a fold adds up to.                      *)
(***************************************************************************)
EXTENDS Integers, Sequences, SequencesExt, Selection, TLAPS, WellFoundedInduction,
        SequenceTheorems, FiniteSetTheorems, FunctionTheorems

-----------------------------------------------------------------------------
(* Induction over the naturals, for sets. *)

(* A set of naturals that is not empty has a least element.                 *)
LEMMA LeastExists ==
    ASSUME NEW S \in SUBSET Nat, S # {}
    PROVE  \E m \in S : \A n \in S : m <= n
<1> DEFINE R == OpToRel(<, Nat)
<1>1. IsWellFoundedOn(R, Nat)
  BY NatLessThanWellFounded, Zenon
<1>2. \A x, y \in Nat : x < y => <<x, y>> \in R
  BY DEF OpToRel
<1> HIDE DEF R
<1>3. \E m \in S : \A n \in S : ~(<<n, m>> \in R)
  BY <1>1, WFMin
<1>4. \A m, n \in Nat : ~(<<n, m>> \in R) => m <= n
  BY <1>2, SMT
<1> QED
  BY <1>3, <1>4

(* A set with zero in it that is closed under successor has every natural.  *)
LEMMA AllNaturals ==
    ASSUME NEW S \in SUBSET Nat, 0 \in S, \A n \in S : n + 1 \in S
    PROVE  S = Nat
<1>1. SUFFICES ASSUME Nat \ S # {} PROVE FALSE
  OBVIOUS
<1>2. PICK m \in Nat \ S : \A n \in Nat \ S : m <= n
  BY <1>1, LeastExists
<1>3. m - 1 \in S
  BY <1>2
<1> QED BY <1>2, <1>3

-----------------------------------------------------------------------------
(* What the selection and the removal leave. *)

(* The loop of select, over the entries seen.                                 *)
Loop(pick, t, kept) ==
    /\ Select(t, kept) = pick[Len(t)]
    /\ pick[0] = <<>>
    /\ \A n \in 0..(Len(t) - 1) :
          pick[n + 1] = IF t[n + 1] \in kept THEN Append(pick[n], t[n + 1]) ELSE pick[n]

(* The loop is a recursive function: its rule is satisfiable, by induction on *)
(* the entries seen, so what is chosen for it satisfies it.                   *)
LEMMA SelectRule ==
    ASSUME NEW L, NEW t \in Seq(L), NEW kept
    PROVE  \E pick : Loop(pick, t, kept)
<1> DEFINE Entry(f, i) == IF i = 0 THEN <<>>
                          ELSE IF t[i] \in kept THEN Append(f[i - 1], t[i])
                          ELSE f[i - 1]
           Rule(f, n) == f = [i \in 0..n |-> Entry(f, i)]
           Pick == CHOOSE f : Rule(f, Len(t))
<1>1. Select(t, kept) = Pick[Len(t)]
  BY DEF Select
<1>len. Len(t) \in Nat /\ \A i \in 1..Len(t) : t[i] \in L
  OBVIOUS
<1> DEFINE Exists == {n \in Nat : \E f : Rule(f, n)}
<1>2. Exists = Nat
  <2>1. 0 \in Exists
    <3> DEFINE f0 == [i \in 0..0 |-> <<>>]
    <3>1. Rule(f0, 0)
      OBVIOUS
    <3> QED BY <3>1
  <2>2. ASSUME NEW n \in Exists PROVE n + 1 \in Exists
    <3>1. PICK f : Rule(f, n)
      OBVIOUS
    <3> DEFINE next == IF t[n + 1] \in kept THEN Append(f[n], t[n + 1]) ELSE f[n]
               g == [i \in 0..(n + 1) |-> IF i = n + 1 THEN next ELSE f[i]]
    <3>2. n \in Nat
      OBVIOUS
    <3>3. \A i \in 0..(n + 1) : Entry(g, i) = g[i]
      <4>1. \A i \in 0..n : f[i] = Entry(f, i)
        BY <3>1, Zenon
      <4>2. \A i \in 0..n : g[i] = f[i]
        BY <3>2
      <4>3. g[n + 1] = next
        BY <3>2
      <4> HIDE DEF g
      <4>4. \A i \in 0..n : Entry(g, i) = Entry(f, i)
        BY <3>2, <4>2
      <4>5. Entry(g, n + 1) = next
        BY <3>2, <4>2
      <4>6. \A i \in 0..(n + 1) : i \in 0..n \/ i = n + 1
        BY <3>2
      <4> HIDE DEF Entry, next
      <4> QED BY <4>1, <4>2, <4>3, <4>4, <4>5, <4>6
    <3>4. g = [i \in 0..(n + 1) |-> g[i]]
      BY Zenon
    <3> HIDE DEF g, Entry
    <3>5. Rule(g, n + 1)
      BY <3>3, <3>4
    <3> QED BY <3>2, <3>5
  <2> HIDE DEF Exists
  <2>3. Exists \in SUBSET Nat
    BY DEF Exists
  <2> QED BY <2>1, <2>2, <2>3, AllNaturals, Zenon
<1>3. Rule(Pick, Len(t))
  BY <1>2, <1>len
<1> HIDE DEF Pick
<1>4. \A i \in 0..Len(t) : Pick[i] = Entry(Pick, i)
  BY <1>3, Zenon
<1>5. Pick[0] = <<>>
  BY <1>4, <1>len
<1>6. ASSUME NEW n \in 0..(Len(t) - 1)
      PROVE  Pick[n + 1] = IF t[n + 1] \in kept THEN Append(Pick[n], t[n + 1]) ELSE Pick[n]
  <2>1. n \in Nat /\ n + 1 \in 0..Len(t) /\ n + 1 # 0 /\ n + 1 - 1 = n
    BY <1>len
  <2> QED BY <1>4, <2>1
<1> HIDE DEF Entry, Rule
<1>7. Loop(Pick, t, kept)
  BY <1>1, <1>5, <1>6 DEF Loop
<1> QED BY <1>7

(* What is selected is what of the snapshot is kept.                          *)
LEMMA SelectRange ==
    ASSUME NEW L, NEW t \in Seq(L), NEW kept
    PROVE  /\ Select(t, kept) \in Seq(L)
           /\ ToSet(Select(t, kept)) = ToSet(t) \intersect kept
<1>0. PICK Pick : Loop(Pick, t, kept)
  BY SelectRule, Zenon
<1>1. /\ Select(t, kept) = Pick[Len(t)] /\ Pick[0] = <<>>
      /\ \A n \in 0..(Len(t) - 1) :
            Pick[n + 1] = IF t[n + 1] \in kept THEN Append(Pick[n], t[n + 1]) ELSE Pick[n]
  BY <1>0, Zenon DEF Loop
<1>len. Len(t) \in Nat /\ \A i \in 1..Len(t) : t[i] \in L
  OBVIOUS
<1> DEFINE Seen(s, n) == \A x : (\E k \in 1..Len(s) : s[k] = x)
                                    <=> x \in kept /\ \E j \in 1..n : t[j] = x
           Good == {n \in Nat : n <= Len(t) => Pick[n] \in Seq(L) /\ Seen(Pick[n], n)}
<1>4. 0 \in Good
  <2>1. Pick[0] = <<>>
    BY <1>1
  <2>2. Pick[0] \in Seq(L) /\ Len(Pick[0]) = 0
    BY <2>1
  <2>3. Seen(Pick[0], 0)
    BY <2>2
  <2> QED BY <2>2, <2>3, Zenon
<1>5. ASSUME NEW n \in Good PROVE n + 1 \in Good
  <2>1. SUFFICES ASSUME n + 1 <= Len(t)
                 PROVE  Pick[n + 1] \in Seq(L) /\ Seen(Pick[n + 1], n + 1)
    <3> HIDE DEF Seen
    <3>1. n + 1 \in Nat
      OBVIOUS
    <3> QED BY <3>1, Zenon
  <2>2. /\ Pick[n] \in Seq(L) /\ n \in Nat /\ n + 1 \in 1..Len(t)
        /\ Seen(Pick[n], n)
    <3> HIDE DEF Seen
    <3>1. n \in Nat
      OBVIOUS
    <3>2. n <= Len(t) /\ n + 1 \in 1..Len(t)
      BY <1>len, <2>1, <3>1
    <3> QED BY <3>1, <3>2, Zenon
  <2>3. Pick[n + 1] = IF t[n + 1] \in kept THEN Append(Pick[n], t[n + 1]) ELSE Pick[n]
    <3>1. n \in 0..(Len(t) - 1)
      BY <1>len, <2>1
    <3> QED BY <1>1, <3>1, Zenon
  <2>4. \A j : j \in 1..(n + 1) <=> j \in 1..n \/ j = n + 1
    BY <2>2
  <2>5. CASE t[n + 1] \in kept
    <3> DEFINE s == Pick[n]
               u == Append(s, t[n + 1])
    <3>1. /\ u \in Seq(L) /\ Len(s) \in Nat /\ Len(u) = Len(s) + 1
          /\ u[Len(s) + 1] = t[n + 1] /\ \A k \in 1..Len(s) : u[k] = s[k]
      BY <1>len, <2>2
    <3>2. \A k : k \in 1..(Len(s) + 1) <=> k \in 1..Len(s) \/ k = Len(s) + 1
      BY <3>1
    <3>3. Pick[n + 1] = u
      BY <2>3, <2>5
    <3>4. Seen(s, n)
      BY <2>2
    <3> HIDE DEF s, u
    <3>5. ASSUME NEW x
          PROVE  (\E k \in 1..Len(u) : u[k] = x) <=> x \in kept /\ \E j \in 1..(n + 1) : t[j] = x
      <4>1. (\E k \in 1..Len(u) : u[k] = x) <=> (\E k \in 1..Len(s) : s[k] = x) \/ x = t[n + 1]
        <5>1. (\E k \in 1..Len(u) : u[k] = x) <=> (\E k \in 1..Len(s) : u[k] = x) \/ u[Len(s) + 1] = x
          BY <3>1, <3>2, Zenon
        <5>2. (\E k \in 1..Len(s) : u[k] = x) <=> \E k \in 1..Len(s) : s[k] = x
          BY <3>1, Zenon
        <5> QED BY <3>1, <5>1, <5>2, Zenon
      <4>2. (\E j \in 1..(n + 1) : t[j] = x) <=> (\E j \in 1..n : t[j] = x) \/ x = t[n + 1]
        BY <2>4, Zenon
      <4>3. (\E k \in 1..Len(s) : s[k] = x) <=> x \in kept /\ \E j \in 1..n : t[j] = x
        BY <3>4, Zenon
      <4>4. x = t[n + 1] => x \in kept
        BY <2>5, Zenon
      <4> QED BY <4>1, <4>2, <4>3, <4>4, Zenon
    <3>6. Seen(u, n + 1)
      BY <3>5, Zenon
    <3> QED BY <3>1, <3>3, <3>6
  <2>6. CASE t[n + 1] \notin kept
    <3>1. Pick[n + 1] = Pick[n]
      BY <2>3, <2>6
    <3>2. Seen(Pick[n], n + 1)
      BY <2>2, <2>4, <2>6, Zenon
    <3> QED BY <2>2, <3>1, <3>2
  <2> QED BY <2>5, <2>6
<1>6. Good = Nat
  <2> HIDE DEF Good
  <2>1. Good \in SUBSET Nat
    BY DEF Good
  <2> QED BY <1>4, <1>5, <2>1, AllNaturals, Zenon
<1>7. Pick[Len(t)] \in Seq(L) /\ Seen(Pick[Len(t)], Len(t))
  <2>1. Len(t) <= Len(t)
    BY <1>len
  <2>2. Len(t) \in Good
    <3> HIDE DEF Good
    <3> QED BY <1>6, <1>len, Zenon
  <2> QED BY <2>1, <2>2, Zenon
<1>8. ASSUME NEW x
      PROVE  x \in ToSet(Pick[Len(t)]) <=> x \in ToSet(t) /\ x \in kept
  <2>1. /\ x \in ToSet(Pick[Len(t)]) <=> \E k \in 1..Len(Pick[Len(t)]) : Pick[Len(t)][k] = x
        /\ x \in ToSet(t) <=> \E j \in 1..Len(t) : t[j] = x
    BY <1>7 DEF ToSet
  <2> QED BY <1>7, <2>1, Zenon
<1> QED BY <1>1, <1>7, <1>8

(* The selected entries keep the order of the snapshot.                       *)
LEMMA SelectOrder ==
    ASSUME NEW L, NEW t \in Seq(L), NEW kept
    PROVE  \E pos \in [1..Len(Select(t, kept)) -> 1..Len(t)] :
              /\ \A k \in 1..Len(Select(t, kept)) : Select(t, kept)[k] = t[pos[k]]
              /\ \A i, j \in 1..Len(Select(t, kept)) : i < j => pos[i] < pos[j]
<1>0. PICK Pick : Loop(Pick, t, kept)
  BY SelectRule, Zenon
<1>1. /\ Select(t, kept) = Pick[Len(t)] /\ Pick[0] = <<>>
      /\ \A n \in 0..(Len(t) - 1) :
            Pick[n + 1] = IF t[n + 1] \in kept THEN Append(Pick[n], t[n + 1]) ELSE Pick[n]
  BY <1>0, Zenon DEF Loop
<1>len. Len(t) \in Nat /\ \A i \in 1..Len(t) : t[i] \in L
  OBVIOUS
<1> DEFINE Placed(s, n) == \E pos \in [1..Len(s) -> 1..n] :
                              /\ \A k \in 1..Len(s) : s[k] = t[pos[k]]
                              /\ \A i, j \in 1..Len(s) : i < j => pos[i] < pos[j]
           Good == {n \in Nat : n <= Len(t) => Pick[n] \in Seq(L) /\ Placed(Pick[n], n)}
<1>2. 0 \in Good
  <2>1. Pick[0] \in Seq(L) /\ Len(Pick[0]) = 0 /\ 1..0 = {}
    BY <1>1
  <2>2. [k \in 1..0 |-> 0] \in [1..Len(Pick[0]) -> 1..0]
    BY <2>1
  <2>3. Placed(Pick[0], 0)
    BY <2>1, <2>2
  <2> QED BY <2>1, <2>3, Zenon
<1>3. ASSUME NEW n \in Good PROVE n + 1 \in Good
  <2>1. SUFFICES ASSUME n + 1 <= Len(t)
                 PROVE  Pick[n + 1] \in Seq(L) /\ Placed(Pick[n + 1], n + 1)
    <3> HIDE DEF Placed
    <3>1. n + 1 \in Nat
      OBVIOUS
    <3> QED BY <3>1, Zenon
  <2> DEFINE s == Pick[n]
  <2>2. s \in Seq(L) /\ Len(s) \in Nat /\ n \in Nat /\ n + 1 \in 1..Len(t) /\ n \in 0..(Len(t) - 1)
    <3> HIDE DEF Placed
    <3>1. n \in Nat
      OBVIOUS
    <3>2. n <= Len(t) /\ n + 1 \in 1..Len(t) /\ n \in 0..(Len(t) - 1)
      BY <1>len, <2>1, <3>1
    <3>3. s \in Seq(L)
      BY <3>1, <3>2, Zenon
    <3> QED BY <3>1, <3>2, <3>3
  <2>3. PICK pos \in [1..Len(s) -> 1..n] :
              /\ \A k \in 1..Len(s) : s[k] = t[pos[k]]
              /\ \A i, j \in 1..Len(s) : i < j => pos[i] < pos[j]
    <3>1. n \in Nat /\ n <= Len(t)
      BY <1>len, <2>1, <2>2
    <3>2. Placed(s, n)
      <4> HIDE DEF Placed
      <4> QED BY <3>1, Zenon
    <3> QED BY <3>2, Zenon
  <2>4. Pick[n + 1] = IF t[n + 1] \in kept THEN Append(s, t[n + 1]) ELSE s
    BY <1>1, <2>2, Zenon
  <2> HIDE DEF s, Good, Placed
  <2>5. CASE t[n + 1] \in kept
    <3> DEFINE u == Append(s, t[n + 1])
               put == [k \in 1..(Len(s) + 1) |-> IF k = Len(s) + 1 THEN n + 1 ELSE pos[k]]
    <3>1. /\ u \in Seq(L) /\ Len(u) = Len(s) + 1
          /\ u[Len(s) + 1] = t[n + 1] /\ \A k \in 1..Len(s) : u[k] = s[k]
      BY <1>len, <2>2
    <3>2. \A k \in 1..(Len(s) + 1) : k \in 1..Len(s) \/ k = Len(s) + 1
      BY <2>2
    <3>3. \A k \in 1..Len(s) : pos[k] \in 1..n /\ pos[k] \in Int /\ pos[k] < n + 1 /\ put[k] = pos[k]
      <4> SUFFICES ASSUME NEW k \in 1..Len(s)
                   PROVE  pos[k] \in 1..n /\ pos[k] \in Int /\ pos[k] < n + 1 /\ put[k] = pos[k]
        OBVIOUS
      <4>1. pos[k] \in 1..n
        BY <2>3, Zenon
      <4>2. pos[k] \in Int /\ pos[k] < n + 1
        BY <2>2, <4>1
      <4>3. k \in 1..(Len(s) + 1) /\ k # Len(s) + 1
        BY <2>2
      <4>4. put[k] = pos[k]
        BY <4>3, Zenon
      <4> QED BY <4>1, <4>2, <4>4
    <3>4. put[Len(s) + 1] = n + 1
      <4>1. Len(s) + 1 \in 1..(Len(s) + 1)
        BY <2>2
      <4> QED BY <4>1, Zenon
    <3>5. put \in [1..(Len(s) + 1) -> 1..(n + 1)]
      BY <2>2, <3>2, <3>3
    <3> HIDE DEF put, u
    <3>6. \A k \in 1..Len(u) : u[k] = t[put[k]]
      BY <2>3, <3>1, <3>2, <3>3, <3>4
    <3>7. ASSUME NEW i \in 1..Len(u), NEW j \in 1..Len(u), i < j PROVE put[i] < put[j]
      <4>1. i \in 1..Len(s)
        BY <2>2, <3>1, <3>7
      <4>2. CASE j \in 1..Len(s)
        BY <2>3, <3>3, <3>7, <4>1, <4>2
      <4>3. CASE j = Len(s) + 1
        BY <3>3, <3>4, <4>1, <4>3
      <4> QED BY <3>1, <3>2, <4>2, <4>3
    <3>8. Placed(u, n + 1)
      BY <3>1, <3>5, <3>6, <3>7 DEF Placed
    <3>9. Pick[n + 1] = u
      BY <2>4, <2>5 DEF u
    <3> QED BY <3>1, <3>8, <3>9
  <2>6. CASE t[n + 1] \notin kept
    <3>1. Pick[n + 1] = s
      BY <2>4, <2>6
    <3>2. pos \in [1..Len(s) -> 1..(n + 1)]
      <4>1. 1..n \subseteq 1..(n + 1)
        BY <2>2
      <4> QED BY <2>3, <4>1
    <3>3. Placed(s, n + 1)
      BY <2>3, <3>2 DEF Placed
    <3> QED BY <2>2, <3>1, <3>3
  <2> QED BY <2>5, <2>6
<1>4. Good = Nat
  <2> HIDE DEF Good
  <2>1. Good \in SUBSET Nat
    BY DEF Good
  <2> QED BY <1>2, <1>3, <2>1, AllNaturals, Zenon
<1>5. Placed(Pick[Len(t)], Len(t))
  <2>1. Len(t) <= Len(t)
    BY <1>len
  <2>2. Len(t) \in Good
    <3> HIDE DEF Good
    <3> QED BY <1>4, <1>len, Zenon
  <2> QED BY <2>1, <2>2, Zenon
<1>6. Placed(Select(t, kept), Len(t))
  <2> HIDE DEF Placed
  <2>1. Select(t, kept) = Pick[Len(t)]
    BY <1>1, Zenon
  <2> QED BY <1>5, <2>1, Zenon
<1> QED BY <1>6, Zenon

(* A removal by index takes out that entry and no other.                     *)
LEMMA RemovedEntry ==
    ASSUME NEW L, NEW t \in Seq(L), NEW i \in 1..Len(t)
    PROVE  /\ RemoveAt(t, i) \in Seq(L)
           /\ Len(RemoveAt(t, i)) = Len(t) - 1
           /\ \A k \in 1..(Len(t) - 1) :
                RemoveAt(t, i)[k] = IF k < i THEN t[k] ELSE t[k + 1]
<1> DEFINE a == SubSeq(t, 1, i - 1)
           b == SubSeq(t, i + 1, Len(t))
<1>0. Len(t) \in Nat /\ i \in Nat
  OBVIOUS
<1>1. a \in Seq(L) /\ Len(a) = i - 1 /\ \A k \in 1..(i - 1) : a[k] = t[k]
  BY <1>0
<1>2. b \in Seq(L) /\ Len(b) = Len(t) - i /\ \A k \in 1..(Len(t) - i) : b[k] = t[k + i]
  BY <1>0
<1> HIDE DEF a, b
<1>3. /\ a \o b \in Seq(L) /\ Len(a \o b) = Len(a) + Len(b)
      /\ \A k \in 1..(Len(a) + Len(b)) :
           (a \o b)[k] = IF k <= Len(a) THEN a[k] ELSE b[k - Len(a)]
  BY <1>1, <1>2, ConcatProperties
<1>4. RemoveAt(t, i) = a \o b
  BY DEF RemoveAt, a, b
<1>5. Len(a) + Len(b) = Len(t) - 1
  BY <1>0, <1>1, <1>2
<1>6. ASSUME NEW k \in 1..(Len(t) - 1)
      PROVE  (a \o b)[k] = IF k < i THEN t[k] ELSE t[k + 1]
  <2>1. (a \o b)[k] = IF k <= Len(a) THEN a[k] ELSE b[k - Len(a)]
    BY <1>3, <1>5
  <2>2. CASE k < i
    BY <1>0, <1>1, <2>1, <2>2
  <2>3. CASE ~(k < i)
    <3>1. k - Len(a) \in 1..(Len(t) - i) /\ (k - Len(a)) + i = k + 1 /\ ~(k <= Len(a))
      BY <1>0, <1>1, <2>3
    <3> QED BY <1>2, <2>1, <2>3, <3>1
  <2> QED BY <2>2, <2>3
<1> QED BY <1>3, <1>4, <1>5, <1>6

-----------------------------------------------------------------------------
(* Members of a sequence. *)

(* Membership in a sequence, as a set and by position.                        *)
LEMMA ContainsIsRange ==
    ASSUME NEW L, NEW t \in Seq(L), NEW l
    PROVE  l \in ToSet(t) <=> Contains(t, l)
BY DEF ToSet, Contains

(* What a push adds.                                                          *)
LEMMA ContainsAppend ==
    ASSUME NEW L, NEW t \in Seq(L), NEW x \in L, NEW l
    PROVE  Contains(Append(t, x), l) <=> Contains(t, l) \/ l = x
<1>1. /\ Len(t) \in Nat /\ Len(Append(t, x)) = Len(t) + 1
      /\ Append(t, x)[Len(t) + 1] = x
      /\ \A i \in 1..Len(t) : Append(t, x)[i] = t[i]
  OBVIOUS
<1>2. \A i \in 1..(Len(t) + 1) : i \in 1..Len(t) \/ i = Len(t) + 1
  BY <1>1
<1>3. \A i \in 1..Len(t) : i \in 1..(Len(t) + 1)
  BY <1>1
<1>4. Len(t) + 1 \in 1..(Len(t) + 1)
  BY <1>1
<1> QED BY <1>1, <1>2, <1>3, <1>4, Zenon DEF Contains

(* What is left behind the head.                                              *)
LEMMA ContainsTail ==
    ASSUME NEW L, NEW t \in Seq(L), t # <<>>, NEW l
    PROVE  Contains(t, l) <=> Contains(Tail(t), l) \/ l = Head(t)
<1>1. /\ Len(t) \in Nat \ {0} /\ Len(Tail(t)) = Len(t) - 1 /\ Head(t) = t[1]
      /\ \A i \in 1..(Len(t) - 1) : Tail(t)[i] = t[i + 1]
  OBVIOUS
<1>2. ASSUME NEW i \in 1..Len(t), t[i] = l PROVE Contains(Tail(t), l) \/ l = Head(t)
  <2>1. CASE i = 1
    BY <1>1, <1>2, <2>1
  <2>2. CASE i # 1
    <3>1. i - 1 \in 1..(Len(t) - 1) /\ (i - 1) + 1 = i
      BY <1>1, <2>2
    <3> QED BY <1>1, <1>2, <3>1 DEF Contains
  <2> QED BY <2>1, <2>2
<1>3. ASSUME NEW i \in 1..Len(Tail(t)), Tail(t)[i] = l PROVE Contains(t, l)
  <2>1. i + 1 \in 1..Len(t) /\ t[i + 1] = l
    BY <1>1, <1>3
  <2> QED BY <2>1 DEF Contains
<1>4. l = Head(t) => Contains(t, l)
  BY <1>1 DEF Contains
<1> QED BY <1>2, <1>3, <1>4 DEF Contains
-----------------------------------------------------------------------------
(* What is numbered one to one by a finite set is finite, of the same size. *)
LEMMA CountedByBijection ==
    ASSUME NEW S, NEW T, IsFiniteSet(S), NEW F \in [S -> T],
           \A x, y \in S : F[x] = F[y] => x = y,
           \A y \in T : \E x \in S : F[x] = y
    PROVE  IsFiniteSet(T) /\ Cardinality(T) = Cardinality(S)
<1>1. F \in Bijection(S, T)
  BY Fun_IsBij, Zenon
<1>2. ExistsBijection(S, T)
  BY <1>1, Zenon DEF ExistsBijection
<1> QED BY <1>2, FS_Bijection

(* The members of two sequences in a row.                                     *)
LEMMA ConcatRange ==
    ASSUME NEW L, NEW s \in Seq(L), NEW t \in Seq(L)
    PROVE  s \o t \in Seq(L) /\ ToSet(s \o t) = ToSet(s) \union ToSet(t)
<1> DEFINE u == s \o t
<1>1. /\ Len(s) \in Nat /\ Len(t) \in Nat
      /\ DOMAIN s = 1..Len(s) /\ DOMAIN t = 1..Len(t) /\ DOMAIN u = 1..(Len(s) + Len(t))
      /\ \A k \in 1..Len(s) : u[k] = s[k]
      /\ \A k \in 1..Len(t) : u[Len(s) + k] = t[k]
  OBVIOUS
<1>2. s \o t \in Seq(L)
  OBVIOUS
<1> HIDE DEF u
<1>3. ASSUME NEW k \in DOMAIN u PROVE u[k] \in ToSet(s) \union ToSet(t)
  <2>1. CASE k <= Len(s)
    BY <1>1, <2>1 DEF ToSet
  <2>2. CASE ~(k <= Len(s))
    <3>1. k - Len(s) \in 1..Len(t) /\ Len(s) + (k - Len(s)) = k
      BY <1>1, <2>2
    <3> QED BY <1>1, <3>1 DEF ToSet
  <2> QED BY <2>1, <2>2
<1>4. ASSUME NEW k \in DOMAIN s PROVE s[k] \in ToSet(u)
  <2>1. k \in DOMAIN u /\ u[k] = s[k]
    BY <1>1
  <2> QED BY <2>1 DEF ToSet
<1>5. ASSUME NEW k \in DOMAIN t PROVE t[k] \in ToSet(u)
  <2>1. Len(s) + k \in DOMAIN u /\ u[Len(s) + k] = t[k]
    BY <1>1
  <2> QED BY <2>1 DEF ToSet
<1> QED BY <1>2, <1>3, <1>4, <1>5 DEF ToSet, u

(* What a finite set is mapped onto is finite.                                *)
LEMMA FiniteImage ==
    ASSUME NEW S, NEW T, IsFiniteSet(S), NEW F \in [S -> T], \A y \in T : \E x \in S : F[x] = y
    PROVE  IsFiniteSet(T)
<1>1. F \in Surjection(S, T)
  BY Fun_IsSurj, Zenon
<1> QED BY <1>1, FS_Surjection

(* A finite set, put in some order, each member once.                         *)
LEMMA SetToSeqRange ==
    ASSUME NEW S, IsFiniteSet(S)
    PROVE  /\ SetToSeq(S) \in Seq(S) /\ ToSet(SetToSeq(S)) = S
           /\ \A x, y \in 1..Len(SetToSeq(S)) : SetToSeq(S)[x] = SetToSeq(S)[y] => x = y
<1> DEFINE n == Cardinality(S)
           s == SetToSeq(S)
<1>1. n \in Nat /\ ExistsBijection(1..n, S)
  BY FS_CardinalityType
<1>2. PICK b : b \in Bijection(1..n, S)
  BY <1>1 DEF ExistsBijection
<1>3. b \in [1..n -> S] /\ IsInjective(b)
  BY <1>2 DEF Bijection, Injection
<1>4. s = CHOOSE f \in [1..n -> S] : IsInjective(f)
  BY DEF SetToSeq
<1> HIDE DEF s, n
<1>5. s \in [1..n -> S] /\ IsInjective(s)
  BY <1>3, <1>4
<1>6. s \in Seq(S) /\ DOMAIN s = 1..n
  BY <1>1, <1>5
<1> DEFINE R == {s[i] : i \in 1..n}
<1>7. IsFiniteSet(1..n) /\ Cardinality(1..n) = n
  BY <1>1, FS_Interval
<1>8. IsFiniteSet(R) /\ Cardinality(R) = n
  <2>1. s \in [1..n -> R]
    BY <1>5
  <2>2. \A x, y \in 1..n : s[x] = s[y] => x = y
    BY <1>5, <1>6 DEF IsInjective
  <2>3. \A y \in R : \E x \in 1..n : s[x] = y
    OBVIOUS
  <2> HIDE DEF R
  <2> QED BY <1>7, <2>1, <2>2, <2>3, CountedByBijection
<1>9. R \subseteq S
  BY <1>5
<1>10. R = S
  <2> HIDE DEF R
  <2> QED BY <1>8, <1>9, FS_Subset DEF n
<1>11. \A x, y \in 1..Len(s) : s[x] = s[y] => x = y
  BY <1>1, <1>5, <1>6 DEF IsInjective
<1> QED BY <1>6, <1>10, <1>11 DEF ToSet, s

(* One entry of a sequence replaced.                                          *)
LEMMA OneReplaced ==
    ASSUME NEW S, NEW s \in Seq(S), NEW k, NEW x \in S
    PROVE  /\ [s EXCEPT ![k] = x] \in Seq(S) /\ Len([s EXCEPT ![k] = x]) = Len(s)
           /\ \A n \in 1..Len(s) : [s EXCEPT ![k] = x][n] = IF n = k THEN x ELSE s[n]
<1> DEFINE t == [s EXCEPT ![k] = x]
<1>1. Len(s) \in Nat /\ s \in [1..Len(s) -> S]
  OBVIOUS
<1>2. t \in [1..Len(s) -> S] /\ \A n \in 1..Len(s) : t[n] = IF n = k THEN x ELSE s[n]
  BY <1>1
<1> HIDE DEF t
<1>3. t \in Seq(S) /\ Len(t) = Len(s)
  BY <1>1, <1>2
<1> QED BY <1>2, <1>3 DEF t

(* A sequence over fewer is one over more.                                   *)
LEMMA SeqWider ==
    ASSUME NEW A, NEW B, A \subseteq B, NEW f \in Seq(A)
    PROVE  f \in Seq(B)
OBVIOUS

(* A sequence read backwards.                                                 *)
LEMMA ReverseFacts ==
    ASSUME NEW L, NEW t \in Seq(L)
    PROVE  /\ Reverse(t) \in Seq(L) /\ Len(Reverse(t)) = Len(t)
           /\ \A k \in 1..Len(t) : /\ (Len(t) - k) + 1 \in 1..Len(t)
                                   /\ Reverse(t)[k] = t[(Len(t) - k) + 1]
                                   /\ Reverse(t)[(Len(t) - k) + 1] = t[k]
<1> DEFINE K == Reverse(t)
<1>1. Len(t) \in Nat /\ \A k \in 1..Len(t) : t[k] \in L
  OBVIOUS
<1>2. K = [k \in 1..Len(t) |-> t[(Len(t) - k) + 1]]
  BY DEF Reverse
<1>3. \A k \in 1..Len(t) : (Len(t) - k) + 1 \in 1..Len(t) /\ (Len(t) - ((Len(t) - k) + 1)) + 1 = k
  BY <1>1
<1> HIDE DEF K
<1>4. DOMAIN K = 1..Len(t) /\ \A k \in 1..Len(t) : K[k] = t[(Len(t) - k) + 1]
  BY <1>2
<1>5. K \in [1..Len(t) -> L]
  BY <1>1, <1>2, <1>3
<1>6. K \in Seq(L)
  BY <1>1, <1>5, SeqDef
<1>7. Len(K) = Len(t)
  BY <1>1, <1>4, <1>6, LenProperties
<1>8. \A k \in 1..Len(t) : K[(Len(t) - k) + 1] = t[k]
  BY <1>3, <1>4
<1> QED BY <1>3, <1>4, <1>6, <1>7, <1>8 DEF K

-----------------------------------------------------------------------------
(* Sums over a finite set.  A fold takes the elements in an order nobody      *)
(* names; what it adds up to is what any additive function gives the set.     *)

First(s) == CHOOSE x \in s : TRUE

Additive(g, S, W) ==
    /\ g \in [SUBSET S -> Int]
    /\ g[{}] = 0
    /\ \A s \in SUBSET S : \A x \in S \ s : g[s \union {x}] = g[s] + W[x]

(* Every weighting of a finite set has an additive function: the weights are  *)
(* let in one by one.                                                         *)
LEMMA AdditiveExists ==
    ASSUME NEW S, IsFiniteSet(S), NEW W \in [S -> Int]
    PROVE  \E g : Additive(g, S, W)
<1> DEFINE Masked(T) == [x \in S |-> IF x \in T THEN W[x] ELSE 0]
           Reached == {n \in Nat : \A T \in SUBSET S :
                          Cardinality(T) = n => \E g : Additive(g, S, Masked(T))}
<1>1. 0 \in Reached
  <2>1. ASSUME NEW T \in SUBSET S, Cardinality(T) = 0
        PROVE  \E g : Additive(g, S, Masked(T))
    <3>1. T = {}
      BY <2>1, FS_Subset, FS_EmptySet
    <3> DEFINE g == [s \in SUBSET S |-> 0]
    <3>2. Additive(g, S, Masked(T))
      BY <3>1 DEF Additive
    <3> QED BY <3>2
  <2> QED BY <2>1
<1>2. ASSUME NEW n \in Reached PROVE n + 1 \in Reached
  <2>1. ASSUME NEW T \in SUBSET S, Cardinality(T) = n + 1
        PROVE  \E g : Additive(g, S, Masked(T))
    <3>1. IsFiniteSet(T) /\ n \in Nat
      BY FS_Subset
    <3>2. PICK e : e \in T
      BY <2>1, <3>1, FS_EmptySet
    <3>3. Cardinality(T \ {e}) = n /\ T \ {e} \in SUBSET S
      <4>1. Cardinality(T \ {e}) = Cardinality(T) - 1
        BY <3>1, <3>2, FS_RemoveElement
      <4> QED BY <2>1, <3>1, <4>1
    <3>4. PICK h : Additive(h, S, Masked(T \ {e}))
      BY <3>3
    <3> DEFINE g == [s \in SUBSET S |-> h[s] + (IF e \in s THEN W[e] ELSE 0)]
    <3>5. W[e] \in Int /\ e \in S
      BY <3>2
    <3>6. h \in [SUBSET S -> Int] /\ h[{}] = 0
      BY <3>4 DEF Additive
    <3>7. g \in [SUBSET S -> Int] /\ g[{}] = 0
      BY <3>5, <3>6
    <3>8. ASSUME NEW s \in SUBSET S, NEW x \in S \ s
          PROVE  g[s \union {x}] = g[s] + Masked(T)[x]
      <4>1. h[s \union {x}] = h[s] + Masked(T \ {e})[x]
        BY <3>4, <3>8 DEF Additive
      <4>2. s \union {x} \in SUBSET S /\ h[s] \in Int /\ W[x] \in Int
        BY <3>6
      <4>3. CASE x = e
        BY <3>2, <3>5, <4>1, <4>2, <4>3
      <4>4. CASE x # e
        BY <3>2, <3>5, <4>1, <4>2, <4>4
      <4> QED BY <4>3, <4>4
    <3> HIDE DEF g
    <3>9. Additive(g, S, Masked(T))
      BY <3>7, <3>8 DEF Additive
    <3> QED BY <3>9
  <2>2. n + 1 \in Nat
    OBVIOUS
  <2> HIDE DEF Masked
  <2> QED BY <2>1, <2>2
<1>3. Reached = Nat
  <2> HIDE DEF Reached
  <2>1. Reached \in SUBSET Nat
    BY DEF Reached
  <2> QED BY <1>1, <1>2, <2>1, AllNaturals, Zenon
<1>4. Cardinality(S) \in Nat
  BY FS_CardinalityType
<1>5. \E g : Additive(g, S, Masked(S))
  BY <1>3, <1>4
<1>6. Masked(S) = W
  OBVIOUS
<1> QED BY <1>5, <1>6

(* A function that takes an element off and adds the rest agrees with an      *)
(* additive one on every subset.                                              *)
TakesOff(f, S, W) ==
    /\ f[{}] = 0
    /\ \A s \in SUBSET S : s # {} => (f[s \ {First(s)}] \in Int =>
                                           f[s] = f[s \ {First(s)}] + W[First(s)])

LEMMA AdditiveUnique ==
    ASSUME NEW S, IsFiniteSet(S), NEW W \in [S -> Int], NEW g, Additive(g, S, W),
           NEW f, TakesOff(f, S, W)
    PROVE  f[S] = g[S]
<1> USE DEF TakesOff
<1> DEFINE Reached == {n \in Nat : \A s \in SUBSET S : Cardinality(s) = n => f[s] = g[s]}
<1>0. g \in [SUBSET S -> Int] /\ g[{}] = 0
  BY DEF Additive
<1>1. 0 \in Reached
  <2>1. ASSUME NEW s \in SUBSET S, Cardinality(s) = 0 PROVE f[s] = g[s]
    <3>1. s = {}
      BY <2>1, FS_Subset, FS_EmptySet
    <3> QED BY <1>0, <3>1
  <2> QED BY <2>1
<1>2. ASSUME NEW n \in Reached PROVE n + 1 \in Reached
  <2>1. ASSUME NEW s \in SUBSET S, Cardinality(s) = n + 1 PROVE f[s] = g[s]
    <3>1. IsFiniteSet(s) /\ n \in Nat
      BY FS_Subset
    <3>2. s # {}
      BY <2>1, <3>1, FS_EmptySet
    <3>3. First(s) \in s
      BY <3>2 DEF First
    <3> DEFINE x == First(s)
               rest == s \ {x}
    <3>4. Cardinality(rest) = n /\ rest \in SUBSET S
      <4>1. Cardinality(rest) = Cardinality(s) - 1
        BY <3>1, <3>3, FS_RemoveElement
      <4> QED BY <2>1, <3>1, <4>1
    <3>5. f[rest] = g[rest] /\ g[rest] \in Int
      BY <1>0, <3>4
    <3>6. f[s] = f[rest] + W[x]
      BY <3>2, <3>5
    <3>7. x \in S \ rest /\ rest \union {x} = s
      BY <3>3
    <3> HIDE DEF x, rest
    <3>8. g[s] = g[rest] + W[x]
      BY <3>4, <3>7 DEF Additive
    <3> QED BY <3>5, <3>6, <3>8
  <2> QED BY <2>1
<1>3. Reached = Nat
  <2> HIDE DEF Reached
  <2>1. Reached \in SUBSET Nat
    BY DEF Reached
  <2> QED BY <1>1, <1>2, <2>1, AllNaturals, Zenon
<1>4. Cardinality(S) \in Nat
  BY FS_CardinalityType
<1> QED BY <1>3, <1>4

(* The sum of the values of a function.                                       *)
LEMMA SumIsAdditive ==
    ASSUME NEW S, IsFiniteSet(S), NEW W \in [S -> Int], NEW g, Additive(g, S, W)
    PROVE  FoldFunction(+, 0, W) = g[S]
<1> DEFINE Rule(f) == f = [s \in SUBSET S |-> IF s = {} THEN 0
                                              ELSE W[First(s)] + f[s \ {First(s)}]]
           it == CHOOSE f : Rule(f)
<1>1. FoldFunction(+, 0, W) = it[S]
  <2>1. DOMAIN W = S
    OBVIOUS
  <2>2. FoldFunctionOnSet(+, 0, W, S) = it[S]
    BY Zenon DEF FoldFunctionOnSet, MapThenFoldSet, First
  <2> HIDE DEF it
  <2> QED BY <2>1, <2>2, Zenon DEF FoldFunction
<1>2. Rule(g)
  <2>1. g = [s \in SUBSET S |-> g[s]]
    BY DEF Additive
  <2>2. ASSUME NEW s \in SUBSET S
        PROVE  g[s] = IF s = {} THEN 0 ELSE W[First(s)] + g[s \ {First(s)}]
    <3>1. CASE s = {}
      BY <3>1 DEF Additive
    <3>2. CASE s # {}
      <4>1. First(s) \in s
        BY <3>2 DEF First
      <4> DEFINE x == First(s)
                 rest == s \ {x}
      <4>2. x \in S \ rest /\ rest \union {x} = s /\ rest \in SUBSET S
        BY <4>1
      <4> HIDE DEF x, rest
      <4>3. g[s] = g[rest] + W[x] /\ g[rest] \in Int /\ W[x] \in Int
        BY <4>2 DEF Additive
      <4>4. g[s] = W[x] + g[rest]
        BY <4>3
      <4> QED BY <3>2, <4>4 DEF x, rest
    <3> QED BY <3>1, <3>2
  <2> QED BY <2>1, <2>2, Zenon
<1>3. Rule(it)
  BY <1>2, Zenon
<1> HIDE DEF it
<1>4. it[{}] = 0
  <2>1. {} \in SUBSET S
    OBVIOUS
  <2> QED BY <1>3, <2>1, Zenon
<1>5. ASSUME NEW s \in SUBSET S, s # {}, it[s \ {First(s)}] \in Int
      PROVE  it[s] = it[s \ {First(s)}] + W[First(s)]
  <2>1. it[s] = W[First(s)] + it[s \ {First(s)}]
    BY <1>3, <1>5, Zenon
  <2>2. W[First(s)] \in Int
    BY <1>5 DEF First
  <2> QED BY <1>5, <2>1, <2>2
<1>6. it[S] = g[S]
  <2>1. TakesOff(it, S, W)
    BY <1>4, <1>5, Zenon DEF TakesOff
  <2> QED BY <2>1, AdditiveUnique
<1> QED BY <1>1, <1>6

(* Raising the values of a subset by one raises the sum by its size.          *)
LEMMA SumRaised ==
    ASSUME NEW S, IsFiniteSet(S), NEW W \in [S -> Int], NEW D \in SUBSET S
    PROVE  /\ FoldFunction(+, 0, W) \in Int
           /\ FoldFunction(+, 0, [x \in S |-> W[x] + (IF x \in D THEN 1 ELSE 0)])
                 = FoldFunction(+, 0, W) + Cardinality(D)
<1> DEFINE V == [x \in S |-> W[x] + (IF x \in D THEN 1 ELSE 0)]
<1>1. PICK g : Additive(g, S, W)
  BY AdditiveExists
<1>2. g \in [SUBSET S -> Int] /\ g[{}] = 0
  BY <1>1 DEF Additive
<1> DEFINE h == [s \in SUBSET S |-> g[s] + Cardinality(s \intersect D)]
<1>3. ASSUME NEW s \in SUBSET S PROVE IsFiniteSet(s \intersect D) /\ Cardinality(s \intersect D) \in Nat
  BY FS_Subset, FS_CardinalityType
<1>4. h \in [SUBSET S -> Int]
  <2>1. ASSUME NEW s \in SUBSET S PROVE g[s] + Cardinality(s \intersect D) \in Int
    <3>1. Cardinality(s \intersect D) \in Nat
      BY <1>3
    <3>2. g[s] \in Int
      BY <1>2
    <3> HIDE DEF h, V
    <3> QED BY <3>1, <3>2
  <2> QED BY <2>1, Zenon
<1>5. h[{}] = 0
  <2>1. {} \intersect D = {} /\ {} \in SUBSET S
    OBVIOUS
  <2> QED BY <1>2, <2>1, FS_EmptySet
<1>6. ASSUME NEW s \in SUBSET S, NEW x \in S \ s
      PROVE  h[s \union {x}] = h[s] + V[x]
  <2>1. g[s \union {x}] = g[s] + W[x] /\ s \union {x} \in SUBSET S
    BY <1>1 DEF Additive
  <2>2. g[s] \in Int /\ W[x] \in Int /\ Cardinality(s \intersect D) \in Nat
    BY <1>2, <1>3
  <2>0. h[s \union {x}] = g[s \union {x}] + Cardinality((s \union {x}) \intersect D)
    BY <2>1
  <2>9. h[s] = g[s] + Cardinality(s \intersect D) /\ V[x] = W[x] + (IF x \in D THEN 1 ELSE 0)
    OBVIOUS
  <2> HIDE DEF h, V
  <2>3. CASE x \in D
    <3>1. (s \union {x}) \intersect D = (s \intersect D) \union {x} /\ x \notin s \intersect D
      BY <2>3
    <3>2. Cardinality((s \union {x}) \intersect D) = Cardinality(s \intersect D) + 1
      BY <1>3, <3>1, FS_AddElement
    <3> QED BY <2>0, <2>1, <2>2, <2>3, <2>9, <3>2
  <2>4. CASE x \notin D
    <3>1. (s \union {x}) \intersect D = s \intersect D
      BY <2>4
    <3>2. V[x] = W[x]
      BY <2>2, <2>4, <2>9
    <3>3. Cardinality((s \union {x}) \intersect D) = Cardinality(s \intersect D)
      BY <3>1
    <3> QED BY <2>0, <2>1, <2>2, <2>9, <3>2, <3>3
  <2> QED BY <2>3, <2>4
<1>7. Additive(h, S, V)
  <2> HIDE DEF h, V
  <2> QED BY <1>4, <1>5, <1>6 DEF Additive
<1>8. V \in [S -> Int]
  OBVIOUS
<1>9. h[S] = g[S] + Cardinality(D)
  <2>1. S \intersect D = D /\ S \in SUBSET S
    OBVIOUS
  <2> QED BY <2>1
<1>10. FoldFunction(+, 0, W) = g[S]
  BY <1>1, SumIsAdditive
<1> HIDE DEF h, V
<1>11. FoldFunction(+, 0, V) = h[S]
  BY <1>7, <1>8, SumIsAdditive
<1>12. g[S] \in Int
  BY <1>2
<1> QED BY <1>9, <1>10, <1>11, <1>12 DEF V

(* A function read off one place at a time.                                   *)
LEMMA AdditiveExtended ==
    ASSUME NEW T, NEW S \in SUBSET T, NEW W \in [S -> Int], NEW V \in [T -> Int],
           NEW e \in T \ S,
           \A x \in S : V[x] = W[x], \A x \in T \ S : x # e => V[x] = 0,
           NEW g, Additive(g, S, W)
    PROVE  \E h : Additive(h, T, V) /\ h[T] = g[S] + V[e]
<1> DEFINE h == [s \in SUBSET T |-> g[s \intersect S] + (IF e \in s THEN V[e] ELSE 0)]
<1>1. /\ g \in [SUBSET S -> Int] /\ g[{}] = 0 /\ V[e] \in Int
      /\ \A s \in SUBSET T : s \intersect S \in SUBSET S
  BY DEF Additive
<1>2. h \in [SUBSET T -> Int]
  <2>1. ASSUME NEW s \in SUBSET T PROVE g[s \intersect S] + (IF e \in s THEN V[e] ELSE 0) \in Int
    BY <1>1
  <2> QED BY <2>1, Zenon
<1>3. h[{}] = 0
  <2>1. {} \intersect S = {} /\ {} \in SUBSET T
    OBVIOUS
  <2> QED BY <1>1, <2>1
<1>4. ASSUME NEW s \in SUBSET T, NEW x \in T \ s
      PROVE  h[s \union {x}] = h[s] + V[x]
  <2>1. s \union {x} \in SUBSET T /\ s \intersect S \in SUBSET S
    OBVIOUS
  <2>2. /\ h[s] = g[s \intersect S] + (IF e \in s THEN V[e] ELSE 0)
        /\ h[s \union {x}] = g[(s \union {x}) \intersect S]
                                + (IF e \in s \union {x} THEN V[e] ELSE 0)
    BY <2>1
  <2>3. g[s \intersect S] \in Int /\ V[x] \in Int
    BY <1>1, <2>1
  <2> HIDE DEF h
  <2>4. CASE x \in S
    <3>1. (s \union {x}) \intersect S = (s \intersect S) \union {x} /\ x \in S \ (s \intersect S)
      BY <2>4
    <3>2. g[(s \intersect S) \union {x}] = g[s \intersect S] + V[x]
      BY <2>1, <2>4, <3>1 DEF Additive
    <3>3. e \in s \union {x} <=> e \in s
      BY <2>4
    <3>4. g[(s \union {x}) \intersect S] = g[s \intersect S] + V[x]
      BY <3>1, <3>2
    <3> QED BY <1>1, <2>2, <2>3, <3>3, <3>4
  <2>5. CASE x \notin S
    <3>1. (s \union {x}) \intersect S = s \intersect S
      BY <2>5
    <3>2. g[(s \union {x}) \intersect S] = g[s \intersect S]
      BY <3>1
    <3>3. CASE x = e
      <4>1. e \in s \union {x} /\ e \notin s
        BY <3>3
      <4> QED BY <1>1, <2>2, <2>3, <3>2, <3>3, <4>1
    <3>4. CASE x # e
      <4>1. (e \in s \union {x} <=> e \in s) /\ V[x] = 0
        BY <2>5, <3>4
      <4> QED BY <1>1, <2>2, <2>3, <3>2, <4>1
    <3> QED BY <3>3, <3>4
  <2> QED BY <2>4, <2>5
<1>5. h[T] = g[S] + V[e]
  <2>1. T \intersect S = S /\ T \in SUBSET T
    OBVIOUS
  <2> QED BY <2>1
<1> HIDE DEF h
<1> QED BY <1>2, <1>3, <1>4, <1>5 DEF Additive

(* A sequence of sequences, flattened, has the type of its parts.             *)
LEMMA FlattenType ==
    ASSUME NEW L, NEW ss \in Seq(Seq(L))
    PROVE  FlattenSeq(ss) \in Seq(L)
<1> DEFINE Entry(f, i) == IF i = 1 THEN ss[i] ELSE f[i - 1] \o ss[i]
           Rule(f, n) == f = [i \in 1..n |-> Entry(f, i)]
           Flat == CHOOSE f : Rule(f, Len(ss))
<1>1. Len(ss) \in Nat /\ \A i \in 1..Len(ss) : ss[i] \in Seq(L)
  OBVIOUS
<1>2. CASE Len(ss) = 0
  <2>1. ss = <<>>
    BY <1>2
  <2> QED BY <1>2, <2>1 DEF FlattenSeq
<1>3. CASE Len(ss) # 0
  <2>1. FlattenSeq(ss) = Flat[Len(ss)]
    BY <1>3, Zenon DEF FlattenSeq
  <2> DEFINE Exists == {n \in Nat : \E f : Rule(f, n)}
  <2>2. Exists = Nat
    <3>1. 0 \in Exists
      <4> DEFINE f0 == [i \in 1..0 |-> <<>>]
      <4>1. Rule(f0, 0)
        OBVIOUS
      <4> QED BY <4>1
    <3>2. ASSUME NEW n \in Exists PROVE n + 1 \in Exists
      <4>1. PICK f : Rule(f, n)
        OBVIOUS
      <4>2. n \in Nat
        OBVIOUS
      <4> DEFINE next == IF n = 0 THEN ss[1] ELSE f[n] \o ss[n + 1]
                 g == [i \in 1..(n + 1) |-> IF i = n + 1 THEN next ELSE f[i]]
      <4>3. \A i \in 1..(n + 1) : Entry(g, i) = g[i]
        <5>1. \A i \in 1..n : f[i] = Entry(f, i)
          BY <4>1, Zenon
        <5>2. \A i \in 1..n : g[i] = f[i]
          BY <4>2
        <5>3. g[n + 1] = next
          BY <4>2
        <5> HIDE DEF g
        <5>4. \A i \in 1..n : Entry(g, i) = Entry(f, i)
          <6>1. \A i \in 1..n : i # 1 => i - 1 \in 1..n
            BY <4>2
          <6> QED BY <5>2, <6>1
        <5>5. Entry(g, n + 1) = next
          <6>1. CASE n = 0
            BY <6>1
          <6>2. CASE n # 0
            <7>1. n + 1 # 1 /\ (n + 1) - 1 = n /\ n \in 1..n
              BY <4>2, <6>2
            <7> QED BY <5>2, <6>2, <7>1
          <6> QED BY <6>1, <6>2
        <5>6. \A i \in 1..(n + 1) : i \in 1..n \/ i = n + 1
          BY <4>2
        <5> HIDE DEF Entry, next
        <5> QED BY <5>1, <5>2, <5>3, <5>4, <5>5, <5>6
      <4>4. g = [i \in 1..(n + 1) |-> g[i]]
        BY Zenon
      <4> HIDE DEF g, Entry
      <4>5. Rule(g, n + 1)
        BY <4>3, <4>4
      <4> QED BY <4>2, <4>5
    <3> HIDE DEF Exists
    <3>3. Exists \in SUBSET Nat
      BY DEF Exists
    <3> QED BY <3>1, <3>2, <3>3, AllNaturals, Zenon
  <2>3. Rule(Flat, Len(ss))
    BY <1>1, <2>2
  <2> HIDE DEF Flat
  <2>4. \A i \in 1..Len(ss) : Flat[i] = Entry(Flat, i)
    BY <2>3, Zenon
  <2> DEFINE Typed == {n \in Nat : n + 1 \in 1..Len(ss) => Flat[n + 1] \in Seq(L)}
  <2>5. Typed = Nat
    <3>1. 0 \in Typed
      BY <1>1, <2>4
    <3>2. ASSUME NEW n \in Typed PROVE n + 1 \in Typed
      <4>1. n \in Nat /\ n + 1 \in Nat
        OBVIOUS
      <4>2. ASSUME (n + 1) + 1 \in 1..Len(ss) PROVE Flat[(n + 1) + 1] \in Seq(L)
        <5>1. n + 1 \in 1..Len(ss) /\ (n + 1) + 1 # 1 /\ ((n + 1) + 1) - 1 = n + 1
          BY <1>1, <4>1, <4>2
        <5>2. Flat[n + 1] \in Seq(L) /\ ss[(n + 1) + 1] \in Seq(L)
          BY <1>1, <4>2, <5>1
        <5>3. Flat[(n + 1) + 1] = Flat[n + 1] \o ss[(n + 1) + 1]
          BY <2>4, <4>2, <5>1
        <5> QED BY <5>2, <5>3
      <4> QED BY <4>1, <4>2
    <3> HIDE DEF Typed
    <3>3. Typed \in SUBSET Nat
      BY DEF Typed
    <3> QED BY <3>1, <3>2, <3>3, AllNaturals, Zenon
  <2>6. Len(ss) - 1 \in Nat /\ (Len(ss) - 1) + 1 = Len(ss) /\ Len(ss) \in 1..Len(ss)
    BY <1>1, <1>3
  <2>7. Flat[Len(ss)] \in Seq(L)
    BY <2>5, <2>6
  <2> QED BY <2>1, <2>7
<1> QED BY <1>2, <1>3
=============================================================================
