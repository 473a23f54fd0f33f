-------------------------- MODULE ObservationProofs --------------------------
(***************************************************************************)
(* Proofs about Observation for any people, instants, queries and amount   *)
(* of evidence.  A loop of the code is reasoned about by its rule: what    *)
(* holds at first and is kept by a round holds at the end.  The rules      *)
(* follow from induction on the number of rounds, which is first-order     *)
(* when an invariant is a family of sets.                                  *)
(***************************************************************************)
EXTENDS Observation, FiniteSetTheorems, TLAPS

-----------------------------------------------------------------------------
(* Induction                                                                *)

LEMMA Least ==
  ASSUME NEW T, T \subseteq Nat, T # {}
  PROVE  \E n \in T : \A m \in T : n <= m
<1> DEFINE R == OpToRel(<, Nat)
<1>1. IsWellFoundedOn(R, Nat)
  BY NatLessThanWellFounded
<1>2. \A m, n \in Nat : m < n => <<m, n>> \in R
  BY DEF OpToRel
<1> HIDE DEF R
<1>3. PICK x \in T : \A y \in T : ~(<<y, x>> \in R)
  BY <1>1, WFMin
<1>4. \A y \in T : y \in Nat /\ x \in Nat /\ ~(y < x)
  BY <1>2, <1>3
<1> QED BY <1>3, <1>4

\* A set of numbers that has 0 and with a number up to n the next one.
LEMMA SetInduction ==
  ASSUME NEW n \in Nat, NEW T, 0 \in T, \A i \in 1..n : i - 1 \in T => i \in T
  PROVE  0..n \subseteq T
<1> DEFINE D == (0..n) \ T
<1> SUFFICES ASSUME D # {}
             PROVE  FALSE
  OBVIOUS
<1>0. D \subseteq Nat
  OBVIOUS
<1>1. PICK i \in D : \A j \in D : i <= j
  <2> HIDE DEF D
  <2> QED BY <1>0, Least
<1>2. i \in 1..n /\ i - 1 \in 0..n /\ i - 1 < i
  BY <1>1
<1>3. i - 1 \in T
  BY <1>1, <1>2
<1> QED BY <1>1, <1>2, <1>3

\* A member of a family of sets, round by round
LEMMA FamilyInduction ==
  ASSUME NEW n \in Nat, NEW Inv, NEW f, f[0] \in Inv[0],
         \A i \in 1..n : f[i - 1] \in Inv[i - 1] => f[i] \in Inv[i]
  PROVE  \A i \in 0..n : f[i] \in Inv[i]
<1> DEFINE T == {i \in 0..n : f[i] \in Inv[i]}
<1>1. 0 \in T
  OBVIOUS
<1>2. \A i \in 1..n : i - 1 \in T => i \in T
  OBVIOUS
<1>3. 0..n \subseteq T
  <2> HIDE DEF T
  <2> QED BY <1>1, <1>2, SetInduction
<1> QED BY <1>3

Within(n, Inv, V) == \A i \in 0..n : Inv[i] \subseteq V

Kept(n, Inv, G) == \A i \in 1..n : \A v \in Inv[i - 1] : G[<<v, i>>] \in Inv[i]

Run(f, n, V, first, Inv, G) ==
  /\ f \in [0..n -> V] /\ f[0] = first
  /\ \A i \in 0..n : f[i] \in Inv[i]
  /\ \A i \in 1..n : f[i] = G[<<f[i - 1], i>>]

\* The values of n rounds, when a round is a function
LEMMA Rounds ==
  ASSUME NEW n \in Nat, NEW Inv, NEW V, Within(n, Inv, V), NEW first \in Inv[0],
         NEW G, Kept(n, Inv, G)
  PROVE  \E f : Run(f, n, V, first, Inv, G)
<1> DEFINE Serves(f, m) == Run(f, m, V, first, Inv, G)
           T == {m \in 0..n : \E f : Serves(f, m)}
<1> USE DEF Run, Within, Kept
<1>1. 0 \in T
  <2> DEFINE f == [i \in 0..0 |-> first]
  <2>1. f[0] = first /\ 1..0 = {} /\ \A i \in 0..0 : i = 0
    OBVIOUS
  <2>2. f \in [0..0 -> V]
    OBVIOUS
  <2> HIDE DEF f
  <2>3. Serves(f, 0)
    BY <2>1, <2>2
  <2> QED BY <2>3
<1>2. ASSUME NEW m \in 1..n, m - 1 \in T
      PROVE  m \in T
  <2>1. PICK f : Serves(f, m - 1)
    BY <1>2
  <2> DEFINE g == [i \in 0..m |-> IF i = m THEN G[<<f[m - 1], m>>] ELSE f[i]]
  <2>2. /\ g[m] = G[<<f[m - 1], m>>]
        /\ \A i \in 0..(m - 1) : g[i] = f[i]
    OBVIOUS
  <2>3. g = [i \in 0..m |-> g[i]]
    OBVIOUS
  <2> HIDE DEF g
  <2>4. g[0] = first
    <3>1. 0 \in 0..(m - 1)
      OBVIOUS
    <3> QED BY <2>1, <2>2, <3>1
  <2>5. \A i \in 0..m : i = m \/ i \in 0..(m - 1)
    OBVIOUS
  <2>6. f[m - 1] \in Inv[m - 1]
    BY <2>1
  <2>7. \A i \in 0..m : g[i] \in Inv[i]
    BY <2>1, <2>2, <2>5, <2>6
  <2>71. g \in [0..m -> V]
    BY <2>3, <2>7
  <2>8. ASSUME NEW i \in 1..m
        PROVE  g[i] = G[<<g[i - 1], i>>]
    <3>1. i - 1 \in 0..(m - 1)
      OBVIOUS
    <3>2. CASE i = m
      BY <2>2, <3>1, <3>2
    <3>3. CASE i # m
      <4>1. i \in 1..(m - 1) /\ i \in 0..(m - 1)
        BY <3>3
      <4> QED BY <2>1, <2>2, <3>1, <4>1
    <3> QED BY <3>2, <3>3
  <2>9. Serves(g, m)
    BY <2>4, <2>7, <2>71, <2>8
  <2> QED BY <2>9
<1>3. n \in T
  <2> HIDE DEF T
  <2>1. 0..n \subseteq T
    BY <1>1, <1>2, SetInduction
  <2> QED BY <2>1
<1> QED BY <1>3

-----------------------------------------------------------------------------
(* The rules of the loops                                                   *)

Pick(s, indices, picked, i) == IF i \in indices THEN Append(picked, s[i]) ELSE picked

LEMMA PickedRule ==
  ASSUME NEW s,
         NEW indices,
         Len(s) \in Nat, NEW Inv, <<>> \in Inv[0],
         \A i \in 1..Len(s) : \A v \in Inv[i - 1] : Pick(s, indices, v, i) \in Inv[i]
  PROVE  Picked(s, indices) \in Inv[Len(s)]
<1> DEFINE n == Len(s)
           V == UNION {Inv[i] : i \in 0..n}
           G == [p \in V \X (1..n) |-> Pick(s, indices, p[1], p[2])]
           Def(f) == [i \in 0..n |-> IF i = 0 THEN <<>>
                                    ELSE Pick(s, indices, f[i - 1], i)]
           up == CHOOSE f : f = Def(f)
<1>1. Picked(s, indices) = up[n]
  BY DEF Picked, Loop, Pick
<1> HIDE DEF n
<1>2. /\ n \in Nat /\ \A i \in 0..n : i # 0 => i \in 1..n
      /\ 0 \in 0..n /\ \A i \in 1..n : i \in 0..n /\ i # 0 /\ i - 1 \in 0..n
  BY DEF n
<1>3. Within(n, Inv, V) /\ \A i \in 1..n : \A v \in Inv[i - 1] : G[<<v, i>>] = Pick(s, indices, v, i)
  BY <1>2 DEF Within
<1> HIDE DEF G, V
<1>4. Kept(n, Inv, G)
  BY <1>3 DEF n, Kept
<1>5. PICK f : Run(f, n, V, <<>>, Inv, G)
  BY <1>2, <1>3, <1>4, Rounds
<1>6. f = Def(f)
  <2>1. \A i \in 0..n : f[i] = IF i = 0 THEN <<>> ELSE Pick(s, indices, f[i - 1], i)
    BY <1>2, <1>3, <1>5 DEF Run
  <2> QED BY <1>5, <2>1 DEF Run
<1>7. up = Def(up)
  BY <1>6
<1>8. up[0] = <<>> /\ \A i \in 1..n : up[i] = Pick(s, indices, up[i - 1], i)
  BY <1>2, <1>7
<1> HIDE DEF up
<1>9. \A i \in 0..n : up[i] \in Inv[i]
  <2>1. up[0] \in Inv[0] /\ \A i \in 1..n : up[i - 1] \in Inv[i - 1] => up[i] \in Inv[i]
    BY <1>8 DEF n
  <2> QED BY <1>2, <2>1, FamilyInduction
<1> QED BY <1>1, <1>2, <1>9 DEF n

LEMMA SortedRule ==
  ASSUME NEW ws,
         Len(ws) \in Nat, NEW Inv, <<>> \in Inv[0],
         \A i \in 1..Len(ws) : \A v \in Inv[i - 1] : Insert(v, ws[i]) \in Inv[i]
  PROVE  Sorted(ws) \in Inv[Len(ws)]
<1> DEFINE n == Len(ws)
           V == UNION {Inv[i] : i \in 0..n}
           G == [p \in V \X (1..n) |-> Insert(p[1], ws[p[2]])]
           Def(f) == [i \in 0..n |-> IF i = 0 THEN <<>>
                                    ELSE Insert(f[i - 1], ws[i])]
           up == CHOOSE f : f = Def(f)
<1>1. Sorted(ws) = up[n]
  BY DEF Sorted, Loop
<1> HIDE DEF n
<1>2. /\ n \in Nat /\ \A i \in 0..n : i # 0 => i \in 1..n
      /\ 0 \in 0..n /\ \A i \in 1..n : i \in 0..n /\ i # 0 /\ i - 1 \in 0..n
  BY DEF n
<1>3. Within(n, Inv, V) /\ \A i \in 1..n : \A v \in Inv[i - 1] : G[<<v, i>>] = Insert(v, ws[i])
  BY <1>2 DEF Within
<1> HIDE DEF G, V
<1>4. Kept(n, Inv, G)
  BY <1>3 DEF n, Kept
<1>5. PICK f : Run(f, n, V, <<>>, Inv, G)
  BY <1>2, <1>3, <1>4, Rounds
<1>6. f = Def(f)
  <2>1. \A i \in 0..n : f[i] = IF i = 0 THEN <<>> ELSE Insert(f[i - 1], ws[i])
    BY <1>2, <1>3, <1>5 DEF Run
  <2> QED BY <1>5, <2>1 DEF Run
<1>7. up = Def(up)
  BY <1>6
<1>8. up[0] = <<>> /\ \A i \in 1..n : up[i] = Insert(up[i - 1], ws[i])
  BY <1>2, <1>7
<1> HIDE DEF up
<1>9. \A i \in 0..n : up[i] \in Inv[i]
  <2>1. up[0] \in Inv[0] /\ \A i \in 1..n : up[i - 1] \in Inv[i - 1] => up[i] \in Inv[i]
    BY <1>8 DEF n
  <2> QED BY <1>2, <2>1, FamilyInduction
<1> QED BY <1>1, <1>2, <1>9 DEF n

LEMMA MergeRule ==
  ASSUME NEW ws,
         NEW s,
         s = Sorted(ws),
         Len(s) \in Nat, NEW Inv, <<>> \in Inv[0],
         \A i \in 1..Len(s) : \A v \in Inv[i - 1] : Merge(v, s[i]) \in Inv[i]
  PROVE  MergeWindows(ws) \in Inv[Len(s)]
<1> DEFINE n == Len(s)
           V == UNION {Inv[i] : i \in 0..n}
           G == [p \in V \X (1..n) |-> Merge(p[1], s[p[2]])]
           Def(f) == [i \in 0..n |-> IF i = 0 THEN <<>>
                                    ELSE Merge(f[i - 1], s[i])]
           up == CHOOSE f : f = Def(f)
<1>1. MergeWindows(ws) = up[n]
  BY DEF MergeWindows, Loop
<1> HIDE DEF n
<1>2. /\ n \in Nat /\ \A i \in 0..n : i # 0 => i \in 1..n
      /\ 0 \in 0..n /\ \A i \in 1..n : i \in 0..n /\ i # 0 /\ i - 1 \in 0..n
  BY DEF n
<1>3. Within(n, Inv, V) /\ \A i \in 1..n : \A v \in Inv[i - 1] : G[<<v, i>>] = Merge(v, s[i])
  BY <1>2 DEF Within
<1> HIDE DEF G, V
<1>4. Kept(n, Inv, G)
  BY <1>3 DEF n, Kept
<1>5. PICK f : Run(f, n, V, <<>>, Inv, G)
  BY <1>2, <1>3, <1>4, Rounds
<1>6. f = Def(f)
  <2>1. \A i \in 0..n : f[i] = IF i = 0 THEN <<>> ELSE Merge(f[i - 1], s[i])
    BY <1>2, <1>3, <1>5 DEF Run
  <2> QED BY <1>5, <2>1 DEF Run
<1>7. up = Def(up)
  BY <1>6
<1>8. up[0] = <<>> /\ \A i \in 1..n : up[i] = Merge(up[i - 1], s[i])
  BY <1>2, <1>7
<1> HIDE DEF up
<1>9. \A i \in 0..n : up[i] \in Inv[i]
  <2>1. up[0] \in Inv[0] /\ \A i \in 1..n : up[i - 1] \in Inv[i - 1] => up[i] \in Inv[i]
    BY <1>8 DEF n
  <2> QED BY <1>2, <2>1, FamilyInduction
<1> QED BY <1>1, <1>2, <1>9 DEF n

Side(left, right) == Len(left) + Len(right)

Outset == [i |-> 1, j |-> 1, found |-> <<>>]

LEMMA PairRule ==
  ASSUME NEW left,
         NEW right,
         NEW l,
         NEW r,
         l = MergeWindows(left),
         r = MergeWindows(right),
         Side(l, r) \in Nat, NEW Inv, Outset \in Inv[0],
         \A i \in 1..Side(l, r) : \A v \in Inv[i - 1] : Pair(l, r, v) \in Inv[i]
  PROVE  \E at \in Inv[Side(l, r)] :
           IntersectWindows(left, right) = MergeWindows(at.found)
<1> DEFINE n == Side(l, r)
           V == UNION {Inv[i] : i \in 0..n}
           G == [p \in V \X (1..n) |-> Pair(l, r, p[1])]
           Def(f) == [i \in 0..n |-> IF i = 0 THEN Outset
                                    ELSE Pair(l, r, f[i - 1])]
           up == CHOOSE f : f = Def(f)
<1>1. IntersectWindows(left, right) = MergeWindows(up[n].found)
  BY DEF IntersectWindows, Loop, Side, Outset
<1> HIDE DEF n
<1>2. /\ n \in Nat /\ \A i \in 0..n : i # 0 => i \in 1..n
      /\ 0 \in 0..n /\ \A i \in 1..n : i \in 0..n /\ i # 0 /\ i - 1 \in 0..n
  BY DEF n
<1>3. Within(n, Inv, V) /\ \A i \in 1..n : \A v \in Inv[i - 1] : G[<<v, i>>] = Pair(l, r, v)
  BY <1>2 DEF Within
<1> HIDE DEF G, V
<1>4. Kept(n, Inv, G)
  BY <1>3 DEF n, Kept
<1>5. PICK f : Run(f, n, V, Outset, Inv, G)
  BY <1>2, <1>3, <1>4, Rounds
<1>6. f = Def(f)
  <2>1. \A i \in 0..n : f[i] = IF i = 0 THEN Outset ELSE Pair(l, r, f[i - 1])
    BY <1>2, <1>3, <1>5 DEF Run
  <2> QED BY <1>5, <2>1 DEF Run
<1>7. up = Def(up)
  BY <1>6
<1>8. up[0] = Outset /\ \A i \in 1..n : up[i] = Pair(l, r, up[i - 1])
  BY <1>2, <1>7
<1> HIDE DEF up
<1>9. \A i \in 0..n : up[i] \in Inv[i]
  <2>1. up[0] \in Inv[0] /\ \A i \in 1..n : up[i - 1] \in Inv[i - 1] => up[i] \in Inv[i]
    BY <1>8 DEF n
  <2> QED BY <1>2, <2>1, FamilyInduction
<1> QED BY <1>1, <1>2, <1>9 DEF n

Add(ws, sum, i) == sum + ws[i].end - ws[i].start

LEMMA MinutesRule ==
  ASSUME NEW ws,
         Len(ws) \in Nat, NEW Inv, 0 \in Inv[0],
         \A i \in 1..Len(ws) : \A v \in Inv[i - 1] : Add(ws, v, i) \in Inv[i]
  PROVE  Minutes(ws) \in Inv[Len(ws)]
<1> DEFINE n == Len(ws)
           V == UNION {Inv[i] : i \in 0..n}
           G == [p \in V \X (1..n) |-> Add(ws, p[1], p[2])]
           Def(f) == [i \in 0..n |-> IF i = 0 THEN 0
                                    ELSE Add(ws, f[i - 1], i)]
           up == CHOOSE f : f = Def(f)
<1>1. Minutes(ws) = up[n]
  BY DEF Minutes, Loop, Add
<1> HIDE DEF n
<1>2. /\ n \in Nat /\ \A i \in 0..n : i # 0 => i \in 1..n
      /\ 0 \in 0..n /\ \A i \in 1..n : i \in 0..n /\ i # 0 /\ i - 1 \in 0..n
  BY DEF n
<1>3. Within(n, Inv, V) /\ \A i \in 1..n : \A v \in Inv[i - 1] : G[<<v, i>>] = Add(ws, v, i)
  BY <1>2 DEF Within
<1> HIDE DEF G, V
<1>4. Kept(n, Inv, G)
  BY <1>3 DEF n, Kept
<1>5. PICK f : Run(f, n, V, 0, Inv, G)
  BY <1>2, <1>3, <1>4, Rounds
<1>6. f = Def(f)
  <2>1. \A i \in 0..n : f[i] = IF i = 0 THEN 0 ELSE Add(ws, f[i - 1], i)
    BY <1>2, <1>3, <1>5 DEF Run
  <2> QED BY <1>5, <2>1 DEF Run
<1>7. up = Def(up)
  BY <1>6
<1>8. up[0] = 0 /\ \A i \in 1..n : up[i] = Add(ws, up[i - 1], i)
  BY <1>2, <1>7
<1> HIDE DEF up
<1>9. \A i \in 0..n : up[i] \in Inv[i]
  <2>1. up[0] \in Inv[0] /\ \A i \in 1..n : up[i - 1] \in Inv[i - 1] => up[i] \in Inv[i]
    BY <1>8 DEF n
  <2> QED BY <1>2, <2>1, FamilyInduction
<1> QED BY <1>1, <1>2, <1>9 DEF n

NoRun == [open |-> <<>>, done |-> <<>>]

LEMMA RunsRule ==
  ASSUME NEW good,
         Len(good) \in Nat, NEW Inv, NoRun \in Inv[0],
         \A i \in 1..Len(good) : \A v \in Inv[i - 1] : Extend(good, v, i) \in Inv[i]
  PROVE  \E run \in Inv[Len(good)] : Runs(good) = Closed(run)
<1> DEFINE n == Len(good)
           V == UNION {Inv[i] : i \in 0..n}
           G == [p \in V \X (1..n) |-> Extend(good, p[1], p[2])]
           Def(f) == [i \in 0..n |-> IF i = 0 THEN NoRun
                                    ELSE Extend(good, f[i - 1], i)]
           up == CHOOSE f : f = Def(f)
<1>1. Runs(good) = Closed(up[n])
  BY DEF Runs, Loop, NoRun
<1> HIDE DEF n
<1>2. /\ n \in Nat /\ \A i \in 0..n : i # 0 => i \in 1..n
      /\ 0 \in 0..n /\ \A i \in 1..n : i \in 0..n /\ i # 0 /\ i - 1 \in 0..n
  BY DEF n
<1>3. Within(n, Inv, V) /\ \A i \in 1..n : \A v \in Inv[i - 1] : G[<<v, i>>] = Extend(good, v, i)
  BY <1>2 DEF Within
<1> HIDE DEF G, V
<1>4. Kept(n, Inv, G)
  BY <1>3 DEF n, Kept
<1>5. PICK f : Run(f, n, V, NoRun, Inv, G)
  BY <1>2, <1>3, <1>4, Rounds
<1>6. f = Def(f)
  <2>1. \A i \in 0..n : f[i] = IF i = 0 THEN NoRun ELSE Extend(good, f[i - 1], i)
    BY <1>2, <1>3, <1>5 DEF Run
  <2> QED BY <1>5, <2>1 DEF Run
<1>7. up = Def(up)
  BY <1>6
<1>8. up[0] = NoRun /\ \A i \in 1..n : up[i] = Extend(good, up[i - 1], i)
  BY <1>2, <1>7
<1> HIDE DEF up
<1>9. \A i \in 0..n : up[i] \in Inv[i]
  <2>1. up[0] \in Inv[0] /\ \A i \in 1..n : up[i - 1] \in Inv[i - 1] => up[i] \in Inv[i]
    BY <1>8 DEF n
  <2> QED BY <1>2, <2>1, FamilyInduction
<1> QED BY <1>1, <1>2, <1>9 DEF n

Clip(ws, query, s, i) == s \o Intersection(ws[i], query)

LEMMA ClippedRule ==
  ASSUME NEW ws,
         NEW query,
         Len(ws) \in Nat, NEW Inv, <<>> \in Inv[0],
         \A i \in 1..Len(ws) : \A v \in Inv[i - 1] : Clip(ws, query, v, i) \in Inv[i]
  PROVE  Clipped(ws, query) \in Inv[Len(ws)]
<1> DEFINE n == Len(ws)
           V == UNION {Inv[i] : i \in 0..n}
           G == [p \in V \X (1..n) |-> Clip(ws, query, p[1], p[2])]
           Def(f) == [i \in 0..n |-> IF i = 0 THEN <<>>
                                    ELSE Clip(ws, query, f[i - 1], i)]
           up == CHOOSE f : f = Def(f)
<1>1. Clipped(ws, query) = up[n]
  BY DEF Clipped, Loop, Clip
<1> HIDE DEF n
<1>2. /\ n \in Nat /\ \A i \in 0..n : i # 0 => i \in 1..n
      /\ 0 \in 0..n /\ \A i \in 1..n : i \in 0..n /\ i # 0 /\ i - 1 \in 0..n
  BY DEF n
<1>3. Within(n, Inv, V) /\ \A i \in 1..n : \A v \in Inv[i - 1] : G[<<v, i>>] = Clip(ws, query, v, i)
  BY <1>2 DEF Within
<1> HIDE DEF G, V
<1>4. Kept(n, Inv, G)
  BY <1>3 DEF n, Kept
<1>5. PICK f : Run(f, n, V, <<>>, Inv, G)
  BY <1>2, <1>3, <1>4, Rounds
<1>6. f = Def(f)
  <2>1. \A i \in 0..n : f[i] = IF i = 0 THEN <<>> ELSE Clip(ws, query, f[i - 1], i)
    BY <1>2, <1>3, <1>5 DEF Run
  <2> QED BY <1>5, <2>1 DEF Run
<1>7. up = Def(up)
  BY <1>6
<1>8. up[0] = <<>> /\ \A i \in 1..n : up[i] = Clip(ws, query, up[i - 1], i)
  BY <1>2, <1>7
<1> HIDE DEF up
<1>9. \A i \in 0..n : up[i] \in Inv[i]
  <2>1. up[0] \in Inv[0] /\ \A i \in 1..n : up[i - 1] \in Inv[i - 1] => up[i] \in Inv[i]
    BY <1>8 DEF n
  <2> QED BY <1>2, <2>1, FamilyInduction
<1> QED BY <1>1, <1>2, <1>9 DEF n

NoGap(query) == [cursor |-> query.start, gaps |-> <<>>]

Summed(ws, query, last) ==
  [observed |-> ws,
   gaps |-> IF last.cursor < query.end
            THEN Append(last.gaps, Window(last.cursor, query.end)) ELSE last.gaps]

LEMMA GapsRule ==
  ASSUME NEW covered,
         NEW query,
         NEW ws,
         ws = IntersectWindows(covered, <<query>>),
         Len(ws) \in Nat, NEW Inv, NoGap(query) \in Inv[0],
         \A i \in 1..Len(ws) : \A v \in Inv[i - 1] : Gap(v, ws[i]) \in Inv[i]
  PROVE  \E last \in Inv[Len(ws)] : CoverageSummary(covered, query) = Summed(ws, query, last)
<1> DEFINE n == Len(ws)
           V == UNION {Inv[i] : i \in 0..n}
           G == [p \in V \X (1..n) |-> Gap(p[1], ws[p[2]])]
           Def(f) == [i \in 0..n |-> IF i = 0 THEN NoGap(query)
                                    ELSE Gap(f[i - 1], ws[i])]
           up == CHOOSE f : f = Def(f)
<1>1. CoverageSummary(covered, query) = Summed(ws, query, up[n])
  BY DEF CoverageSummary, Loop, NoGap, Summed
<1> HIDE DEF n
<1>2. /\ n \in Nat /\ \A i \in 0..n : i # 0 => i \in 1..n
      /\ 0 \in 0..n /\ \A i \in 1..n : i \in 0..n /\ i # 0 /\ i - 1 \in 0..n
  BY DEF n
<1>3. Within(n, Inv, V) /\ \A i \in 1..n : \A v \in Inv[i - 1] : G[<<v, i>>] = Gap(v, ws[i])
  BY <1>2 DEF Within
<1> HIDE DEF G, V
<1>4. Kept(n, Inv, G)
  BY <1>3 DEF n, Kept
<1>5. PICK f : Run(f, n, V, NoGap(query), Inv, G)
  BY <1>2, <1>3, <1>4, Rounds
<1>6. f = Def(f)
  <2>1. \A i \in 0..n : f[i] = IF i = 0 THEN NoGap(query) ELSE Gap(f[i - 1], ws[i])
    BY <1>2, <1>3, <1>5 DEF Run
  <2> QED BY <1>5, <2>1 DEF Run
<1>7. up = Def(up)
  BY <1>6
<1>8. up[0] = NoGap(query) /\ \A i \in 1..n : up[i] = Gap(up[i - 1], ws[i])
  BY <1>2, <1>7
<1> HIDE DEF up
<1>9. \A i \in 0..n : up[i] \in Inv[i]
  <2>1. up[0] \in Inv[0] /\ \A i \in 1..n : up[i - 1] \in Inv[i - 1] => up[i] \in Inv[i]
    BY <1>8 DEF n
  <2> QED BY <1>2, <2>1, FamilyInduction
<1> QED BY <1>1, <1>2, <1>9 DEF n

-----------------------------------------------------------------------------
(* Sequences                                                                *)

\* A set of indices that is closed downwards is an interval.
LEMMA Prefix ==
  ASSUME NEW n \in Nat, NEW B \in SUBSET (1..n), \A i \in B : \A j \in 1..i : j \in B
  PROVE  \E k \in 0..n : B = 1..k /\ Cardinality(B) = k
<1> DEFINE T == {k \in Nat : k + 1 \notin B}
<1>1. T \subseteq Nat /\ n \in T
  OBVIOUS
<1>2. PICK k \in T : \A m \in T : k <= m
  <2> HIDE DEF T
  <2> QED BY <1>1, Least
<1>3. k \in 0..n
  BY <1>1, <1>2
<1>4. ASSUME NEW j \in 1..k
      PROVE  j \in B
  <2>1. j - 1 \in Nat /\ ~(k <= j - 1) /\ (j - 1) + 1 = j
    BY <1>3
  <2>2. j - 1 \notin T
    BY <1>2, <2>1
  <2> QED BY <2>1, <2>2
<1>5. ASSUME NEW j \in B
      PROVE  j \in 1..k
  <2>1. CASE j > k
    <3>1. k + 1 \in 1..j
      BY <1>3, <2>1
    <3> QED BY <1>2, <3>1
  <2> QED BY <1>3, <2>1
<1>6. B = 1..k
  BY <1>4, <1>5
<1>7. Cardinality(1..k) = k
  BY <1>3, FS_Interval
<1> QED BY <1>3, <1>6, <1>7

LEMMA ConcatIs ==
  ASSUME NEW S, NEW s \in Seq(S), NEW u \in Seq(S)
  PROVE  /\ s \o u \in Seq(S) /\ Len(s \o u) = Len(s) + Len(u)
         /\ Len(s) \in Nat /\ Len(u) \in Nat
         /\ \A j \in 1..Len(s) : (s \o u)[j] = s[j]
         /\ \A j \in 1..Len(u) : (s \o u)[Len(s) + j] = u[j]
OBVIOUS

\* u is s with x after its first k.
Placed(u, s, k, x) ==
  /\ Len(u) = Len(s) + 1
  /\ \A j \in 1..k : u[j] = s[j]
  /\ u[k + 1] = x
  /\ \A j \in (k + 2)..(Len(s) + 1) : u[j] = s[j - 1]

LEMMA InsertedAt ==
  ASSUME NEW S, NEW s \in Seq(S), NEW x \in S, NEW k \in 0..Len(s),
         NEW r, r = InsertAt(s, k + 1, x)
  PROVE  r \in Seq(S) /\ Placed(r, s, k, x)
<1> DEFINE a == SubSeq(s, 1, k)
           b == SubSeq(s, k + 1, Len(s))
<1>1. r = (a \o <<x>>) \o b
  <2>1. (k + 1) - 1 = k
    OBVIOUS
  <2> QED BY <2>1 DEF InsertAt
<1>2. /\ a \in Seq(S) /\ Len(a) = k /\ \A j \in 1..k : a[j] = s[j]
      /\ b \in Seq(S) /\ Len(b) = Len(s) - k /\ \A j \in 1..(Len(s) - k) : b[j] = s[k + j]
  OBVIOUS
<1> HIDE DEF a, b
<1>3. /\ a \o <<x>> \in Seq(S) /\ Len(a \o <<x>>) = k + 1
      /\ \A j \in 1..k : (a \o <<x>>)[j] = s[j]
      /\ (a \o <<x>>)[k + 1] = x
  BY <1>2
<1> DEFINE c == a \o <<x>>
<1>31. /\ c \in Seq(S) /\ Len(c) = k + 1 /\ r = c \o b
       /\ \A j \in 1..k : c[j] = s[j]
       /\ c[k + 1] = x
  BY <1>1, <1>3
<1> HIDE DEF c
<1>32. /\ r \in Seq(S) /\ Len(r) = Len(c) + Len(b)
       /\ \A j \in 1..Len(c) : r[j] = c[j]
       /\ \A j \in 1..Len(b) : r[Len(c) + j] = b[j]
  <2>1. c \in Seq(S) /\ b \in Seq(S)
    BY <1>2, <1>31
  <2>2. /\ c \o b \in Seq(S) /\ Len(c \o b) = Len(c) + Len(b)
        /\ \A j \in 1..Len(c) : (c \o b)[j] = c[j]
        /\ \A j \in 1..Len(b) : (c \o b)[Len(c) + j] = b[j]
    BY <2>1, ConcatIs
  <2> QED BY <1>31, <2>2
<1>4. r \in Seq(S) /\ Len(r) = Len(s) + 1
  <2>1. Len(c) = k + 1 /\ Len(b) = Len(s) - k /\ Len(s) \in Nat
    BY <1>2, <1>31
  <2>2. Len(c) + Len(b) = Len(s) + 1
    BY <2>1
  <2> QED BY <1>32, <2>2
<1>5. \A j \in 1..(k + 1) : r[j] = c[j]
  BY <1>31, <1>32
<1>6. ASSUME NEW j \in (k + 2)..(Len(s) + 1)
      PROVE  r[j] = s[j - 1]
  <2>1. j - (k + 1) \in 1..(Len(s) - k) /\ k + (j - (k + 1)) = j - 1
    OBVIOUS
  <2>2. r[j] = b[j - (k + 1)]
    <3>1. (k + 1) + (j - (k + 1)) = j
      OBVIOUS
    <3> QED BY <1>2, <1>31, <1>32, <2>1, <3>1
  <2> QED BY <1>2, <2>1, <2>2
<1>7. \A j \in 1..k : j \in 1..(k + 1)
  OBVIOUS
<1>8. k + 1 \in 1..(k + 1)
  OBVIOUS
<1> QED BY <1>31, <1>4, <1>5, <1>6, <1>7, <1>8 DEF Placed

-----------------------------------------------------------------------------
(* Windows                                                                  *)

W == {w \in [start : Nat, end : Nat] : w.start < w.end}

In(t, w) == w.start <= t /\ t < w.end

LEMMA CoveredIs ==
  ASSUME NEW ws \in Seq(W)
  PROVE  /\ Covered(ws) \subseteq Nat
         /\ \A t \in Nat : t \in Covered(ws) <=> \E i \in DOMAIN ws : In(t, ws[i])
<1>1. \A i \in DOMAIN ws : ws[i].start \in Nat /\ ws[i].end \in Nat
  BY DEF W
<1>2. \A i \in DOMAIN ws : \A t : t \in Span(ws[i]) <=> t \in Nat /\ In(t, ws[i])
  BY <1>1 DEF Span, In
<1> QED BY <1>2 DEF Covered

LEMMA IntersectionIs ==
  ASSUME NEW a, NEW b, a.start \in Nat, a.end \in Nat, b.start \in Nat, b.end \in Nat
  PROVE  /\ Intersection(a, b) \in Seq(W)
         /\ Len(Intersection(a, b)) <= 1
         /\ \A t \in Nat : (\E i \in DOMAIN Intersection(a, b) : In(t, Intersection(a, b)[i]))
                             <=> In(t, a) /\ In(t, b)
         /\ \A i \in DOMAIN Intersection(a, b) :
              /\ Intersection(a, b)[i].start = Max2(a.start, b.start)
              /\ Intersection(a, b)[i].end = Min2(a.end, b.end)
<1> DEFINE start == Max2(a.start, b.start)
           end == Min2(a.end, b.end)
           w == Window(start, end)
<1>1. start \in Nat /\ end \in Nat /\ w.start = start /\ w.end = end /\ w \in [start : Nat, end : Nat]
  BY DEF Max2, Min2, Window
<1>2. \A t \in Nat : (start <= t /\ t < end) <=> In(t, a) /\ In(t, b)
  BY DEF Max2, Min2, In
<1>3. Intersection(a, b) = IF end > start THEN <<w>> ELSE <<>>
  BY DEF Intersection
<1> HIDE DEF start, end, w
<1>4. CASE end > start
  <2>1. w \in W
    BY <1>1, <1>4 DEF W
  <2>2. <<w>> \in Seq(W) /\ Len(<<w>>) = 1 /\ DOMAIN <<w>> = {1} /\ <<w>>[1] = w
    BY <2>1
  <2>3. Intersection(a, b) = <<w>>
    BY <1>3, <1>4
  <2> QED BY <1>1, <1>2, <2>2, <2>3 DEF In, start, end
<1>5. CASE ~(end > start)
  <2>1. Intersection(a, b) = <<>>
    BY <1>3, <1>5
  <2>2. <<>> \in Seq(W) /\ Len(<<>>) = 0 /\ DOMAIN <<>> = {}
    OBVIOUS
  <2>3. \A t \in Nat : ~(start <= t /\ t < end)
    BY <1>1, <1>5
  <2> QED BY <1>2, <2>1, <2>2, <2>3
<1> QED BY <1>4, <1>5

-----------------------------------------------------------------------------
(* Sorting and merging                                                      *)

Ordered(s) == \A i, j \in 1..Len(s) : i <= j => Precedes(s[i], s[j])

Holds(s, x) == \E i \in 1..Len(s) : s[i] = x

\* An instant is in one of the windows.
Covers(ws, t) == \E i \in 1..Len(ws) : In(t, ws[i])

\* Windows in order that do not touch, by pairs
Apart(ws) == \A i, j \in 1..Len(ws) : i < j => ws[i].end < ws[j].start

LEMMA PrecedesIsOrder ==
  ASSUME NEW a \in W, NEW b \in W
  PROVE  /\ Precedes(a, b) \/ Precedes(b, a)
         /\ Precedes(a, b) => a.start <= b.start
         /\ Precedes(a, a)
         /\ \A c \in W : Precedes(a, b) /\ Precedes(b, c) => Precedes(a, c)
BY DEF Precedes, W

LEMMA InsertIs ==
  ASSUME NEW s \in Seq(W), Ordered(s), NEW w \in W
  PROVE  /\ Insert(s, w) \in Seq(W)
         /\ Len(Insert(s, w)) = Len(s) + 1
         /\ Ordered(Insert(s, w))
         /\ \A x : Holds(Insert(s, w), x) <=> Holds(s, x) \/ x = w
<1> DEFINE B == {j \in DOMAIN s : Precedes(s[j], w)}
           u == Insert(s, w)
           n == Len(s)
<1>1. /\ n \in Nat /\ DOMAIN s = 1..n
      /\ \A j \in 1..n : s[j] \in W
  OBVIOUS
<1>2. B \in SUBSET (1..n) /\ \A i \in B : \A j \in 1..i : j \in B
  <2> SUFFICES ASSUME NEW i \in B, NEW j \in 1..i
               PROVE  j \in B
    BY <1>1
  <2>1. j \in 1..n /\ i \in 1..n /\ j <= i
    BY <1>1
  <2>2. Precedes(s[j], s[i]) /\ Precedes(s[i], w)
    BY <2>1 DEF Ordered
  <2>3. Precedes(s[j], w)
    BY <1>1, <2>1, <2>2, PrecedesIsOrder
  <2> QED BY <1>1, <2>1, <2>3
<1> HIDE DEF n
<1>3. PICK k \in 0..n : B = 1..k /\ Cardinality(B) = k
  <2> HIDE DEF B
  <2> QED BY <1>1, <1>2, Prefix
<1>4. u = InsertAt(s, k + 1, w)
  BY <1>3 DEF Insert
<1>5. /\ u \in Seq(W) /\ Len(u) = n + 1
      /\ \A j \in 1..k : u[j] = s[j]
      /\ u[k + 1] = w
      /\ \A j \in (k + 2)..(n + 1) : u[j] = s[j - 1]
  <2>1. k \in 0..Len(s)
    BY DEF n
  <2>2. u \in Seq(W) /\ Placed(u, s, k, w)
    <3> HIDE DEF u
    <3> QED BY <1>4, <2>1, InsertedAt
  <2> QED BY <2>2 DEF n, Placed
<1>6. \A j \in 1..n : Precedes(s[j], w) <=> j <= k
  <2>1. \A j \in 1..n : j \in B <=> j \in 1..k
    BY <1>3
  <2> QED BY <1>1, <2>1
<1> HIDE DEF u, B
<1>7. Ordered(u)
  <2> SUFFICES ASSUME NEW i \in 1..(n + 1), NEW j \in 1..(n + 1), i <= j
               PROVE  Precedes(u[i], u[j])
    BY <1>5 DEF Ordered
  <2>1. \A a, b \in 1..n : a <= b => Precedes(s[a], s[b])
    BY DEF Ordered, n
  <2>2. CASE j <= k
    <3>1. i \in 1..k /\ j \in 1..k /\ i \in 1..n /\ j \in 1..n
      BY <1>1, <2>2
    <3> QED BY <1>5, <2>1, <3>1
  <2>3. CASE j = k + 1
    <3>1. CASE i = k + 1
      BY <1>5, <2>3, <3>1, PrecedesIsOrder
    <3>2. CASE i # k + 1
      <4>1. i \in 1..k /\ i \in 1..n
        BY <1>1, <2>3, <3>2
      <4> QED BY <1>5, <1>6, <2>3, <4>1
    <3> QED BY <3>1, <3>2
  <2>4. CASE j > k + 1
    <3>1. j - 1 \in 1..n /\ j \in (k + 2)..(n + 1) /\ ~(j - 1 <= k)
      BY <1>1, <2>4
    <3>2. u[j] = s[j - 1] /\ ~Precedes(s[j - 1], w)
      BY <1>5, <1>6, <3>1
    <3>3. CASE i <= k
      <4>1. i \in 1..k /\ i \in 1..n /\ i <= j - 1
        BY <1>1, <3>1, <3>3
      <4> QED BY <1>5, <2>1, <3>1, <3>2, <4>1
    <3>4. CASE i = k + 1
      BY <1>1, <1>5, <3>1, <3>2, <3>4, PrecedesIsOrder
    <3>5. CASE i > k + 1
      <4>1. i - 1 \in 1..n /\ i \in (k + 2)..(n + 1) /\ i - 1 <= j - 1
        BY <1>1, <3>1, <3>5
      <4> QED BY <1>5, <2>1, <3>1, <3>2, <4>1
    <3> QED BY <3>3, <3>4, <3>5
  <2> QED BY <2>2, <2>3, <2>4
<1>8. ASSUME NEW x
      PROVE  Holds(u, x) <=> Holds(s, x) \/ x = w
  <2>1. ASSUME Holds(u, x)
        PROVE  Holds(s, x) \/ x = w
    <3>1. PICK i \in 1..(n + 1) : u[i] = x
      BY <1>5, <2>1 DEF Holds
    <3>2. CASE i \in 1..k
      <4>1. i \in 1..n
        BY <1>1, <3>2
      <4> QED BY <1>5, <3>1, <3>2, <4>1 DEF Holds, n
    <3>3. CASE i = k + 1
      BY <1>5, <3>1, <3>3
    <3>4. CASE i \in (k + 2)..(n + 1)
      <4>1. i - 1 \in 1..n
        BY <1>1, <3>4
      <4> QED BY <1>5, <3>1, <3>4, <4>1 DEF Holds, n
    <3> QED BY <3>2, <3>3, <3>4
  <2>2. ASSUME Holds(s, x)
        PROVE  Holds(u, x)
    <3>1. PICK i \in 1..n : s[i] = x
      BY <2>2 DEF Holds, n
    <3>2. CASE i <= k
      <4>1. i \in 1..k /\ i \in 1..(n + 1)
        BY <1>1, <3>2
      <4> QED BY <1>5, <3>1, <4>1 DEF Holds
    <3>3. CASE i > k
      <4>1. i + 1 \in (k + 2)..(n + 1) /\ (i + 1) - 1 = i /\ i + 1 \in 1..(n + 1)
        BY <1>1, <3>3
      <4> QED BY <1>5, <3>1, <4>1 DEF Holds
    <3> QED BY <3>2, <3>3
  <2>3. ASSUME x = w
        PROVE  Holds(u, x)
    <3>1. k + 1 \in 1..(n + 1)
      BY <1>1
    <3> QED BY <1>5, <2>3, <3>1 DEF Holds
  <2> QED BY <2>1, <2>2, <2>3
<1> QED BY <1>5, <1>7, <1>8 DEF u, n

LEMMA SortedIs ==
  ASSUME NEW ws \in Seq(W)
  PROVE  /\ Sorted(ws) \in Seq(W)
         /\ Ordered(Sorted(ws))
         /\ \A x : Holds(Sorted(ws), x) <=> Holds(ws, x)
<1> DEFINE n == Len(ws)
           Some(i, x) == \E j \in 1..i : ws[j] = x
           Inv == [i \in 0..n |-> {s \in Seq(W) : Ordered(s) /\ \A x : Holds(s, x) <=> Some(i, x)}]
<1>1. n \in Nat /\ \A i \in 1..n : ws[i] \in W
  OBVIOUS
<1> HIDE DEF n
<1>2. <<>> \in Inv[0]
  <2>1. <<>> \in Seq(W) /\ Ordered(<<>>)
    BY DEF Ordered
  <2>2. \A x : ~Holds(<<>>, x) /\ ~Some(0, x)
    BY DEF Holds
  <2>3. 0 \in 0..n
    BY <1>1
  <2> QED BY <2>1, <2>2, <2>3
<1>3. ASSUME NEW i \in 1..n, NEW s \in Inv[i - 1]
      PROVE  Insert(s, ws[i]) \in Inv[i]
  <2>1. i - 1 \in 0..n /\ i \in 0..n
    BY <1>1
  <2>2. s \in Seq(W) /\ Ordered(s) /\ \A x : Holds(s, x) <=> Some(i - 1, x)
    BY <2>1
  <2>3. ws[i] \in W
    BY <1>1
  <2>4. \A x : Some(i, x) <=> Some(i - 1, x) \/ x = ws[i]
    <3>1. \A j \in 1..i : j \in 1..(i - 1) \/ j = i
      BY <1>1
    <3>2. \A j \in 1..(i - 1) : j \in 1..i
      BY <1>1
    <3>3. i \in 1..i
      BY <1>1
    <3> QED BY <3>1, <3>2, <3>3
  <2>5. /\ Insert(s, ws[i]) \in Seq(W)
        /\ Ordered(Insert(s, ws[i]))
        /\ \A x : Holds(Insert(s, ws[i]), x) <=> Holds(s, x) \/ x = ws[i]
    BY <2>2, <2>3, InsertIs
  <2> HIDE DEF Some
  <2>6. \A x : Holds(Insert(s, ws[i]), x) <=> Some(i, x)
    BY <2>2, <2>4, <2>5
  <2> QED BY <2>1, <2>5, <2>6
<1>4. Sorted(ws) \in Inv[n]
  <2> HIDE DEF Inv
  <2> QED BY <1>1, <1>2, <1>3, SortedRule DEF n
<1>5. n \in 0..n
  BY <1>1
<1>6. \A x : Some(n, x) <=> Holds(ws, x)
  BY DEF Holds, n
<1> HIDE DEF Some
<1> QED BY <1>4, <1>5, <1>6

LEMMA AppendIs ==
  ASSUME NEW S, NEW m \in Seq(S), NEW w \in S
  PROVE  /\ Append(m, w) \in Seq(S) /\ Len(Append(m, w)) = Len(m) + 1
         /\ Len(m) \in Nat
         /\ \A j \in 1..Len(m) : Append(m, w)[j] = m[j]
         /\ Append(m, w)[Len(m) + 1] = w
OBVIOUS

\* A window after all others, and one that reaches into the last, are added to a
\* sequence of windows that stay apart.
LEMMA MergeIs ==
  ASSUME NEW m \in Seq(W), Apart(m), NEW w \in W,
         m # <<>> => m[Len(m)].start <= w.start
  PROVE  /\ Merge(m, w) \in Seq(W) /\ Apart(Merge(m, w)) /\ Merge(m, w) # <<>>
         /\ Merge(m, w)[Len(Merge(m, w))].start <= w.start
         /\ \A t \in Nat : Covers(Merge(m, w), t) <=> Covers(m, t) \/ In(t, w)
<1> DEFINE n == Len(m)
           u == Merge(m, w)
<1>1. /\ n \in Nat /\ \A j \in 1..n : m[j] \in W /\ m[j].start \in Nat /\ m[j].end \in Nat
      /\ w.start \in Nat /\ w.end \in Nat /\ w.start < w.end
      /\ \A j \in 1..n : m[j].start < m[j].end
  BY DEF W
<1>2. /\ m # <<>> => n >= 1 /\ Last(m) = m[n]
      /\ m = <<>> => n = 0
  BY DEF Last
<1>3. \A i, j \in 1..n : i < j => m[i].end < m[j].start
  BY DEF Apart
<1>4. CASE m = <<>> \/ w.start > Last(m).end
  <2>1. u = Append(m, w)
    BY <1>4 DEF Merge
  <2> HIDE DEF u
  <2>2. /\ u \in Seq(W) /\ Len(u) = n + 1
        /\ \A j \in 1..n : u[j] = m[j]
        /\ u[n + 1] = w
    BY <2>1, AppendIs
  <2>3. \A j \in 1..n : m[j].end < w.start
    <3> SUFFICES ASSUME NEW j \in 1..n
                 PROVE  m[j].end < w.start
      OBVIOUS
    <3>1. m # <<>> /\ n \in 1..n
      BY <1>1, <1>2
    <3>2. m[n].end < w.start
      BY <1>1, <1>2, <1>4, <3>1
    <3>3. j = n \/ m[j].end < m[n].start
      BY <1>1, <1>3, <3>1
    <3> QED BY <1>1, <3>1, <3>2, <3>3
  <2> HIDE DEF n
  <2>4. \A j \in 1..(n + 1) : j \in 1..n \/ j = n + 1
    BY <1>1
  <2>5. Apart(u)
    <3> SUFFICES ASSUME NEW i \in 1..(n + 1), NEW j \in 1..(n + 1), i < j
                 PROVE  u[i].end < u[j].start
      BY <2>2 DEF Apart
    <3>1. i \in 1..n
      BY <1>1
    <3> QED BY <1>3, <2>2, <2>3, <2>4, <3>1
  <2>6. \A t : Covers(u, t) <=> Covers(m, t) \/ In(t, w)
    <3>1. \A j \in 1..n : j \in 1..(n + 1)
      BY <1>1
    <3>2. n + 1 \in 1..(n + 1)
      BY <1>1
    <3> QED BY <2>2, <2>4, <3>1, <3>2 DEF Covers, n
  <2>7. u # <<>> /\ u[Len(u)].start <= w.start
    <3>1. Len(<<>>) = 0 /\ n + 1 # 0
      BY <1>1
    <3> QED BY <1>1, <2>2, <3>1
  <2> QED BY <2>2, <2>5, <2>6, <2>7 DEF u
<1>5. CASE ~(m = <<>> \/ w.start > Last(m).end)
  <2> DEFINE x == [m[n] EXCEPT !.end = Max2(m[n].end, w.end)]
  <2>1. n \in 1..n /\ Last(m) = m[n] /\ w.start <= m[n].end /\ m[n].start <= w.start
    BY <1>1, <1>2, <1>5
  <2>2. u = [m EXCEPT ![n] = x]
    BY <1>5 DEF Merge
  <2>3. /\ x \in W /\ x.start = m[n].start
        /\ x.end = Max2(m[n].end, w.end)
    <3>1. m[n] \in [start : Nat, end : Nat]
      BY <2>1 DEF W
    <3>2. Max2(m[n].end, w.end) \in Nat /\ m[n].start < Max2(m[n].end, w.end)
      BY <1>1, <2>1 DEF Max2
    <3> QED BY <3>1, <3>2 DEF W
  <2> HIDE DEF x, u
  <2>4. /\ u \in Seq(W) /\ Len(u) = n /\ u[n] = x
        /\ \A j \in 1..n : j # n => u[j] = m[j]
    BY <2>1, <2>2, <2>3
  <2>5. \A t \in Nat : In(t, x) <=> In(t, m[n]) \/ In(t, w)
    BY <1>1, <2>1, <2>3 DEF In, Max2
  <2> HIDE DEF n
  <2>6. Apart(u)
    <3> SUFFICES ASSUME NEW i \in 1..n, NEW j \in 1..n, i < j
                 PROVE  u[i].end < u[j].start
      BY <2>4 DEF Apart
    <3>1. i # n
      BY <1>1
    <3> QED BY <1>3, <2>1, <2>3, <2>4, <3>1
  <2>7. ASSUME NEW t \in Nat
        PROVE  Covers(u, t) <=> Covers(m, t) \/ In(t, w)
    <3>1. Covers(u, t) <=> \E j \in 1..n : In(t, u[j])
      BY <2>4 DEF Covers
    <3>2. Covers(m, t) <=> \E j \in 1..n : In(t, m[j])
      BY DEF Covers, n
    <3> QED BY <2>1, <2>4, <2>5, <3>1, <3>2
  <2>8. u # <<>> /\ u[Len(u)].start <= w.start
    <3>1. Len(<<>>) = 0 /\ n # 0
      BY <1>1, <2>1
    <3> QED BY <2>1, <2>3, <2>4, <3>1
  <2> QED BY <2>4, <2>6, <2>7, <2>8 DEF u
<1> QED BY <1>4, <1>5

\* Merging makes of any windows windows in order that do not touch, and cover the
\* same instants.
LEMMA MergedIs ==
  ASSUME NEW ws \in Seq(W)
  PROVE  /\ MergeWindows(ws) \in Seq(W)
         /\ Apart(MergeWindows(ws))
         /\ \A t \in Nat : Covers(MergeWindows(ws), t) <=> Covers(ws, t)
<1> DEFINE s == Sorted(ws)
<1>1. s \in Seq(W) /\ Ordered(s) /\ \A x : Holds(s, x) <=> Holds(ws, x)
  BY SortedIs
<1> HIDE DEF s
<1> DEFINE n == Len(s)
           Some(i, t) == \E j \in 1..i : In(t, s[j])
           Start(m, i) == m # <<>> => i \in 1..n /\ m[Len(m)].start <= s[i].start
           Inv == [i \in 0..n |-> {m \in Seq(W) : /\ Apart(m) /\ Start(m, i)
                                                  /\ \A t \in Nat : Covers(m, t) <=> Some(i, t)}]
<1>2. n \in Nat /\ \A i \in 1..n : s[i] \in W
  BY <1>1
<1>21. \A i, j \in 1..n : i <= j => s[i].start <= s[j].start
  BY <1>1, <1>2, PrecedesIsOrder DEF Ordered
<1> HIDE DEF n
<1>3. <<>> \in Inv[0]
  <2>1. <<>> \in Seq(W) /\ Apart(<<>>)
    BY DEF Apart
  <2>2. \A t : ~Covers(<<>>, t) /\ ~Some(0, t)
    BY DEF Covers
  <2>3. 0 \in 0..n
    BY <1>2
  <2> QED BY <2>1, <2>2, <2>3
<1>4. ASSUME NEW i \in 1..n, NEW m \in Inv[i - 1]
      PROVE  Merge(m, s[i]) \in Inv[i]
  <2>1. i - 1 \in 0..n /\ i \in 0..n
    BY <1>2
  <2>2. /\ m \in Seq(W) /\ Apart(m) /\ Start(m, i - 1)
        /\ \A t \in Nat : Covers(m, t) <=> Some(i - 1, t)
    BY <2>1
  <2>3. s[i] \in W
    BY <1>2
  <2>4. \A t : Some(i, t) <=> Some(i - 1, t) \/ In(t, s[i])
    <3>1. \A j \in 1..i : j \in 1..(i - 1) \/ j = i
      BY <1>2
    <3>2. \A j \in 1..(i - 1) : j \in 1..i
      BY <1>2
    <3>3. i \in 1..i
      BY <1>2
    <3> QED BY <3>1, <3>2, <3>3
  <2>5. m # <<>> => m[Len(m)].start <= s[i].start
    <3> SUFFICES ASSUME m # <<>>
                 PROVE  m[Len(m)].start <= s[i].start
      OBVIOUS
    <3>1. i - 1 \in 1..n /\ m[Len(m)].start <= s[i - 1].start
      BY <2>2
    <3>2. s[i - 1].start <= s[i].start
      BY <1>2, <1>21, <3>1
    <3>3. /\ s[i - 1].start \in Nat /\ s[i].start \in Nat /\ m[Len(m)] \in W
      <4>1. Len(m) \in 1..Len(m)
        BY <2>2
      <4> QED BY <1>2, <2>2, <3>1, <4>1 DEF W
    <3>4. m[Len(m)].start \in Nat
      BY <3>3 DEF W
    <3> QED BY <3>1, <3>2, <3>3, <3>4
  <2> DEFINE u == Merge(m, s[i])
  <2>6. /\ u \in Seq(W) /\ Apart(u) /\ u # <<>>
        /\ u[Len(u)].start <= s[i].start
        /\ \A t \in Nat : Covers(u, t) <=> Covers(m, t) \/ In(t, s[i])
    BY <2>2, <2>3, <2>5, MergeIs
  <2> HIDE DEF u, Some
  <2>7. \A t \in Nat : Covers(u, t) <=> Some(i, t)
    BY <2>2, <2>4, <2>6
  <2>8. u \in Inv[i]
    BY <2>1, <2>6, <2>7
  <2> QED BY <2>8 DEF u
<1>5. MergeWindows(ws) \in Inv[n]
  <2> HIDE DEF Inv
  <2> QED BY <1>2, <1>3, <1>4, MergeRule DEF n, s
<1>6. n \in 0..n
  BY <1>2
<1>7. \A t : Some(n, t) <=> Covers(ws, t)
  BY <1>1 DEF Holds, Covers, n
<1> HIDE DEF Some
<1> QED BY <1>5, <1>6, <1>7

-----------------------------------------------------------------------------
(* Intersection                                                             *)

\* The pairs of windows that have been compared when the indices are at i and j
Met(l, r, at, t) ==
  \E a \in 1..Len(l), b \in 1..Len(r) :
    In(t, l[a]) /\ In(t, r[b]) /\ (a < at.i \/ b < at.j)

\* found covers what two windows that have met have in common.
Meeting(l, r, at) ==
  /\ at \in [i : 1..(Len(l) + 1), j : 1..(Len(r) + 1), found : Seq(W)]
  /\ \A t \in Nat : Covers(at.found, t) <=> Met(l, r, at, t)

LEMMA ConcatCovers ==
  ASSUME NEW u \in Seq(W), NEW v \in Seq(W)
  PROVE  /\ u \o v \in Seq(W)
         /\ \A t : Covers(u \o v, t) <=> Covers(u, t) \/ Covers(v, t)
<1> DEFINE c == u \o v
<1>1. /\ c \in Seq(W) /\ Len(c) = Len(u) + Len(v)
      /\ Len(u) \in Nat /\ Len(v) \in Nat
      /\ \A j \in 1..Len(u) : c[j] = u[j]
      /\ \A j \in 1..Len(v) : c[Len(u) + j] = v[j]
  BY ConcatIs
<1> HIDE DEF c
<1>2. ASSUME NEW t, Covers(c, t)
      PROVE  Covers(u, t) \/ Covers(v, t)
  <2>1. PICK j \in 1..Len(c) : In(t, c[j])
    BY <1>2 DEF Covers
  <2>2. CASE j \in 1..Len(u)
    BY <1>1, <2>1, <2>2 DEF Covers
  <2>3. CASE j \notin 1..Len(u)
    <3>1. j - Len(u) \in 1..Len(v) /\ Len(u) + (j - Len(u)) = j
      BY <1>1, <2>3
    <3>2. c[j] = v[j - Len(u)]
      BY <1>1, <3>1
    <3> QED BY <2>1, <3>1, <3>2 DEF Covers
  <2> QED BY <2>2, <2>3
<1>3. ASSUME NEW t, Covers(u, t)
      PROVE  Covers(c, t)
  <2>1. PICK j \in 1..Len(u) : In(t, u[j])
    BY <1>3 DEF Covers
  <2>2. j \in 1..Len(c)
    BY <1>1
  <2> QED BY <1>1, <2>1, <2>2 DEF Covers
<1>4. ASSUME NEW t, Covers(v, t)
      PROVE  Covers(c, t)
  <2>1. PICK j \in 1..Len(v) : In(t, v[j])
    BY <1>4 DEF Covers
  <2>2. Len(u) + j \in 1..Len(c)
    BY <1>1
  <2> QED BY <1>1, <2>1, <2>2 DEF Covers
<1> QED BY <1>1, <1>2, <1>3, <1>4 DEF c

LEMMA PairIs ==
  ASSUME NEW l \in Seq(W), Apart(l), NEW r \in Seq(W), Apart(r), NEW at, Meeting(l, r, at)
  PROVE  /\ Meeting(l, r, Pair(l, r, at))
         /\ \/ Pair(l, r, at).i + Pair(l, r, at).j = at.i + at.j + 1
            \/ Pair(l, r, at) = at /\ (at.i > Len(l) \/ at.j > Len(r))
<1> DEFINE next == Pair(l, r, at)
           both == Intersection(l[at.i], r[at.j])
           i == at.i
           j == at.j
<1>1. /\ Len(l) \in Nat /\ Len(r) \in Nat /\ i \in 1..(Len(l) + 1) /\ j \in 1..(Len(r) + 1)
      /\ at.found \in Seq(W) /\ at \in [i : 1..(Len(l) + 1), j : 1..(Len(r) + 1), found : Seq(W)]
  BY DEF Meeting
<1>2. /\ \A a \in 1..Len(l) : l[a] \in W /\ l[a].start \in Nat /\ l[a].end \in Nat
      /\ \A b \in 1..Len(r) : r[b] \in W /\ r[b].start \in Nat /\ r[b].end \in Nat
  BY DEF W
<1>3. CASE i > Len(l) \/ j > Len(r)
  BY <1>3 DEF Pair
<1>4. CASE i \in 1..Len(l) /\ j \in 1..Len(r)
  <2>1. both \in Seq(W) /\ \A t \in Nat : Covers(both, t) <=> In(t, l[i]) /\ In(t, r[j])
    <3>1. /\ both \in Seq(W)
          /\ \A t \in Nat : (\E k \in DOMAIN both : In(t, both[k])) <=> In(t, l[i]) /\ In(t, r[j])
      BY <1>2, <1>4, IntersectionIs
    <3>2. DOMAIN both = 1..Len(both)
      BY <3>1
    <3> QED BY <3>1, <3>2 DEF Covers
  <2> HIDE DEF both
  <2> DEFINE found == at.found \o both
  <2>2. /\ found \in Seq(W)
        /\ \A t \in Nat : Covers(found, t) <=>
             Met(l, r, at, t) \/ (In(t, l[i]) /\ In(t, r[j]))
    <3>1. found \in Seq(W) /\ \A t : Covers(found, t) <=> Covers(at.found, t) \/ Covers(both, t)
      BY <1>1, <2>1, ConcatCovers
    <3> QED BY <2>1, <3>1 DEF Meeting
  <2> HIDE DEF found
  <2>3. CASE l[i].end <= r[j].end
    <3>1. next = [at EXCEPT !.i = i + 1, !.found = found]
      BY <1>1, <1>4, <2>3 DEF Pair, found, both
    <3>2. /\ next.i = i + 1 /\ next.j = j /\ next.found = found
          /\ next \in [i : 1..(Len(l) + 1), j : 1..(Len(r) + 1), found : Seq(W)]
      <4> DEFINE I == 1..(Len(l) + 1)
                 J == 1..(Len(r) + 1)
      <4>1. at \in [i : I, j : J, found : Seq(W)] /\ i + 1 \in I
        BY <1>1, <1>4
      <4> HIDE DEF I, J, next
      <4>2. next.i = i + 1 /\ next.j = j /\ next.found = found
        BY <3>1, <4>1
      <4>3. next \in [i : I, j : J, found : Seq(W)]
        BY <2>2, <3>1, <4>1
      <4> QED BY <4>2, <4>3 DEF I, J
    <3> HIDE DEF next
    <3>3. ASSUME NEW t \in Nat
          PROVE  Met(l, r, next, t) <=> Met(l, r, at, t) \/ (In(t, l[i]) /\ In(t, r[j]))
      <4>1. ASSUME NEW a \in 1..Len(l), NEW b \in 1..Len(r), In(t, l[a]), In(t, r[b]),
                   a < i + 1, ~(a < i), ~(b < j)
            PROVE  In(t, l[i]) /\ In(t, r[j])
        <5>1. a = i
          BY <1>1, <4>1
        <5>2. CASE b = j
          BY <4>1, <5>1, <5>2
        <5>3. CASE b # j
          <6>1. r[j].end < r[b].start
            <7>1. j < b /\ j \in 1..Len(r)
              BY <1>1, <1>4, <4>1, <5>3
            <7> QED BY <7>1 DEF Apart
          <6>2. r[b].start <= t /\ t < l[i].end
            BY <4>1, <5>1 DEF In
          <6> DEFINE x == l[i].end
                     y == r[j].end
                     z == r[b].start
          <6>3. x \in Nat /\ y \in Nat /\ z \in Nat
            BY <1>2, <1>4
          <6>4. x <= y /\ y < z /\ z <= t /\ t < x
            BY <2>3, <6>1, <6>2
          <6> HIDE DEF x, y, z
          <6> QED BY <6>3, <6>4
        <5> QED BY <5>2, <5>3
      <4>2. \A a \in 1..Len(l) : (a < i => a < i + 1) /\ i < i + 1
        BY <1>1
      <4>3. Met(l, r, next, t) <=> \E a \in 1..Len(l), b \in 1..Len(r) :
                                     In(t, l[a]) /\ In(t, r[b]) /\ (a < i + 1 \/ b < j)
        BY <3>2 DEF Met
      <4>4. Met(l, r, at, t) <=> \E a \in 1..Len(l), b \in 1..Len(r) :
                                     In(t, l[a]) /\ In(t, r[b]) /\ (a < i \/ b < j)
        BY DEF Met
      <4> QED BY <1>4, <4>1, <4>2, <4>3, <4>4
    <3>4. Meeting(l, r, next)
      BY <2>2, <3>2, <3>3 DEF Meeting
    <3>5. next.i + next.j = i + j + 1
      BY <1>1, <3>2
    <3> QED BY <3>4, <3>5 DEF next
  <2>4. CASE ~(l[i].end <= r[j].end)
    <3>1. next = [at EXCEPT !.j = j + 1, !.found = found]
      BY <1>1, <1>4, <2>4 DEF Pair, found, both
    <3>2. /\ next.i = i /\ next.j = j + 1 /\ next.found = found
          /\ next \in [i : 1..(Len(l) + 1), j : 1..(Len(r) + 1), found : Seq(W)]
      <4> DEFINE I == 1..(Len(l) + 1)
                 J == 1..(Len(r) + 1)
      <4>1. at \in [i : I, j : J, found : Seq(W)] /\ j + 1 \in J
        BY <1>1, <1>4
      <4> HIDE DEF I, J, next
      <4>2. next.i = i /\ next.j = j + 1 /\ next.found = found
        BY <3>1, <4>1
      <4>3. next \in [i : I, j : J, found : Seq(W)]
        BY <2>2, <3>1, <4>1
      <4> QED BY <4>2, <4>3 DEF I, J
    <3> HIDE DEF next
    <3>3. ASSUME NEW t \in Nat
          PROVE  Met(l, r, next, t) <=> Met(l, r, at, t) \/ (In(t, l[i]) /\ In(t, r[j]))
      <4>1. ASSUME NEW a \in 1..Len(l), NEW b \in 1..Len(r), In(t, l[a]), In(t, r[b]),
                   b < j + 1, ~(a < i), ~(b < j)
            PROVE  In(t, l[i]) /\ In(t, r[j])
        <5>1. b = j
          BY <1>1, <4>1
        <5>2. CASE a = i
          BY <4>1, <5>1, <5>2
        <5>3. CASE a # i
          <6>1. l[i].end < l[a].start
            <7>1. i < a /\ i \in 1..Len(l)
              BY <1>1, <1>4, <4>1, <5>3
            <7> QED BY <7>1 DEF Apart
          <6>2. l[a].start <= t /\ t < r[j].end
            BY <4>1, <5>1 DEF In
          <6> DEFINE x == l[i].end
                     y == r[j].end
                     z == l[a].start
          <6>3. x \in Nat /\ y \in Nat /\ z \in Nat
            BY <1>2, <1>4
          <6>4. ~(x <= y) /\ x < z /\ z <= t /\ t < y
            BY <2>4, <6>1, <6>2
          <6> HIDE DEF x, y, z
          <6> QED BY <6>3, <6>4
        <5> QED BY <5>2, <5>3
      <4>2. \A b \in 1..Len(r) : (b < j => b < j + 1) /\ j < j + 1
        BY <1>1
      <4>3. Met(l, r, next, t) <=> \E a \in 1..Len(l), b \in 1..Len(r) :
                                     In(t, l[a]) /\ In(t, r[b]) /\ (a < i \/ b < j + 1)
        BY <3>2 DEF Met
      <4>4. Met(l, r, at, t) <=> \E a \in 1..Len(l), b \in 1..Len(r) :
                                     In(t, l[a]) /\ In(t, r[b]) /\ (a < i \/ b < j)
        BY DEF Met
      <4> QED BY <1>4, <4>1, <4>2, <4>3, <4>4
    <3>4. Meeting(l, r, next)
      BY <2>2, <3>2, <3>3 DEF Meeting
    <3>5. next.i + next.j = i + j + 1
      BY <1>1, <3>2
    <3> QED BY <3>4, <3>5 DEF next
  <2> QED BY <2>3, <2>4
<1> QED BY <1>1, <1>3, <1>4

\* The intersection covers what both sides cover.
LEMMA IntersectedIs ==
  ASSUME NEW left \in Seq(W), NEW right \in Seq(W)
  PROVE  /\ IntersectWindows(left, right) \in Seq(W)
         /\ Apart(IntersectWindows(left, right))
         /\ \A t \in Nat : Covers(IntersectWindows(left, right), t) <=>
                             Covers(left, t) /\ Covers(right, t)
<1> DEFINE l == MergeWindows(left)
           r == MergeWindows(right)
<1>1. /\ l \in Seq(W) /\ Apart(l) /\ \A t \in Nat : Covers(l, t) <=> Covers(left, t)
      /\ r \in Seq(W) /\ Apart(r) /\ \A t \in Nat : Covers(r, t) <=> Covers(right, t)
  BY MergedIs
<1> HIDE DEF l, r
<1> DEFINE n == Side(l, r)
           Far(at, k) == at.i + at.j = k + 2 \/ at.i > Len(l) \/ at.j > Len(r)
           S == [i : 1..(Len(l) + 1), j : 1..(Len(r) + 1), found : Seq(W)]
           Inv == [k \in 0..n |-> {at \in S : Meeting(l, r, at) /\ Far(at, k)}]
<1>2. n \in Nat /\ n = Len(l) + Len(r) /\ Len(l) \in Nat /\ Len(r) \in Nat
  BY <1>1 DEF Side
<1> HIDE DEF n
<1>3. Outset \in Inv[0]
  <2>1. Outset.i = 1 /\ Outset.j = 1 /\ Outset.found = <<>>
    BY DEF Outset
  <2>2. Outset \in S
    BY <1>2 DEF Outset
  <2>3. \A t : ~Covers(<<>>, t) /\ ~Met(l, r, Outset, t)
    BY <2>1 DEF Covers, Met
  <2>4. Meeting(l, r, Outset)
    BY <2>1, <2>2, <2>3 DEF Meeting
  <2>5. 0 \in 0..n /\ 1 + 1 = 0 + 2
    BY <1>2
  <2> QED BY <2>1, <2>2, <2>4, <2>5
<1>4. ASSUME NEW k \in 1..n, NEW at \in Inv[k - 1]
      PROVE  Pair(l, r, at) \in Inv[k]
  <2> DEFINE next == Pair(l, r, at)
  <2>1. k - 1 \in 0..n /\ k \in 0..n
    BY <1>2
  <2>2. at \in S /\ Meeting(l, r, at) /\ Far(at, k - 1)
    BY <2>1
  <2>3. /\ Meeting(l, r, next)
        /\ \/ next.i + next.j = at.i + at.j + 1
           \/ next = at /\ (at.i > Len(l) \/ at.j > Len(r))
    BY <1>1, <2>2, PairIs
  <2> HIDE DEF next
  <2>4. next \in S
    BY <2>3 DEF Meeting
  <2>5. Far(next, k)
    <3>1. CASE next = at
      BY <2>2, <2>3, <3>1, <1>2
    <3>2. CASE next.i + next.j = at.i + at.j + 1 /\ at.i + at.j = (k - 1) + 2
      BY <2>2, <2>4, <3>2, <1>2
    <3>3. CASE next # at /\ (at.i > Len(l) \/ at.j > Len(r))
      <4>1. Pair(l, r, at) = at
        BY <3>3 DEF Pair
      <4> QED BY <3>3, <4>1 DEF next
    <3> QED BY <2>2, <2>3, <3>1, <3>2, <3>3
  <2> HIDE DEF Far, S
  <2> QED BY <2>1, <2>3, <2>4, <2>5 DEF next
<1>5. PICK at \in Inv[n] : IntersectWindows(left, right) = MergeWindows(at.found)
  <2> HIDE DEF Inv
  <2> QED BY <1>2, <1>3, <1>4, PairRule DEF n, l, r
<1>6. n \in 0..n
  BY <1>2
<1>7. at \in S /\ Meeting(l, r, at) /\ (at.i > Len(l) \/ at.j > Len(r))
  BY <1>2, <1>5, <1>6
<1>8. ASSUME NEW t \in Nat
      PROVE  Met(l, r, at, t) <=> Covers(l, t) /\ Covers(r, t)
  <2>1. \A a \in 1..Len(l), b \in 1..Len(r) : a < at.i \/ b < at.j
    BY <1>2, <1>7
  <2> QED BY <2>1 DEF Met, Covers
<1>9. /\ at.found \in Seq(W)
      /\ \A t \in Nat : Covers(at.found, t) <=> Covers(left, t) /\ Covers(right, t)
  BY <1>1, <1>7, <1>8 DEF Meeting
<1> QED BY <1>5, <1>9, MergedIs

-----------------------------------------------------------------------------
(* Minutes and gaps                                                         *)

LEMMA CanonicalIs ==
  ASSUME NEW ws \in Seq(W)
  PROVE  /\ Apart(ws) => Canonical(ws)
         /\ \A t : t \in Covered(ws) <=> t \in Nat /\ Covers(ws, t)
<1>1. Len(ws) \in Nat /\ DOMAIN ws = 1..Len(ws)
  OBVIOUS
<1>2. \A i \in 1..Len(ws) : ws[i] \in W /\ ws[i].start < ws[i].end
  BY <1>1 DEF W
<1>3. ASSUME Apart(ws)
      PROVE  Canonical(ws)
  <2>1. \A i \in 1..(Len(ws) - 1) : i \in 1..Len(ws) /\ i + 1 \in 1..Len(ws) /\ i < i + 1
    BY <1>1
  <2>2. \A i \in 1..(Len(ws) - 1) : ws[i].end < ws[i + 1].start
    BY <1>3, <2>1 DEF Apart
  <2> QED BY <1>1, <1>2, <2>2 DEF Canonical
<1>4. \A t : t \in Covered(ws) <=> t \in Nat /\ Covers(ws, t)
  BY <1>1, CoveredIs DEF Covers
<1> QED BY <1>3, <1>4

\* Minutes counts instants.
LEMMA MinutesAre ==
  ASSUME NEW ws \in Seq(W), Apart(ws)
  PROVE  Minutes(ws) = Cardinality(Covered(ws))
<1> DEFINE n == Len(ws)
           Part(i) == {t \in Nat : \E j \in 1..i : In(t, ws[j])}
           Inv == [i \in 0..n |-> {v \in Nat : IsFiniteSet(Part(i)) /\ v = Cardinality(Part(i))}]
<1>1. /\ n \in Nat
      /\ \A i \in 1..n : ws[i].start \in Nat /\ ws[i].end \in Nat /\ ws[i].start < ws[i].end
  BY DEF W
<1> HIDE DEF n
<1>2. 0 \in Inv[0]
  <2>1. Part(0) = {}
    OBVIOUS
  <2>2. IsFiniteSet(Part(0)) /\ Cardinality(Part(0)) = 0
    BY <2>1, FS_EmptySet
  <2>3. 0 \in 0..n
    BY <1>1
  <2> QED BY <2>2, <2>3
<1>3. ASSUME NEW i \in 1..n, NEW v \in Inv[i - 1]
      PROVE  Add(ws, v, i) \in Inv[i]
  <2>1. i - 1 \in 0..n /\ i \in 0..n
    BY <1>1
  <2>2. v \in Nat /\ IsFiniteSet(Part(i - 1)) /\ v = Cardinality(Part(i - 1))
    BY <2>1
  <2> DEFINE a == ws[i].start
             b == ws[i].end
  <2>3. a \in Nat /\ b \in Nat /\ a < b
    BY <1>1
  <2>4. Part(i) = Part(i - 1) \cup (a..(b - 1))
    <3>1. \A j \in 1..i : j \in 1..(i - 1) \/ j = i
      BY <1>1
    <3>2. \A j \in 1..(i - 1) : j \in 1..i
      BY <1>1
    <3>3. i \in 1..i
      BY <1>1
    <3>4. \A t \in Nat : In(t, ws[i]) <=> t \in a..(b - 1)
      BY <2>3 DEF In
    <3>5. a..(b - 1) \subseteq Nat
      BY <2>3
    <3> QED BY <3>1, <3>2, <3>3, <3>4, <3>5
  <2>5. Part(i - 1) \cap (a..(b - 1)) = {}
    <3> SUFFICES ASSUME NEW t \in Nat, NEW j \in 1..(i - 1), In(t, ws[j]), t \in a..(b - 1)
                 PROVE  FALSE
      OBVIOUS
    <3>1. j \in 1..n /\ j < i
      BY <1>1
    <3>2. ws[j].end < a
      BY <3>1 DEF Apart, n
    <3>3. t < ws[j].end /\ a <= t
      BY <2>3 DEF In
    <3> QED BY <1>1, <2>3, <3>1, <3>2, <3>3
  <2>6. IsFiniteSet(a..(b - 1)) /\ Cardinality(a..(b - 1)) = b - a
    <3> HIDE DEF a, b
    <3>1. a \in Int /\ b - 1 \in Int /\ ~(a > b - 1) /\ ((b - 1) - a) + 1 = b - a
      BY <2>3
    <3> QED BY <3>1, FS_Interval
  <2> HIDE DEF Part, a, b
  <2>7. /\ IsFiniteSet(Part(i))
        /\ Cardinality(Part(i)) = v + (b - a) - 0
    <3> DEFINE new == a..(b - 1)
               old == Part(i - 1)
    <3>1. Cardinality(old \cap new) = 0
      BY <2>5, FS_EmptySet
    <3>2. /\ IsFiniteSet(old) /\ Cardinality(old) = v
          /\ IsFiniteSet(new) /\ Cardinality(new) = b - a
      BY <2>2, <2>6
    <3>3. Part(i) = old \cup new
      BY <2>4
    <3> HIDE DEF new, old
    <3>4. /\ IsFiniteSet(old \cup new)
          /\ Cardinality(old \cup new) = Cardinality(old) + Cardinality(new) - Cardinality(old \cap new)
      BY <3>2, FS_Union
    <3> QED BY <3>1, <3>2, <3>3, <3>4
  <2>8. Add(ws, v, i) = Cardinality(Part(i)) /\ Add(ws, v, i) \in Nat
    BY <2>2, <2>3, <2>7 DEF Add, a, b
  <2> QED BY <2>1, <2>7, <2>8
<1>4. Minutes(ws) \in Inv[n]
  <2> HIDE DEF Inv
  <2> QED BY <1>1, <1>2, <1>3, MinutesRule DEF n
<1>5. Covered(ws) = Part(n)
  BY CanonicalIs DEF n, Covers
<1>6. n \in 0..n
  BY <1>1
<1> HIDE DEF Part
<1> QED BY <1>4, <1>5, <1>6

LEMMA AppendApart ==
  ASSUME NEW m \in Seq(W), Apart(m), NEW w \in W, \A j \in 1..Len(m) : m[j].end < w.start
  PROVE  /\ Append(m, w) \in Seq(W) /\ Apart(Append(m, w))
         /\ \A t : Covers(Append(m, w), t) <=> Covers(m, t) \/ In(t, w)
<1> DEFINE n == Len(m)
           u == Append(m, w)
<1>1. /\ u \in Seq(W) /\ Len(u) = n + 1 /\ n \in Nat
      /\ \A j \in 1..n : u[j] = m[j]
      /\ u[n + 1] = w
  BY AppendIs
<1> HIDE DEF n, u
<1>2. \A j \in 1..(n + 1) : j \in 1..n \/ j = n + 1
  BY <1>1
<1>3. (\A j \in 1..n : j \in 1..(n + 1)) /\ n + 1 \in 1..(n + 1)
  BY <1>1
<1>4. Apart(u)
  <2> SUFFICES ASSUME NEW i \in 1..(n + 1), NEW j \in 1..(n + 1), i < j
               PROVE  u[i].end < u[j].start
    BY <1>1 DEF Apart
  <2>1. i \in 1..n
    BY <1>1
  <2>2. \A a, b \in 1..n : a < b => m[a].end < m[b].start
    BY DEF Apart, n
  <2>3. \A a \in 1..n : m[a].end < w.start
    BY DEF n
  <2> QED BY <1>1, <1>2, <2>1, <2>2, <2>3
<1>5. \A t : Covers(u, t) <=> Covers(m, t) \/ In(t, w)
  BY <1>1, <1>2, <1>3 DEF Covers, n
<1> QED BY <1>1, <1>4, <1>5 DEF u

\* The gaps that a summary lists are what the observed windows leave of the range.
LEMMA SummaryIs ==
  ASSUME NEW covered \in Seq(W), NEW query \in W
  PROVE  \E ws, gaps \in Seq(W) :
           /\ CoverageSummary(covered, query) = [observed |-> ws, gaps |-> gaps]
           /\ Apart(ws) /\ Apart(gaps)
           /\ \A t \in Nat : Covers(ws, t) <=> Covers(covered, t) /\ In(t, query)
           /\ \A t \in Nat : Covers(gaps, t) <=> In(t, query) /\ ~Covers(ws, t)
<1> DEFINE ws == IntersectWindows(covered, <<query>>)
<1>1. /\ ws \in Seq(W) /\ Apart(ws)
      /\ \A t \in Nat : Covers(ws, t) <=> Covers(covered, t) /\ In(t, query)
  <2> DEFINE qs == <<query>>
  <2>1. qs \in Seq(W) /\ Len(qs) = 1 /\ qs[1] = query
    OBVIOUS
  <2> HIDE DEF qs
  <2>2. /\ IntersectWindows(covered, qs) \in Seq(W) /\ Apart(IntersectWindows(covered, qs))
        /\ \A t \in Nat : Covers(IntersectWindows(covered, qs), t) <=> Covers(covered, t) /\ Covers(qs, t)
    BY <2>1, IntersectedIs
  <2>3. \A t : Covers(qs, t) <=> In(t, query)
    BY <2>1 DEF Covers
  <2> QED BY <2>2, <2>3 DEF qs
<1>2. ws = IntersectWindows(covered, <<query>>)
  OBVIOUS
<1> HIDE DEF ws
<1> DEFINE n == Len(ws)
           At(i) == IF i = 0 THEN query.start ELSE ws[i].end
           Seen(i, t) == \E j \in 1..i : In(t, ws[j])
           Left(acc, i) ==
             /\ acc.cursor = At(i) /\ Apart(acc.gaps)
             /\ \A j \in 1..Len(acc.gaps) : acc.gaps[j].end < acc.cursor
             /\ \A t \in Nat : Covers(acc.gaps, t) <=>
                  query.start <= t /\ t < At(i) /\ ~Seen(i, t)
           S == [cursor : Nat, gaps : Seq(W)]
           Inv == [i \in 0..n |-> {acc \in S : Left(acc, i)}]
<1>3. /\ n \in Nat
      /\ \A i \in 1..n : ws[i].start \in Nat /\ ws[i].end \in Nat /\ ws[i].start < ws[i].end
      /\ query.start \in Nat /\ query.end \in Nat /\ query.start < query.end
  BY <1>1 DEF W
<1>4. \A i, j \in 1..n : i < j => ws[i].end < ws[j].start
  BY <1>1 DEF Apart
<1>5. ASSUME NEW i \in 1..n
      PROVE  query.start <= ws[i].start /\ ws[i].end <= query.end
  <2>1. \A t \in Nat : In(t, ws[i]) => In(t, query)
    BY <1>1 DEF Covers
  <2>2. ws[i].start \in Nat /\ In(ws[i].start, ws[i]) /\ ws[i].end - 1 \in Nat /\ In(ws[i].end - 1, ws[i])
    BY <1>3 DEF In
  <2> QED BY <1>3, <2>1, <2>2 DEF In
<1> HIDE DEF n
<1>6. \A i \in 0..n : At(i) \in Nat
  BY <1>3
<1>7. \A i \in 1..n : At(i - 1) <= ws[i].start /\ At(i) = ws[i].end
  <2> SUFFICES ASSUME NEW i \in 1..n
               PROVE  At(i - 1) <= ws[i].start /\ At(i) = ws[i].end
    OBVIOUS
  <2>1. CASE i = 1
    BY <1>3, <1>5, <2>1
  <2>2. CASE i # 1
    <3>1. i - 1 \in 1..n /\ i - 1 < i /\ i - 1 # 0 /\ i # 0
      BY <1>3, <2>2
    <3> QED BY <1>3, <1>4, <3>1
  <2> QED BY <2>1, <2>2
<1>8. NoGap(query) \in Inv[0]
  <2>1. 0 \in 0..n
    BY <1>3
  <2>2. \A t : ~Covers(<<>>, t)
    BY DEF Covers
  <2>3. Apart(<<>>) /\ <<>> \in Seq(W) /\ Len(<<>>) = 0
    BY DEF Apart
  <2>4. \A t \in Nat : ~(query.start <= t /\ t < At(0))
    BY <1>3
  <2>5. NoGap(query) \in S /\ NoGap(query).cursor = At(0) /\ NoGap(query).gaps = <<>>
    BY <1>3, <2>3 DEF NoGap
  <2>6. Left(NoGap(query), 0)
    BY <2>2, <2>3, <2>4, <2>5
  <2> HIDE DEF Left, S
  <2> QED BY <2>1, <2>5, <2>6
<1>9. ASSUME NEW i \in 1..n, NEW acc \in Inv[i - 1]
      PROVE  Gap(acc, ws[i]) \in Inv[i]
  <2> DEFINE w == ws[i]
             c == acc.cursor
             next == Gap(acc, w)
  <2>1. i - 1 \in 0..n /\ i \in 0..n
    BY <1>3
  <2>2. /\ acc \in S /\ Left(acc, i - 1)
    BY <2>1
  <2>3. /\ c \in Nat /\ acc.gaps \in Seq(W) /\ c = At(i - 1) /\ c <= w.start
        /\ w.start \in Nat /\ w.end \in Nat /\ w.start < w.end
        /\ query.start <= w.start
    BY <1>3, <1>5, <1>7, <2>2
  <2>31. query.start <= c /\ \A j \in 1..(i - 1) : ws[j].end <= c
    <3>1. CASE i = 1
      BY <1>3, <2>3, <3>1
    <3>2. CASE i # 1
      <4>1. i - 1 \in 1..n /\ i - 1 # 0 /\ c = ws[i - 1].end
        BY <1>3, <2>3, <3>2
      <4>2. query.start <= c
        <5> DEFINE h == i - 1
        <5>1. h \in 1..n /\ c = ws[h].end
          BY <4>1
        <5> HIDE DEF h
        <5>2. query.start <= ws[h].start /\ ws[h].start < ws[h].end
          BY <1>3, <1>5, <5>1
        <5> QED BY <1>3, <5>1, <5>2
      <4>3. ASSUME NEW j \in 1..(i - 1)
            PROVE  ws[j].end <= c
        <5>1. j \in 1..n /\ (j = i - 1 \/ j < i - 1)
          BY <1>3
        <5> QED BY <1>3, <1>4, <4>1, <5>1
      <4> QED BY <4>2, <4>3
    <3> QED BY <3>1, <3>2
  <2>4. next.cursor = w.end /\ next.cursor = At(i)
    BY <1>7, <2>3 DEF Gap, Max2
  <2>5. ASSUME NEW t \in Nat
        PROVE  /\ query.start <= t /\ t < At(i) /\ ~Seen(i, t) <=>
                    \/ query.start <= t /\ t < c /\ ~Seen(i - 1, t)
                    \/ c <= t /\ t < w.start
    <3>1. Seen(i, t) <=> Seen(i - 1, t) \/ In(t, w)
      <4>1. \A j \in 1..i : j \in 1..(i - 1) \/ j = i
        BY <1>3
      <4>2. \A j \in 1..(i - 1) : j \in 1..i
        BY <1>3
      <4>3. i \in 1..i
        BY <1>3
      <4> QED BY <4>1, <4>2, <4>3
    <3>2. c <= t => ~Seen(i - 1, t)
      <4> SUFFICES ASSUME c <= t, NEW j \in 1..(i - 1), In(t, ws[j])
                   PROVE  FALSE
        OBVIOUS
      <4>1. ws[j].end <= c
        BY <2>31
      <4>2. ws[j].end \in Nat /\ c \in Nat
        BY <1>3, <1>5, <2>3
      <4>3. t < ws[j].end
        BY DEF In
      <4> DEFINE x == ws[j].end
      <4> HIDE DEF x
      <4>4. x \in Nat /\ x <= c /\ t < x
        BY <4>1, <4>2, <4>3 DEF x
      <4> HIDE DEF c
      <4> QED BY <4>2, <4>4
    <3> DEFINE low == w.start
               high == w.end
               old == Seen(i - 1, t)
               new == Seen(i, t)
    <3>3. /\ query.start \in Nat /\ c \in Nat /\ low \in Nat /\ high \in Nat
          /\ query.start <= c /\ c <= low /\ low < high
      BY <1>3, <2>3, <2>31
    <3>4. At(i) = high
      BY <2>4
    <3>5. new <=> old \/ (low <= t /\ t < high)
      BY <3>1 DEF In
    <3>6. c <= t => ~old
      BY <3>2
    <3> HIDE DEF At, low, high, old, new, c
    <3>7. /\ query.start <= t /\ t < high /\ ~new <=>
             \/ query.start <= t /\ t < c /\ ~old
             \/ c <= t /\ t < low
      BY <3>3, <3>5, <3>6
    <3> QED BY <3>4, <3>7 DEF low, old, new
  <2>6. CASE w.start > c
    <3> DEFINE gap == Window(c, w.start)
    <3>1. gap \in W /\ gap.start = c /\ gap.end = w.start
      BY <2>3, <2>6 DEF Window, W
    <3>2. next = [cursor |-> w.end, gaps |-> Append(acc.gaps, gap)]
      <4>1. Max2(c, w.end) = w.end
        BY <2>3 DEF Max2
      <4> QED BY <2>6, <4>1 DEF Gap
    <3> HIDE DEF gap, next
    <3>3. \A j \in 1..Len(acc.gaps) : acc.gaps[j].end < gap.start
      BY <2>2, <3>1
    <3> DEFINE u == Append(acc.gaps, gap)
    <3>4. /\ u \in Seq(W) /\ Apart(u)
          /\ \A t : Covers(u, t) <=> Covers(acc.gaps, t) \/ In(t, gap)
      BY <2>2, <2>3, <3>1, <3>3, AppendApart
    <3>5. \A j \in 1..Len(u) : u[j].end < w.end
      <4> SUFFICES ASSUME NEW j \in 1..Len(u)
                   PROVE  u[j].end < w.end
        OBVIOUS
      <4>1. /\ Len(u) = Len(acc.gaps) + 1 /\ Len(acc.gaps) \in Nat
            /\ \A k \in 1..Len(acc.gaps) : u[k] = acc.gaps[k]
            /\ u[Len(acc.gaps) + 1] = gap
        BY <2>3, <3>1, AppendIs
      <4>2. CASE j \in 1..Len(acc.gaps)
        <5>1. u[j] = acc.gaps[j] /\ acc.gaps[j].end < c /\ acc.gaps[j].end \in Nat
          BY <2>2, <2>3, <4>1, <4>2 DEF W
        <5>2. u[j].end \in Nat /\ u[j].end < c /\ c \in Nat /\ w.end \in Nat /\ c < w.end
          <6>1. u[j].end \in Nat /\ u[j].end < c
            BY <5>1
          <6>2. c \in Nat /\ w.end \in Nat /\ c < w.end
            <7>1. c \in Nat /\ c <= w.start /\ w.start \in Nat /\ w.end \in Nat /\ w.start < w.end
              BY <2>3
            <7> HIDE DEF c, w
            <7> QED BY <7>1
          <6> QED BY <6>1, <6>2
        <5> HIDE DEF u, c, w
        <5> QED BY <5>2
      <4>3. CASE j = Len(acc.gaps) + 1
        BY <2>3, <3>1, <4>1, <4>3
      <4> HIDE DEF u
      <4> QED BY <4>1, <4>2, <4>3
    <3> HIDE DEF u
    <3>6. next.cursor = w.end /\ next.gaps = u /\ next \in S
      BY <2>3, <3>2, <3>4 DEF u
    <3>7. \A t \in Nat : Covers(acc.gaps, t) <=> query.start <= t /\ t < c /\ ~Seen(i - 1, t)
      BY <2>2
    <3>8. \A t \in Nat : Covers(u, t) <=> query.start <= t /\ t < At(i) /\ ~Seen(i, t)
      <4> HIDE DEF Seen, At
      <4> QED BY <2>5, <3>1, <3>4, <3>7 DEF In
    <3>9. Left(next, i)
      BY <2>4, <3>4, <3>5, <3>6, <3>8
    <3> HIDE DEF Left, S
    <3> QED BY <2>1, <3>6, <3>9 DEF next
  <2>7. CASE ~(w.start > c)
    <3>1. next = [cursor |-> w.end, gaps |-> acc.gaps]
      BY <2>3, <2>7 DEF Gap, Max2
    <3> HIDE DEF next
    <3>2. next.cursor = w.end /\ next.gaps = acc.gaps /\ next \in S
      BY <2>3, <3>1
    <3>3. \A j \in 1..Len(acc.gaps) : acc.gaps[j].end < w.end
      <4> SUFFICES ASSUME NEW j \in 1..Len(acc.gaps)
                   PROVE  acc.gaps[j].end < w.end
        OBVIOUS
      <4>1. acc.gaps[j].end < c
        BY <2>2
      <4>2. acc.gaps[j] \in W
        BY <2>3
      <4>3. acc.gaps[j].end \in Nat
        BY <4>2 DEF W
      <4>4. c \in Nat /\ w.end \in Nat /\ c < w.end
        BY <2>3
      <4> DEFINE x == acc.gaps[j].end
      <4> HIDE DEF x, c, w
      <4>5. x \in Nat /\ x < c
        BY <4>1, <4>3 DEF x
      <4>6. x < w.end
        BY <4>4, <4>5
      <4> QED BY <4>6 DEF x
    <3>7. \A t \in Nat : Covers(acc.gaps, t) <=> query.start <= t /\ t < c /\ ~Seen(i - 1, t)
      BY <2>2
    <3>8. \A t \in Nat : Covers(acc.gaps, t) <=> query.start <= t /\ t < At(i) /\ ~Seen(i, t)
      <4> HIDE DEF Seen, At
      <4> QED BY <2>3, <2>5, <2>7, <3>7
    <3>9. Left(next, i)
      BY <2>2, <2>4, <3>2, <3>3, <3>8
    <3> HIDE DEF Left, S
    <3> QED BY <2>1, <3>2, <3>9 DEF next
  <2> QED BY <2>6, <2>7
<1>10. PICK last \in Inv[n] : CoverageSummary(covered, query) = Summed(ws, query, last)
  <2> HIDE DEF Inv
  <2> QED BY <1>2, <1>3, <1>8, <1>9, GapsRule DEF n
<1>11. n \in 0..n
  BY <1>3
<1>12. last \in S /\ Left(last, n)
  BY <1>10, <1>11
<1> DEFINE gaps == Summed(ws, query, last).gaps
<1>13. Summed(ws, query, last) = [observed |-> ws, gaps |-> gaps]
  BY DEF Summed
<1>14. /\ last.cursor \in Nat /\ last.gaps \in Seq(W) /\ last.cursor <= query.end
       /\ query.start <= last.cursor /\ last.cursor = At(n)
  <2>1. CASE n = 0
    BY <1>3, <1>12, <2>1
  <2>2. CASE n # 0
    <3>1. n \in 1..n
      BY <1>3, <2>2
    <3>2. last.cursor = ws[n].end /\ last.cursor \in Nat /\ last.gaps \in Seq(W)
      BY <1>3, <1>12, <3>1
    <3>3. /\ ws[n].start \in Nat /\ ws[n].end \in Nat /\ query.start \in Nat
          /\ query.start <= ws[n].start /\ ws[n].start < ws[n].end /\ ws[n].end <= query.end
      BY <1>3, <1>5, <3>1
    <3>4. last.cursor = At(n)
      BY <1>12
    <3> DEFINE x == ws[n].start
               y == ws[n].end
    <3> HIDE DEF x, y
    <3>5. query.start <= y
      <4>1. x \in Nat /\ y \in Nat /\ query.start <= x /\ x < y
        BY <3>3 DEF x, y
      <4> HIDE DEF At
      <4> QED BY <3>3, <4>1
    <3> QED BY <3>2, <3>3, <3>4, <3>5 DEF y
  <2> QED BY <2>1, <2>2
<1>15. \A t \in Nat : Covers(last.gaps, t) <=> query.start <= t /\ t < last.cursor /\ ~Covers(ws, t)
  BY <1>12 DEF Covers, n
<1>16. \A t \in Nat : last.cursor <= t => ~Covers(ws, t)
  <2> SUFFICES ASSUME NEW t \in Nat, last.cursor <= t, NEW j \in 1..n, In(t, ws[j])
               PROVE  FALSE
    BY DEF Covers, n
  <2>1. ws[j].end <= last.cursor
    <3>1. n # 0 /\ (j = n \/ j < n) /\ n \in 1..n
      BY <1>3
    <3>2. last.cursor = ws[n].end
      BY <1>14, <3>1
    <3>3. CASE j = n
      BY <1>3, <3>1, <3>2, <3>3
    <3>4. CASE j < n
      <4>1. ws[j].end < ws[n].start
        BY <1>4, <3>1, <3>4
      <4>2. /\ ws[j].end \in Nat /\ ws[n].start \in Nat /\ ws[n].end \in Nat
            /\ ws[n].start < ws[n].end
        BY <1>3, <3>1
      <4> QED BY <3>2, <4>1, <4>2
    <3> QED BY <3>1, <3>3, <3>4
  <2> QED BY <1>3, <1>14, <2>1 DEF In
<1>17. CASE last.cursor < query.end
  <2> DEFINE gap == Window(last.cursor, query.end)
  <2>1. gap \in W /\ gap.start = last.cursor /\ gap.end = query.end
    BY <1>3, <1>14, <1>17 DEF Window, W
  <2>2. gaps = Append(last.gaps, gap)
    BY <1>17 DEF Summed
  <2> HIDE DEF gap, gaps
  <2>3. \A j \in 1..Len(last.gaps) : last.gaps[j].end < gap.start
    BY <1>12, <2>1
  <2>4. /\ gaps \in Seq(W) /\ Apart(gaps)
        /\ \A t : Covers(gaps, t) <=> Covers(last.gaps, t) \/ In(t, gap)
    BY <1>12, <1>14, <2>1, <2>2, <2>3, AppendApart
  <2>5. \A t \in Nat : Covers(gaps, t) <=> In(t, query) /\ ~Covers(ws, t)
    BY <1>3, <1>14, <1>15, <1>16, <2>1, <2>4 DEF In
  <2> QED BY <1>1, <1>10, <1>13, <2>4, <2>5
<1>18. CASE ~(last.cursor < query.end)
  <2>1. gaps = last.gaps /\ last.cursor = query.end
    BY <1>3, <1>14, <1>18 DEF Summed
  <2>2. \A t \in Nat : Covers(gaps, t) <=> In(t, query) /\ ~Covers(ws, t)
    BY <1>15, <2>1 DEF In
  <2>3. gaps \in Seq(W) /\ Apart(gaps)
    BY <1>12, <1>14, <2>1
  <2> HIDE DEF gaps
  <2> QED BY <1>1, <1>10, <1>13, <2>2, <2>3
<1> QED BY <1>17, <1>18

-----------------------------------------------------------------------------
(* What is picked                                                           *)

\* f lists the members of indices up to n in order, and picked the members of s
\* at them.
Lists(f, picked, s, indices, n) ==
  /\ f \in [1..Len(picked) -> 1..n]
  /\ \A k \in 1..Len(picked) : f[k] \in indices /\ picked[k] = s[f[k]]
  /\ \A a, b \in 1..Len(picked) : a < b => f[a] < f[b]
  /\ \A i \in 1..n : i \in indices => \E k \in 1..Len(picked) : f[k] = i

LEMMA PickedIs ==
  ASSUME NEW S, NEW s \in Seq(S), NEW indices
  PROVE  /\ Picked(s, indices) \in Seq(S)
         /\ \E f : Lists(f, Picked(s, indices), s, indices, Len(s))
<1> DEFINE n == Len(s)
           Listed(p, i) == \E f : Lists(f, p, s, indices, i)
           Inv == [i \in 0..n |-> {p \in Seq(S) : Listed(p, i)}]
<1>1. n \in Nat /\ \A i \in 1..n : s[i] \in S
  OBVIOUS
<1> HIDE DEF n
<1>2. <<>> \in Inv[0]
  <2> DEFINE f == [k \in 1..0 |-> 0]
  <2>1. Len(<<>>) = 0 /\ 1..0 = {} /\ <<>> \in Seq(S)
    OBVIOUS
  <2>2. f \in [1..0 -> 1..0]
    OBVIOUS
  <2> HIDE DEF f
  <2>3. Lists(f, <<>>, s, indices, 0)
    BY <2>1, <2>2 DEF Lists
  <2>4. 0 \in 0..n
    BY <1>1
  <2> QED BY <2>1, <2>3, <2>4
<1>3. ASSUME NEW i \in 1..n, NEW p \in Inv[i - 1]
      PROVE  Pick(s, indices, p, i) \in Inv[i]
  <2>1. i - 1 \in 0..n /\ i \in 0..n
    BY <1>1
  <2>2. p \in Seq(S) /\ Listed(p, i - 1)
    BY <2>1
  <2>3. PICK f : Lists(f, p, s, indices, i - 1)
    BY <2>2
  <2> DEFINE m == Len(p)
  <2>4. /\ m \in Nat /\ f \in [1..m -> 1..(i - 1)]
        /\ \A k \in 1..m : f[k] \in indices /\ p[k] = s[f[k]]
        /\ \A a, b \in 1..m : a < b => f[a] < f[b]
        /\ \A x \in 1..(i - 1) : x \in indices => \E k \in 1..m : f[k] = x
    BY <2>2, <2>3 DEF Lists
  <2>5. \A x \in 1..i : x \in 1..(i - 1) \/ x = i
    BY <1>1
  <2>6. (\A x \in 1..(i - 1) : x \in 1..i /\ x < i) /\ i \in 1..i
    BY <1>1
  <2>7. CASE i \in indices
    <3> DEFINE u == Append(p, s[i])
               g == [k \in 1..(m + 1) |-> IF k = m + 1 THEN i ELSE f[k]]
    <3>1. /\ u \in Seq(S) /\ Len(u) = m + 1
          /\ \A k \in 1..m : u[k] = p[k]
          /\ u[m + 1] = s[i]
      BY <1>1, <2>2, AppendIs
    <3>2. Pick(s, indices, p, i) = u
      BY <2>7 DEF Pick
    <3> HIDE DEF u, m
    <3>3. \A k \in 1..(m + 1) : k \in 1..m \/ k = m + 1
      BY <2>4
    <3>31. (\A k \in 1..m : k \in 1..(m + 1) /\ k # m + 1) /\ m + 1 \in 1..(m + 1)
      BY <2>4
    <3>4. g[m + 1] = i /\ \A k \in 1..m : g[k] = f[k]
      BY <3>31
    <3>5. g \in [1..(m + 1) -> 1..i]
      BY <2>4, <2>6, <3>3, <3>31
    <3> HIDE DEF g
    <3>6. \A k \in 1..(m + 1) : g[k] \in indices /\ u[k] = s[g[k]]
      BY <2>4, <2>7, <3>1, <3>3, <3>4
    <3>7. ASSUME NEW a \in 1..(m + 1), NEW b \in 1..(m + 1), a < b
          PROVE  g[a] < g[b]
      <4>1. a \in 1..m
        BY <2>4, <3>7
      <4>2. f[a] \in 1..(i - 1) /\ f[a] < i
        BY <2>4, <2>6, <4>1
      <4> QED BY <2>4, <3>3, <3>4, <3>7, <4>1, <4>2
    <3>8. \A x \in 1..i : x \in indices => \E k \in 1..(m + 1) : g[k] = x
      BY <2>4, <2>5, <3>31, <3>4
    <3>9. Lists(g, u, s, indices, i)
      BY <3>1, <3>5, <3>6, <3>7, <3>8 DEF Lists
    <3> QED BY <2>1, <3>1, <3>2, <3>9
  <2>8. CASE i \notin indices
    <3>1. Pick(s, indices, p, i) = p
      BY <2>8 DEF Pick
    <3> HIDE DEF m
    <3>2. f \in [1..m -> 1..i]
      BY <2>4, <2>6
    <3>3. \A x \in 1..i : x \in indices => \E k \in 1..m : f[k] = x
      BY <2>4, <2>5, <2>8
    <3>4. Lists(f, p, s, indices, i)
      BY <2>4, <3>2, <3>3 DEF Lists, m
    <3> QED BY <2>1, <2>2, <3>1, <3>4
  <2> QED BY <2>7, <2>8
<1>4. Picked(s, indices) \in Inv[n]
  <2> HIDE DEF Inv
  <2> QED BY <1>1, <1>2, <1>3, PickedRule DEF n
<1>5. n \in 0..n
  BY <1>1
<1> QED BY <1>4, <1>5 DEF n

-----------------------------------------------------------------------------
(* Successes                                                                *)

\* Samples in the order of their instants
TimeOrdered(ss) == \A i, j \in 1..Len(ss) : i <= j => ss[i].at <= ss[j].at

LEMMA SamplesAre ==
  ASSUME NEW ss \in Seq(Sample)
  PROVE  /\ Len(ss) \in Nat /\ DOMAIN ss = 1..Len(ss)
         /\ \A j \in 1..Len(ss) : /\ ss[j] \in Sample
                                 /\ ss[j].at \in Nat /\ ss[j].cadence \in Nat
                                 /\ ss[j].success \in BOOLEAN
<1>1. Len(ss) \in Nat /\ DOMAIN ss = 1..Len(ss) /\ \A j \in 1..Len(ss) : ss[j] \in Sample
  OBVIOUS
<1> QED BY <1>1 DEF Sample

\* h replaces i in the table of an instant.
Replaces(ss, h, i) ==
  /\ ss[h].success /\ ss[h].at = ss[i].at
  /\ ss[h].cadence > ss[i].cadence \/ (ss[h].cadence = ss[i].cadence /\ h > i)

LEMMA LastOfInstant ==
  ASSUME NEW ss \in Seq(Sample), NEW i \in Good(ss)
  PROVE  \E j \in Good(ss) : ss[j].at = ss[i].at /\ \A h \in 1..Len(ss) : ~Replaces(ss, h, j)
<1> DEFINE n == Len(ss)
           C(j) == ss[j].success /\ ss[j].at = ss[i].at
           Beaten(h, j) == ss[h].cadence > ss[j].cadence \/ (ss[h].cadence = ss[j].cadence /\ h > j)
           Best(m, j) == C(j) /\ \A h \in 1..m : C(h) => ~Beaten(h, j)
           T == {m \in 0..n : (\E j \in 1..m : C(j)) => \E j \in 1..m : Best(m, j)}
<1>1. /\ n \in Nat /\ DOMAIN ss = 1..n
      /\ \A j \in 1..n : ss[j].cadence \in Nat
  BY SamplesAre
<1> HIDE DEF n
<1>2. 0 \in T
  BY <1>1
<1>3. ASSUME NEW m \in 1..n, m - 1 \in T
      PROVE  m \in T
  <2>1. /\ \A j \in 1..m : j \in 1..(m - 1) \/ j = m
        /\ \A j \in 1..(m - 1) : j \in 1..m /\ j < m /\ j \in 1..n
        /\ m \in 1..m /\ m \in 0..n /\ m - 1 \in 0..n
    BY <1>1
  <2>2. (\E j \in 1..(m - 1) : C(j)) => \E j \in 1..(m - 1) : Best(m - 1, j)
    BY <1>3
  <2>3. ASSUME \E j \in 1..m : C(j)
        PROVE  \E j \in 1..m : Best(m, j)
    <3>1. CASE ~C(m)
      <4>1. PICK j \in 1..(m - 1) : Best(m - 1, j)
        <5> HIDE DEF Best, C
        <5> QED BY <2>1, <2>2, <2>3, <3>1
      <4>2. Best(m, j)
        <5> HIDE DEF Beaten, C
        <5> QED BY <2>1, <3>1, <4>1
      <4> QED BY <2>1, <4>2
    <3>2. CASE C(m) /\ ~\E j \in 1..(m - 1) : C(j)
      <4>1. ~Beaten(m, m)
        BY <1>1
      <4>2. Best(m, m)
        <5> HIDE DEF Beaten, C
        <5> QED BY <2>1, <3>2, <4>1
      <4> QED BY <2>1, <4>2
    <3>3. CASE C(m) /\ \E j \in 1..(m - 1) : C(j)
      <4>1. PICK j \in 1..(m - 1) : Best(m - 1, j)
        <5> HIDE DEF Best, C
        <5> QED BY <2>2, <3>3
      <4>2. j \in 1..n /\ j < m /\ m \in 1..n
        BY <2>1
      <4>3. CASE ss[m].cadence < ss[j].cadence
        <5>1. ~Beaten(m, j)
          BY <1>1, <4>2, <4>3
        <5>2. Best(m, j)
          <6> HIDE DEF Beaten, C
          <6> QED BY <2>1, <4>1, <5>1
        <5> QED BY <2>1, <5>2
      <4>4. CASE ~(ss[m].cadence < ss[j].cadence)
        <5>1. \A h \in 1..m : C(h) => ~Beaten(h, m)
          <6> SUFFICES ASSUME NEW h \in 1..m, C(h), Beaten(h, m)
                       PROVE  FALSE
            OBVIOUS
          <6>1. CASE h = m
            BY <1>1, <6>1
          <6>2. CASE h # m
            <7>1. h \in 1..(m - 1) /\ h \in 1..n /\ h < m
              BY <2>1, <6>2
            <7>2. ~Beaten(h, j)
              BY <4>1, <7>1
            <7>3. ss[h].cadence > ss[m].cadence
              BY <1>1, <7>1
            <7> QED BY <1>1, <4>2, <4>4, <7>1, <7>2, <7>3
          <6> QED BY <6>1, <6>2
        <5>2. Best(m, m)
          <6> HIDE DEF Beaten, C
          <6> QED BY <3>3, <5>1
        <5> QED BY <2>1, <5>2
      <4> QED BY <4>3, <4>4
    <3> QED BY <3>1, <3>2, <3>3
  <2> HIDE DEF Best, C
  <2> QED BY <2>1, <2>3
<1>4. 0..n \subseteq T
  <2> HIDE DEF T
  <2> QED BY <1>1, <1>2, <1>3, SetInduction
<1>5. i \in 1..n /\ C(i) /\ n \in 0..n
  BY <1>1 DEF Good
<1>6. n \in T
  <2> HIDE DEF T
  <2> QED BY <1>4, <1>5
<1>7. PICK j \in 1..n : Best(n, j)
  <2> HIDE DEF Best, C
  <2> QED BY <1>5, <1>6
<1>8. \A h \in 1..n : ~Replaces(ss, h, j)
  <2> SUFFICES ASSUME NEW h \in 1..n, Replaces(ss, h, j)
               PROVE  FALSE
    OBVIOUS
  <2>1. C(h) /\ Beaten(h, j)
    BY <1>7 DEF Replaces
  <2> QED BY <1>7, <2>1
<1> QED BY <1>1, <1>7, <1>8 DEF Good, n

\* A success of each instant, in their order, that reaches further than its others
Rising(g) == \A a, b \in 1..Len(g) : a < b => g[a].at < g[b].at

LEMMA SuccessfulIs ==
  ASSUME NEW ss \in Seq(Sample), TimeOrdered(ss)
  PROVE  /\ Successful(ss) \in Seq(Sample) /\ Rising(Successful(ss))
         /\ \A k \in 1..Len(Successful(ss)) :
              \E i \in Good(ss) : Successful(ss)[k] = ss[i] /\ Vouches(ss, i)
         /\ \A i \in Good(ss) : \E k \in 1..Len(Successful(ss)) : Successful(ss)[k].at = ss[i].at
<1> DEFINE n == Len(ss)
           I == {i \in 1..n : ss[i].success /\ ~\E j \in 1..n : Replaces(ss, j, i)}
           g == Successful(ss)
<1>1. /\ n \in Nat /\ DOMAIN ss = 1..n
      /\ \A j \in 1..n : ss[j].cadence \in Nat /\ ss[j].at \in Nat /\ ss[j] \in Sample
  BY SamplesAre
<1> HIDE DEF n
<1>2. g = Picked(ss, I)
  BY <1>1 DEF Successful, Replaces
<1> HIDE DEF g, I
<1>3. g \in Seq(Sample) /\ \E f : Lists(f, g, ss, I, n)
  BY <1>2, PickedIs DEF n
<1>4. PICK f : Lists(f, g, ss, I, n)
  BY <1>3
<1>5. /\ f \in [1..Len(g) -> 1..n]
      /\ \A k \in 1..Len(g) : f[k] \in I /\ g[k] = ss[f[k]]
      /\ \A a, b \in 1..Len(g) : a < b => f[a] < f[b]
      /\ \A i \in 1..n : i \in I => \E k \in 1..Len(g) : f[k] = i
  BY <1>4 DEF Lists
<1>6. Rising(g)
  <2> SUFFICES ASSUME NEW a \in 1..Len(g), NEW b \in 1..Len(g), a < b, ~(g[a].at < g[b].at)
               PROVE  FALSE
    BY DEF Rising
  <2> DEFINE x == f[a]
             y == f[b]
  <2>1. x \in 1..n /\ y \in 1..n /\ x \in I /\ y \in I /\ x < y /\ g[a] = ss[x] /\ g[b] = ss[y]
    BY <1>5
  <2> HIDE DEF x, y
  <2>2. ss[x].at <= ss[y].at
    BY <1>1, <2>1 DEF TimeOrdered, n
  <2>3. ss[x].at = ss[y].at
    BY <1>1, <2>1, <2>2
  <2>4. ss[x].success /\ ss[y].success
    BY <2>1 DEF I
  <2>5. Replaces(ss, x, y) \/ Replaces(ss, y, x)
    BY <1>1, <2>1, <2>3, <2>4 DEF Replaces
  <2> QED BY <2>1, <2>5 DEF I
<1>7. ASSUME NEW i \in I
      PROVE  i \in Good(ss) /\ Vouches(ss, i)
  <2>1. i \in 1..n /\ ss[i].success /\ \A j \in 1..n : ~Replaces(ss, j, i)
    BY DEF I
  <2>2. i \in Good(ss)
    BY <1>1, <2>1 DEF Good
  <2>3. ASSUME NEW j \in Good(ss), ss[j].at = ss[i].at
        PROVE  ss[j].cadence <= ss[i].cadence
    <3>1. j \in 1..n /\ ss[j].success
      BY <1>1 DEF Good
    <3>2. ~(ss[j].cadence > ss[i].cadence)
      BY <2>1, <2>3, <3>1 DEF Replaces
    <3> QED BY <1>1, <2>1, <3>1, <3>2
  <2> QED BY <2>2, <2>3 DEF Vouches
<1>8. \A k \in 1..Len(g) : \E i \in Good(ss) : g[k] = ss[i] /\ Vouches(ss, i)
  BY <1>5, <1>7
<1>9. ASSUME NEW i \in Good(ss)
      PROVE  \E k \in 1..Len(g) : g[k].at = ss[i].at
  <2>1. PICK j \in Good(ss) : ss[j].at = ss[i].at /\ \A h \in 1..n : ~Replaces(ss, h, j)
    BY LastOfInstant DEF n
  <2>2. j \in 1..n /\ j \in I
    BY <1>1, <2>1 DEF Good, I
  <2> QED BY <1>5, <2>1, <2>2
<1> QED BY <1>3, <1>6, <1>8, <1>9 DEF g

-----------------------------------------------------------------------------
(* Runs                                                                     *)

LEMMA DeadlineIs ==
  ASSUME NEW s \in Sample
  PROVE  Deadline(s) \in Nat /\ s.at <= Deadline(s)
<1>1. Margin \in Nat /\ Floor \in Nat
  BY TimeAssumption
<1>2. s.at \in Nat /\ s.cadence \in Nat
  BY DEF Sample
<1> QED BY <1>1, <1>2 DEF Deadline, Max2

\* Two successes, one after the other, and the second is in reach.
Link(g, k) == k \in 1..(Len(g) - 1) /\ g[k + 1].at <= Deadline(g[k])

\* t is in reach of success k, before the next one, and k has a link.
Piece(g, k, t) ==
  /\ g[k].at <= t /\ t < Deadline(g[k])
  /\ k < Len(g) => t < g[k + 1].at
  /\ Link(g, k) \/ Link(g, k - 1)

Pieces(g, i, t) == \E k \in 1..i : Piece(g, k, t)

\* What a run is when the first i pairs of neighbours have been compared
Linking(g, run, i) ==
  /\ run \in [open : Seq(W), done : Seq(W)]
  /\ ~Link(g, i) => run.open = <<>>
  /\ Link(g, i) => /\ Len(run.open) = 1
                   /\ run.open[1].end = Deadline(g[i + 1])
                   /\ run.open[1].start <= g[i].at
  /\ \A t \in Nat : Pieces(g, i, t) <=>
       \/ Covers(run.done, t)
       \/ Link(g, i) /\ run.open[1].start <= t /\ t < g[i + 1].at

LEMMA PiecesAre ==
  ASSUME NEW g, NEW i \in Nat \ {0}
  PROVE  \A t : Pieces(g, i, t) <=> Pieces(g, i - 1, t) \/ Piece(g, i, t)
<1>1. (\A j \in 1..i : j \in 1..(i - 1) \/ j = i) /\ (\A j \in 1..(i - 1) : j \in 1..i) /\ i \in 1..i
  OBVIOUS
<1> QED BY <1>1 DEF Pieces

LEMMA ClosedIs ==
  ASSUME NEW run \in [open : Seq(W), done : Seq(W)]
  PROVE  /\ Closed(run) \in Seq(W)
         /\ \A t : Covers(Closed(run), t) <=> Covers(run.done, t) \/ Covers(run.open, t)
<1>1. run.open \in Seq(W) /\ run.done \in Seq(W)
  OBVIOUS
<1> QED BY <1>1, ConcatCovers DEF Closed

\* The instants at which the open run holds
LEMMA OpenIs ==
  ASSUME NEW g \in Seq(Sample), Rising(g), NEW i \in Nat, NEW run, Linking(g, run, i)
  PROVE  \A t \in Nat : Covers(run.open, t) <=>
           Link(g, i) /\ run.open[1].start <= t /\ t < Deadline(g[i + 1])
<1>1. CASE Link(g, i)
  <2>1. Len(run.open) = 1 /\ run.open[1].end = Deadline(g[i + 1])
    BY <1>1 DEF Linking
  <2>2. \A j \in 1..1 : j = 1
    OBVIOUS
  <2>3. 1 \in 1..1
    OBVIOUS
  <2> QED BY <1>1, <2>1, <2>2, <2>3 DEF Covers, In
<1>2. CASE ~Link(g, i)
  <2>1. run.open = <<>> /\ Len(<<>>) = 0
    BY <1>2 DEF Linking
  <2> QED BY <1>2, <2>1 DEF Covers
<1> QED BY <1>1, <1>2

LEMMA ExtendIs ==
  ASSUME NEW g \in Seq(Sample), Rising(g), NEW i \in 1..(Len(g) - 1),
         NEW run, Linking(g, run, i - 1)
  PROVE  Linking(g, Extend(g, run, i), i)
<1> DEFINE n == Len(g)
           d == Deadline(g[i])
           e == Deadline(g[i + 1])
           next == Extend(g, run, i)
<1>1. /\ n \in Nat /\ i \in 1..n /\ i + 1 \in 1..n /\ i # n /\ i < n
      /\ g[i] \in Sample /\ g[i].at \in Nat /\ g[i + 1] \in Sample /\ g[i + 1].at \in Nat
      /\ (i - 1) + 1 = i /\ i \in Nat \ {0} /\ i - 1 \in Nat
  <2>1. n \in Nat
    OBVIOUS
  <2>2. i \in 1..n /\ i + 1 \in 1..n /\ i # n /\ i < n /\ (i - 1) + 1 = i /\ i \in Nat \ {0} /\ i - 1 \in Nat
    BY <2>1
  <2> QED BY <2>1, <2>2, SamplesAre
<1>2. g[i].at < g[i + 1].at
  <2>1. i < i + 1
    BY <1>1
  <2> QED BY <1>1, <2>1 DEF Rising
<1>3. d \in Nat /\ e \in Nat /\ g[i].at <= d /\ g[i + 1].at <= e
  BY <1>1, DeadlineIs
<1>4. Link(g, i) <=> g[i + 1].at <= d
  BY DEF Link
<1>5. /\ run \in [open : Seq(W), done : Seq(W)]
      /\ ~Link(g, i - 1) => run.open = <<>>
      /\ Link(g, i - 1) => /\ Len(run.open) = 1
                           /\ run.open[1].end = d
                           /\ run.open[1].start <= g[i - 1].at
      /\ \A t \in Nat : Pieces(g, i - 1, t) <=>
           \/ Covers(run.done, t)
           \/ Link(g, i - 1) /\ run.open[1].start <= t /\ t < g[i].at
  BY <1>1 DEF Linking
<1>6. Link(g, i - 1) => run.open[1].start <= g[i].at /\ run.open[1].start \in Nat /\ run.open # <<>>
  <2> SUFFICES ASSUME Link(g, i - 1)
               PROVE  run.open[1].start <= g[i].at /\ run.open[1].start \in Nat /\ run.open # <<>>
    OBVIOUS
  <2>1. i - 1 \in 1..n /\ i - 1 < i
    BY <1>1 DEF Link
  <2>2. g[i - 1].at \in Nat /\ g[i - 1].at < g[i].at
    BY <1>1, <2>1, SamplesAre DEF Rising
  <2>3. run.open[1] \in W
    <3>1. 1 \in 1..Len(run.open)
      BY <1>5
    <3> QED BY <1>5, <3>1
  <2>4. run.open[1].start \in Nat
    BY <2>3 DEF W
  <2>5. run.open # <<>>
    <3>1. Len(<<>>) # 1
      OBVIOUS
    <3>2. Len(run.open) = 1
      BY <1>5
    <3> QED BY <3>1, <3>2, Zenon
  <2>6. run.open[1].start <= g[i - 1].at
    BY <1>5
  <2> HIDE DEF n
  <2>7. \A x, y, z \in Nat : x <= y /\ y < z => x <= z
    OBVIOUS
  <2> QED BY <1>1, <2>2, <2>4, <2>5, <2>6, <2>7
<1>7. \A t \in Nat : Piece(g, i, t) <=>
        g[i].at <= t /\ t < d /\ t < g[i + 1].at /\ (Link(g, i) \/ Link(g, i - 1))
  BY <1>1 DEF Piece
<1>8. \A t \in Nat : Pieces(g, i, t) <=> Pieces(g, i - 1, t) \/ Piece(g, i, t)
  BY <1>1, PiecesAre
<1>9. CASE Link(g, i)
  <2> DEFINE start == IF run.open = <<>> THEN g[i].at ELSE run.open[1].start
             w == Window(start, e)
             ws == <<w>>
  <2>1. start \in Nat /\ start <= g[i].at /\ start < e
    BY <1>1, <1>2, <1>3, <1>5, <1>6, SMTT(20)
  <2>2. w \in W /\ w.start = start /\ w.end = e
    BY <1>3, <2>1 DEF Window, W
  <2>3. next = [run EXCEPT !.open = ws]
    BY <1>1, <1>4, <1>9 DEF Extend
  <2> HIDE DEF next, w, start
  <2>4. ws \in Seq(W) /\ Len(ws) = 1 /\ ws[1] = w
    BY <2>2
  <2> HIDE DEF ws
  <2>5. next \in [open : Seq(W), done : Seq(W)] /\ next.open = ws /\ next.done = run.done
    BY <1>5, <2>3, <2>4
  <2>6. ASSUME NEW t \in Nat
        PROVE  Pieces(g, i, t) <=> Covers(run.done, t) \/ (start <= t /\ t < g[i + 1].at)
    <3>1. Piece(g, i, t) <=> g[i].at <= t /\ t < g[i + 1].at
      BY <1>1, <1>3, <1>4, <1>7, <1>9
    <3>2. CASE Link(g, i - 1)
      <4>1. start = run.open[1].start
        BY <1>6, <3>2 DEF start
      <4>2. Pieces(g, i - 1, t) <=> Covers(run.done, t) \/ (start <= t /\ t < g[i].at)
        BY <1>5, <3>2, <4>1
      <4> QED BY <1>1, <1>2, <1>8, <2>1, <3>1, <4>2
    <3>3. CASE ~Link(g, i - 1)
      <4>1. start = g[i].at
        BY <1>5, <3>3 DEF start
      <4>2. Pieces(g, i - 1, t) <=> Covers(run.done, t)
        BY <1>5, <3>3
      <4> QED BY <1>8, <3>1, <4>1, <4>2
    <3> QED BY <3>2, <3>3
  <2>7. Linking(g, next, i)
    BY <1>9, <2>1, <2>2, <2>4, <2>5, <2>6 DEF Linking
  <2> QED BY <2>7 DEF next
<1>10. CASE ~Link(g, i)
  <2>1. next = [open |-> <<>>, done |-> Closed(run)]
    BY <1>1, <1>4, <1>10 DEF Extend
  <2>2. /\ Closed(run) \in Seq(W)
        /\ \A t : Covers(Closed(run), t) <=> Covers(run.done, t) \/ Covers(run.open, t)
    BY <1>5, ClosedIs
  <2> HIDE DEF next
  <2>3. next \in [open : Seq(W), done : Seq(W)] /\ next.open = <<>> /\ next.done = Closed(run)
    <3>1. <<>> \in Seq(W)
      OBVIOUS
    <3> QED BY <2>1, <2>2, <3>1
  <2>4. ASSUME NEW t \in Nat
        PROVE  Pieces(g, i, t) <=> Covers(Closed(run), t)
    <3>1. Covers(run.open, t) <=> Link(g, i - 1) /\ run.open[1].start <= t /\ t < d
      BY <1>1, OpenIs
    <3>2. Piece(g, i, t) <=> g[i].at <= t /\ t < d /\ Link(g, i - 1)
      BY <1>1, <1>3, <1>4, <1>7, <1>10
    <3>3. CASE Link(g, i - 1)
      <4>1. Pieces(g, i - 1, t) <=> Covers(run.done, t) \/ (run.open[1].start <= t /\ t < g[i].at)
        BY <1>5, <3>3
      <4> QED BY <1>1, <1>3, <1>6, <1>8, <2>2, <3>1, <3>2, <3>3, <4>1
    <3>4. CASE ~Link(g, i - 1)
      <4>1. Pieces(g, i - 1, t) <=> Covers(run.done, t)
        BY <1>5, <3>4
      <4> QED BY <1>8, <2>2, <3>1, <3>2, <3>4, <4>1
    <3> QED BY <3>3, <3>4
  <2>5. Linking(g, next, i)
    BY <1>10, <2>3, <2>4 DEF Linking
  <2> QED BY <2>5 DEF next
<1> QED BY <1>9, <1>10

\* The runs cover what two linked successes reach.
LEMMA RunsAre ==
  ASSUME NEW g \in Seq(Sample), Rising(g)
  PROVE  /\ Runs(g) \in Seq(W)
         /\ \A t \in Nat : Covers(Runs(g), t) <=> Pieces(g, Len(g), t)
<1> DEFINE n == Len(g)
           S == [open : Seq(W), done : Seq(W)]
           Till(i) == IF i = n THEN n - 1 ELSE i
           Held(run, i) == IF n = 0 THEN run.open = <<>> /\ run.done = <<>> ELSE Linking(g, run, i)
           Inv == [i \in 0..n |-> {run \in S : Held(run, Till(i))}]
<1>1. n \in Nat /\ \A k \in 1..n : g[k] \in Sample /\ g[k].at \in Nat
  BY SamplesAre
<1>2. NoRun \in S /\ NoRun.open = <<>> /\ NoRun.done = <<>>
  <2>1. <<>> \in Seq(W)
    OBVIOUS
  <2> QED BY <2>1 DEF NoRun
<1>3. n # 0 => Linking(g, NoRun, 0)
  <2>1. ~Link(g, 0)
    BY DEF Link
  <2>2. \A t : ~Pieces(g, 0, t) /\ ~Covers(<<>>, t)
    BY DEF Pieces, Covers
  <2> QED BY <1>2, <2>1, <2>2 DEF Linking
<1> HIDE DEF n
<1>4. NoRun \in Inv[0]
  <2>1. 0 \in 0..n /\ (n # 0 => Till(0) = 0)
    <3>1. n # 0 => (0 = n => 0 = n - 1)
      OBVIOUS
    <3> QED BY <1>1, <3>1
  <2> HIDE DEF S, Till
  <2>2. Held(NoRun, Till(0))
    BY <1>2, <1>3, <2>1
  <2> HIDE DEF Held
  <2> QED BY <1>2, <2>1, <2>2
<1>5. ASSUME NEW i \in 1..n, NEW run \in Inv[i - 1]
      PROVE  Extend(g, run, i) \in Inv[i]
  <2>1. i - 1 \in 0..n /\ i \in 0..n /\ n # 0 /\ Till(i - 1) = i - 1
    BY <1>1
  <2>2. run \in S /\ Linking(g, run, i - 1)
    BY <2>1
  <2>3. CASE i = n
    <3>1. Extend(g, run, i) = run /\ Till(i) = i - 1
      BY <2>3 DEF Extend, n
    <3> HIDE DEF S, Till
    <3> QED BY <2>1, <2>2, <3>1
  <2>4. CASE i # n
    <3>1. i \in 1..(n - 1) /\ Till(i) = i
      BY <1>1, <2>4
    <3>2. Linking(g, Extend(g, run, i), i)
      BY <2>2, <3>1, ExtendIs DEF n
    <3>3. Extend(g, run, i) \in S
      BY <3>2 DEF Linking
    <3> HIDE DEF S, Till
    <3> QED BY <2>1, <3>1, <3>2, <3>3
  <2> QED BY <2>3, <2>4
<1>6. PICK run \in Inv[n] : Runs(g) = Closed(run)
  <2> HIDE DEF Inv
  <2> QED BY <1>1, <1>4, <1>5, RunsRule DEF n
<1>7. run \in S /\ Held(run, n - 1)
  <2>1. n \in 0..n /\ Till(n) = n - 1
    BY <1>1
  <2> HIDE DEF S, Till
  <2> QED BY <1>6, <2>1
<1>8. /\ Closed(run) \in Seq(W)
      /\ \A t : Covers(Closed(run), t) <=> Covers(run.done, t) \/ Covers(run.open, t)
  BY <1>7, ClosedIs
<1>9. CASE n = 0
  <2>1. run.open = <<>> /\ run.done = <<>>
    BY <1>7, <1>9
  <2>2. \A t : ~Pieces(g, 0, t) /\ ~Covers(<<>>, t)
    BY DEF Pieces, Covers
  <2> QED BY <1>6, <1>8, <1>9, <2>1, <2>2 DEF n
<1>10. CASE n # 0
  <2>1. n \in Nat \ {0} /\ n - 1 \in Nat /\ (n - 1) + 1 = n /\ n \in 1..n /\ ~(n < n) /\ ~Link(g, n)
    BY <1>1, <1>10 DEF Link, n
  <2>2. Linking(g, run, n - 1)
    BY <1>7, <1>10
  <2>3. ASSUME NEW t \in Nat
        PROVE  Pieces(g, n, t) <=> Covers(Closed(run), t)
    <3>1. Covers(run.open, t) <=> Link(g, n - 1) /\ run.open[1].start <= t /\ t < Deadline(g[n])
      BY <2>1, <2>2, OpenIs
    <3>2. Piece(g, n, t) <=> g[n].at <= t /\ t < Deadline(g[n]) /\ Link(g, n - 1)
      BY <2>1 DEF Piece, n
    <3>3. Pieces(g, n - 1, t) <=> \/ Covers(run.done, t)
                                  \/ Link(g, n - 1) /\ run.open[1].start <= t /\ t < g[n].at
      BY <2>1, <2>2 DEF Linking
    <3>4. Pieces(g, n, t) <=> Pieces(g, n - 1, t) \/ Piece(g, n, t)
      BY <2>1, PiecesAre
    <3>5. Link(g, n - 1) => /\ run.open[1].start <= g[n].at /\ run.open[1].start \in Nat
                            /\ g[n].at <= Deadline(g[n]) /\ Deadline(g[n]) \in Nat
      <4> SUFFICES ASSUME Link(g, n - 1)
                   PROVE  /\ run.open[1].start <= g[n].at /\ run.open[1].start \in Nat
                          /\ g[n].at <= Deadline(g[n]) /\ Deadline(g[n]) \in Nat
        OBVIOUS
      <4>1. n - 1 \in 1..n /\ n - 1 < n
        BY <2>1 DEF Link
      <4>2. g[n - 1].at < g[n].at
        BY <2>1, <4>1 DEF Rising, n
      <4>3. run.open[1].start <= g[n - 1].at /\ Len(run.open) = 1
        BY <2>2 DEF Linking
      <4>4. run.open[1] \in W
        <5>1. run.open \in Seq(W) /\ 1 \in 1..Len(run.open)
          BY <1>7, <4>3
        <5> QED BY <5>1
      <4>5. run.open[1].start \in Nat
        BY <4>4 DEF W
      <4>6. Deadline(g[n]) \in Nat /\ g[n].at <= Deadline(g[n])
        BY <1>1, <2>1, DeadlineIs
      <4> QED BY <1>1, <2>1, <4>1, <4>2, <4>3, <4>5, <4>6
    <3>6. g[n].at \in Nat
      BY <1>1, <2>1
    <3> QED BY <1>8, <3>1, <3>2, <3>3, <3>4, <3>5, <3>6
  <2> QED BY <1>6, <1>8, <2>3 DEF n
<1> QED BY <1>9, <1>10

LEMMA ClippedIs ==
  ASSUME NEW ws \in Seq(W), NEW query \in W
  PROVE  /\ Clipped(ws, query) \in Seq(W)
         /\ \A t \in Nat : Covers(Clipped(ws, query), t) <=> Covers(ws, t) /\ In(t, query)
<1> DEFINE n == Len(ws)
           Some(i, t) == \E j \in 1..i : In(t, ws[j]) /\ In(t, query)
           Inv == [i \in 0..n |-> {s \in Seq(W) : \A t \in Nat : Covers(s, t) <=> Some(i, t)}]
<1>1. n \in Nat /\ \A i \in 1..n : ws[i] \in W /\ ws[i].start \in Nat /\ ws[i].end \in Nat
  BY DEF W
<1>2. query.start \in Nat /\ query.end \in Nat
  BY DEF W
<1> HIDE DEF n
<1>3. <<>> \in Inv[0]
  <2>1. \A t : ~Covers(<<>>, t) /\ ~Some(0, t)
    BY DEF Covers
  <2>2. 0 \in 0..n /\ <<>> \in Seq(W)
    BY <1>1
  <2> QED BY <2>1, <2>2
<1>4. ASSUME NEW i \in 1..n, NEW s \in Inv[i - 1]
      PROVE  Clip(ws, query, s, i) \in Inv[i]
  <2> DEFINE both == Intersection(ws[i], query)
  <2>1. i - 1 \in 0..n /\ i \in 0..n
    BY <1>1
  <2>2. s \in Seq(W) /\ \A t \in Nat : Covers(s, t) <=> Some(i - 1, t)
    BY <2>1
  <2>3. both \in Seq(W) /\ \A t \in Nat : Covers(both, t) <=> In(t, ws[i]) /\ In(t, query)
    <3>1. /\ both \in Seq(W)
          /\ \A t \in Nat : (\E k \in DOMAIN both : In(t, both[k])) <=> In(t, ws[i]) /\ In(t, query)
      BY <1>1, <1>2, IntersectionIs
    <3>2. DOMAIN both = 1..Len(both)
      BY <3>1
    <3> QED BY <3>1, <3>2 DEF Covers
  <2>4. Clip(ws, query, s, i) = s \o both
    BY DEF Clip
  <2> HIDE DEF both
  <2>5. s \o both \in Seq(W) /\ \A t : Covers(s \o both, t) <=> Covers(s, t) \/ Covers(both, t)
    BY <2>2, <2>3, ConcatCovers
  <2>6. \A t : Some(i, t) <=> Some(i - 1, t) \/ (In(t, ws[i]) /\ In(t, query))
    <3>1. (\A j \in 1..i : j \in 1..(i - 1) \/ j = i) /\ (\A j \in 1..(i - 1) : j \in 1..i) /\ i \in 1..i
      BY <1>1
    <3> QED BY <3>1
  <2> HIDE DEF Some
  <2>7. \A t \in Nat : Covers(s \o both, t) <=> Some(i, t)
    BY <2>2, <2>3, <2>5, <2>6
  <2> QED BY <2>1, <2>4, <2>5, <2>7
<1>5. Clipped(ws, query) \in Inv[n]
  <2> HIDE DEF Inv
  <2> QED BY <1>1, <1>3, <1>4, ClippedRule DEF n
<1>6. n \in 0..n
  BY <1>1
<1>7. \A t : Some(n, t) <=> Covers(ws, t) /\ In(t, query)
  BY DEF Covers, n
<1> HIDE DEF Some
<1> QED BY <1>5, <1>6, <1>7

\* The runs of the successes are what the samples prove.
LEMMA PiecesAreProvable ==
  ASSUME NEW ss \in Seq(Sample), TimeOrdered(ss), NEW t \in Nat
  PROVE  Pieces(Successful(ss), Len(Successful(ss)), t) <=> Provable(ss, t)
<1> DEFINE g == Successful(ss)
           n == Len(g)
           D(s) == Deadline(s)
<1>1. /\ g \in Seq(Sample) /\ Rising(g)
      /\ \A k \in 1..n : \E i \in Good(ss) : g[k] = ss[i] /\ Vouches(ss, i)
      /\ \A i \in Good(ss) : \E k \in 1..n : g[k].at = ss[i].at
  BY SuccessfulIs
<1> HIDE DEF g
<1>2. n \in Nat /\ \A k \in 1..n : g[k] \in Sample /\ g[k].at \in Nat
  BY <1>1, SamplesAre
<1>3. \A a, b \in 1..n : a < b => g[a].at < g[b].at
  BY <1>1 DEF Rising
<1> HIDE DEF n
<1>4. \A i \in Good(ss) : ss[i] \in Sample /\ ss[i].at \in Nat /\ ss[i].cadence \in Nat
  BY SamplesAre DEF Good
<1>5. \A i, j \in Good(ss) : /\ ss[i].at = ss[j].at /\ Vouches(ss, i) /\ Vouches(ss, j)
                             => Deadline(ss[i]) = Deadline(ss[j])
  <2> SUFFICES ASSUME NEW i \in Good(ss), NEW j \in Good(ss), ss[i].at = ss[j].at,
                      Vouches(ss, i), Vouches(ss, j)
               PROVE  Deadline(ss[i]) = Deadline(ss[j])
    OBVIOUS
  <2>1. ss[i].cadence = ss[j].cadence
    BY <1>4 DEF Vouches
  <2> QED BY <2>1 DEF Deadline
\* The success before another is the one with the next smaller index.
<1>6. ASSUME NEW k \in 1..n, NEW h \in 1..n, k < h,
             \A i \in Good(ss) : ~(g[k].at < ss[i].at /\ ss[i].at < g[h].at)
      PROVE  h = k + 1
  <2> SUFFICES ASSUME h # k + 1
               PROVE  FALSE
    OBVIOUS
  <2>1. k + 1 \in 1..n /\ k < k + 1 /\ k + 1 < h
    BY <1>2, <1>6
  <2>2. g[k].at < g[k + 1].at /\ g[k + 1].at < g[h].at
    BY <1>3, <2>1
  <2>3. PICK i \in Good(ss) : g[k + 1] = ss[i]
    BY <1>1, <2>1 DEF n
  <2> QED BY <1>6, <2>2, <2>3
<1>7. ASSUME NEW k \in 1..n, k + 1 \in 1..n
      PROVE  \A i \in Good(ss) : ~(g[k].at < ss[i].at /\ ss[i].at < g[k + 1].at)
  <2> SUFFICES ASSUME NEW i \in Good(ss), g[k].at < ss[i].at, ss[i].at < g[k + 1].at
               PROVE  FALSE
    OBVIOUS
  <2>1. PICK h \in 1..n : g[h].at = ss[i].at
    BY <1>1 DEF n
  <2>2. h < k \/ h = k \/ h = k + 1 \/ h > k + 1
    BY <1>2, <1>7
  <2>3. ~(h > k + 1) /\ ~(h < k)
    BY <1>2, <1>3, <1>7, <2>1
  <2> QED BY <1>2, <1>7, <2>1, <2>2, <2>3
<1>8. ASSUME NEW k \in 1..n, NEW i \in Good(ss), g[k].at = ss[i].at, Vouches(ss, i)
      PROVE  Deadline(g[k]) = Deadline(ss[i])
  <2>1. PICK j \in Good(ss) : g[k] = ss[j] /\ Vouches(ss, j)
    BY <1>1 DEF n
  <2> QED BY <1>5, <1>8, <2>1
<1>9. ASSUME Pieces(g, n, t)
      PROVE  Provable(ss, t)
  <2>1. PICK k \in 1..n : Piece(g, k, t)
    BY <1>9 DEF Pieces
  <2>2. PICK i \in Good(ss) : g[k] = ss[i] /\ Vouches(ss, i)
    BY <1>1 DEF n
  <2>3. ss[i].at <= t /\ t < Deadline(ss[i])
    BY <2>1, <2>2 DEF Piece
  <2>4. ASSUME NEW j \in Good(ss), ss[i].at < ss[j].at, ss[j].at <= t
        PROVE  FALSE
    <3>1. PICK h \in 1..n : g[h].at = ss[j].at
      BY <1>1 DEF n
    <3>2. h > k
      <4>1. h < k => g[h].at < g[k].at
        BY <1>3
      <4>2. h # k
        BY <1>2, <2>2, <2>4, <3>1
      <4> QED BY <1>2, <2>2, <2>4, <3>1, <4>1, <4>2
    <3>3. k + 1 \in 1..n /\ (h = k + 1 \/ k + 1 < h) /\ k < n
      BY <1>2, <3>2
    <3>4. t < g[k + 1].at
      BY <2>1, <3>3 DEF Piece, n
    <3>5. h # k + 1 => g[k + 1].at < g[h].at
      BY <1>3, <3>3
    <3> QED BY <1>2, <2>4, <3>1, <3>3, <3>4, <3>5
  <2>5. CASE Link(g, k)
    <3>1. k + 1 \in 1..n /\ k < k + 1 /\ g[k + 1].at <= Deadline(g[k])
      BY <1>2, <2>5 DEF Link, n
    <3>2. PICK j \in Good(ss) : g[k + 1] = ss[j]
      BY <1>1, <3>1 DEF n
    <3>3. Linked(ss, i, j)
      BY <1>3, <1>7, <2>2, <3>1, <3>2 DEF Linked
    <3> QED BY <2>2, <2>3, <2>4, <3>3 DEF Provable, Stands
  <2>6. CASE Link(g, k - 1)
    <3> DEFINE h == k - 1
    <3>1. h \in 1..n /\ h + 1 = k /\ h < k /\ g[k].at <= Deadline(g[h])
      BY <1>2, <2>6 DEF Link, n
    <3> HIDE DEF h
    <3>2. PICK j \in Good(ss) : g[h] = ss[j] /\ Vouches(ss, j)
      BY <1>1, <3>1 DEF n
    <3>3. Linked(ss, j, i)
      BY <1>3, <1>7, <2>2, <3>1, <3>2 DEF Linked
    <3> QED BY <2>2, <2>3, <2>4, <3>3 DEF Provable, Stands
  <2> QED BY <2>1, <2>5, <2>6 DEF Piece
<1>10. ASSUME Provable(ss, t)
       PROVE  Pieces(g, n, t)
  <2>1. PICK i \in Good(ss), j \in Good(ss) :
          /\ ss[i].at <= t /\ t < Deadline(ss[i]) /\ Vouches(ss, i)
          /\ \A k \in Good(ss) : ~(ss[i].at < ss[k].at /\ ss[k].at <= t)
          /\ Linked(ss, i, j) \/ Linked(ss, j, i)
    BY <1>10 DEF Provable, Stands
  <2>2. PICK k \in 1..n : g[k].at = ss[i].at
    BY <1>1 DEF n
  <2>3. Deadline(g[k]) = Deadline(ss[i])
    BY <1>8, <2>1, <2>2
  <2>4. k < n => t < g[k + 1].at
    <3> SUFFICES ASSUME k < n
                 PROVE  t < g[k + 1].at
      OBVIOUS
    <3>1. k + 1 \in 1..n /\ k < k + 1
      BY <1>2
    <3>2. PICK h \in Good(ss) : g[k + 1] = ss[h]
      BY <1>1, <3>1 DEF n
    <3>3. g[k].at < g[k + 1].at
      BY <1>3, <3>1
    <3> QED BY <1>2, <2>1, <2>2, <3>1, <3>2, <3>3
  <2>5. PICK h \in 1..n : g[h].at = ss[j].at
    BY <1>1 DEF n
  <2>6. CASE Linked(ss, i, j)
    <3>1. g[k].at < g[h].at /\ g[h].at <= Deadline(g[k])
      BY <2>2, <2>3, <2>5, <2>6 DEF Linked
    <3>2. k < h
      <4>1. h < k => g[h].at < g[k].at
        BY <1>3
      <4> QED BY <1>2, <3>1, <4>1
    <3>3. h = k + 1
      BY <1>6, <2>2, <2>5, <2>6, <3>2 DEF Linked
    <3>4. Link(g, k)
      BY <1>2, <3>1, <3>3 DEF Link, n
    <3>5. Piece(g, k, t)
      BY <2>1, <2>2, <2>3, <2>4, <3>4 DEF Piece, n
    <3> QED BY <3>5 DEF Pieces
  <2>7. CASE Linked(ss, j, i)
    <3>1. g[h].at < g[k].at /\ g[k].at <= Deadline(g[h])
      BY <1>8, <2>2, <2>5, <2>7 DEF Linked
    <3>2. h < k
      <4>1. k < h => g[k].at < g[h].at
        BY <1>3
      <4> QED BY <1>2, <3>1, <4>1
    <3>3. k = h + 1
      BY <1>6, <2>2, <2>5, <2>7, <3>2 DEF Linked
    <3>4. Link(g, k - 1)
      <4>1. k - 1 = h /\ h \in 1..(n - 1)
        BY <1>2, <3>3
      <4> QED BY <3>1, <3>3, <4>1 DEF Link, n
    <3>5. Piece(g, k, t)
      BY <2>1, <2>2, <2>3, <2>4, <3>4 DEF Piece, n
    <3> QED BY <3>5 DEF Pieces
  <2> QED BY <2>1, <2>6, <2>7
<1> QED BY <1>9, <1>10 DEF g, n

\* The engine covers the instants of the range that the samples prove.
LEMMA ObservedIs ==
  ASSUME NEW ss \in Seq(Sample), TimeOrdered(ss), NEW query \in W
  PROVE  /\ ObservedWindows(ss, query) \in Seq(W) /\ Apart(ObservedWindows(ss, query))
         /\ \A t \in Nat : Covers(ObservedWindows(ss, query), t) <=> In(t, query) /\ Provable(ss, t)
<1> DEFINE g == Successful(ss)
           runs == Runs(g)
           clipped == Clipped(runs, query)
<1>1. g \in Seq(Sample) /\ Rising(g)
  BY SuccessfulIs
<1>2. \A t \in Nat : Pieces(g, Len(g), t) <=> Provable(ss, t)
  BY PiecesAreProvable
<1> HIDE DEF g
<1>3. runs \in Seq(W) /\ \A t \in Nat : Covers(runs, t) <=> Pieces(g, Len(g), t)
  BY <1>1, RunsAre
<1> HIDE DEF runs
<1>4. clipped \in Seq(W) /\ \A t \in Nat : Covers(clipped, t) <=> Covers(runs, t) /\ In(t, query)
  BY <1>3, ClippedIs
<1>5. ObservedWindows(ss, query) = MergeWindows(clipped)
  BY DEF ObservedWindows, runs, g
<1> HIDE DEF clipped
<1>6. /\ MergeWindows(clipped) \in Seq(W) /\ Apart(MergeWindows(clipped))
      /\ \A t \in Nat : Covers(MergeWindows(clipped), t) <=> Covers(clipped, t)
  BY <1>4, MergedIs
<1> QED BY <1>2, <1>3, <1>4, <1>5, <1>6

-----------------------------------------------------------------------------
(* The evidence                                                             *)

\* A sample's deadline is no further off than what a query looks back.
InReach(s) == Deadline(s) <= s.at + Lookback

EvidenceInv ==
  /\ TypeOK
  /\ TimeOrdered(samples)
  /\ \A i \in 1..Len(samples) : samples[i].at <= clock /\ InReach(samples[i])
  /\ \A p \in Person : Len(edges[p]) > 0

LEMMA OutcomesAre ==
  ASSUME NEW o \in Outcome, NEW at \in Nat
  PROVE  Polled(o, at) \in Sample /\ Polled(o, at).at = at /\ InReach(Polled(o, at))
<1> DEFINE s == Polled(o, at)
<1>1. /\ o.cadence \in Nat /\ o.success \in BOOLEAN
      /\ Lookback >= 2 * o.cadence + Margin /\ Lookback >= Floor
      /\ Margin \in Nat /\ Floor \in Nat /\ Lookback \in Nat
  BY TimeAssumption
<1>2. s \in Sample /\ s.at = at /\ s.cadence = o.cadence
  BY <1>1 DEF Polled, Sample
<1> HIDE DEF s
<1>3. InReach(s)
  BY <1>1, <1>2 DEF InReach, Deadline, Max2
<1> QED BY <1>2, <1>3 DEF s

LEMMA ReportsAre ==
  ASSUME NEW r \in Report, NEW at \in Nat, NEW anomaly \in BOOLEAN
  PROVE  Told(r, at, anomaly) \in Event /\ Told(r, at, anomaly).at = at
<1>1. r.place \in Place /\ r.status \in {s.status : s \in Report}
  BY ReportAssumption DEF Place
<1> QED BY <1>1 DEF Told, Event

LEMMA AppendTimeOrdered ==
  ASSUME NEW ss \in Seq(Sample), TimeOrdered(ss), NEW s \in Sample,
         \A i \in 1..Len(ss) : ss[i].at <= s.at
  PROVE  /\ Append(ss, s) \in Seq(Sample) /\ TimeOrdered(Append(ss, s))
         /\ \A i \in 1..Len(Append(ss, s)) : Append(ss, s)[i].at <= s.at
<1> DEFINE n == Len(ss)
           u == Append(ss, s)
<1>1. /\ u \in Seq(Sample) /\ Len(u) = n + 1 /\ n \in Nat
      /\ \A j \in 1..n : u[j] = ss[j]
      /\ u[n + 1] = s
  BY AppendIs
<1>2. \A i, j \in 1..n : i <= j => ss[i].at <= ss[j].at
  BY DEF TimeOrdered
<1>3. s.at \in Nat
  BY DEF Sample
<1> HIDE DEF n, u
<1>4. \A j \in 1..(n + 1) : j \in 1..n \/ j = n + 1
  BY <1>1
<1>5. \A i \in 1..n : ss[i].at <= s.at
  BY DEF n
<1>6. TimeOrdered(u)
  <2> SUFFICES ASSUME NEW i \in 1..(n + 1), NEW j \in 1..(n + 1), i <= j
               PROVE  u[i].at <= u[j].at
    BY <1>1 DEF TimeOrdered
  <2>1. CASE j = n + 1
    BY <1>1, <1>3, <1>4, <1>5, <2>1
  <2>2. CASE j # n + 1
    <3>1. j \in 1..n /\ i \in 1..n
      BY <1>1, <2>2
    <3> QED BY <1>1, <1>2, <3>1
  <2> QED BY <2>1, <2>2
<1>7. \A i \in 1..(n + 1) : u[i].at <= s.at
  BY <1>1, <1>3, <1>4, <1>5
<1> QED BY <1>1, <1>6, <1>7 DEF u

LEMMA InsertedIs ==
  ASSUME NEW es \in Seq(Event), NEW e \in Event
  PROVE  Inserted(es, e) \in Seq(Event)
<1> DEFINE B == {i \in DOMAIN es : es[i].at <= e.at}
           k == Cardinality(B)
<1>1. Len(es) \in Nat /\ B \in SUBSET (1..Len(es))
  OBVIOUS
<1>2. IsFiniteSet(1..Len(es)) /\ Cardinality(1..Len(es)) = Len(es)
  <2> DEFINE n == Len(es)
  <2>1. n \in Nat
    BY <1>1
  <2> HIDE DEF n
  <2>2. IsFiniteSet(1..n) /\ Cardinality(1..n) = n
    BY <2>1, FS_Interval
  <2> QED BY <2>2 DEF n
<1> HIDE DEF B
<1>3. k \in Nat /\ k <= Len(es)
  <2>1. IsFiniteSet(B) /\ Cardinality(B) <= Cardinality(1..Len(es))
    BY <1>1, <1>2, FS_Subset
  <2> QED BY <1>2, <2>1, FS_CardinalityType
<1>4. k \in 0..Len(es)
  BY <1>1, <1>3
<1>5. Inserted(es, e) = InsertAt(es, k + 1, e)
  BY DEF Inserted, B
<1> HIDE DEF k
<1> QED BY <1>4, <1>5, InsertedAt

LEMMA EvidenceInvInit == Init => EvidenceInv
<1> SUFFICES ASSUME Init
             PROVE  EvidenceInv
  OBVIOUS
<1>1. PICK o \in Outcome : samples = <<Polled(o, 0)>>
  BY DEF Init
<1>2. Polled(o, 0) \in Sample /\ Polled(o, 0).at = 0 /\ InReach(Polled(o, 0))
  BY OutcomesAre
<1> DEFINE s == Polled(o, 0)
<1>3. samples = <<s>> /\ s \in Sample /\ s.at = 0 /\ InReach(s)
  BY <1>1, <1>2
<1> HIDE DEF s
<1>4. samples \in Seq(Sample) /\ Len(samples) = 1 /\ \A i \in 1..1 : samples[i] = s
  BY <1>3
<1>5. /\ TimeOrdered(samples)
      /\ \A i \in 1..Len(samples) : samples[i].at <= 0 /\ InReach(samples[i])
  BY <1>3, <1>4 DEF TimeOrdered
<1>6. PICK found \in [Person -> First] : events = [p \in Person |-> <<Told(found[p], 0, FALSE)>>]
  BY DEF Init
<1>7. events \in [Person -> Seq(Event)]
  <2>1. \A p \in Person : Told(found[p], 0, FALSE) \in Event
    BY <1>6, ReportsAre, ReportAssumption
  <2>2. ASSUME NEW p \in Person
        PROVE  <<Told(found[p], 0, FALSE)>> \in Seq(Event)
    <3> DEFINE e == Told(found[p], 0, FALSE)
    <3>1. e \in Event
      BY <2>1
    <3> HIDE DEF e
    <3>2. <<e>> \in Seq(Event)
      BY <3>1
    <3> QED BY <3>2 DEF e
  <2> QED BY <1>6, <2>2
<1>8. edges \in [Person -> Seq(Edge)] /\ \A p \in Person : Len(edges[p]) > 0
  <2> DEFINE e == [at |-> 0, tracked |-> TRUE]
  <2>1. e \in Edge
    BY DEF Edge
  <2> HIDE DEF e
  <2>2. <<e>> \in Seq(Edge) /\ Len(<<e>>) = 1
    BY <2>1
  <2>3. edges = [p \in Person |-> <<e>>]
    BY DEF Init, e
  <2> QED BY <2>2, <2>3
<1>9. clock = 0
  BY DEF Init
<1> QED BY <1>4, <1>5, <1>7, <1>8, <1>9 DEF EvidenceInv, TypeOK

LEMMA EvidenceInvNext == EvidenceInv /\ [Next]_vars => EvidenceInv'
<1> SUFFICES ASSUME EvidenceInv, [Next]_vars
             PROVE  EvidenceInv'
  OBVIOUS
<1>1. /\ clock \in Nat /\ samples \in Seq(Sample)
      /\ events \in [Person -> Seq(Event)] /\ edges \in [Person -> Seq(Edge)]
      /\ TimeOrdered(samples)
      /\ \A i \in 1..Len(samples) : samples[i].at <= clock /\ InReach(samples[i])
      /\ \A p \in Person : Len(edges[p]) > 0
  BY DEF EvidenceInv, TypeOK
<1>2. Instants \subseteq Nat /\ Ahead \subseteq Nat
  BY TimeAssumption
<1>3. CASE Advance
  <2>1. PICK t \in Instants : t > clock /\ clock' = t
    BY <1>3 DEF Advance
  <2>2. samples' = samples /\ events' = events /\ edges' = edges
    BY <1>3 DEF Advance
  <2>3. clock' \in Nat /\ \A i \in 1..Len(samples) : samples[i].at <= clock'
    BY <1>1, <1>2, <2>1, SamplesAre
  <2>4. \A s : InReach(s)' <=> InReach(s)
    BY DEF InReach, Deadline
  <2> QED BY <1>1, <2>2, <2>3 DEF EvidenceInv, TypeOK
<1>4. CASE Poll
  <2>1. PICK o \in Outcome : samples' = Append(samples, Polled(o, clock))
    BY <1>4 DEF Poll
  <2>2. clock' = clock /\ events' = events /\ edges' = edges
    BY <1>4 DEF Poll
  <2> DEFINE s == Polled(o, clock)
  <2>3. s \in Sample /\ s.at = clock /\ InReach(s) /\ samples' = Append(samples, s)
    BY <1>1, <2>1, OutcomesAre
  <2> HIDE DEF s
  <2>4. /\ samples' \in Seq(Sample) /\ TimeOrdered(samples')
        /\ \A i \in 1..Len(samples') : samples'[i].at <= clock
    BY <1>1, <2>3, AppendTimeOrdered
  <2>5. \A i \in 1..Len(samples') : InReach(samples'[i])
    <3>1. /\ Len(samples') = Len(samples) + 1 /\ Len(samples) \in Nat
          /\ \A j \in 1..Len(samples) : samples'[j] = samples[j]
          /\ samples'[Len(samples) + 1] = s
      BY <1>1, <2>3, AppendIs
    <3>2. \A j \in 1..(Len(samples) + 1) : j \in 1..Len(samples) \/ j = Len(samples) + 1
      BY <3>1
    <3> QED BY <1>1, <2>3, <3>1, <3>2
  <2> QED BY <1>1, <2>2, <2>4, <2>5 DEF EvidenceInv, TypeOK, TimeOrdered
<1>5. CASE Turn
  <2>1. PICK p \in Person :
          edges' = [edges EXCEPT ![p] = Append(edges[p], [at |-> clock, tracked |-> ~Last(edges[p]).tracked])]
    BY <1>5 DEF Turn
  <2>2. clock' = clock /\ events' = events /\ samples' = samples
    BY <1>5 DEF Turn
  <2> DEFINE b == ~Last(edges[p]).tracked
             e == [at |-> clock, tracked |-> b]
             u == Append(edges[p], e)
  <2>3. b \in BOOLEAN
    <3>1. edges[p] \in Seq(Edge) /\ Len(edges[p]) \in 1..Len(edges[p])
      BY <1>1
    <3>2. Last(edges[p]) \in Edge
      BY <3>1 DEF Last
    <3>3. Last(edges[p]).tracked \in BOOLEAN
      BY <3>2 DEF Edge
    <3> QED BY <3>3
  <2> HIDE DEF b
  <2>4. e \in Edge
    BY <1>1, <2>3 DEF Edge
  <2> HIDE DEF e
  <2>5. u \in Seq(Edge) /\ Len(u) > 0
    BY <1>1, <2>4, AppendIs
  <2>6. edges' = [edges EXCEPT ![p] = u]
    BY <2>1 DEF e, b
  <2> HIDE DEF u
  <2>7. edges' \in [Person -> Seq(Edge)] /\ \A x \in Person : Len(edges'[x]) > 0
    BY <1>1, <2>5, <2>6
  <2> QED BY <1>1, <2>2, <2>7 DEF EvidenceInv, TypeOK
<1>6. CASE Change
  <2>1. PICK p \in Person, r \in Report, at \in Ahead \cup {clock} :
          events' = [events EXCEPT ![p] = Inserted(events[p], Told(r, at, at > clock))]
    BY <1>6 DEF Change
  <2>2. clock' = clock /\ edges' = edges /\ samples' = samples
    BY <1>6 DEF Change
  <2> DEFINE b == at > clock
             e == Told(r, at, b)
             u == Inserted(events[p], e)
  <2>3. b \in BOOLEAN /\ at \in Nat
    BY <1>1, <1>2
  <2> HIDE DEF b
  <2>4. e \in Event
    BY <2>3, ReportsAre
  <2> HIDE DEF e
  <2>5. u \in Seq(Event)
    BY <1>1, <2>4, InsertedIs
  <2>6. events' = [events EXCEPT ![p] = u]
    BY <2>1 DEF e, b
  <2> HIDE DEF u
  <2>7. events' \in [Person -> Seq(Event)]
    BY <1>1, <2>5, <2>6
  <2> QED BY <1>1, <2>2, <2>7 DEF EvidenceInv, TypeOK
<1>7. CASE UNCHANGED vars
  <2>1. clock' = clock /\ samples' = samples /\ events' = events /\ edges' = edges
    BY <1>7 DEF vars
  <2> QED BY <1>1, <2>1 DEF EvidenceInv, TypeOK
<1> QED BY <1>3, <1>4, <1>5, <1>6, <1>7 DEF Next

LEMMA EvidenceIsInv == Spec => []EvidenceInv
BY EvidenceInvInit, EvidenceInvNext, PTL DEF Spec

\* The evidence is what the tables hold: samples, events and tracking edges of
\* their types, whatever polls and changes come in.
THEOREM EvidenceTypeCorrect == Spec => []TypeOK
<1>1. EvidenceInv => TypeOK
  BY DEF EvidenceInv
<1> QED BY <1>1, EvidenceIsInv, PTL

-----------------------------------------------------------------------------
(* Coverage                                                                 *)

LEMMA QueriesAre ==
  ASSUME NEW q \in Past
  PROVE  q \in W /\ \A t : t \in Span(q) <=> t \in Nat /\ In(t, q)
<1>1. q \in [start : Nat, end : Nat] /\ q.start < q.end
  BY TimeAssumption DEF Past
<1>2. q \in W /\ q.start \in Nat /\ q.end \in Nat
  BY <1>1 DEF W
<1> QED BY <1>2 DEF Span, In

\* In every state the evidence may be in
LEMMA CoverageIs == EvidenceInv => CoverageIsProvable
<1> SUFFICES ASSUME EvidenceInv, NEW q \in Past
             PROVE  LET windows == ObservedWindows(samples, q)
                        summary == CoverageSummary(windows, q)
                    IN /\ Canonical(windows)
                       /\ Covered(windows) = {t \in Span(q) : Provable(samples, t)}
                       /\ Canonical(summary.gaps)
                       /\ Covered(summary.gaps) = Span(q) \ Covered(windows)
                       /\ Minutes(summary.observed) = Cardinality(Covered(windows))
  BY DEF CoverageIsProvable
<1> DEFINE windows == ObservedWindows(samples, q)
           summary == CoverageSummary(windows, q)
<1>1. q \in W /\ \A t : t \in Span(q) <=> t \in Nat /\ In(t, q)
  BY QueriesAre
<1>2. samples \in Seq(Sample) /\ TimeOrdered(samples)
  BY DEF EvidenceInv, TypeOK
<1>3. /\ windows \in Seq(W) /\ Apart(windows)
      /\ \A t \in Nat : Covers(windows, t) <=> In(t, q) /\ Provable(samples, t)
  BY <1>1, <1>2, ObservedIs
<1> HIDE DEF windows
<1>4. PICK ws \in Seq(W), gaps \in Seq(W) :
        /\ summary = [observed |-> ws, gaps |-> gaps]
        /\ Apart(ws) /\ Apart(gaps)
        /\ \A t \in Nat : Covers(ws, t) <=> Covers(windows, t) /\ In(t, q)
        /\ \A t \in Nat : Covers(gaps, t) <=> In(t, q) /\ ~Covers(ws, t)
  BY <1>1, <1>3, SummaryIs
<1> HIDE DEF summary
<1>5. summary.observed = ws /\ summary.gaps = gaps
  BY <1>4
<1>6. /\ Canonical(windows) /\ Canonical(gaps)
      /\ \A t : t \in Covered(windows) <=> t \in Nat /\ Covers(windows, t)
      /\ \A t : t \in Covered(ws) <=> t \in Nat /\ Covers(ws, t)
      /\ \A t : t \in Covered(gaps) <=> t \in Nat /\ Covers(gaps, t)
  BY <1>3, <1>4, CanonicalIs
<1>7. Covered(windows) = {t \in Span(q) : Provable(samples, t)}
  BY <1>1, <1>3, <1>6
<1>8. Covered(ws) = Covered(windows)
  BY <1>3, <1>4, <1>6
<1>9. Covered(gaps) = Span(q) \ Covered(windows)
  BY <1>1, <1>3, <1>4, <1>6
<1>10. Minutes(ws) = Cardinality(Covered(windows))
  BY <1>4, <1>8, MinutesAre
<1> QED BY <1>5, <1>6, <1>7, <1>9, <1>10 DEF windows, summary

\* Whatever has been polled and whatever range is asked for, what the engine calls
\* observed is exactly what the samples prove, and its gaps are the rest.
THEOREM ObservedIsProvable == Spec => []CoverageIsProvable
BY EvidenceIsInv, CoverageIs, PTL

-----------------------------------------------------------------------------
(* What a query fetches                                                     *)

\* f has the samples of ss from the instant lo to the instant hi.
Slice(f, ss, lo, hi) ==
  /\ \A a \in Good(f) : \E i \in Good(ss) : f[a] = ss[i] /\ lo <= ss[i].at /\ ss[i].at <= hi
  /\ \A i \in Good(ss) : lo <= ss[i].at /\ ss[i].at <= hi => \E a \in Good(f) : f[a] = ss[i]

LEMMA FetchedIs ==
  ASSUME NEW q \in W, samples \in Seq(Sample), TimeOrdered(samples)
  PROVE  /\ FetchedSamples(q) \in Seq(Sample) /\ TimeOrdered(FetchedSamples(q))
         /\ Slice(FetchedSamples(q), samples, q.start - Lookback, q.end)
<1> DEFINE lo == q.start - Lookback
           hi == q.end
           I == {i \in DOMAIN samples : samples[i].at >= lo /\ samples[i].at <= hi}
           f == FetchedSamples(q)
           n == Len(samples)
<1>1. lo \in Int /\ hi \in Int
  BY TimeAssumption DEF W
<1>2. /\ n \in Nat /\ DOMAIN samples = 1..n
      /\ \A i \in 1..n : samples[i] \in Sample /\ samples[i].at \in Nat
  BY SamplesAre
<1>3. f = Picked(samples, I)
  BY DEF FetchedSamples
<1>31. \A i : i \in I <=> i \in 1..n /\ lo <= samples[i].at /\ samples[i].at <= hi
  BY <1>1, <1>2
<1> HIDE DEF lo, hi, I, f, n
<1>4. f \in Seq(Sample) /\ \E x : Lists(x, f, samples, I, n)
  BY <1>3, PickedIs DEF n
<1>5. PICK x : Lists(x, f, samples, I, n)
  BY <1>4
<1>6. /\ x \in [1..Len(f) -> 1..n]
      /\ \A k \in 1..Len(f) : x[k] \in I /\ f[k] = samples[x[k]]
      /\ \A a, b \in 1..Len(f) : a < b => x[a] < x[b]
      /\ \A i \in 1..n : i \in I => \E k \in 1..Len(f) : x[k] = i
  BY <1>5 DEF Lists
<1>7. Len(f) \in Nat /\ DOMAIN f = 1..Len(f)
  BY <1>4
<1>8. TimeOrdered(f)
  <2> SUFFICES ASSUME NEW a \in 1..Len(f), NEW b \in 1..Len(f), a <= b
               PROVE  f[a].at <= f[b].at
    BY DEF TimeOrdered
  <2>1. x[a] \in 1..n /\ x[b] \in 1..n /\ f[a] = samples[x[a]] /\ f[b] = samples[x[b]]
    BY <1>6
  <2>2. x[a] <= x[b]
    <3>1. CASE a = b
      BY <2>1, <3>1
    <3>2. CASE a # b
      <4>1. a < b
        BY <3>2
      <4>2. x[a] < x[b]
        BY <1>6, <4>1
      <4> QED BY <2>1, <4>2
    <3> QED BY <3>1, <3>2
  <2>3. samples[x[a]].at <= samples[x[b]].at
    BY <2>1, <2>2 DEF TimeOrdered, n
  <2> QED BY <2>1, <2>3
<1>9. ASSUME NEW a \in Good(f)
      PROVE  \E i \in Good(samples) : /\ f[a] = samples[i]
                                      /\ lo <= samples[i].at /\ samples[i].at <= hi
  <2>1. a \in 1..Len(f) /\ f[a].success
    BY <1>7 DEF Good
  <2>2. x[a] \in I /\ f[a] = samples[x[a]]
    BY <1>6, <2>1
  <2>3. x[a] \in Good(samples) /\ lo <= samples[x[a]].at /\ samples[x[a]].at <= hi
    BY <1>2, <1>31, <2>1, <2>2 DEF Good
  <2> QED BY <2>2, <2>3
<1>10. ASSUME NEW i \in Good(samples), lo <= samples[i].at, samples[i].at <= hi
       PROVE  \E a \in Good(f) : f[a] = samples[i]
  <2>1. i \in 1..n /\ i \in I /\ samples[i].success
    BY <1>2, <1>31, <1>10 DEF Good
  <2>2. PICK a \in 1..Len(f) : x[a] = i
    BY <1>6, <2>1
  <2>3. f[a] = samples[i] /\ a \in Good(f)
    BY <1>6, <1>7, <2>1, <2>2 DEF Good
  <2> QED BY <2>3
<1>11. Slice(f, samples, lo, hi)
  BY <1>9, <1>10 DEF Slice
<1> QED BY <1>4, <1>8, <1>11 DEF f, lo, hi

\* A slice vouches and links as the whole does.
LEMMA SliceLinks ==
  ASSUME NEW f, NEW ss \in Seq(Sample), NEW lo \in Int, NEW hi \in Int, Slice(f, ss, lo, hi),
         NEW a \in Good(f), NEW i \in Good(ss), f[a] = ss[i], lo <= ss[i].at, ss[i].at <= hi
  PROVE  /\ Vouches(f, a) <=> Vouches(ss, i)
         /\ \A b \in Good(f), j \in Good(ss) :
              f[b] = ss[j] /\ lo <= ss[j].at /\ ss[j].at <= hi
                => (Linked(f, a, b) <=> Linked(ss, i, j))
<1>1. \A k \in Good(ss) : ss[k].at \in Nat
  BY SamplesAre DEF Good
<1>2. Vouches(f, a) <=> Vouches(ss, i)
  <2>1. ASSUME Vouches(f, a), NEW k \in Good(ss), ss[k].at = ss[i].at
        PROVE  ss[k].cadence <= ss[i].cadence
    <3>1. PICK c \in Good(f) : f[c] = ss[k]
      BY <2>1 DEF Slice
    <3> QED BY <2>1, <3>1 DEF Vouches
  <2>2. ASSUME Vouches(ss, i), NEW c \in Good(f), f[c].at = f[a].at
        PROVE  f[c].cadence <= f[a].cadence
    <3>1. PICK k \in Good(ss) : f[c] = ss[k]
      BY DEF Slice
    <3> QED BY <2>2, <3>1 DEF Vouches
  <2> QED BY <2>1, <2>2 DEF Vouches
<1>3. ASSUME NEW b \in Good(f), NEW j \in Good(ss), f[b] = ss[j], lo <= ss[j].at, ss[j].at <= hi
      PROVE  Linked(f, a, b) <=> Linked(ss, i, j)
  <2>1. ASSUME NEW k \in Good(ss), ss[i].at < ss[k].at, ss[k].at < ss[j].at
        PROVE  \E c \in Good(f) : f[c] = ss[k]
    <3>1. lo <= ss[k].at /\ ss[k].at <= hi
      BY <1>1, <1>3, <2>1
    <3> QED BY <3>1 DEF Slice
  <2>2. \A c \in Good(f) : \E k \in Good(ss) : f[c] = ss[k]
    BY DEF Slice
  <2> QED BY <1>2, <1>3, <2>1, <2>2 DEF Linked
<1> QED BY <1>2, <1>3


\* What the samples of a slice prove, all prove; what they prove and the slice does
\* not, within the range, is the reach of a success that the next one confirms only
\* after the slice, and the one before only from before it.
SliceMisses(ss, q, lo, t) ==
  \E i \in Good(ss) :
    /\ Stands(ss, i, t)
    /\ \A j \in Good(ss) :
         /\ Linked(ss, i, j) => ss[j].at > q.end
         /\ Linked(ss, j, i) => ss[j].at < lo /\ Reach(ss[j]) + Reach(ss[i]) > Lookback

LEMMA SliceLoses ==
  ASSUME NEW f, NEW ss \in Seq(Sample), NEW q \in W, NEW lo \in Int,
         lo + Lookback = q.start, Slice(f, ss, lo, q.end),
         \A i \in 1..Len(ss) : InReach(ss[i]),
         NEW t \in Nat, In(t, q)
  PROVE  /\ Provable(f, t) => Provable(ss, t)
         /\ Provable(ss, t) /\ ~Provable(f, t) => SliceMisses(ss, q, lo, t)
<1> DEFINE hi == q.end
<1>1. /\ \A k \in Good(ss) : ss[k] \in Sample /\ ss[k].at \in Nat /\ InReach(ss[k])
      /\ \A k \in Good(ss) : Deadline(ss[k]) \in Nat
  BY SamplesAre, DeadlineIs DEF Good
<1>2. hi \in Int /\ q.start \in Nat /\ Lookback \in Nat /\ q.start <= t /\ t < hi
  BY TimeAssumption DEF W, In
<1>3. Slice(f, ss, lo, hi) /\ lo + Lookback = q.start
  OBVIOUS
<1> HIDE DEF hi
<1>4. \A k \in Good(ss) : Deadline(ss[k]) <= ss[k].at + Lookback
  BY <1>1 DEF InReach
<1>5. ASSUME Provable(f, t)
      PROVE  Provable(ss, t)
  <2>1. PICK a \in Good(f), b \in Good(f) :
          /\ f[a].at <= t /\ t < Deadline(f[a]) /\ Vouches(f, a)
          /\ \A c \in Good(f) : ~(f[a].at < f[c].at /\ f[c].at <= t)
          /\ Linked(f, a, b) \/ Linked(f, b, a)
    BY <1>5 DEF Provable, Stands
  <2>2. PICK i \in Good(ss) : f[a] = ss[i] /\ lo <= ss[i].at /\ ss[i].at <= hi
    BY <1>3 DEF Slice
  <2>3. PICK j \in Good(ss) : f[b] = ss[j] /\ lo <= ss[j].at /\ ss[j].at <= hi
    BY <1>3 DEF Slice
  <2>4. Vouches(ss, i) /\ (Linked(ss, i, j) \/ Linked(ss, j, i))
    BY <1>2, <1>3, <2>1, <2>2, <2>3, SliceLinks
  <2>5. ASSUME NEW k \in Good(ss), ss[i].at < ss[k].at, ss[k].at <= t
        PROVE  FALSE
    <3>1. lo <= ss[k].at /\ ss[k].at <= hi
      <4> DEFINE x == ss[i].at
                 y == ss[k].at
      <4>1. x \in Nat /\ y \in Nat /\ lo <= x /\ x < y /\ y <= t
        BY <1>1, <2>2, <2>5
      <4> HIDE DEF x, y
      <4>2. lo <= y /\ y <= hi
        BY <1>2, <4>1
      <4> QED BY <4>2 DEF y
    <3>2. PICK c \in Good(f) : f[c] = ss[k]
      BY <1>3, <3>1 DEF Slice
    <3> QED BY <2>1, <2>2, <2>5, <3>2
  <2> QED BY <2>1, <2>2, <2>4, <2>5 DEF Provable, Stands
<1>6. ASSUME Provable(ss, t), ~Provable(f, t)
      PROVE  SliceMisses(ss, q, lo, t)
  <2>1. PICK i \in Good(ss) : Stands(ss, i, t)
    BY <1>6 DEF Provable
  <2>2. /\ ss[i].at <= t /\ t < Deadline(ss[i]) /\ Vouches(ss, i)
        /\ \A c \in Good(ss) : ~(ss[i].at < ss[c].at /\ ss[c].at <= t)
    BY <2>1 DEF Stands
  <2>3. lo <= ss[i].at /\ ss[i].at <= hi
    <3>1. lo <= ss[i].at
      <4> DEFINE x == ss[i].at
                 d == Deadline(ss[i])
                 s == q.start
      <4>1. /\ x \in Nat /\ d \in Nat /\ s \in Nat /\ t < d /\ s <= t
            /\ lo + Lookback = s /\ d <= x + Lookback
        BY <1>1, <1>2, <1>3, <1>4, <2>2
      <4> HIDE DEF x, d, s
      <4>2. lo <= x
        BY <1>2, <4>1
      <4> QED BY <4>2 DEF x
    <3>2. ss[i].at <= hi
      BY <1>1, <1>2, <2>2
    <3> QED BY <3>1, <3>2
  <2>4. PICK a \in Good(f) : f[a] = ss[i]
    BY <1>3, <2>3 DEF Slice
  <2>5. Stands(f, a, t)
    <3>1. Vouches(f, a)
      BY <1>2, <1>3, <2>2, <2>3, <2>4, SliceLinks
    <3>2. \A c \in Good(f) : \E k \in Good(ss) : f[c] = ss[k]
      BY <1>3 DEF Slice
    <3> QED BY <2>2, <2>4, <3>1, <3>2 DEF Stands
  \* A linked success that is fetched would prove t.
  <2>6. ASSUME NEW k \in Good(ss), Linked(ss, i, k) \/ Linked(ss, k, i),
               lo <= ss[k].at, ss[k].at <= hi
        PROVE  FALSE
    <3>1. PICK b \in Good(f) : f[b] = ss[k]
      BY <1>3, <2>6 DEF Slice
    <3>2. Linked(f, a, b) \/ Linked(f, b, a)
      BY <1>2, <1>3, <2>3, <2>4, <2>6, <3>1, SliceLinks
    <3> QED BY <1>6, <2>5, <3>2 DEF Provable
  <2>7. ASSUME NEW k \in Good(ss), Linked(ss, i, k)
        PROVE  ss[k].at > hi
    <3>1. ss[i].at < ss[k].at
      BY <2>7 DEF Linked
    <3>2. lo <= ss[k].at
      BY <1>1, <2>3, <3>1
    <3>3. ~(ss[k].at <= hi)
      BY <2>6, <2>7, <3>2
    <3> QED BY <1>1, <1>2, <3>3
  <2>8. ASSUME NEW k \in Good(ss), Linked(ss, k, i)
        PROVE  ss[k].at < lo /\ Reach(ss[k]) + Reach(ss[i]) > Lookback
    <3>1. ss[k].at < ss[i].at /\ ss[i].at <= Deadline(ss[k])
      BY <2>8 DEF Linked
    <3> DEFINE x == ss[k].at
               y == ss[i].at
               d == Deadline(ss[k])
               e == Deadline(ss[i])
               s == q.start
    <3>2. /\ x \in Nat /\ y \in Nat /\ d \in Nat /\ e \in Nat /\ s \in Nat
          /\ x < y /\ y <= d /\ y <= hi /\ s <= t /\ t < e /\ lo + Lookback = s
      BY <1>1, <1>2, <1>3, <2>2, <2>3, <3>1
    <3>3. ~(lo <= x /\ x <= hi)
      BY <2>6, <2>8
    <3>4. Reach(ss[k]) = d - x /\ Reach(ss[i]) = e - y
      BY DEF Reach
    <3> HIDE DEF x, y, d, e, s
    <3>5. x < lo
      BY <1>2, <3>2, <3>3
    <3>6. (d - x) + (e - y) > Lookback
      BY <1>2, <3>2, <3>5
    <3> QED BY <3>4, <3>5, <3>6 DEF x
  <2> QED BY <2>1, <2>7, <2>8 DEF SliceMisses, hi
<1> QED BY <1>5, <1>6

LEMMA RangeIs == EvidenceInv => RangeLosesOnlyItsEdges
<1> SUFFICES ASSUME EvidenceInv, NEW q \in Past
             PROVE  LET whole == Covered(ObservedWindows(samples, q))
                        fetched == Covered(ObservedWindows(FetchedSamples(q), q))
                    IN /\ fetched \subseteq whole
                       /\ \A t \in whole \ fetched :
                            SliceMisses(samples, q, q.start - Lookback, t)
  BY DEF RangeLosesOnlyItsEdges, SliceMisses
<1> DEFINE all == ObservedWindows(samples, q)
           some == ObservedWindows(FetchedSamples(q), q)
           f == FetchedSamples(q)
           lo == q.start - Lookback
<1>1. q \in W
  BY QueriesAre
<1>2. /\ samples \in Seq(Sample) /\ TimeOrdered(samples)
      /\ \A i \in 1..Len(samples) : InReach(samples[i])
  BY DEF EvidenceInv, TypeOK
<1>3. f \in Seq(Sample) /\ TimeOrdered(f) /\ Slice(f, samples, lo, q.end)
  BY <1>1, <1>2, FetchedIs
<1>4. lo \in Int /\ lo + Lookback = q.start
  BY <1>1, TimeAssumption DEF W
<1> HIDE DEF f, lo
<1>5. /\ all \in Seq(W)
      /\ \A t \in Nat : Covers(all, t) <=> In(t, q) /\ Provable(samples, t)
  BY <1>1, <1>2, ObservedIs
<1>6. /\ some \in Seq(W)
      /\ \A t \in Nat : Covers(some, t) <=> In(t, q) /\ Provable(f, t)
  <2>1. some = ObservedWindows(f, q)
    BY DEF f
  <2> QED BY <1>1, <1>3, <2>1, ObservedIs
<1> HIDE DEF all, some
<1>7. /\ \A t : t \in Covered(all) <=> t \in Nat /\ In(t, q) /\ Provable(samples, t)
      /\ \A t : t \in Covered(some) <=> t \in Nat /\ In(t, q) /\ Provable(f, t)
  BY <1>5, <1>6, CanonicalIs
<1>8. Covered(some) \subseteq Covered(all)
  BY <1>1, <1>2, <1>3, <1>4, <1>7, SliceLoses
<1>9. ASSUME NEW t \in Covered(all) \ Covered(some)
      PROVE  SliceMisses(samples, q, lo, t)
  <2>1. t \in Nat /\ In(t, q) /\ Provable(samples, t) /\ ~Provable(f, t)
    BY <1>7
  <2> QED BY <1>1, <1>2, <1>3, <1>4, <2>1, SliceLoses
<1> QED BY <1>8, <1>9 DEF all, some, lo

\* What the samples that a query fetches prove of its range is part of what all
\* samples prove; the difference is the reach of a success that only a sample after
\* the range confirms, or one that is older than the query looks back.
THEOREM RangeIsObserved == Spec => []RangeLosesOnlyItsEdges
BY EvidenceIsInv, RangeIs, PTL

-----------------------------------------------------------------------------
(* The last row up to an instant                                            *)

\* Rows that have a time
Timed(S) == \A x \in S : x.at \in Nat

\* x is the last of the first n rows of s, among those in A, up to t.
Tops(s, n, A, t, x) ==
  \E i \in 1..n : /\ s[i] = x /\ x \in A /\ x.at <= t
                  /\ \A j \in 1..n : s[j] \in A /\ s[j].at <= t => j <= i

\* The same among the rows at some indices
TopsAmong(s, indices, A, t, x) ==
  \E i \in 1..Len(s) :
    /\ i \in indices /\ s[i] = x /\ x \in A /\ x.at <= t
    /\ \A j \in 1..Len(s) : j \in indices /\ s[j] \in A /\ s[j].at <= t => j <= i

LEMMA Greatest ==
  ASSUME NEW n \in Nat, NEW T, T \subseteq 1..n, T # {}
  PROVE  \E m \in T : \A i \in T : i <= m
<1> DEFINE D == {k \in Nat : \E i \in T : k = n - i}
<1>1. D \subseteq Nat /\ \A i \in T : n - i \in D
  OBVIOUS
<1>2. D # {}
  BY <1>1
<1>3. \A k \in D : \E i \in T : k = n - i
  OBVIOUS
<1> HIDE DEF D
<1>4. PICK k \in D : \A l \in D : k <= l
  BY <1>1, <1>2, Least
<1>5. PICK m \in T : k = n - m
  BY <1>3
<1>6. \A i \in T : n - m <= n - i
  BY <1>1, <1>4, <1>5
<1> QED BY <1>6

LEMMA TopsUnique ==
  ASSUME NEW s, NEW n \in Nat, NEW A, NEW t, NEW x, NEW y, Tops(s, n, A, t, x), Tops(s, n, A, t, y)
  PROVE  x = y
<1>1. PICK i \in 1..n : /\ s[i] = x /\ x \in A /\ x.at <= t
                        /\ \A j \in 1..n : s[j] \in A /\ s[j].at <= t => j <= i
  BY DEF Tops
<1>2. PICK k \in 1..n : /\ s[k] = y /\ y \in A /\ y.at <= t
                        /\ \A j \in 1..n : s[j] \in A /\ s[j].at <= t => j <= k
  BY DEF Tops
<1>3. i <= k /\ k <= i
  BY <1>1, <1>2
<1>4. i = k
  BY <1>3
<1> QED BY <1>1, <1>2, <1>4

\* If there is a row up to t, one of them is the last.
LEMMA TopsExist ==
  ASSUME NEW s, NEW n \in Nat, NEW A, NEW t, NEW k \in 1..n, s[k] \in A, s[k].at <= t
  PROVE  \E x : Tops(s, n, A, t, x)
<1> DEFINE T == {j \in 1..n : s[j] \in A /\ s[j].at <= t}
<1>1. T \subseteq 1..n /\ k \in T
  OBVIOUS
<1>2. PICK m \in T : \A i \in T : i <= m
  <2> HIDE DEF T
  <2> QED BY <1>1, Greatest
<1> QED BY <1>2 DEF Tops

\* One row more
LEMMA TopsStep ==
  ASSUME NEW s, NEW i \in Nat \ {0}, NEW A, NEW t, NEW x
  PROVE  /\ s[i] \notin A \/ ~(s[i].at <= t) => (Tops(s, i, A, t, x) <=> Tops(s, i - 1, A, t, x))
         /\ s[i] \in A /\ s[i].at <= t => (Tops(s, i, A, t, x) <=> x = s[i])
<1>1. \A j \in 1..i : j \in 1..(i - 1) \/ j = i
  OBVIOUS
<1>2. (\A j \in 1..(i - 1) : j \in 1..i /\ j <= i /\ ~(i <= j)) /\ i \in 1..i /\ i <= i
  OBVIOUS
<1>3. ASSUME s[i] \notin A \/ ~(s[i].at <= t)
      PROVE  Tops(s, i, A, t, x) <=> Tops(s, i - 1, A, t, x)
  BY <1>1, <1>2, <1>3 DEF Tops
<1>4. ASSUME s[i] \in A, s[i].at <= t
      PROVE  Tops(s, i, A, t, x) <=> x = s[i]
  BY <1>1, <1>2, <1>4 DEF Tops
<1> QED BY <1>3, <1>4

LEMMA PickedTops ==
  ASSUME NEW S, NEW s \in Seq(S), NEW indices, NEW A, NEW t, NEW x,
         NEW g, g = Picked(s, indices)
  PROVE  Tops(g, Len(g), A, t, x) <=> TopsAmong(s, indices, A, t, x)
<1> DEFINE n == Len(s)
           m == Len(g)
<1>1. PICK f : Lists(f, g, s, indices, n)
  BY PickedIs
<1>2. g \in Seq(S)
  BY PickedIs
<1>3. /\ n \in Nat /\ m \in Nat
      /\ f \in [1..m -> 1..n]
      /\ \A k \in 1..m : f[k] \in indices /\ g[k] = s[f[k]]
      /\ \A a, b \in 1..m : a < b => f[a] < f[b]
      /\ \A i \in 1..n : i \in indices => \E k \in 1..m : f[k] = i
  BY <1>1, <1>2 DEF Lists
<1> HIDE DEF n, m
<1>4. \A a, b \in 1..m : f[a] \in 1..n /\ (a <= b <=> f[a] <= f[b])
  <2> SUFFICES ASSUME NEW a \in 1..m, NEW b \in 1..m
               PROVE  f[a] \in 1..n /\ (a <= b <=> f[a] <= f[b])
    OBVIOUS
  <2>1. f[a] \in 1..n /\ f[b] \in 1..n
    BY <1>3
  <2>2. (a < b => f[a] < f[b]) /\ (b < a => f[b] < f[a]) /\ (a = b => f[a] = f[b])
    BY <1>3
  <2> QED BY <1>3, <2>1, <2>2
<1>5. ASSUME Tops(g, m, A, t, x)
      PROVE  TopsAmong(s, indices, A, t, x)
  <2>1. PICK k \in 1..m : /\ g[k] = x /\ x \in A /\ x.at <= t
                          /\ \A j \in 1..m : g[j] \in A /\ g[j].at <= t => j <= k
    BY <1>5 DEF Tops
  <2>2. ASSUME NEW j \in 1..n, j \in indices, s[j] \in A, s[j].at <= t
        PROVE  j <= f[k]
    <3>1. PICK l \in 1..m : f[l] = j
      BY <1>3, <2>2
    <3> QED BY <1>3, <1>4, <2>1, <2>2, <3>1
  <2>3. f[k] \in 1..n /\ f[k] \in indices /\ s[f[k]] = x
    BY <1>3, <1>4, <2>1
  <2> QED BY <2>1, <2>2, <2>3 DEF TopsAmong, n
<1>6. ASSUME TopsAmong(s, indices, A, t, x)
      PROVE  Tops(g, m, A, t, x)
  <2>1. PICK i \in 1..n :
          /\ i \in indices /\ s[i] = x /\ x \in A /\ x.at <= t
          /\ \A j \in 1..n : j \in indices /\ s[j] \in A /\ s[j].at <= t => j <= i
    BY <1>6 DEF TopsAmong, n
  <2>2. PICK k \in 1..m : f[k] = i
    BY <1>3, <2>1
  <2>3. ASSUME NEW j \in 1..m, g[j] \in A, g[j].at <= t
        PROVE  j <= k
    BY <1>3, <1>4, <2>1, <2>2, <2>3
  <2> QED BY <1>3, <2>1, <2>2, <2>3 DEF Tops
<1> QED BY <1>5, <1>6 DEF m

LEMMA PickedOrdered ==
  ASSUME NEW S, NEW s \in Seq(S), TimeOrdered(s), Timed(S), NEW indices
  PROVE  Picked(s, indices) \in Seq(S) /\ TimeOrdered(Picked(s, indices))
<1> DEFINE n == Len(s)
           g == Picked(s, indices)
           m == Len(g)
<1>1. g \in Seq(S) /\ \E f : Lists(f, g, s, indices, n)
  BY PickedIs
<1> HIDE DEF g
<1>2. PICK f : Lists(f, g, s, indices, n)
  BY <1>1
<1>3. /\ n \in Nat /\ m \in Nat
      /\ f \in [1..m -> 1..n]
      /\ \A k \in 1..m : g[k] = s[f[k]]
      /\ \A a, b \in 1..m : a < b => f[a] < f[b]
  BY <1>1, <1>2 DEF Lists
<1>4. \A i, j \in 1..n : i <= j => s[i].at <= s[j].at
  BY DEF TimeOrdered
<1>5. \A i \in 1..n : s[i].at \in Nat
  BY DEF Timed
<1> HIDE DEF n, m
<1>6. ASSUME NEW a \in 1..m, NEW b \in 1..m, a <= b
      PROVE  g[a].at <= g[b].at
  <2>1. f[a] \in 1..n /\ f[b] \in 1..n
    BY <1>3
  <2>2. a < b \/ a = b
    BY <1>3, <1>6
  <2>3. f[a] <= f[b]
    BY <1>3, <2>1, <2>2
  <2> QED BY <1>3, <1>4, <2>1, <2>3
<1>7. TimeOrdered(g)
  BY <1>6 DEF TimeOrdered, m
<1> QED BY <1>1, <1>7 DEF g

\* A range sees of the rows what counts in it, unless the row before it is left out.
LEMMA PriorTops ==
  ASSUME NEW S, NEW s \in Seq(S), Timed(S), NEW q \in W, NEW t \in Nat, In(t, q), NEW A, NEW x,
         \A i \in 1..Len(s) :
           /\ s[i].at < q.start
           /\ \A j \in 1..Len(s) : s[j].at < q.start => j <= i
           => s[i] \in A,
         NEW g, g = WithPrior(s, q)
  PROVE  Tops(g, Len(g), A, t, x) <=> Tops(s, Len(s), A, t, x)
<1> DEFINE n == Len(s)
           prior == {i \in DOMAIN s : s[i].at < q.start}
           within == {i \in DOMAIN s : s[i].at >= q.start /\ s[i].at < q.end}
           I == {i \in prior : \A j \in prior : j <= i} \cup within
<1>1. Tops(g, Len(g), A, t, x) <=> TopsAmong(s, I, A, t, x)
  <2>1. g = Picked(s, I)
    BY DEF WithPrior
  <2> QED BY <2>1, PickedTops
<1>2. /\ n \in Nat /\ DOMAIN s = 1..n /\ q.start \in Nat /\ q.end \in Nat
      /\ q.start <= t /\ t < q.end
      /\ \A i \in 1..n : s[i].at \in Nat
  BY DEF Timed, W, In
<1>3. /\ \A i \in 1..n : i \in prior <=> s[i].at < q.start
      /\ prior \subseteq 1..n
      /\ \A i \in 1..n : i \in within <=> s[i].at >= q.start /\ s[i].at < q.end
      /\ \A i \in 1..n : i \in I <=> \/ i \in prior /\ \A j \in prior : j <= i
                                     \/ i \in within
  BY <1>2
<1> HIDE DEF n, prior, within, I
\* The last row before the range counts for all instants of it.
<1>4. ASSUME NEW i \in 1..n, i \in prior
      PROVE  \E m \in 1..n : m \in I /\ s[m] \in A /\ s[m].at <= t /\ i <= m
  <2>1. PICK m \in prior : \A j \in prior : j <= m
    BY <1>2, <1>3, <1>4, Greatest
  <2>2. m \in 1..n /\ m \in I /\ s[m].at < q.start
    BY <1>3, <2>1
  <2>3. s[m] \in A
    BY <1>3, <2>1, <2>2 DEF n
  <2>4. s[m].at <= t
    BY <1>2, <2>2
  <2> QED BY <1>4, <2>1, <2>2, <2>3, <2>4
<1>5. ASSUME NEW i \in 1..n, s[i].at <= t
      PROVE  i \in I \/ i \in prior
  BY <1>2, <1>3, <1>5
<1>6. ASSUME Tops(s, n, A, t, x)
      PROVE  TopsAmong(s, I, A, t, x)
  <2>1. PICK i \in 1..n : /\ s[i] = x /\ x \in A /\ x.at <= t
                          /\ \A j \in 1..n : s[j] \in A /\ s[j].at <= t => j <= i
    BY <1>6 DEF Tops
  <2>2. i \in I
    <3>1. SUFFICES ASSUME i \in prior
                   PROVE  i \in I
      BY <1>5, <2>1
    <3>2. PICK m \in 1..n : m \in I /\ s[m] \in A /\ s[m].at <= t /\ i <= m
      BY <1>4, <3>1
    <3>3. m = i
      BY <2>1, <3>2
    <3> QED BY <3>2, <3>3
  <2> QED BY <2>1, <2>2 DEF TopsAmong, n
<1>7. ASSUME TopsAmong(s, I, A, t, x)
      PROVE  Tops(s, n, A, t, x)
  <2>1. PICK i \in 1..n :
          /\ i \in I /\ s[i] = x /\ x \in A /\ x.at <= t
          /\ \A j \in 1..n : j \in I /\ s[j] \in A /\ s[j].at <= t => j <= i
    BY <1>7 DEF TopsAmong, n
  <2>2. ASSUME NEW j \in 1..n, s[j] \in A, s[j].at <= t
        PROVE  j <= i
    <3>1. CASE j \in I
      BY <2>1, <2>2, <3>1
    <3>2. CASE j \in prior
      <4>1. PICK m \in 1..n : m \in I /\ s[m] \in A /\ s[m].at <= t /\ j <= m
        BY <1>4, <3>2
      <4>2. m <= i
        BY <2>1, <4>1
      <4> QED BY <4>1, <4>2
    <3> QED BY <1>5, <2>2, <3>1, <3>2
  <2> QED BY <2>1, <2>2 DEF Tops
<1> QED BY <1>1, <1>6, <1>7 DEF n

-----------------------------------------------------------------------------
(* The last report, and the loops over edges                                *)

LEMMA MaxIs ==
  ASSUME NEW n \in Nat, NEW T \in SUBSET (1..n), T # {}
  PROVE  Max(T) \in T /\ \A i \in T : i <= Max(T)
<1>1. PICK m \in T : \A i \in T : i <= m
  BY Greatest
<1>2. \A i \in T : i \in Int
  OBVIOUS
<1>3. \E x \in T : \A y \in T : x >= y
  BY <1>1, <1>2
<1>4. Max(T) \in T /\ \A y \in T : Max(T) >= y
  BY <1>3 DEF Max
<1> QED BY <1>2, <1>4

\* Reports that are no anomalies
Plain == {e \in Event : ~e.anomaly}

Shown(p, e) == [status |-> EffectiveState(p, e.status, e.place), place |-> e.place]

Unknown == [status |-> "offline", place |-> Hidden]

\* What a person does at t is what the last report that is no anomaly says.
LEMMA LatestIs ==
  ASSUME NEW p \in Person, events[p] \in Seq(Event), NEW t
  PROVE  /\ \A x : Tops(events[p], Len(events[p]), Plain, t, x) => Latest(p, t) = Shown(p, x)
         /\ (\A x : ~Tops(events[p], Len(events[p]), Plain, t, x)) => Latest(p, t) = Unknown
<1> DEFINE s == events[p]
           n == Len(s)
           B == {i \in DOMAIN s : ~s[i].anomaly /\ s[i].at <= t}
<1>1. n \in Nat /\ DOMAIN s = 1..n /\ \A i \in 1..n : s[i] \in Event
  OBVIOUS
<1>2. Latest(p, t) = IF B = {} THEN Unknown ELSE Shown(p, s[Max(B)])
  BY DEF Latest, Shown, Unknown
<1>3. B \in SUBSET (1..n) /\ \A i \in 1..n : i \in B <=> s[i] \in Plain /\ s[i].at <= t
  BY <1>1 DEF Plain
<1> HIDE DEF B, n, s
<1>4. ASSUME NEW x, Tops(s, n, Plain, t, x)
      PROVE  Latest(p, t) = Shown(p, x)
  <2>1. PICK i \in 1..n : /\ s[i] = x /\ x \in Plain /\ x.at <= t
                          /\ \A j \in 1..n : s[j] \in Plain /\ s[j].at <= t => j <= i
    BY <1>4 DEF Tops
  <2>2. i \in B /\ \A j \in B : j <= i
    BY <1>3, <2>1
  <2>3. Max(B) \in B /\ i <= Max(B)
    BY <1>1, <1>3, <2>2, MaxIs
  <2>4. Max(B) = i
    BY <1>3, <2>2, <2>3
  <2> QED BY <1>2, <2>1, <2>2, <2>4
<1>5. ASSUME \A x : ~Tops(s, n, Plain, t, x)
      PROVE  Latest(p, t) = Unknown
  <2>1. \A k \in 1..n : ~(s[k] \in Plain /\ s[k].at <= t)
    BY <1>1, <1>5, TopsExist
  <2> QED BY <1>2, <1>3, <2>1
<1> QED BY <1>4, <1>5 DEF n, s

\* The last of the first n edges up to t tracks.
Tracks(s, n, t) == \E x : Tops(s, n, Edge, t, x) /\ x.tracked

LEMMA TrackedIs ==
  ASSUME NEW p \in Person, edges[p] \in Seq(Edge), NEW t
  PROVE  TrackedAt(p, t) <=> Tracks(edges[p], Len(edges[p]), t)
<1> DEFINE s == edges[p]
           n == Len(s)
           B == {i \in DOMAIN s : s[i].at <= t}
<1>1. n \in Nat /\ DOMAIN s = 1..n /\ \A i \in 1..n : s[i] \in Edge
  OBVIOUS
<1>2. TrackedAt(p, t) <=> B # {} /\ s[Max(B)].tracked
  BY DEF TrackedAt
<1>3. B \in SUBSET (1..n) /\ \A i \in 1..n : i \in B <=> s[i] \in Edge /\ s[i].at <= t
  BY <1>1
<1> HIDE DEF B, n, s
<1>4. ASSUME NEW x, Tops(s, n, Edge, t, x)
      PROVE  B # {} /\ s[Max(B)] = x
  <2>1. PICK i \in 1..n : /\ s[i] = x /\ x \in Edge /\ x.at <= t
                          /\ \A j \in 1..n : s[j] \in Edge /\ s[j].at <= t => j <= i
    BY <1>4 DEF Tops
  <2>2. i \in B /\ \A j \in B : j <= i
    BY <1>3, <2>1
  <2>3. Max(B) \in B /\ i <= Max(B)
    BY <1>1, <1>3, <2>2, MaxIs
  <2>4. Max(B) = i
    BY <1>3, <2>2, <2>3
  <2> QED BY <2>1, <2>2, <2>4
<1>5. ASSUME B # {}
      PROVE  \E x : Tops(s, n, Edge, t, x)
  BY <1>1, <1>3, <1>5, TopsExist
<1> QED BY <1>2, <1>4, <1>5 DEF Tracks, n, s

-----------------------------------------------------------------------------
(* Histories in order of time                                               *)

HistoryInv ==
  /\ EvidenceInv
  /\ \A p \in Person : /\ TimeOrdered(events[p]) /\ TimeOrdered(edges[p])
                       /\ \A i \in 1..Len(edges[p]) : edges[p][i].at <= clock

LEMMA InsertedOrdered ==
  ASSUME NEW es \in Seq(Event), TimeOrdered(es), NEW e \in Event
  PROVE  TimeOrdered(Inserted(es, e))
<1> DEFINE n == Len(es)
           B == {i \in DOMAIN es : es[i].at <= e.at}
           r == Inserted(es, e)
<1>1. /\ n \in Nat /\ DOMAIN es = 1..n /\ \A i \in 1..n : es[i].at \in Nat
      /\ e.at \in Nat
      /\ \A i, j \in 1..n : i <= j => es[i].at <= es[j].at
  <2>1. \A i \in 1..n : es[i] \in Event
    OBVIOUS
  <2>2. e.at \in Nat /\ \A i \in 1..n : es[i].at \in Nat
    BY <2>1 DEF Event
  <2>3. \A i, j \in 1..n : i <= j => es[i].at <= es[j].at
    BY DEF TimeOrdered
  <2> QED BY <2>2, <2>3
<1>2. B \in SUBSET (1..n) /\ \A i \in B : \A j \in 1..i : j \in B
  <2>1. \A i \in 1..n : \A j \in 1..i : j \in 1..n /\ j <= i
    BY <1>1
  <2> QED BY <1>1, <2>1
<1>3. r = InsertAt(es, Cardinality(B) + 1, e)
  BY DEF Inserted
<1>4. \A i \in 1..n : i \in B <=> es[i].at <= e.at
  BY <1>1
<1> HIDE DEF B, n, r
<1>5. PICK k \in 0..n : B = 1..k /\ Cardinality(B) = k
  BY <1>1, <1>2, Prefix
<1>6. r \in Seq(Event) /\ Placed(r, es, k, e)
  BY <1>3, <1>5, InsertedAt DEF n
<1>7. /\ Len(r) = n + 1
      /\ \A j \in 1..k : r[j] = es[j]
      /\ r[k + 1] = e
      /\ \A j \in (k + 2)..(n + 1) : r[j] = es[j - 1]
  BY <1>6 DEF Placed, n
<1>8. (\A j \in 1..k : j \in 1..n /\ es[j].at <= e.at) /\ \A j \in (k + 1)..n : j \in 1..n /\ e.at < es[j].at
  <2>1. \A j \in 1..k : j \in 1..n /\ es[j].at <= e.at
    BY <1>1, <1>4, <1>5
  <2>2. \A j \in (k + 1)..n : j \in 1..n /\ j \notin 1..k
    BY <1>1
  <2> QED BY <1>1, <1>4, <1>5, <2>1, <2>2
\* Where a row of r comes from
<1>9. ASSUME NEW j \in 1..(n + 1)
      PROVE  \/ j \in 1..k /\ r[j] = es[j]
             \/ j = k + 1 /\ r[j] = e
             \/ j \in (k + 2)..(n + 1) /\ j - 1 \in (k + 1)..n /\ r[j] = es[j - 1]
  <2>1. j \in 1..k \/ j = k + 1 \/ (j \in (k + 2)..(n + 1) /\ j - 1 \in (k + 1)..n)
    BY <1>1
  <2> QED BY <1>7, <2>1
<1>10. ASSUME NEW i \in 1..(n + 1), NEW j \in 1..(n + 1), i <= j
       PROVE  r[i].at <= r[j].at
  <2>1. CASE j \in 1..k
    <3>1. i \in 1..k
      BY <1>1, <1>10, <2>1
    <3> QED BY <1>1, <1>7, <1>8, <1>10, <2>1, <3>1
  <2>2. CASE j = k + 1
    <3>1. r[j] = e
      BY <1>7, <2>2
    <3>2. i \in 1..k \/ i = k + 1
      BY <1>1, <1>10, <2>2
    <3> QED BY <1>1, <1>7, <1>8, <2>2, <3>1, <3>2
  <2>3. CASE j \in (k + 2)..(n + 1)
    <3> DEFINE h == j - 1
    <3>1. h \in (k + 1)..n /\ r[j] = es[h] /\ h \in 1..n
      BY <1>1, <1>7, <2>3
    <3>2. e.at < es[h].at /\ es[h].at \in Nat
      BY <1>1, <1>8, <3>1
    <3>3. CASE i \in 1..k
      BY <1>1, <1>7, <1>8, <3>1, <3>2, <3>3
    <3>4. CASE i = k + 1
      BY <1>1, <1>7, <3>1, <3>2, <3>4
    <3>5. CASE i \in (k + 2)..(n + 1)
      <4> DEFINE g == i - 1
      <4>1. g \in 1..n /\ r[i] = es[g] /\ g <= h
        BY <1>1, <1>7, <1>10, <3>5
      <4> HIDE DEF g, h
      <4> QED BY <1>1, <3>1, <4>1
    <3> QED BY <1>1, <3>3, <3>4, <3>5
  <2> QED BY <1>1, <2>1, <2>2, <2>3
<1> QED BY <1>7, <1>10 DEF TimeOrdered, r

LEMMA HistoryInvInit == Init => HistoryInv
<1> SUFFICES ASSUME Init
             PROVE  HistoryInv
  OBVIOUS
<1>1. EvidenceInv
  BY EvidenceInvInit
<1>2. ASSUME NEW p \in Person
      PROVE  /\ TimeOrdered(events[p]) /\ TimeOrdered(edges[p])
             /\ \A i \in 1..Len(edges[p]) : edges[p][i].at <= clock
  <2>1. PICK found \in [Person -> First] : events = [x \in Person |-> <<Told(found[x], 0, FALSE)>>]
    BY DEF Init
  <2>2. events[p] = <<Told(found[p], 0, FALSE)>> /\ Told(found[p], 0, FALSE).at = 0
    BY <2>1 DEF Told
  <2>3. edges[p] = <<[at |-> 0, tracked |-> TRUE]>> /\ clock = 0
    BY DEF Init
  <2>4. \A i, j \in 1..1 : i = 1 /\ j = 1
    OBVIOUS
  <2>5. TimeOrdered(events[p])
    <3> DEFINE e == Told(found[p], 0, FALSE)
    <3>1. events[p] = <<e>> /\ e.at = 0
      BY <2>2
    <3> HIDE DEF e
    <3>2. Len(events[p]) = 1 /\ events[p][1].at = 0
      BY <3>1
    <3> QED BY <2>4, <3>2 DEF TimeOrdered
  <2>6. Len(edges[p]) = 1 /\ edges[p][1].at = 0
    BY <2>3
  <2> QED BY <2>3, <2>4, <2>5, <2>6 DEF TimeOrdered
<1> QED BY <1>1, <1>2 DEF HistoryInv

LEMMA HistoryInvNext == HistoryInv /\ [Next]_vars => HistoryInv'
<1> SUFFICES ASSUME HistoryInv, [Next]_vars
             PROVE  HistoryInv'
  OBVIOUS
<1>1. EvidenceInv /\ EvidenceInv'
  BY EvidenceInvNext DEF HistoryInv
<1>2. /\ clock \in Nat /\ clock' \in Nat
      /\ events \in [Person -> Seq(Event)] /\ edges \in [Person -> Seq(Edge)]
      /\ events' \in [Person -> Seq(Event)] /\ edges' \in [Person -> Seq(Edge)]
  BY <1>1 DEF EvidenceInv, TypeOK
<1>3. \A p \in Person : /\ TimeOrdered(events[p]) /\ TimeOrdered(edges[p])
                        /\ \A i \in 1..Len(edges[p]) : edges[p][i].at <= clock
  BY DEF HistoryInv
<1>4. clock <= clock'
  BY <1>2 DEF Next, Advance, Poll, Turn, Change, vars
<1>5. ASSUME NEW p \in Person
      PROVE  TimeOrdered(events'[p])
  <2>1. CASE events' = events
    BY <1>3, <2>1
  <2>2. CASE Change
    <3>1. PICK x \in Person, r \in Report, at \in Ahead \cup {clock} :
            events' = [events EXCEPT ![x] = Inserted(@, Told(r, at, at > clock))]
      BY <2>2 DEF Change
    <3> DEFINE e == Told(r, at, at > clock)
    <3>2. at \in Nat
      BY <1>2, TimeAssumption
    <3>3. (at > clock) \in BOOLEAN
      OBVIOUS
    <3>4. e \in Event
      BY <3>2, <3>3, ReportsAre
    <3> HIDE DEF e
    <3>5. events' = [events EXCEPT ![x] = Inserted(events[x], e)]
      BY <3>1 DEF e
    <3>6. TimeOrdered(Inserted(events[x], e))
      BY <1>2, <1>3, <3>4, InsertedOrdered
    <3>7. events'[p] = events[p] \/ events'[p] = Inserted(events[x], e)
      BY <1>2, <3>5
    <3> QED BY <1>3, <3>6, <3>7
  <2> QED BY <2>1, <2>2 DEF Next, Advance, Poll, Turn, vars
<1>6. ASSUME NEW p \in Person
      PROVE  /\ TimeOrdered(edges'[p])
             /\ \A i \in 1..Len(edges'[p]) : edges'[p][i].at <= clock'
  <2>1. \A i \in 1..Len(edges[p]) : edges[p][i].at \in Nat /\ edges[p][i].at <= clock'
    <3>1. edges[p] \in Seq(Edge)
      BY <1>2
    <3>2. \A i \in 1..Len(edges[p]) : edges[p][i] \in Edge
      BY <3>1
    <3>3. \A i \in 1..Len(edges[p]) : edges[p][i].at \in Nat
      BY <3>2 DEF Edge
    <3>4. \A i \in 1..Len(edges[p]) : edges[p][i].at <= clock
      BY <1>3
    <3> QED BY <1>2, <1>4, <3>3, <3>4
  <2>2. CASE edges'[p] = edges[p]
    BY <1>3, <2>1, <2>2
  <2>3. CASE Turn /\ edges'[p] # edges[p]
    <3>1. PICK b : edges'[p] = Append(edges[p], [at |-> clock, tracked |-> b]) /\ b \in BOOLEAN
      <4>1. PICK x \in Person \ {Me} :
              edges' = [edges EXCEPT ![x] = Append(@, [at |-> clock, tracked |-> ~Last(@).tracked])]
        BY <2>3 DEF Turn
      <4>2. x = p
        BY <1>2, <2>3, <4>1
      <4>3. edges'[p] = Append(edges[p], [at |-> clock, tracked |-> ~Last(edges[p]).tracked])
        BY <1>2, <4>1, <4>2
      <4>4. (~Last(edges[p]).tracked) \in BOOLEAN
        OBVIOUS
      <4> QED BY <4>3, <4>4
    <3> DEFINE s == edges[p]
               u == edges'[p]
               n == Len(s)
               x == [at |-> clock, tracked |-> b]
    <3>2. x \in Edge /\ x.at = clock
      BY <1>2, <3>1 DEF Edge
    <3> HIDE DEF x
    <3>3. s \in Seq(Edge) /\ u = Append(s, x)
      BY <1>2, <3>1 DEF x
    <3>4. /\ Len(u) = n + 1 /\ n \in Nat /\ u[n + 1] = x
          /\ \A j \in 1..n : u[j] = s[j]
      BY <3>2, <3>3, AppendIs
    <3>5. /\ \A i, j \in 1..n : i <= j => s[i].at <= s[j].at
          /\ \A i \in 1..n : s[i].at <= clock /\ s[i].at \in Nat
      BY <1>3, <2>1 DEF TimeOrdered
    <3> HIDE DEF s, u, n
    <3>6. \A j \in 1..(n + 1) : j \in 1..n \/ j = n + 1
      BY <3>4
    <3>7. \A i \in 1..(n + 1) : u[i].at <= clock /\ u[i].at \in Nat
      <4>1. \A i \in 1..n : u[i].at <= clock /\ u[i].at \in Nat
        BY <3>4, <3>5
      <4>2. u[n + 1].at <= clock /\ u[n + 1].at \in Nat
        BY <1>2, <3>2, <3>4
      <4> QED BY <3>6, <4>1, <4>2
    <3>8. ASSUME NEW i \in 1..(n + 1), NEW j \in 1..(n + 1), i <= j
          PROVE  u[i].at <= u[j].at
      <4>1. CASE j \in 1..n
        <5>1. i \in 1..n
          BY <3>4, <3>8, <4>1
        <5> QED BY <3>4, <3>5, <3>8, <4>1, <5>1
      <4>2. CASE j = n + 1
        BY <3>2, <3>4, <3>7, <4>2
      <4> QED BY <3>6, <4>1, <4>2
    <3>9. TimeOrdered(u)
      BY <3>4, <3>8 DEF TimeOrdered
    <3>10. \A i \in 1..Len(u) : u[i].at <= clock'
      BY <1>2, <1>4, <3>4, <3>7
    <3> QED BY <3>9, <3>10 DEF u
  <2> QED BY <1>2, <2>2, <2>3 DEF Next, Advance, Poll, Change, vars
<1> QED BY <1>1, <1>5, <1>6 DEF HistoryInv

LEMMA HistoryIsInv == Spec => []HistoryInv
BY HistoryInvInit, HistoryInvNext, PTL DEF Spec

-----------------------------------------------------------------------------
(* Tracking                                                                 *)

NotYet(query) == [tracked |-> FALSE, cursor |-> query.start, windows |-> <<>>]

\* What is left of the range when the last edge has been seen
Open(query, last) ==
  IF last.tracked /\ query.end > last.cursor
  THEN Append(last.windows, Window(last.cursor, query.end)) ELSE last.windows

LEMMA TrackRule ==
  ASSUME NEW es,
         NEW query,
         Len(es) \in Nat, NEW Inv, NotYet(query) \in Inv[0],
         \A i \in 1..Len(es) : \A v \in Inv[i - 1] : Track(query, v, es[i]) \in Inv[i]
  PROVE  \E last \in Inv[Len(es)] :
           TrackingWindows(es, query) = MergeWindows(Open(query, last))
<1> DEFINE n == Len(es)
           V == UNION {Inv[i] : i \in 0..n}
           G == [p \in V \X (1..n) |-> Track(query, p[1], es[p[2]])]
           Def(f) == [i \in 0..n |-> IF i = 0 THEN NotYet(query)
                                    ELSE Track(query, f[i - 1], es[i])]
           up == CHOOSE f : f = Def(f)
<1>1. TrackingWindows(es, query) = MergeWindows(Open(query, up[n]))
  BY DEF TrackingWindows, Loop, NotYet, Open
<1> HIDE DEF n
<1>2. /\ n \in Nat /\ \A i \in 0..n : i # 0 => i \in 1..n
      /\ 0 \in 0..n /\ \A i \in 1..n : i \in 0..n /\ i # 0 /\ i - 1 \in 0..n
  BY DEF n
<1>3. Within(n, Inv, V) /\ \A i \in 1..n : \A v \in Inv[i - 1] : G[<<v, i>>] = Track(query, v, es[i])
  BY <1>2 DEF Within
<1> HIDE DEF G, V
<1>4. Kept(n, Inv, G)
  BY <1>3 DEF n, Kept
<1>5. PICK f : Run(f, n, V, NotYet(query), Inv, G)
  BY <1>2, <1>3, <1>4, Rounds
<1>6. f = Def(f)
  <2>1. \A i \in 0..n : f[i] = IF i = 0 THEN NotYet(query) ELSE Track(query, f[i - 1], es[i])
    BY <1>2, <1>3, <1>5 DEF Run
  <2> QED BY <1>5, <2>1 DEF Run
<1>7. up = Def(up)
  BY <1>6
<1>8. up[0] = NotYet(query) /\ \A i \in 1..n : up[i] = Track(query, up[i - 1], es[i])
  BY <1>2, <1>7
<1> HIDE DEF up
<1>9. \A i \in 0..n : up[i] \in Inv[i]
  <2>1. up[0] \in Inv[0] /\ \A i \in 1..n : up[i - 1] \in Inv[i - 1] => up[i] \in Inv[i]
    BY <1>8 DEF n
  <2> QED BY <1>2, <2>1, FamilyInduction
<1> QED BY <1>1, <1>2, <1>9 DEF n

\* What acc says of the first i edges: its windows are what is tracked up to its
\* cursor, and it has what holds from there on.
Tracking(es, q, acc, i) ==
  /\ acc \in [tracked : BOOLEAN, cursor : Nat, windows : Seq(W)]
  /\ q.start <= acc.cursor /\ acc.cursor < q.end
  /\ acc.cursor = q.start \/ \E k \in 1..i : acc.cursor = es[k].at
  /\ \A t \in Nat : Covers(acc.windows, t) <=>
       q.start <= t /\ t < acc.cursor /\ Tracks(es, i, t)
  /\ \A t \in Nat : acc.cursor <= t /\ t < q.end => (Tracks(es, i, t) <=> acc.tracked)

\* A window after the others
LEMMA AppendCovers ==
  ASSUME NEW m \in Seq(W), NEW w \in W
  PROVE  /\ Append(m, w) \in Seq(W)
         /\ \A t : Covers(Append(m, w), t) <=> Covers(m, t) \/ In(t, w)
<1> DEFINE n == Len(m)
           u == Append(m, w)
<1>1. /\ u \in Seq(W) /\ Len(u) = n + 1 /\ n \in Nat
      /\ \A j \in 1..n : u[j] = m[j]
      /\ u[n + 1] = w
  BY AppendIs
<1> HIDE DEF n, u
<1>2. \A j \in 1..(n + 1) : j \in 1..n \/ j = n + 1
  BY <1>1
<1>3. (\A j \in 1..n : j \in 1..(n + 1)) /\ n + 1 \in 1..(n + 1)
  BY <1>1
<1>4. \A t : Covers(u, t) <=> Covers(m, t) \/ In(t, w)
  BY <1>1, <1>2, <1>3 DEF Covers, n
<1> QED BY <1>1, <1>4 DEF u

\* One edge more
LEMMA TracksStep ==
  ASSUME NEW es, NEW i \in Nat \ {0}, es[i] \in Edge, NEW t \in Nat
  PROVE  /\ t < es[i].at => (Tracks(es, i, t) <=> Tracks(es, i - 1, t))
         /\ es[i].at <= t => (Tracks(es, i, t) <=> es[i].tracked)
<1>1. es[i].at \in Nat
  BY DEF Edge
<1>2. t < es[i].at => ~(es[i].at <= t)
  BY <1>1
<1>3. ASSUME NEW x
      PROVE  /\ ~(es[i].at <= t) => (Tops(es, i, Edge, t, x) <=> Tops(es, i - 1, Edge, t, x))
             /\ es[i].at <= t => (Tops(es, i, Edge, t, x) <=> x = es[i])
  BY TopsStep
<1> QED BY <1>2, <1>3 DEF Tracks

LEMMA TrackIs ==
  ASSUME NEW es \in Seq(Edge), TimeOrdered(es), NEW q \in W, NEW i \in 1..Len(es),
         NEW acc, Tracking(es, q, acc, i - 1)
  PROVE  Tracking(es, q, Track(q, acc, es[i]), i)
<1> DEFINE e == es[i]
           next == Track(q, acc, e)
           S == [tracked : BOOLEAN, cursor : Nat, windows : Seq(W)]
<1>1. /\ Len(es) \in Nat /\ i \in Nat \ {0}
      /\ \A k \in 1..(i - 1) : k \in 1..i /\ k \in 1..Len(es) /\ k <= i
      /\ i \in 1..i
  OBVIOUS
<1>2. e \in Edge /\ e.at \in Nat /\ e.tracked \in BOOLEAN
  <2>1. \A x \in Edge : x.at \in Nat /\ x.tracked \in BOOLEAN
    BY DEF Edge
  <2>2. e \in Edge
    OBVIOUS
  <2> QED BY <2>1, <2>2
<1>3. q.start \in Nat /\ q.end \in Nat /\ q.start < q.end
  BY DEF W
<1>4. /\ acc \in S
      /\ acc.tracked \in BOOLEAN /\ acc.cursor \in Nat /\ acc.windows \in Seq(W)
      /\ q.start <= acc.cursor /\ acc.cursor < q.end
      /\ acc.cursor = q.start \/ \E k \in 1..(i - 1) : acc.cursor = es[k].at
      /\ \A t \in Nat : Covers(acc.windows, t) <=>
           q.start <= t /\ t < acc.cursor /\ Tracks(es, i - 1, t)
      /\ \A t \in Nat : acc.cursor <= t /\ t < q.end => (Tracks(es, i - 1, t) <=> acc.tracked)
  BY DEF Tracking
<1>5. acc.cursor = q.start \/ acc.cursor <= e.at
  BY <1>1, <1>4 DEF TimeOrdered
<1>6. \A t \in Nat : /\ t < e.at => (Tracks(es, i, t) <=> Tracks(es, i - 1, t))
                     /\ e.at <= t => (Tracks(es, i, t) <=> e.tracked)
  BY <1>1, <1>2, TracksStep
<1>7. acc.cursor = q.start \/ \E k \in 1..i : acc.cursor = es[k].at
  BY <1>1, <1>4
<1> HIDE DEF e
<1>8. CASE e.at < q.start
  <2>1. next = [acc EXCEPT !.tracked = e.tracked]
    BY <1>8 DEF Track
  <2> HIDE DEF next
  <2>2. next \in S /\ next.tracked = e.tracked /\ next.cursor = acc.cursor /\ next.windows = acc.windows
    BY <1>2, <1>4, <2>1
  <2>3. acc.cursor = q.start
    BY <1>2, <1>3, <1>4, <1>5, <1>8
  <2>4. \A t \in Nat : Covers(acc.windows, t) <=> q.start <= t /\ t < acc.cursor /\ Tracks(es, i, t)
    BY <1>3, <1>4, <2>3
  <2>5. \A t \in Nat : acc.cursor <= t /\ t < q.end => (Tracks(es, i, t) <=> e.tracked)
    BY <1>2, <1>3, <1>6, <1>8, <2>3
  <2> QED BY <1>4, <1>7, <2>2, <2>4, <2>5 DEF Tracking, next, e
<1>9. CASE e.at >= q.end
  <2>1. next = acc
    BY <1>2, <1>3, <1>9 DEF Track
  <2>2. \A t \in Nat : t < q.end => (Tracks(es, i, t) <=> Tracks(es, i - 1, t))
    BY <1>2, <1>3, <1>6, <1>9
  <2> HIDE DEF next
  <2>3. \A t \in Nat : Covers(acc.windows, t) <=> q.start <= t /\ t < acc.cursor /\ Tracks(es, i, t)
    BY <1>3, <1>4, <2>2
  <2> QED BY <1>4, <1>7, <2>1, <2>2, <2>3 DEF Tracking, next, e
<1>10. CASE e.at >= q.start /\ e.at < q.end
  <2> DEFINE w == Window(acc.cursor, e.at)
             ws == IF acc.tracked /\ e.at > acc.cursor THEN Append(acc.windows, w) ELSE acc.windows
  <2>1. acc.cursor <= e.at /\ Max2(acc.cursor, e.at) = e.at
    BY <1>2, <1>3, <1>4, <1>5, <1>10 DEF Max2
  <2>2. next = [tracked |-> e.tracked, cursor |-> e.at, windows |-> ws]
    BY <1>2, <1>3, <1>10, <2>1 DEF Track
  <2> HIDE DEF next
  <2>3. ws \in Seq(W) /\ \A t \in Nat : Covers(ws, t) <=>
          Covers(acc.windows, t) \/ (acc.tracked /\ acc.cursor <= t /\ t < e.at)
    <3>1. CASE acc.tracked /\ e.at > acc.cursor
      <4>1. w \in W /\ w.start = acc.cursor /\ w.end = e.at
        BY <1>2, <1>4, <3>1 DEF Window, W
      <4> HIDE DEF w
      <4>2. ws = Append(acc.windows, w)
        BY <3>1
      <4>3. ws \in Seq(W) /\ \A t : Covers(ws, t) <=> Covers(acc.windows, t) \/ In(t, w)
        BY <1>4, <4>1, <4>2, AppendCovers
      <4> QED BY <3>1, <4>1, <4>3 DEF In
    <3>2. CASE ~(acc.tracked /\ e.at > acc.cursor)
      <4>1. ws = acc.windows
        BY <3>2
      <4> QED BY <1>2, <1>4, <3>2, <4>1
    <3> QED BY <3>1, <3>2
  <2> HIDE DEF ws
  <2>4. /\ next \in S
        /\ next.tracked = e.tracked /\ next.cursor = e.at /\ next.windows = ws
    BY <1>2, <2>2, <2>3
  <2>5. ASSUME NEW t \in Nat
        PROVE  Covers(ws, t) <=> q.start <= t /\ t < e.at /\ Tracks(es, i, t)
    <3>1. CASE t < acc.cursor
      BY <1>2, <1>3, <1>4, <1>6, <2>1, <2>3, <3>1
    <3>2. CASE acc.cursor <= t /\ t < e.at
      <4>1. Tracks(es, i, t) <=> acc.tracked
        BY <1>2, <1>3, <1>4, <1>6, <1>10, <3>2
      <4>2. ~Covers(acc.windows, t)
        BY <1>4, <3>2
      <4> QED BY <1>3, <1>4, <2>3, <3>2, <4>1, <4>2
    <3>3. CASE e.at <= t
      <4>1. ~Covers(acc.windows, t)
        BY <1>2, <1>4, <2>1, <3>3
      <4> QED BY <1>2, <2>3, <3>3, <4>1
    <3> QED BY <1>2, <1>4, <3>1, <3>2, <3>3
  <2>6. \A t \in Nat : e.at <= t /\ t < q.end => (Tracks(es, i, t) <=> e.tracked)
    BY <1>6
  <2>7. e.at = q.start \/ \E k \in 1..i : e.at = es[k].at
    BY <1>1 DEF e
  <2> QED BY <1>10, <2>4, <2>5, <2>6, <2>7 DEF Tracking, next, e
<1> QED BY <1>2, <1>3, <1>8, <1>9, <1>10

\* The tracked windows are the instants of the range at which the last edge tracks.
LEMMA TrackingIs ==
  ASSUME NEW es \in Seq(Edge), TimeOrdered(es), NEW q \in W
  PROVE  /\ TrackingWindows(es, q) \in Seq(W)
         /\ \A t \in Nat : Covers(TrackingWindows(es, q), t) <=> In(t, q) /\ Tracks(es, Len(es), t)
<1> DEFINE n == Len(es)
           V == [tracked : BOOLEAN, cursor : Nat, windows : Seq(W)]
           Inv == [i \in 0..n |-> {acc \in V : Tracking(es, q, acc, i)}]
<1>1. n \in Nat
  OBVIOUS
<1>2. q.start \in Nat /\ q.end \in Nat /\ q.start < q.end
  BY DEF W
<1>3. Tracking(es, q, NotYet(q), 0)
  <2>1. <<>> \in Seq(W)
    OBVIOUS
  <2>2. NotYet(q) \in V /\ NotYet(q).tracked = FALSE /\ NotYet(q).cursor = q.start /\ NotYet(q).windows = <<>>
    BY <1>2, <2>1 DEF NotYet
  <2>3. \A t : ~Tracks(es, 0, t)
    BY DEF Tracks, Tops
  <2>4. \A t : ~Covers(<<>>, t)
    BY DEF Covers
  <2> QED BY <1>2, <2>2, <2>3, <2>4 DEF Tracking
<1>4. ASSUME NEW i \in 1..n, NEW acc \in Inv[i - 1]
      PROVE  Track(q, acc, es[i]) \in Inv[i]
  <2>1. i - 1 \in 0..n /\ i \in 0..n
    BY <1>1
  <2>2. Tracking(es, q, acc, i - 1)
    BY <2>1
  <2>3. Tracking(es, q, Track(q, acc, es[i]), i)
    BY <2>2, TrackIs
  <2>4. Track(q, acc, es[i]) \in V
    BY <2>3 DEF Tracking
  <2> QED BY <2>1, <2>3, <2>4
<1>5. NotYet(q) \in Inv[0]
  BY <1>1, <1>3 DEF Tracking
<1>6. n \in 0..n
  BY <1>1
<1>7. PICK last \in Inv[n] : TrackingWindows(es, q) = MergeWindows(Open(q, last))
  <2> HIDE DEF Inv
  <2> QED BY <1>1, <1>4, <1>5, TrackRule DEF n
<1>8. Tracking(es, q, last, n)
  BY <1>6, <1>7
<1>9. /\ last.tracked \in BOOLEAN /\ last.cursor \in Nat /\ last.windows \in Seq(W)
      /\ q.start <= last.cursor /\ last.cursor < q.end
      /\ \A t \in Nat : Covers(last.windows, t) <=>
           q.start <= t /\ t < last.cursor /\ Tracks(es, n, t)
      /\ \A t \in Nat : last.cursor <= t /\ t < q.end => (Tracks(es, n, t) <=> last.tracked)
  BY <1>8 DEF Tracking
<1> DEFINE ws == Open(q, last)
<1>10. ws \in Seq(W) /\ \A t \in Nat : Covers(ws, t) <=>
         Covers(last.windows, t) \/ (last.tracked /\ last.cursor <= t /\ t < q.end)
  <2>1. CASE last.tracked
    <3> DEFINE w == Window(last.cursor, q.end)
    <3>1. w \in W /\ w.start = last.cursor /\ w.end = q.end
      BY <1>2, <1>9 DEF Window, W
    <3>2. ws = Append(last.windows, w)
      BY <1>2, <1>9, <2>1 DEF Open
    <3> HIDE DEF w, ws
    <3>3. ws \in Seq(W) /\ \A t : Covers(ws, t) <=> Covers(last.windows, t) \/ In(t, w)
      BY <1>9, <3>1, <3>2, AppendCovers
    <3> QED BY <2>1, <3>1, <3>3 DEF In
  <2>2. CASE ~last.tracked
    <3>1. ws = last.windows
      BY <2>2 DEF Open
    <3> QED BY <1>9, <2>2, <3>1
  <2> QED BY <2>1, <2>2
<1> HIDE DEF ws
<1>11. \A t \in Nat : Covers(ws, t) <=> In(t, q) /\ Tracks(es, n, t)
  <2> SUFFICES ASSUME NEW t \in Nat
               PROVE  Covers(ws, t) <=> q.start <= t /\ t < q.end /\ Tracks(es, n, t)
    BY DEF In
  <2>1. CASE t < last.cursor
    BY <1>2, <1>9, <1>10, <2>1
  <2>2. CASE last.cursor <= t
    BY <1>2, <1>9, <1>10, <2>2
  <2> QED BY <1>9, <2>1, <2>2
<1>12. /\ MergeWindows(ws) \in Seq(W)
       /\ \A t \in Nat : Covers(MergeWindows(ws), t) <=> Covers(ws, t)
  BY <1>10, MergedIs
<1> QED BY <1>7, <1>11, <1>12 DEF ws, n

-----------------------------------------------------------------------------
(* Spans                                                                    *)

Word == {r.status : r \in Report} \cup {"offline"}

Spn == {s \in [start : Nat, end : Nat, status : Word, place : Place] : s.start < s.end}

View(s) == [status |-> s.status, place |-> s.place]

\* A span says v of the instant t.
Has(spans, t, v) == \E a \in 1..Len(spans) : In(t, spans[a]) /\ View(spans[a]) = v

\* Spans in order
Chain(spans) == \A a, b \in 1..Len(spans) : a < b => spans[a].end <= spans[b].start

LEMMA SpansAre ==
  ASSUME NEW s \in Spn
  PROVE  /\ s \in [start : Nat, end : Nat, status : Word, place : Place]
         /\ s.start \in Nat /\ s.end \in Nat /\ s.start < s.end
         /\ s.status \in Word /\ s.place \in Place
<1> HIDE DEF Word, Place
<1> QED BY DEF Spn

LEMMA ViewIs ==
  ASSUME NEW a, NEW b
  PROVE  View(a) = View(b) <=> a.status = b.status /\ a.place = b.place
<1>1. /\ View(a).status = a.status /\ View(a).place = a.place
      /\ View(b).status = b.status /\ View(b).place = b.place
  BY DEF View
<1>2. a.status = b.status /\ a.place = b.place => View(a) = View(b)
  BY DEF View
<1> QED BY <1>1, <1>2

LEMMA ChainConcat ==
  ASSUME NEW u \in Seq(Spn), Chain(u), NEW w \in Seq(Spn), Chain(w),
         \A a \in 1..Len(u), b \in 1..Len(w) : u[a].end <= w[b].start
  PROVE  /\ u \o w \in Seq(Spn) /\ Chain(u \o w)
         /\ \A t, v : Has(u \o w, t, v) <=> Has(u, t, v) \/ Has(w, t, v)
<1> DEFINE c == u \o w
           m == Len(u)
           n == Len(w)
<1>1. /\ c \in Seq(Spn) /\ Len(c) = m + n
      /\ m \in Nat /\ n \in Nat
      /\ \A j \in 1..m : c[j] = u[j]
      /\ \A j \in 1..n : c[m + j] = w[j]
  BY ConcatIs
<1>2. /\ \A a, b \in 1..m : a < b => u[a].end <= u[b].start
      /\ \A a, b \in 1..n : a < b => w[a].end <= w[b].start
      /\ \A a \in 1..m, b \in 1..n : u[a].end <= w[b].start
  BY DEF Chain
<1>3. \A t, v : /\ Has(u, t, v) <=> \E a \in 1..m : In(t, u[a]) /\ View(u[a]) = v
                /\ Has(w, t, v) <=> \E a \in 1..n : In(t, w[a]) /\ View(w[a]) = v
                /\ Has(c, t, v) <=> \E a \in 1..Len(c) : In(t, c[a]) /\ View(c[a]) = v
  BY DEF Has
<1> HIDE DEF c, m, n
\* Where a span of both comes from
<1>4. ASSUME NEW a \in 1..(m + n)
      PROVE  \/ a \in 1..m /\ c[a] = u[a]
             \/ \E j \in 1..n : a = m + j /\ c[a] = w[j]
  <2>1. CASE a \in 1..m
    BY <1>1, <2>1
  <2>2. CASE a \notin 1..m
    <3> DEFINE j == a - m
    <3>1. j \in 1..n /\ a = m + j
      BY <1>1, <2>2
    <3> HIDE DEF j
    <3> QED BY <1>1, <3>1
  <2> QED BY <2>1, <2>2
<1>5. ASSUME NEW a \in 1..(m + n), NEW b \in 1..(m + n), a < b
      PROVE  c[a].end <= c[b].start
  <2>1. CASE b \in 1..m /\ c[b] = u[b]
    <3>1. a \in 1..m
      BY <1>1, <1>5, <2>1
    <3> QED BY <1>1, <1>2, <1>5, <2>1, <3>1
  <2>2. CASE \E j \in 1..n : b = m + j /\ c[b] = w[j]
    <3>1. PICK j \in 1..n : b = m + j /\ c[b] = w[j]
      BY <2>2
    <3>2. CASE a \in 1..m /\ c[a] = u[a]
      BY <1>2, <3>1, <3>2
    <3>3. CASE \E k \in 1..n : a = m + k /\ c[a] = w[k]
      <4>1. PICK k \in 1..n : a = m + k /\ c[a] = w[k]
        BY <3>3
      <4>2. k < j
        BY <1>1, <1>5, <3>1, <4>1
      <4> QED BY <1>2, <3>1, <4>1, <4>2
    <3> QED BY <1>4, <3>2, <3>3
  <2> QED BY <1>4, <2>1, <2>2
<1>6. Chain(c)
  BY <1>1, <1>5 DEF Chain
<1>7. ASSUME NEW t, NEW v
      PROVE  Has(c, t, v) <=> Has(u, t, v) \/ Has(w, t, v)
  <2>1. Has(c, t, v) => Has(u, t, v) \/ Has(w, t, v)
    BY <1>1, <1>3, <1>4
  <2>2. Has(u, t, v) => Has(c, t, v)
    <3>1. \A a \in 1..m : a \in 1..(m + n)
      BY <1>1
    <3> QED BY <1>1, <1>3, <3>1
  <2>3. Has(w, t, v) => Has(c, t, v)
    <3> SUFFICES ASSUME NEW a \in 1..n, In(t, w[a]), View(w[a]) = v
                 PROVE  Has(c, t, v)
      BY <1>3
    <3> DEFINE b == m + a
    <3>1. b \in 1..(m + n) /\ c[b] = w[a]
      BY <1>1
    <3> HIDE DEF b
    <3> QED BY <1>1, <1>3, <3>1
  <2> QED BY <2>1, <2>2, <2>3
<1> QED BY <1>1, <1>6, <1>7 DEF c

\* A span has an instant, its last one.
LEMMA HasEnd ==
  ASSUME NEW u \in Seq(Spn), NEW a \in 1..Len(u)
  PROVE  /\ u[a] \in Spn /\ u[a].end - 1 \in Nat /\ Has(u, u[a].end - 1, View(u[a]))
         /\ u[a].start \in Nat /\ u[a].end \in Nat /\ u[a].start < u[a].end
         /\ Has(u, u[a].start, View(u[a]))
<1>1. u[a] \in Spn
  OBVIOUS
<1> DEFINE s == u[a]
           x == s.end - 1
           y == s.start
<1>2. s.start \in Nat /\ s.end \in Nat /\ s.start < s.end
  BY <1>1, SpansAre
<1>3. x \in Nat /\ In(x, s) /\ In(y, s)
  BY <1>2 DEF In
<1> HIDE DEF x, y
<1>4. Has(u, x, View(s)) /\ Has(u, y, View(s))
  BY <1>3 DEF Has
<1> QED BY <1>1, <1>2, <1>3, <1>4 DEF x, y

LEMMA SingleIs ==
  ASSUME NEW s \in Spn
  PROVE  /\ <<s>> \in Seq(Spn) /\ Chain(<<s>>) /\ Len(<<s>>) = 1 /\ <<s>>[1] = s
         /\ \A t, v : Has(<<s>>, t, v) <=> In(t, s) /\ View(s) = v
<1> DEFINE u == <<s>>
<1>1. u \in Seq(Spn) /\ Len(u) = 1 /\ u[1] = s
  OBVIOUS
<1> HIDE DEF u
<1>2. (\A a \in 1..1 : a = 1) /\ 1 \in 1..1 /\ ~(1 < 1)
  OBVIOUS
<1>3. Chain(u)
  BY <1>1, <1>2 DEF Chain
<1>4. \A t, v : Has(u, t, v) <=> In(t, s) /\ View(s) = v
  BY <1>1, <1>2 DEF Has
<1> QED BY <1>1, <1>3, <1>4 DEF u

LEMMA NoneIs == <<>> \in Seq(Spn) /\ Chain(<<>>) /\ \A t, v : ~Has(<<>>, t, v)
BY DEF Chain, Has

\* A span after the others
LEMMA ChainAppend ==
  ASSUME NEW u \in Seq(Spn), Chain(u), NEW s \in Spn,
         \A a \in 1..Len(u) : u[a].end <= s.start
  PROVE  /\ Append(u, s) \in Seq(Spn) /\ Chain(Append(u, s))
         /\ \A t, v : Has(Append(u, s), t, v) <=> Has(u, t, v) \/ (In(t, s) /\ View(s) = v)
<1> DEFINE w == <<s>>
<1>1. Append(u, s) = u \o w
  OBVIOUS
<1>2. /\ w \in Seq(Spn) /\ Chain(w) /\ Len(w) = 1 /\ w[1] = s
      /\ \A t, v : Has(w, t, v) <=> In(t, s) /\ View(s) = v
  BY SingleIs
<1> HIDE DEF w
<1>3. \A a \in 1..Len(u), b \in 1..Len(w) : u[a].end <= w[b].start
  <2>1. \A b \in 1..1 : b = 1
    OBVIOUS
  <2> QED BY <1>2, <2>1
<1>4. /\ u \o w \in Seq(Spn) /\ Chain(u \o w)
      /\ \A t, v : Has(u \o w, t, v) <=> Has(u, t, v) \/ Has(w, t, v)
  BY <1>2, <1>3, ChainConcat
<1> QED BY <1>1, <1>2, <1>4

-----------------------------------------------------------------------------
(* Presence states                                                          *)

\* What the first n reports say of a person at t
Says(p, s, n, t, v) ==
  \/ \E x : Tops(s, n, Plain, t, x) /\ v = Shown(p, x)
  \/ v = Unknown /\ \A x : ~Tops(s, n, Plain, t, x)

LEMMA SaysOne ==
  ASSUME NEW p, NEW s, NEW n \in Nat, NEW t
  PROVE  /\ \A v, w : Says(p, s, n, t, v) /\ Says(p, s, n, t, w) => v = w
         /\ \E v : Says(p, s, n, t, v)
<1>1. \A x, y : Tops(s, n, Plain, t, x) /\ Tops(s, n, Plain, t, y) => x = y
  BY TopsUnique
<1> QED BY <1>1 DEF Says

LEMMA ShownIs ==
  ASSUME NEW p, NEW e \in Event
  PROVE  /\ EffectiveState(p, e.status, e.place) \in Word
         /\ e.place \in Place /\ e.at \in Nat
<1>1. e.status \in {r.status : r \in Report} /\ e.place \in Place /\ e.at \in Nat
  <2> HIDE DEF Place
  <2> QED BY DEF Event
<1> QED BY <1>1 DEF EffectiveState, Word

\* One report more
LEMMA SaysStep ==
  ASSUME NEW p, NEW es, NEW i \in Nat \ {0}, es[i] \in Event, NEW t \in Nat
  PROVE  /\ es[i].anomaly \/ t < es[i].at =>
              \A v : Says(p, es, i, t, v) <=> Says(p, es, i - 1, t, v)
         /\ ~es[i].anomaly /\ es[i].at <= t =>
              \A v : Says(p, es, i, t, v) <=> v = Shown(p, es[i])
<1>1. es[i].at \in Nat
  BY ShownIs
<1>2. t < es[i].at => ~(es[i].at <= t)
  BY <1>1
<1>3. es[i] \in Plain <=> ~es[i].anomaly
  BY DEF Plain
<1>4. ASSUME NEW x
      PROVE  /\ es[i] \notin Plain \/ ~(es[i].at <= t) =>
                  (Tops(es, i, Plain, t, x) <=> Tops(es, i - 1, Plain, t, x))
             /\ es[i] \in Plain /\ es[i].at <= t => (Tops(es, i, Plain, t, x) <=> x = es[i])
  BY TopsStep
<1>5. ASSUME es[i].anomaly \/ t < es[i].at
      PROVE  \A v : Says(p, es, i, t, v) <=> Says(p, es, i - 1, t, v)
  <2>1. \A x : Tops(es, i, Plain, t, x) <=> Tops(es, i - 1, Plain, t, x)
    BY <1>2, <1>3, <1>4, <1>5
  <2> QED BY <2>1 DEF Says
<1>6. ASSUME ~es[i].anomaly, es[i].at <= t
      PROVE  \A v : Says(p, es, i, t, v) <=> v = Shown(p, es[i])
  <2>1. \A x : Tops(es, i, Plain, t, x) <=> x = es[i]
    BY <1>3, <1>4, <1>6
  <2> QED BY <2>1 DEF Says
<1> QED BY <1>5, <1>6

\* What acc says of the first i reports: its states are what they say up to its
\* cursor, and it has what they say from there on.
Reporting(p, es, q, acc, i) ==
  /\ acc \in [status : Word, place : Place, cursor : Nat, states : Seq(Spn)]
  /\ q.start <= acc.cursor /\ acc.cursor < q.end
  /\ acc.cursor = q.start \/ \E k \in 1..i : acc.cursor = es[k].at
  /\ Chain(acc.states)
  /\ \A t \in Nat : \A v : Has(acc.states, t, v) <=>
       q.start <= t /\ t < acc.cursor /\ Says(p, es, i, t, v)
  /\ \A t \in Nat : \A v : acc.cursor <= t /\ t < q.end =>
       (Says(p, es, i, t, v) <=> v = View(acc))

\* A state after the others
LEMMA StateIs ==
  ASSUME NEW u \in Seq(Spn), Chain(u), NEW acc, acc.status \in Word, acc.place \in Place,
         NEW from \in Nat, NEW to \in Nat, from < to,
         \A t \in Nat : \A v : Has(u, t, v) => t < from
  PROVE  /\ Append(u, State(from, to, acc)) \in Seq(Spn)
         /\ Chain(Append(u, State(from, to, acc)))
         /\ \A t, v : Has(Append(u, State(from, to, acc)), t, v) <=>
                        Has(u, t, v) \/ (from <= t /\ t < to /\ v = View(acc))
<1> DEFINE s == State(from, to, acc)
<1> HIDE DEF Word, Place
<1>1. /\ s \in [start : Nat, end : Nat, status : Word, place : Place]
      /\ s.start = from /\ s.end = to /\ s.status = acc.status /\ s.place = acc.place
  BY DEF State
<1> HIDE DEF s
<1>2. s \in Spn /\ View(s) = View(acc) /\ \A t : In(t, s) <=> from <= t /\ t < to
  BY <1>1, ViewIs DEF Spn, In
<1>3. ASSUME NEW a \in 1..Len(u)
      PROVE  u[a].end <= s.start
  <2>1. u[a].end - 1 \in Nat /\ Has(u, u[a].end - 1, View(u[a])) /\ u[a].end \in Nat
    BY HasEnd
  <2>2. u[a].end - 1 < from
    BY <2>1
  <2> QED BY <1>1, <2>1, <2>2
<1>4. /\ Append(u, s) \in Seq(Spn) /\ Chain(Append(u, s))
      /\ \A t, v : Has(Append(u, s), t, v) <=> Has(u, t, v) \/ (In(t, s) /\ View(s) = v)
  BY <1>2, <1>3, ChainAppend
<1> QED BY <1>2, <1>4 DEF s

LEMMA ReportIs ==
  ASSUME NEW p, NEW es \in Seq(Event), TimeOrdered(es), NEW q \in W, NEW i \in 1..Len(es),
         NEW acc, Reporting(p, es, q, acc, i - 1)
  PROVE  Reporting(p, es, q, Reported(p, q, acc, es[i]), i)
<1> DEFINE e == es[i]
           told == EffectiveState(p, e.status, e.place)
           done == Reported(p, q, acc, e)
           S == [status : Word, place : Place, cursor : Nat, states : Seq(Spn)]
<1>1. /\ Len(es) \in Nat /\ i \in Nat \ {0}
      /\ \A k \in 1..(i - 1) : k \in 1..i /\ k \in 1..Len(es) /\ k <= i
      /\ i \in 1..i
  OBVIOUS
<1>2. e \in Event /\ e.at \in Nat /\ told \in Word /\ e.place \in Place
  <2>1. e \in Event
    OBVIOUS
  <2> QED BY <2>1, ShownIs
<1>3. q.start \in Nat /\ q.end \in Nat /\ q.start < q.end
  BY DEF W
<1>4. /\ acc \in S
      /\ q.start <= acc.cursor /\ acc.cursor < q.end
      /\ acc.cursor = q.start \/ \E k \in 1..(i - 1) : acc.cursor = es[k].at
      /\ Chain(acc.states)
      /\ \A t \in Nat : \A v : Has(acc.states, t, v) <=>
           q.start <= t /\ t < acc.cursor /\ Says(p, es, i - 1, t, v)
      /\ \A t \in Nat : \A v : acc.cursor <= t /\ t < q.end =>
           (Says(p, es, i - 1, t, v) <=> v = View(acc))
  BY DEF Reporting
<1>5. acc.status \in Word /\ acc.place \in Place /\ acc.cursor \in Nat /\ acc.states \in Seq(Spn)
  <2> HIDE DEF Word, Place
  <2> QED BY <1>4
<1>6. acc.cursor = q.start \/ acc.cursor <= e.at
  BY <1>1, <1>4 DEF TimeOrdered
<1>7. \A t \in Nat : /\ e.anomaly \/ t < e.at =>
                          \A v : Says(p, es, i, t, v) <=> Says(p, es, i - 1, t, v)
                     /\ ~e.anomaly /\ e.at <= t =>
                          \A v : Says(p, es, i, t, v) <=> v = Shown(p, e)
  BY <1>1, <1>2, SaysStep
<1>8. acc.cursor = q.start \/ \E k \in 1..i : acc.cursor = es[k].at
  BY <1>1, <1>4
<1>9. Shown(p, e) = [status |-> told, place |-> e.place]
  BY DEF Shown
<1> HIDE DEF e, told
<1>10. CASE e.anomaly \/ e.at >= q.end
  <2>1. done = acc
    BY <1>10 DEF Reported
  <2>2. \A t \in Nat : \A v : t < q.end => (Says(p, es, i, t, v) <=> Says(p, es, i - 1, t, v))
    BY <1>2, <1>3, <1>7, <1>10
  <2> HIDE DEF done
  <2>3. \A t \in Nat : \A v : Has(acc.states, t, v) <=>
          q.start <= t /\ t < acc.cursor /\ Says(p, es, i, t, v)
    BY <1>3, <1>4, <1>5, <2>2
  <2>4. \A t \in Nat : \A v : acc.cursor <= t /\ t < q.end =>
          (Says(p, es, i, t, v) <=> v = View(acc))
    BY <1>4, <2>2
  <2> QED BY <1>4, <1>8, <2>1, <2>3, <2>4 DEF Reporting, done, e
<1>11. CASE ~e.anomaly /\ e.at < q.start
  <2>1. done = [acc EXCEPT !.status = told, !.place = e.place]
    BY <1>2, <1>3, <1>11 DEF Reported, told
  <2> HIDE DEF done
  <2>2. /\ done \in S /\ done.status = told /\ done.place = e.place
        /\ done.cursor = acc.cursor /\ done.states = acc.states
    <3> HIDE DEF Word, Place
    <3> QED BY <1>2, <1>4, <2>1
  <2>3. acc.cursor = q.start
    <3>1. q.start <= acc.cursor
      BY <1>4
    <3> QED BY <1>2, <1>3, <1>5, <1>6, <1>11, <3>1
  <2>4. \A t \in Nat : \A v : Has(acc.states, t, v) <=>
          q.start <= t /\ t < acc.cursor /\ Says(p, es, i, t, v)
    BY <1>3, <1>4, <2>3
  <2>5. View(done) = Shown(p, e)
    BY <1>9, <2>2 DEF View
  <2>6. \A t \in Nat : \A v : acc.cursor <= t /\ t < q.end =>
          (Says(p, es, i, t, v) <=> v = View(done))
    BY <1>2, <1>3, <1>7, <1>11, <2>3, <2>5
  <2> QED BY <1>4, <1>8, <2>2, <2>4, <2>6 DEF Reporting, done, e
<1>12. CASE ~e.anomaly /\ e.at >= q.start /\ e.at < q.end
  <2> DEFINE ss == IF e.at > acc.cursor
                   THEN Append(acc.states, State(acc.cursor, e.at, acc)) ELSE acc.states
  <2>1. acc.cursor <= e.at /\ Max2(acc.cursor, e.at) = e.at
    BY <1>2, <1>3, <1>5, <1>6, <1>12 DEF Max2
  <2>2. done = [acc EXCEPT !.status = told, !.place = e.place, !.cursor = e.at, !.states = ss]
    <3> DEFINE next == [acc EXCEPT !.status = told, !.place = e.place]
    <3>1. done = [next EXCEPT !.cursor = Max2(@, e.at),
                              !.states = IF e.at > acc.cursor
                                         THEN Append(@, State(acc.cursor, e.at, acc)) ELSE @]
      <4> HIDE DEF S
      <4> QED BY <1>2, <1>3, <1>12 DEF Reported, told
    <3> HIDE DEF done
    <3>2. next \in S /\ next.cursor = acc.cursor /\ next.states = acc.states
      <4> HIDE DEF Word, Place
      <4> QED BY <1>2, <1>4
    <3> HIDE DEF next
    <3>3. done = [next EXCEPT !.cursor = e.at, !.states = ss]
      BY <2>1, <3>1, <3>2
    <3> HIDE DEF ss
    <3> QED BY <1>2, <1>4, <3>3 DEF next
  <2> HIDE DEF done
  <2>3. ss \in Seq(Spn) /\ Chain(ss) /\ \A t \in Nat : \A v : Has(ss, t, v) <=>
          Has(acc.states, t, v) \/ (acc.cursor <= t /\ t < e.at /\ v = View(acc))
    <3>1. CASE e.at > acc.cursor
      <4>1. ss = Append(acc.states, State(acc.cursor, e.at, acc))
        BY <3>1
      <4>2. \A t \in Nat : \A v : Has(acc.states, t, v) => t < acc.cursor
        BY <1>4
      <4>3. acc.cursor < e.at
        BY <1>2, <1>5, <3>1
      <4> HIDE DEF ss
      <4> QED BY <1>2, <1>4, <1>5, <4>1, <4>2, <4>3, StateIs
    <3>2. CASE ~(e.at > acc.cursor)
      <4>1. ss = acc.states
        BY <3>2
      <4>2. \A t \in Nat : ~(acc.cursor <= t /\ t < e.at)
        BY <1>2, <1>5, <3>2
      <4> QED BY <1>4, <1>5, <4>1, <4>2
    <3> QED BY <3>1, <3>2
  <2> HIDE DEF ss
  <2>4. /\ done \in S /\ done.status = told /\ done.place = e.place
        /\ done.cursor = e.at /\ done.states = ss
    <3> HIDE DEF Word, Place
    <3> QED BY <1>2, <1>4, <2>2, <2>3
  <2>5. ASSUME NEW t \in Nat, NEW v
        PROVE  Has(ss, t, v) <=> q.start <= t /\ t < e.at /\ Says(p, es, i, t, v)
    <3>1. CASE t < acc.cursor
      BY <1>2, <1>3, <1>4, <1>5, <1>7, <2>1, <2>3, <3>1
    <3>2. CASE acc.cursor <= t /\ t < e.at
      <4>1. Says(p, es, i, t, v) <=> v = View(acc)
        BY <1>2, <1>3, <1>4, <1>7, <1>12, <3>2
      <4>2. ~Has(acc.states, t, v)
        BY <1>4, <1>5, <3>2
      <4> QED BY <1>3, <1>4, <1>5, <2>3, <3>2, <4>1, <4>2
    <3>3. CASE e.at <= t
      <4>1. ~Has(acc.states, t, v)
        BY <1>2, <1>4, <1>5, <2>1, <3>3
      <4> QED BY <1>2, <2>3, <3>3, <4>1
    <3> QED BY <1>2, <1>5, <3>1, <3>2, <3>3
  <2>6. View(done) = Shown(p, e)
    BY <1>9, <2>4 DEF View
  <2>7. \A t \in Nat : \A v : e.at <= t /\ t < q.end => (Says(p, es, i, t, v) <=> v = View(done))
    BY <1>7, <1>12, <2>6
  <2>8. e.at = q.start \/ \E k \in 1..i : e.at = es[k].at
    BY <1>1 DEF e
  <2> QED BY <1>12, <2>3, <2>4, <2>5, <2>7, <2>8 DEF Reporting, done, e
<1> QED BY <1>2, <1>3, <1>10, <1>11, <1>12

Silent(query) ==
  [status |-> "offline", place |-> Hidden, cursor |-> query.start, states |-> <<>>]

\* The states when the last report has been read
Finished(query, last) ==
  IF query.end > last.cursor
  THEN Append(last.states, State(last.cursor, query.end, last)) ELSE last.states

LEMMA ReportRule ==
  ASSUME NEW who,
         NEW es,
         NEW query,
         Len(es) \in Nat, NEW Inv, Silent(query) \in Inv[0],
         \A i \in 1..Len(es) : \A v \in Inv[i - 1] : Reported(who, query, v, es[i]) \in Inv[i]
  PROVE  \E last \in Inv[Len(es)] : PresenceStates(who, es, query) = Finished(query, last)
<1> DEFINE n == Len(es)
           V == UNION {Inv[i] : i \in 0..n}
           G == [p \in V \X (1..n) |-> Reported(who, query, p[1], es[p[2]])]
           Def(f) == [i \in 0..n |-> IF i = 0 THEN Silent(query)
                                    ELSE Reported(who, query, f[i - 1], es[i])]
           up == CHOOSE f : f = Def(f)
<1>1. PresenceStates(who, es, query) = Finished(query, up[n])
  BY DEF PresenceStates, Loop, Silent, Finished
<1> HIDE DEF n
<1>2. /\ n \in Nat /\ \A i \in 0..n : i # 0 => i \in 1..n
      /\ 0 \in 0..n /\ \A i \in 1..n : i \in 0..n /\ i # 0 /\ i - 1 \in 0..n
  BY DEF n
<1>3. Within(n, Inv, V) /\ \A i \in 1..n : \A v \in Inv[i - 1] : G[<<v, i>>] = Reported(who, query, v, es[i])
  BY <1>2 DEF Within
<1> HIDE DEF G, V
<1>4. Kept(n, Inv, G)
  BY <1>3 DEF n, Kept
<1>5. PICK f : Run(f, n, V, Silent(query), Inv, G)
  BY <1>2, <1>3, <1>4, Rounds
<1>6. f = Def(f)
  <2>1. \A i \in 0..n : f[i] = IF i = 0 THEN Silent(query) ELSE Reported(who, query, f[i - 1], es[i])
    BY <1>2, <1>3, <1>5 DEF Run
  <2> QED BY <1>5, <2>1 DEF Run
<1>7. up = Def(up)
  BY <1>6
<1>8. up[0] = Silent(query) /\ \A i \in 1..n : up[i] = Reported(who, query, up[i - 1], es[i])
  BY <1>2, <1>7
<1> HIDE DEF up
<1>9. \A i \in 0..n : up[i] \in Inv[i]
  <2>1. up[0] \in Inv[0] /\ \A i \in 1..n : up[i - 1] \in Inv[i - 1] => up[i] \in Inv[i]
    BY <1>8 DEF n
  <2> QED BY <1>2, <2>1, FamilyInduction
<1> QED BY <1>1, <1>2, <1>9 DEF n

\* The states of a person are what the reports say at each instant of the range.
LEMMA StatesAre ==
  ASSUME NEW p, NEW es \in Seq(Event), TimeOrdered(es), NEW q \in W
  PROVE  /\ PresenceStates(p, es, q) \in Seq(Spn) /\ Chain(PresenceStates(p, es, q))
         /\ \A t \in Nat : \A v :
              Has(PresenceStates(p, es, q), t, v) <=> In(t, q) /\ Says(p, es, Len(es), t, v)
<1> DEFINE n == Len(es)
           V == [status : Word, place : Place, cursor : Nat, states : Seq(Spn)]
           Inv == [i \in 0..n |-> {acc \in V : Reporting(p, es, q, acc, i)}]
<1>1. n \in Nat
  OBVIOUS
<1>2. q.start \in Nat /\ q.end \in Nat /\ q.start < q.end
  BY DEF W
<1>3. Reporting(p, es, q, Silent(q), 0)
  <2>1. <<>> \in Seq(Spn) /\ Chain(<<>>) /\ \A t, v : ~Has(<<>>, t, v)
    BY NoneIs
  <2>2. "offline" \in Word /\ Hidden \in Place
    BY DEF Word, Place
  <2>3. Silent(q) \in V /\ Silent(q).cursor = q.start /\ Silent(q).states = <<>>
    <3> HIDE DEF Word, Place
    <3> QED BY <1>2, <2>1, <2>2 DEF Silent
  <2>4. View(Silent(q)) = Unknown
    BY DEF View, Silent, Unknown
  <2>5. \A t, v : Says(p, es, 0, t, v) <=> v = Unknown
    BY DEF Says, Tops
  <2> QED BY <1>2, <2>1, <2>3, <2>4, <2>5 DEF Reporting
<1>4. ASSUME NEW i \in 1..n, NEW acc \in Inv[i - 1]
      PROVE  Reported(p, q, acc, es[i]) \in Inv[i]
  <2>1. i - 1 \in 0..n /\ i \in 0..n
    BY <1>1
  <2>2. Reporting(p, es, q, acc, i - 1)
    BY <2>1
  <2>3. Reporting(p, es, q, Reported(p, q, acc, es[i]), i)
    BY <2>2, ReportIs
  <2>4. Reported(p, q, acc, es[i]) \in V
    BY <2>3 DEF Reporting
  <2> QED BY <2>1, <2>3, <2>4
<1>5. Silent(q) \in Inv[0]
  BY <1>1, <1>3 DEF Reporting
<1>6. n \in 0..n
  BY <1>1
<1>7. PICK last \in Inv[n] : PresenceStates(p, es, q) = Finished(q, last)
  <2> HIDE DEF Inv
  <2> QED BY <1>1, <1>4, <1>5, ReportRule DEF n
<1>8. Reporting(p, es, q, last, n)
  BY <1>6, <1>7
<1>9. /\ last \in V /\ Chain(last.states)
      /\ q.start <= last.cursor /\ last.cursor < q.end
      /\ \A t \in Nat : \A v : Has(last.states, t, v) <=>
           q.start <= t /\ t < last.cursor /\ Says(p, es, n, t, v)
      /\ \A t \in Nat : \A v : last.cursor <= t /\ t < q.end =>
           (Says(p, es, n, t, v) <=> v = View(last))
  BY <1>8 DEF Reporting
<1>10. /\ last.status \in Word /\ last.place \in Place
       /\ last.cursor \in Nat /\ last.states \in Seq(Spn)
  <2> HIDE DEF Word, Place, Inv
  <2> QED BY <1>9
<1> DEFINE ss == Append(last.states, State(last.cursor, q.end, last))
<1>11. PresenceStates(p, es, q) = ss
  BY <1>2, <1>7, <1>9, <1>10 DEF Finished
<1>12. \A t \in Nat : \A v : Has(last.states, t, v) => t < last.cursor
  BY <1>9
<1>13. /\ ss \in Seq(Spn) /\ Chain(ss)
       /\ \A t, v : Has(ss, t, v) <=>
            Has(last.states, t, v) \/ (last.cursor <= t /\ t < q.end /\ v = View(last))
  <2> HIDE DEF Inv
  <2> QED BY <1>2, <1>9, <1>10, <1>12, StateIs
<1> HIDE DEF ss, Inv
<1>14. ASSUME NEW t \in Nat, NEW v
       PROVE  Has(ss, t, v) <=> q.start <= t /\ t < q.end /\ Says(p, es, n, t, v)
  <2>1. CASE t < last.cursor
    BY <1>2, <1>9, <1>10, <1>13, <2>1
  <2>2. CASE last.cursor <= t
    BY <1>2, <1>9, <1>10, <1>13, <2>2
  <2> QED BY <1>10, <2>1, <2>2
<1> QED BY <1>11, <1>13, <1>14 DEF n, In

-----------------------------------------------------------------------------
(* Covered parts of the states                                              *)

\* All that u says is before all that w says.
LEMMA ChainFollow ==
  ASSUME NEW u \in Seq(Spn), Chain(u), NEW w \in Seq(Spn), Chain(w),
         \A x, y \in Nat : \A a, b : Has(u, x, a) /\ Has(w, y, b) => x < y
  PROVE  /\ u \o w \in Seq(Spn) /\ Chain(u \o w)
         /\ \A t, v : Has(u \o w, t, v) <=> Has(u, t, v) \/ Has(w, t, v)
<1>1. ASSUME NEW a \in 1..Len(u), NEW b \in 1..Len(w)
      PROVE  u[a].end <= w[b].start
  <2> DEFINE x == u[a].end - 1
             y == w[b].start
  <2>1. x \in Nat /\ Has(u, x, View(u[a])) /\ u[a].end \in Nat
    BY HasEnd
  <2>2. y \in Nat /\ Has(w, y, View(w[b]))
    BY HasEnd
  <2>3. x < y
    <3> HIDE DEF x, y
    <3> QED BY <2>1, <2>2
  <2> QED BY <2>1, <2>2, <2>3
<1> QED BY <1>1, ChainConcat

LEMMA CutIs ==
  ASSUME NEW s \in Spn, NEW w \in W
  PROVE  /\ Cut(s, w) \in Seq(Spn) /\ Chain(Cut(s, w))
         /\ \A t \in Nat : \A v : Has(Cut(s, w), t, v) <=> In(t, s) /\ In(t, w) /\ View(s) = v
<1> DEFINE both == Intersection(s, w)
<1>1. /\ s \in [start : Nat, end : Nat, status : Word, place : Place]
      /\ s.start \in Nat /\ s.end \in Nat
  BY SpansAre
<1>2. w.start \in Nat /\ w.end \in Nat
  BY DEF W
<1>3. /\ both \in Seq(W) /\ Len(both) <= 1
      /\ \A t \in Nat : (\E i \in DOMAIN both : In(t, both[i])) <=> In(t, s) /\ In(t, w)
  BY <1>1, <1>2, IntersectionIs
<1>4. Cut(s, w) = [i \in DOMAIN both |-> [s EXCEPT !.start = both[i].start, !.end = both[i].end]]
  BY DEF Cut
<1> HIDE DEF both
<1>5. Len(both) \in Nat /\ DOMAIN both = 1..Len(both)
  BY <1>3
<1>6. CASE Len(both) = 0
  <2>1. DOMAIN both = {}
    BY <1>5, <1>6
  <2>2. Cut(s, w) = <<>>
    BY <1>4, <2>1
  <2> QED BY <1>3, <2>1, <2>2, NoneIs
<1>7. CASE Len(both) = 1
  <2> DEFINE b == both[1]
             c == [s EXCEPT !.start = b.start, !.end = b.end]
  <2>1. DOMAIN both = {1}
    BY <1>5, <1>7
  <2>2. b \in W
    BY <1>3, <1>5, <2>1
  <2>3. b.start \in Nat /\ b.end \in Nat /\ b.start < b.end
    BY <2>2 DEF W
  <2>4. Cut(s, w) = <<c>>
    BY <1>4, <2>1
  <2>5. \A t \in Nat : In(t, b) <=> In(t, s) /\ In(t, w)
    BY <1>3, <2>1
  <2> HIDE DEF b
  <2>6. /\ c \in [start : Nat, end : Nat, status : Word, place : Place]
        /\ c.start = b.start /\ c.end = b.end /\ c.status = s.status /\ c.place = s.place
    <3> HIDE DEF Word, Place
    <3> QED BY <1>1, <2>3
  <2> HIDE DEF c
  <2>7. c \in Spn /\ View(c) = View(s) /\ \A t : In(t, c) <=> In(t, b)
    BY <2>3, <2>6, ViewIs DEF Spn, In
  <2>8. /\ <<c>> \in Seq(Spn) /\ Chain(<<c>>)
        /\ \A t, v : Has(<<c>>, t, v) <=> In(t, c) /\ View(c) = v
    BY <2>7, SingleIs
  <2> QED BY <2>4, <2>5, <2>7, <2>8
<1> QED BY <1>3, <1>5, <1>6, <1>7

Paste(coverage, state, cuts, j) == cuts \o Cut(state, coverage[j])

LEMMA CutsRule ==
  ASSUME NEW coverage,
         NEW state,
         state.status # "offline",
         Len(coverage) \in Nat, NEW Inv, <<>> \in Inv[0],
         \A i \in 1..Len(coverage) : \A v \in Inv[i - 1] : Paste(coverage, state, v, i) \in Inv[i]
  PROVE  Cuts(coverage, state) \in Inv[Len(coverage)]
<1> DEFINE n == Len(coverage)
           V == UNION {Inv[i] : i \in 0..n}
           G == [p \in V \X (1..n) |-> Paste(coverage, state, p[1], p[2])]
           Def(f) == [i \in 0..n |-> IF i = 0 THEN <<>>
                                    ELSE Paste(coverage, state, f[i - 1], i)]
           up == CHOOSE f : f = Def(f)
<1>1. Cuts(coverage, state) = up[n]
  BY DEF Cuts, Loop, Paste
<1> HIDE DEF n
<1>2. /\ n \in Nat /\ \A i \in 0..n : i # 0 => i \in 1..n
      /\ 0 \in 0..n /\ \A i \in 1..n : i \in 0..n /\ i # 0 /\ i - 1 \in 0..n
  BY DEF n
<1>3. Within(n, Inv, V) /\ \A i \in 1..n : \A v \in Inv[i - 1] : G[<<v, i>>] = Paste(coverage, state, v, i)
  BY <1>2 DEF Within
<1> HIDE DEF G, V
<1>4. Kept(n, Inv, G)
  BY <1>3 DEF n, Kept
<1>5. PICK f : Run(f, n, V, <<>>, Inv, G)
  BY <1>2, <1>3, <1>4, Rounds
<1>6. f = Def(f)
  <2>1. \A i \in 0..n : f[i] = IF i = 0 THEN <<>> ELSE Paste(coverage, state, f[i - 1], i)
    BY <1>2, <1>3, <1>5 DEF Run
  <2> QED BY <1>5, <2>1 DEF Run
<1>7. up = Def(up)
  BY <1>6
<1>8. up[0] = <<>> /\ \A i \in 1..n : up[i] = Paste(coverage, state, up[i - 1], i)
  BY <1>2, <1>7
<1> HIDE DEF up
<1>9. \A i \in 0..n : up[i] \in Inv[i]
  <2>1. up[0] \in Inv[0] /\ \A i \in 1..n : up[i - 1] \in Inv[i - 1] => up[i] \in Inv[i]
    BY <1>8 DEF n
  <2> QED BY <1>2, <2>1, FamilyInduction
<1> QED BY <1>1, <1>2, <1>9 DEF n

\* The cuts of a state are what is covered of it.
LEMMA CutsAre ==
  ASSUME NEW coverage \in Seq(W), Apart(coverage), NEW s \in Spn
  PROVE  /\ Cuts(coverage, s) \in Seq(Spn) /\ Chain(Cuts(coverage, s))
         /\ \A t \in Nat : \A v : Has(Cuts(coverage, s), t, v) <=>
              s.status # "offline" /\ In(t, s) /\ View(s) = v /\ Covers(coverage, t)
<1> DEFINE n == Len(coverage)
           Some(i, t) == \E k \in 1..i : In(t, coverage[k])
           Right(cuts, i) == \A t \in Nat : \A v :
             Has(cuts, t, v) <=> In(t, s) /\ View(s) = v /\ Some(i, t)
           Inv == [i \in 0..n |-> {cuts \in Seq(Spn) : Chain(cuts) /\ Right(cuts, i)}]
<1>1. n \in Nat /\ \A k \in 1..n : coverage[k] \in W
  OBVIOUS
<1>2. \A a, b \in 1..n : a < b => coverage[a].end < coverage[b].start
  BY DEF Apart
<1>3. \A k \in 1..n : coverage[k].start \in Nat /\ coverage[k].end \in Nat
  BY <1>1 DEF W
<1>4. CASE s.status = "offline"
  <2>1. Cuts(coverage, s) = <<>>
    BY <1>4 DEF Cuts
  <2> QED BY <1>4, <2>1, NoneIs
<1>5. CASE s.status # "offline"
  <2> HIDE DEF n
  <2>1. <<>> \in Inv[0]
    <3>1. <<>> \in Seq(Spn) /\ Chain(<<>>) /\ \A t, v : ~Has(<<>>, t, v)
      BY NoneIs
    <3>2. 0 \in 0..n /\ \A t : ~Some(0, t)
      BY <1>1
    <3> QED BY <3>1, <3>2
  <2>2. ASSUME NEW i \in 1..n, NEW cuts \in Inv[i - 1]
        PROVE  Paste(coverage, s, cuts, i) \in Inv[i]
    <3> DEFINE w == coverage[i]
               c == Cut(s, w)
    <3>1. i - 1 \in 0..n /\ i \in 0..n /\ \A k \in 1..(i - 1) : k \in 1..n /\ k < i
      BY <1>1
    <3>2. cuts \in Seq(Spn) /\ Chain(cuts) /\ Right(cuts, i - 1)
      BY <3>1
    <3>3. w \in W
      BY <1>1
    <3>4. /\ c \in Seq(Spn) /\ Chain(c)
          /\ \A t \in Nat : \A v : Has(c, t, v) <=> In(t, s) /\ In(t, w) /\ View(s) = v
      <4> HIDE DEF w
      <4> QED BY <3>3, CutIs
    <3>5. Paste(coverage, s, cuts, i) = cuts \o c
      BY DEF Paste
    <3> HIDE DEF c
    <3>6. ASSUME NEW x \in Nat, NEW y \in Nat, NEW a, NEW b, Has(cuts, x, a), Has(c, y, b)
          PROVE  x < y
      <4>1. PICK k \in 1..(i - 1) : In(x, coverage[k])
        BY <3>2, <3>6
      <4>2. In(y, w)
        BY <3>4, <3>6
      <4>3. coverage[k].end < w.start
        BY <1>2, <3>1
      <4>4. k \in 1..n
        BY <3>1
      <4>5. coverage[k].end \in Nat /\ w.start \in Nat
        BY <1>3, <4>4
      <4>6. x < coverage[k].end /\ w.start <= y
        BY <4>1, <4>2 DEF In
      <4> QED BY <4>3, <4>5, <4>6
    <3>7. /\ cuts \o c \in Seq(Spn) /\ Chain(cuts \o c)
          /\ \A t, v : Has(cuts \o c, t, v) <=> Has(cuts, t, v) \/ Has(c, t, v)
      BY <3>2, <3>4, <3>6, ChainFollow
    <3>8. \A t : Some(i, t) <=> Some(i - 1, t) \/ In(t, w)
      <4>1. (\A j \in 1..i : j \in 1..(i - 1) \/ j = i) /\ (\A j \in 1..(i - 1) : j \in 1..i) /\ i \in 1..i
        BY <1>1
      <4> QED BY <4>1
    <3> HIDE DEF Some, w
    <3>9. Right(cuts \o c, i)
      BY <3>2, <3>4, <3>7, <3>8
    <3> HIDE DEF Right
    <3> QED BY <3>1, <3>5, <3>7, <3>9
  <2>3. Cuts(coverage, s) \in Inv[n]
    <3> HIDE DEF Inv
    <3> QED BY <1>1, <1>5, <2>1, <2>2, CutsRule DEF n
  <2>4. n \in 0..n
    BY <1>1
  <2>5. \A t : Some(n, t) <=> Covers(coverage, t)
    BY DEF Covers, n
  <2> HIDE DEF Some
  <2> QED BY <1>5, <2>3, <2>4, <2>5
<1> QED BY <1>4, <1>5

Spread(coverage, states, spans, i) == spans \o Cuts(coverage, states[i])

LEMMA SpansRule ==
  ASSUME NEW who,
         NEW es,
         NEW covered,
         NEW query,
         NEW coverage,
         NEW states,
         coverage = MergeWindows(covered),
         states = PresenceStates(who, es, query),
         Len(states) \in Nat, NEW Inv, <<>> \in Inv[0],
         \A i \in 1..Len(states) : \A v \in Inv[i - 1] : Spread(coverage, states, v, i) \in Inv[i]
  PROVE  Spans(who, es, covered, query) \in Inv[Len(states)]
<1> DEFINE n == Len(states)
           V == UNION {Inv[i] : i \in 0..n}
           G == [p \in V \X (1..n) |-> Spread(coverage, states, p[1], p[2])]
           Def(f) == [i \in 0..n |-> IF i = 0 THEN <<>>
                                    ELSE Spread(coverage, states, f[i - 1], i)]
           up == CHOOSE f : f = Def(f)
<1>1. Spans(who, es, covered, query) = up[n]
  BY DEF Spans, Loop, Spread
<1> HIDE DEF n
<1>2. /\ n \in Nat /\ \A i \in 0..n : i # 0 => i \in 1..n
      /\ 0 \in 0..n /\ \A i \in 1..n : i \in 0..n /\ i # 0 /\ i - 1 \in 0..n
  BY DEF n
<1>3. Within(n, Inv, V) /\ \A i \in 1..n : \A v \in Inv[i - 1] : G[<<v, i>>] = Spread(coverage, states, v, i)
  BY <1>2 DEF Within
<1> HIDE DEF G, V
<1>4. Kept(n, Inv, G)
  BY <1>3 DEF n, Kept
<1>5. PICK f : Run(f, n, V, <<>>, Inv, G)
  BY <1>2, <1>3, <1>4, Rounds
<1>6. f = Def(f)
  <2>1. \A i \in 0..n : f[i] = IF i = 0 THEN <<>> ELSE Spread(coverage, states, f[i - 1], i)
    BY <1>2, <1>3, <1>5 DEF Run
  <2> QED BY <1>5, <2>1 DEF Run
<1>7. up = Def(up)
  BY <1>6
<1>8. up[0] = <<>> /\ \A i \in 1..n : up[i] = Spread(coverage, states, up[i - 1], i)
  BY <1>2, <1>7
<1> HIDE DEF up
<1>9. \A i \in 0..n : up[i] \in Inv[i]
  <2>1. up[0] \in Inv[0] /\ \A i \in 1..n : up[i - 1] \in Inv[i - 1] => up[i] \in Inv[i]
    BY <1>8 DEF n
  <2> QED BY <1>2, <2>1, FamilyInduction
<1> QED BY <1>1, <1>2, <1>9 DEF n

\* The spans before joining say what the reports say, where it is covered and online.
LEMMA SpansSay ==
  ASSUME NEW p, NEW es \in Seq(Event), TimeOrdered(es), NEW covered \in Seq(W), NEW q \in W
  PROVE  /\ Spans(p, es, covered, q) \in Seq(Spn) /\ Chain(Spans(p, es, covered, q))
         /\ \A t \in Nat : \A v : Has(Spans(p, es, covered, q), t, v) <=>
              /\ In(t, q) /\ Says(p, es, Len(es), t, v)
              /\ v.status # "offline" /\ Covers(covered, t)
<1> DEFINE coverage == MergeWindows(covered)
           states == PresenceStates(p, es, q)
           n == Len(states)
           Some(i, t, v) == \E k \in 1..i : In(t, states[k]) /\ View(states[k]) = v
           Right(spans, i) == \A t \in Nat : \A v :
             Has(spans, t, v) <=> Some(i, t, v) /\ v.status # "offline" /\ Covers(coverage, t)
           Inv == [i \in 0..n |-> {spans \in Seq(Spn) : Chain(spans) /\ Right(spans, i)}]
<1>1. /\ coverage \in Seq(W) /\ Apart(coverage)
      /\ \A t \in Nat : Covers(coverage, t) <=> Covers(covered, t)
  BY MergedIs
<1>2. /\ states \in Seq(Spn) /\ Chain(states)
      /\ \A t \in Nat : \A v : Has(states, t, v) <=> In(t, q) /\ Says(p, es, Len(es), t, v)
  BY StatesAre
<1>3. coverage = MergeWindows(covered) /\ states = PresenceStates(p, es, q)
  OBVIOUS
<1> HIDE DEF coverage, states
<1>4. n \in Nat /\ \A k \in 1..n : states[k] \in Spn
  BY <1>2
<1>5. \A a, b \in 1..n : a < b => states[a].end <= states[b].start
  BY <1>2 DEF Chain
<1>6. \A k \in 1..n : states[k].start \in Nat /\ states[k].end \in Nat
  BY <1>4, SpansAre
<1> HIDE DEF n
<1>7. <<>> \in Inv[0]
  <2>1. <<>> \in Seq(Spn) /\ Chain(<<>>) /\ \A t, v : ~Has(<<>>, t, v)
    BY NoneIs
  <2>2. 0 \in 0..n /\ \A t, v : ~Some(0, t, v)
    BY <1>4
  <2> QED BY <2>1, <2>2
<1>8. ASSUME NEW i \in 1..n, NEW spans \in Inv[i - 1]
      PROVE  Spread(coverage, states, spans, i) \in Inv[i]
  <2> DEFINE s == states[i]
             c == Cuts(coverage, s)
  <2>1. i - 1 \in 0..n /\ i \in 0..n /\ \A k \in 1..(i - 1) : k \in 1..n /\ k < i
    BY <1>4
  <2>2. spans \in Seq(Spn) /\ Chain(spans) /\ Right(spans, i - 1)
    BY <2>1
  <2>3. s \in Spn
    BY <1>4
  <2>4. /\ c \in Seq(Spn) /\ Chain(c)
        /\ \A t \in Nat : \A v : Has(c, t, v) <=>
             s.status # "offline" /\ In(t, s) /\ View(s) = v /\ Covers(coverage, t)
    <3> HIDE DEF s
    <3> QED BY <1>1, <2>3, CutsAre
  <2>5. Spread(coverage, states, spans, i) = spans \o c
    BY DEF Spread
  <2> HIDE DEF c
  <2>6. ASSUME NEW x \in Nat, NEW y \in Nat, NEW a, NEW b, Has(spans, x, a), Has(c, y, b)
        PROVE  x < y
    <3>1. PICK k \in 1..(i - 1) : In(x, states[k])
      BY <2>2, <2>6
    <3>2. In(y, s)
      BY <2>4, <2>6
    <3>3. states[k].end <= s.start
      BY <1>5, <2>1
    <3>4. k \in 1..n
      BY <2>1
    <3>5. states[k].end \in Nat /\ s.start \in Nat
      BY <1>6, <3>4
    <3>6. x < states[k].end /\ s.start <= y
      BY <3>1, <3>2 DEF In
    <3> QED BY <3>3, <3>5, <3>6
  <2>7. /\ spans \o c \in Seq(Spn) /\ Chain(spans \o c)
        /\ \A t, v : Has(spans \o c, t, v) <=> Has(spans, t, v) \/ Has(c, t, v)
    BY <2>2, <2>4, <2>6, ChainFollow
  <2>8. \A t, v : Some(i, t, v) <=> Some(i - 1, t, v) \/ (In(t, s) /\ View(s) = v)
    <3>1. (\A j \in 1..i : j \in 1..(i - 1) \/ j = i) /\ (\A j \in 1..(i - 1) : j \in 1..i) /\ i \in 1..i
      BY <1>4
    <3> QED BY <3>1
  <2>9. View(s).status = s.status
    BY DEF View
  <2> HIDE DEF Some, s
  <2>10. Right(spans \o c, i)
    BY <2>2, <2>4, <2>7, <2>8, <2>9
  <2> HIDE DEF Right
  <2> QED BY <2>1, <2>5, <2>7, <2>10
<1>9. Spans(p, es, covered, q) \in Inv[n]
  <2> HIDE DEF Inv
  <2> QED BY <1>3, <1>4, <1>7, <1>8, SpansRule DEF n
<1>10. n \in 0..n
  BY <1>4
<1>11. \A t, v : Some(n, t, v) <=> Has(states, t, v)
  BY DEF Has, n
<1> HIDE DEF Some
<1> QED BY <1>1, <1>2, <1>9, <1>10, <1>11

-----------------------------------------------------------------------------
(* Joined spans                                                             *)

Alike(F, a, b) == \A f \in F : a[f] = b[f]

\* Two spans that meet differ in a field.
Adjacent(spans, F) ==
  \A a, b \in 1..Len(spans) : b = a + 1 =>
    spans[a].end < spans[b].start \/ ~Alike(F, spans[a], spans[b])

\* Each span of m is made of spans of the first i of u that are like it.
MadeOf(m, u, F, i) ==
  /\ \A t \in Nat : \A a \in 1..Len(m) : In(t, m[a]) =>
       \E k \in 1..i : In(t, u[k]) /\ Alike(F, m[a], u[k])
  /\ \A t \in Nat : \A k \in 1..i : In(t, u[k]) => \E a \in 1..Len(m) : In(t, m[a])

Joining(m, u, F, i) ==
  /\ m \in Seq(Spn) /\ Chain(m) /\ Adjacent(m, F) /\ MadeOf(m, u, F, i)
  /\ i = 0 => m = <<>>
  /\ i > 0 => m # <<>> /\ m[Len(m)].end = u[i].end

LEMMA ChainOne ==
  ASSUME NEW u \in Seq(Spn), Chain(u), NEW t \in Nat, NEW a \in 1..Len(u), NEW b \in 1..Len(u),
         In(t, u[a]), In(t, u[b])
  PROVE  a = b
<1>1. /\ u[a].start \in Nat /\ u[a].end \in Nat
      /\ u[b].start \in Nat /\ u[b].end \in Nat
  BY HasEnd
<1>2. /\ u[a].start <= t /\ t < u[a].end
      /\ u[b].start <= t /\ t < u[b].end
  BY DEF In
<1>3. (a < b => u[a].end <= u[b].start) /\ (b < a => u[b].end <= u[a].start)
  BY DEF Chain
<1>4. ~(a < b)
  BY <1>1, <1>2, <1>3
<1>5. ~(b < a)
  BY <1>1, <1>2, <1>3
<1> QED BY <1>4, <1>5

\* The last span goes on, when the next is like it.
LEMMA JoinLast ==
  ASSUME NEW F \in SUBSET {"status", "place"}, NEW u \in Seq(Spn), Chain(u), NEW i \in 1..Len(u),
         NEW m, Joining(m, u, F, i - 1),
         m # <<>>, u[i].start <= m[Len(m)].end, Alike(F, u[i], m[Len(m)])
  PROVE  Joining([m EXCEPT ![Len(m)].end = Max2(@, u[i].end)], u, F, i)
<1> DEFINE n == Len(m)
           s == u[i]
           l == m[n]
           d == [l EXCEPT !.end = s.end]
           r == [m EXCEPT ![n] = d]
<1>1. /\ m \in Seq(Spn) /\ Chain(m) /\ Adjacent(m, F) /\ MadeOf(m, u, F, i - 1)
      /\ i - 1 = 0 => m = <<>>
      /\ i - 1 > 0 => m[n].end = u[i - 1].end
  BY DEF Joining
<1>2. n \in Nat \ {0} /\ n \in 1..n /\ \A a \in 1..n : m[a] \in Spn
  BY <1>1
<1>3. i - 1 > 0 /\ i - 1 \in 1..Len(u) /\ i - 1 < i /\ i - 1 # 0 /\ i \in Nat
  BY <1>1
<1>4. /\ s \in Spn /\ l \in Spn
      /\ s.start \in Nat /\ s.end \in Nat /\ s.start < s.end
      /\ l.start \in Nat /\ l.end \in Nat /\ l.start < l.end
      /\ l \in [start : Nat, end : Nat, status : Word, place : Place]
  BY <1>1, <1>2, HasEnd, SpansAre
<1>5. l.end = s.start
  <2>1. u[i - 1].end <= s.start
    BY <1>3 DEF Chain
  <2> QED BY <1>1, <1>3, <1>4, <2>1
<1>6. Max2(l.end, s.end) = s.end
  BY <1>4, <1>5 DEF Max2
<1>7. [m EXCEPT ![Len(m)].end = Max2(@, u[i].end)] = r
  BY <1>1, <1>6
<1>8. Alike(F, s, l)
  OBVIOUS
<1> HIDE DEF l, s
<1>9. /\ d \in [start : Nat, end : Nat, status : Word, place : Place]
      /\ d.start = l.start /\ d.end = s.end /\ d.status = l.status /\ d.place = l.place
  <2> HIDE DEF Word, Place
  <2> QED BY <1>4
<1>10. d \in Spn
  <2>1. d.start < d.end
    BY <1>4, <1>5, <1>9
  <2> HIDE DEF Word, Place, d
  <2> QED BY <1>9, <2>1 DEF Spn
<1>11. \A x : (Alike(F, d, x) <=> Alike(F, l, x)) /\ (Alike(F, x, d) <=> Alike(F, x, l))
  <2>1. \A f \in {"status", "place"} : d[f] = l[f]
    BY <1>4, <1>9
  <2>2. \A f \in F : d[f] = l[f]
    BY <2>1
  <2> QED BY <2>2 DEF Alike
<1>12. Alike(F, d, s)
  BY <1>8, <1>11 DEF Alike
<1> HIDE DEF d
<1>13. /\ r \in Seq(Spn) /\ Len(r) = n /\ r[n] = d
       /\ \A a \in 1..n : a # n => r[a] = m[a]
  BY <1>1, <1>2, <1>10
<1> HIDE DEF r
<1>14. \A a \in 1..n : r[a].start = m[a].start /\ (a # n => r[a].end = m[a].end)
  BY <1>9, <1>13 DEF l
<1> HIDE DEF n
<1>15. Chain(r)
  <2> SUFFICES ASSUME NEW a \in 1..n, NEW b \in 1..n, a < b
               PROVE  r[a].end <= r[b].start
    BY <1>13 DEF Chain
  <2>1. a # n
    BY <1>2
  <2>2. m[a].end <= m[b].start
    BY <1>1 DEF Chain, n
  <2> QED BY <1>14, <2>1, <2>2
<1>16. Adjacent(r, F)
  <2> SUFFICES ASSUME NEW a \in 1..n, NEW b \in 1..n, b = a + 1
               PROVE  r[a].end < r[b].start \/ ~Alike(F, r[a], r[b])
    BY <1>13 DEF Adjacent
  <2>1. a # n
    BY <1>2
  <2>2. m[a].end < m[b].start \/ ~Alike(F, m[a], m[b])
    BY <1>1 DEF Adjacent, n
  <2>3. r[a] = m[a] /\ r[b].start = m[b].start
    BY <1>13, <1>14, <2>1
  <2>4. Alike(F, r[a], r[b]) <=> Alike(F, m[a], m[b])
    BY <1>11, <1>13, <2>3 DEF l
  <2> QED BY <2>2, <2>3, <2>4
<1>17. MadeOf(r, u, F, i)
  <2>1. /\ \A t \in Nat : \A a \in 1..n : In(t, m[a]) =>
             \E k \in 1..(i - 1) : In(t, u[k]) /\ Alike(F, m[a], u[k])
        /\ \A t \in Nat : \A k \in 1..(i - 1) : In(t, u[k]) => \E a \in 1..n : In(t, m[a])
    BY <1>1 DEF MadeOf, n
  <2>2. (\A k \in 1..(i - 1) : k \in 1..i) /\ i \in 1..i /\ \A k \in 1..i : k \in 1..(i - 1) \/ k = i
    BY <1>3
  <2>3. \A t \in Nat : In(t, d) <=> In(t, l) \/ In(t, s)
    BY <1>4, <1>5, <1>9 DEF In
  <2>4. ASSUME NEW t \in Nat, NEW a \in 1..n, In(t, r[a])
        PROVE  \E k \in 1..i : In(t, u[k]) /\ Alike(F, r[a], u[k])
    <3>1. CASE a # n
      BY <1>13, <2>1, <2>2, <2>4, <3>1
    <3>2. CASE a = n /\ In(t, l)
      <4>1. PICK k \in 1..(i - 1) : In(t, u[k]) /\ Alike(F, l, u[k])
        BY <2>1, <3>2 DEF l
      <4> QED BY <1>11, <1>13, <2>2, <3>2, <4>1
    <3>3. CASE a = n /\ In(t, s)
      BY <1>12, <1>13, <2>2, <3>3 DEF s
    <3> QED BY <1>13, <2>3, <2>4, <3>1, <3>2, <3>3
  <2>5. ASSUME NEW t \in Nat, NEW k \in 1..i, In(t, u[k])
        PROVE  \E a \in 1..n : In(t, r[a])
    <3>1. CASE k \in 1..(i - 1)
      <4>1. PICK a \in 1..n : In(t, m[a])
        BY <2>1, <2>5, <3>1
      <4>2. a = n => In(t, l)
        BY <4>1 DEF l
      <4> QED BY <1>13, <2>3, <4>1, <4>2
    <3>2. CASE k = i
      <4>1. In(t, d)
        BY <2>3, <2>5, <3>2 DEF s
      <4> QED BY <1>2, <1>13, <4>1
    <3> QED BY <2>2, <3>1, <3>2
  <2> QED BY <1>13, <2>4, <2>5 DEF MadeOf
<1>18. r # <<>>
  <2>1. Len(r) # 0
    BY <1>2, <1>13
  <2> QED BY <2>1
<1>19. r[Len(r)].end = u[i].end
  BY <1>9, <1>13 DEF s
<1>20. Joining(r, u, F, i)
  BY <1>3, <1>13, <1>15, <1>16, <1>17, <1>18, <1>19 DEF Joining
<1> QED BY <1>7, <1>20

\* Another one follows.
LEMMA JoinNext ==
  ASSUME NEW F \in SUBSET {"status", "place"}, NEW u \in Seq(Spn), Chain(u), NEW i \in 1..Len(u),
         NEW m, Joining(m, u, F, i - 1),
         m = <<>> \/ ~(u[i].start <= m[Len(m)].end) \/ ~Alike(F, u[i], m[Len(m)])
  PROVE  Joining(Append(m, u[i]), u, F, i)
<1> DEFINE n == Len(m)
           s == u[i]
           r == Append(m, s)
<1>1. /\ m \in Seq(Spn) /\ Chain(m) /\ Adjacent(m, F) /\ MadeOf(m, u, F, i - 1)
      /\ i - 1 = 0 => m = <<>>
      /\ i - 1 > 0 => m # <<>> /\ m[n].end = u[i - 1].end
  BY DEF Joining
<1>2. n \in Nat /\ (m = <<>> <=> n = 0) /\ \A a \in 1..n : m[a] \in Spn
  BY <1>1
<1>3. i \in Nat /\ i > 0 /\ (i - 1 > 0 => i - 1 \in 1..Len(u) /\ i - 1 < i)
  OBVIOUS
<1>4. s \in Spn /\ s.start \in Nat /\ s.end \in Nat /\ s.start < s.end
  BY HasEnd
<1>5. \A a \in 1..n : m[a].start \in Nat /\ m[a].end \in Nat /\ m[a].start < m[a].end
  BY <1>1, HasEnd
<1>6. n > 0 => m[n].end <= s.start
  <2> SUFFICES ASSUME n > 0
               PROVE  m[n].end <= s.start
    OBVIOUS
  <2>1. i - 1 > 0
    BY <1>1, <1>2, <1>3
  <2>2. u[i - 1].end <= u[i].start
    BY <1>3, <2>1 DEF Chain
  <2> QED BY <1>1, <2>1, <2>2
<1>7. \A a \in 1..n : m[a].end <= s.start
  <2> SUFFICES ASSUME NEW a \in 1..n
               PROVE  m[a].end <= s.start
    OBVIOUS
  <2>1. n \in 1..n /\ n > 0
    BY <1>2
  <2>2. CASE a = n
    BY <1>6, <2>1, <2>2
  <2>3. CASE a # n
    <3>1. m[a].end <= m[n].start
      BY <1>1, <1>2, <2>1, <2>3 DEF Chain
    <3> HIDE DEF n, s
    <3>2. m[a].end \in Nat /\ m[n].start \in Nat /\ m[n].end \in Nat /\ m[n].start < m[n].end
      BY <1>5, <2>1
    <3>3. m[n].end <= s.start /\ s.start \in Nat
      BY <1>4, <1>6, <2>1
    <3> DEFINE x == m[a].end
               y == m[n].start
               z == m[n].end
    <3> HIDE DEF x, y, z
    <3>4. x \in Nat /\ y \in Nat /\ z \in Nat /\ x <= y /\ y < z /\ z <= s.start
      BY <3>1, <3>2, <3>3 DEF x, y, z
    <3>5. x <= s.start
      BY <3>3, <3>4
    <3> QED BY <3>5 DEF x
  <2> QED BY <2>2, <2>3
<1>8. r \in Seq(Spn) /\ Chain(r)
  BY <1>1, <1>4, <1>7, ChainAppend
<1>9. /\ Len(r) = n + 1 /\ r[n + 1] = s
      /\ \A a \in 1..n : r[a] = m[a]
  BY <1>1, <1>4, AppendIs
<1>10. n = 0 \/ ~(s.start <= m[n].end) \/ ~Alike(F, s, m[n])
  BY <1>2
<1> HIDE DEF r, n, s
<1>11. \A a \in 1..(n + 1) : a \in 1..n \/ a = n + 1
  BY <1>2
<1>12. Adjacent(r, F)
  <2> SUFFICES ASSUME NEW a \in 1..(n + 1), NEW b \in 1..(n + 1), b = a + 1
               PROVE  r[a].end < r[b].start \/ ~Alike(F, r[a], r[b])
    BY <1>9 DEF Adjacent
  <2>1. a \in 1..n
    BY <1>2
  <2>2. CASE b \in 1..n
    <3>1. m[a].end < m[b].start \/ ~Alike(F, m[a], m[b])
      BY <1>1, <2>1, <2>2 DEF Adjacent, n
    <3> QED BY <1>9, <2>1, <2>2, <3>1
  <2>3. CASE b = n + 1
    <3>1. a = n /\ n # 0
      BY <1>2, <2>1, <2>3
    <3>2. r[a] = m[n] /\ r[b] = s
      BY <1>9, <2>1, <2>3, <3>1
    <3>3. Alike(F, m[n], s) => Alike(F, s, m[n])
      BY DEF Alike
    <3>4. m[n].end \in Nat
      BY <1>5, <2>1, <3>1
    <3>5. ~(s.start <= m[n].end) => m[n].end < s.start
      BY <1>4, <3>4
    <3> QED BY <1>10, <3>1, <3>2, <3>3, <3>5
  <2> QED BY <1>11, <2>2, <2>3
<1>13. MadeOf(r, u, F, i)
  <2>1. /\ \A t \in Nat : \A a \in 1..n : In(t, m[a]) =>
             \E k \in 1..(i - 1) : In(t, u[k]) /\ Alike(F, m[a], u[k])
        /\ \A t \in Nat : \A k \in 1..(i - 1) : In(t, u[k]) => \E a \in 1..n : In(t, m[a])
    BY <1>1 DEF MadeOf, n
  <2>2. (\A k \in 1..(i - 1) : k \in 1..i) /\ i \in 1..i /\ \A k \in 1..i : k \in 1..(i - 1) \/ k = i
    BY <1>3
  <2>3. (\A a \in 1..n : a \in 1..(n + 1)) /\ n + 1 \in 1..(n + 1)
    BY <1>2
  <2>4. Alike(F, s, s)
    BY DEF Alike
  <2>5. ASSUME NEW t \in Nat, NEW a \in 1..(n + 1), In(t, r[a])
        PROVE  \E k \in 1..i : In(t, u[k]) /\ Alike(F, r[a], u[k])
    <3>1. CASE a \in 1..n
      BY <1>9, <2>1, <2>2, <2>5, <3>1
    <3>2. CASE a = n + 1
      BY <1>9, <2>2, <2>4, <2>5, <3>2 DEF s
    <3> QED BY <1>11, <3>1, <3>2
  <2>6. ASSUME NEW t \in Nat, NEW k \in 1..i, In(t, u[k])
        PROVE  \E a \in 1..(n + 1) : In(t, r[a])
    <3>1. CASE k \in 1..(i - 1)
      BY <1>9, <2>1, <2>3, <2>6, <3>1
    <3>2. CASE k = i
      BY <1>9, <2>3, <2>6, <3>2 DEF s
    <3> QED BY <2>2, <3>1, <3>2
  <2> QED BY <1>9, <2>5, <2>6 DEF MadeOf
<1>14. r # <<>>
  <2>1. Len(r) # 0
    BY <1>2, <1>9
  <2> QED BY <2>1
<1>15. r[Len(r)].end = u[i].end
  BY <1>9 DEF s
<1>16. Joining(r, u, F, i)
  BY <1>3, <1>8, <1>12, <1>13, <1>14, <1>15 DEF Joining
<1> QED BY <1>16 DEF r, s

LEMMA JoinIs ==
  ASSUME NEW F \in SUBSET {"status", "place"}, NEW u \in Seq(Spn), Chain(u), NEW i \in 1..Len(u),
         NEW m, Joining(m, u, F, i - 1)
  PROVE  Joining(Join(F, m, u[i]), u, F, i)
<1>1. m \in Seq(Spn)
  BY DEF Joining
<1>2. Last(m) = m[Len(m)]
  BY DEF Last
<1>3. CASE m # <<>> /\ u[i].start <= m[Len(m)].end /\ Alike(F, u[i], m[Len(m)])
  <2>1. Join(F, m, u[i]) = [m EXCEPT ![Len(m)].end = Max2(@, u[i].end)]
    BY <1>2, <1>3 DEF Join, Alike
  <2> QED BY <1>3, <2>1, JoinLast
<1>4. CASE ~(m # <<>> /\ u[i].start <= m[Len(m)].end /\ Alike(F, u[i], m[Len(m)]))
  <2>1. Join(F, m, u[i]) = Append(m, u[i])
    BY <1>2, <1>4 DEF Join, Alike
  <2> QED BY <1>4, <2>1, JoinNext
<1> QED BY <1>3, <1>4

LEMMA JoinRule ==
  ASSUME NEW spans,
         NEW fields,
         Len(spans) \in Nat, NEW Inv, <<>> \in Inv[0],
         \A i \in 1..Len(spans) : \A v \in Inv[i - 1] : Join(fields, v, spans[i]) \in Inv[i]
  PROVE  Joined(spans, fields) \in Inv[Len(spans)]
<1> DEFINE n == Len(spans)
           V == UNION {Inv[i] : i \in 0..n}
           G == [p \in V \X (1..n) |-> Join(fields, p[1], spans[p[2]])]
           Def(f) == [i \in 0..n |-> IF i = 0 THEN <<>>
                                    ELSE Join(fields, f[i - 1], spans[i])]
           up == CHOOSE f : f = Def(f)
<1>1. Joined(spans, fields) = up[n]
  BY DEF Joined, Loop
<1> HIDE DEF n
<1>2. /\ n \in Nat /\ \A i \in 0..n : i # 0 => i \in 1..n
      /\ 0 \in 0..n /\ \A i \in 1..n : i \in 0..n /\ i # 0 /\ i - 1 \in 0..n
  BY DEF n
<1>3. Within(n, Inv, V) /\ \A i \in 1..n : \A v \in Inv[i - 1] : G[<<v, i>>] = Join(fields, v, spans[i])
  BY <1>2 DEF Within
<1> HIDE DEF G, V
<1>4. Kept(n, Inv, G)
  BY <1>3 DEF n, Kept
<1>5. PICK f : Run(f, n, V, <<>>, Inv, G)
  BY <1>2, <1>3, <1>4, Rounds
<1>6. f = Def(f)
  <2>1. \A i \in 0..n : f[i] = IF i = 0 THEN <<>> ELSE Join(fields, f[i - 1], spans[i])
    BY <1>2, <1>3, <1>5 DEF Run
  <2> QED BY <1>5, <2>1 DEF Run
<1>7. up = Def(up)
  BY <1>6
<1>8. up[0] = <<>> /\ \A i \in 1..n : up[i] = Join(fields, up[i - 1], spans[i])
  BY <1>2, <1>7
<1> HIDE DEF up
<1>9. \A i \in 0..n : up[i] \in Inv[i]
  <2>1. up[0] \in Inv[0] /\ \A i \in 1..n : up[i - 1] \in Inv[i - 1] => up[i] \in Inv[i]
    BY <1>8 DEF n
  <2> QED BY <1>2, <2>1, FamilyInduction
<1> QED BY <1>1, <1>2, <1>9 DEF n

\* Joining changes nothing but where a span ends.
LEMMA JoinedIs ==
  ASSUME NEW F \in SUBSET {"status", "place"}, NEW u \in Seq(Spn), Chain(u)
  PROVE  /\ Joined(u, F) \in Seq(Spn) /\ Chain(Joined(u, F)) /\ Adjacent(Joined(u, F), F)
         /\ MadeOf(Joined(u, F), u, F, Len(u))
<1> DEFINE n == Len(u)
           Inv == [i \in 0..n |-> {m \in Seq(Spn) : Joining(m, u, F, i)}]
<1>1. n \in Nat
  OBVIOUS
<1>2. <<>> \in Inv[0]
  <2>1. <<>> \in Seq(Spn) /\ Chain(<<>>)
    BY NoneIs
  <2>2. Joining(<<>>, u, F, 0)
    BY <2>1 DEF Joining, Adjacent, MadeOf
  <2> QED BY <1>1, <2>1, <2>2
<1>3. ASSUME NEW i \in 1..n, NEW m \in Inv[i - 1]
      PROVE  Join(F, m, u[i]) \in Inv[i]
  <2>1. i - 1 \in 0..n /\ i \in 0..n
    BY <1>1
  <2>2. Joining(m, u, F, i - 1)
    BY <2>1
  <2>3. Joining(Join(F, m, u[i]), u, F, i)
    BY <2>2, JoinIs
  <2>4. Join(F, m, u[i]) \in Seq(Spn)
    BY <2>3 DEF Joining
  <2> QED BY <2>1, <2>3, <2>4
<1>4. Joined(u, F) \in Inv[n]
  <2> HIDE DEF Inv
  <2> QED BY <1>1, <1>2, <1>3, JoinRule DEF n
<1>5. Joining(Joined(u, F), u, F, n)
  <2>1. n \in 0..n
    BY <1>1
  <2> QED BY <1>4, <2>1
<1> QED BY <1>5 DEF Joining, n

\* Spans that are joined when status and place agree say the same.
LEMMA JoinedSay ==
  ASSUME NEW F, F = {"status", "place"}, NEW u \in Seq(Spn), Chain(u), NEW m,
         m = Joined(u, F)
  PROVE  /\ m \in Seq(Spn) /\ Chain(m)
         /\ \A t \in Nat : \A v : Has(m, t, v) <=> Has(u, t, v)
         /\ \A a, b \in 1..Len(m) : b = a + 1 => m[a].end < m[b].start \/ View(m[a]) # View(m[b])
<1>1. m \in Seq(Spn) /\ Chain(m) /\ Adjacent(m, F) /\ MadeOf(m, u, F, Len(u))
  BY JoinedIs
<1>2. ASSUME NEW a, NEW b
      PROVE  Alike(F, a, b) <=> View(a) = View(b)
  <2>1. Alike(F, a, b) <=> a.status = b.status /\ a.place = b.place
    BY DEF Alike
  <2> QED BY <2>1, ViewIs
<1>3. /\ \A t \in Nat : \A a \in 1..Len(m) : In(t, m[a]) =>
           \E k \in 1..Len(u) : In(t, u[k]) /\ View(m[a]) = View(u[k])
      /\ \A t \in Nat : \A k \in 1..Len(u) : In(t, u[k]) => \E a \in 1..Len(m) : In(t, m[a])
  BY <1>1, <1>2 DEF MadeOf
<1>4. ASSUME NEW t \in Nat, NEW v, Has(m, t, v)
      PROVE  Has(u, t, v)
  BY <1>3, <1>4 DEF Has
<1>5. ASSUME NEW t \in Nat, NEW v, Has(u, t, v)
      PROVE  Has(m, t, v)
  <2>1. PICK k \in 1..Len(u) : In(t, u[k]) /\ View(u[k]) = v
    BY <1>5 DEF Has
  <2>2. PICK a \in 1..Len(m) : In(t, m[a])
    BY <1>3, <2>1
  <2>3. PICK l \in 1..Len(u) : In(t, u[l]) /\ View(m[a]) = View(u[l])
    BY <1>3, <2>2
  <2>4. k = l
    BY <2>1, <2>3, ChainOne
  <2> QED BY <2>1, <2>2, <2>3, <2>4 DEF Has
<1>6. \A a, b \in 1..Len(m) : b = a + 1 => m[a].end < m[b].start \/ View(m[a]) # View(m[b])
  BY <1>1, <1>2 DEF Adjacent
<1> QED BY <1>1, <1>4, <1>5, <1>6

-----------------------------------------------------------------------------
(* What is known of a person                                                *)

LEMMA HistoryIs ==
  ASSUME HistoryInv, NEW p \in Person
  PROVE  /\ samples \in Seq(Sample) /\ TimeOrdered(samples)
         /\ events[p] \in Seq(Event) /\ TimeOrdered(events[p])
         /\ edges[p] \in Seq(Edge) /\ TimeOrdered(edges[p])
         /\ Timed(Event) /\ Timed(Edge)
<1>1. EvidenceInv /\ TimeOrdered(events[p]) /\ TimeOrdered(edges[p])
  BY DEF HistoryInv
<1>2. /\ samples \in Seq(Sample) /\ TimeOrdered(samples)
      /\ events \in [Person -> Seq(Event)] /\ edges \in [Person -> Seq(Edge)]
  BY <1>1 DEF EvidenceInv, TypeOK
<1>3. Timed(Event)
  BY ShownIs DEF Timed
<1>4. Timed(Edge)
  BY DEF Timed, Edge
<1> QED BY <1>1, <1>2, <1>3, <1>4

\* The tracked windows of a query are the instants at which the person is tracked.
LEMMA TrackedOf ==
  ASSUME HistoryInv, NEW p \in Person, NEW q \in W
  PROVE  /\ TrackingWindows(FetchedEdges(p, q), q) \in Seq(W)
         /\ \A t \in Nat : Covers(TrackingWindows(FetchedEdges(p, q), q), t) <=>
                             In(t, q) /\ TrackedAt(p, t)
<1> DEFINE s == edges[p]
           g == FetchedEdges(p, q)
           ws == TrackingWindows(g, q)
<1>1. s \in Seq(Edge) /\ TimeOrdered(s) /\ Timed(Edge)
  BY HistoryIs
<1>2. g = WithPrior(s, q)
  BY DEF FetchedEdges
<1>3. \A t : TrackedAt(p, t) <=> Tracks(s, Len(s), t)
  BY <1>1, TrackedIs
<1> HIDE DEF s, g
<1>4. g \in Seq(Edge) /\ TimeOrdered(g)
  <2>1. \E I : g = Picked(s, I)
    BY <1>2 DEF WithPrior
  <2> QED BY <1>1, <2>1, PickedOrdered
<1>5. ASSUME NEW t \in Nat, In(t, q), NEW x
      PROVE  Tops(g, Len(g), Edge, t, x) <=> Tops(s, Len(s), Edge, t, x)
  <2>1. \A i \in 1..Len(s) : s[i] \in Edge
    BY <1>1
  <2> QED BY <1>1, <1>2, <1>5, <2>1, PriorTops
<1>6. ws \in Seq(W) /\ \A t \in Nat : Covers(ws, t) <=> In(t, q) /\ Tracks(g, Len(g), t)
  BY <1>4, TrackingIs
<1>7. \A t \in Nat : In(t, q) => (Tracks(g, Len(g), t) <=> Tracks(s, Len(s), t))
  BY <1>5 DEF Tracks
<1> QED BY <1>3, <1>6, <1>7 DEF g

LEMMA ObservedOf ==
  ASSUME HistoryInv, NEW q \in W
  PROVE  /\ ObservedWindows(FetchedSamples(q), q) \in Seq(W)
         /\ \A t \in Nat : Covers(ObservedWindows(FetchedSamples(q), q), t) => In(t, q)
<1>1. samples \in Seq(Sample) /\ TimeOrdered(samples)
  BY DEF HistoryInv, EvidenceInv, TypeOK
<1>2. FetchedSamples(q) \in Seq(Sample) /\ TimeOrdered(FetchedSamples(q))
  BY <1>1, FetchedIs
<1> QED BY <1>2, ObservedIs

\* What is known of a person is what is observed while the person is tracked.
LEMMA KnownIs ==
  ASSUME HistoryInv, NEW p \in Person, NEW q \in W
  PROVE  /\ PersonCoverage(p, q) \in Seq(W) /\ Apart(PersonCoverage(p, q))
         /\ \A t : t \in KnownAt(p, q) <=> t \in Nat /\ Covers(PersonCoverage(p, q), t)
         /\ \A t \in KnownAt(p, q) : t \in Nat /\ In(t, q)
<1> DEFINE o == ObservedWindows(FetchedSamples(q), q)
           r == TrackingWindows(FetchedEdges(p, q), q)
           c == PersonCoverage(p, q)
<1>1. o \in Seq(W) /\ \A t \in Nat : Covers(o, t) => In(t, q)
  BY ObservedOf
<1>2. r \in Seq(W) /\ \A t \in Nat : Covers(r, t) <=> In(t, q) /\ TrackedAt(p, t)
  BY TrackedOf
<1>3. c = IntersectWindows(o, r)
  BY DEF PersonCoverage
<1>4. \A t : t \in KnownAt(p, q) <=> t \in Covered(o) /\ TrackedAt(p, t)
  BY DEF KnownAt
<1> HIDE DEF o, r, c
<1>5. /\ c \in Seq(W) /\ Apart(c)
      /\ \A t \in Nat : Covers(c, t) <=> Covers(o, t) /\ Covers(r, t)
  BY <1>1, <1>2, <1>3, IntersectedIs
<1>6. \A t : t \in Covered(o) <=> t \in Nat /\ Covers(o, t)
  BY <1>1, CanonicalIs
<1>7. \A t : t \in KnownAt(p, q) <=> t \in Nat /\ Covers(c, t)
  BY <1>1, <1>2, <1>4, <1>5, <1>6
<1>8. \A t \in KnownAt(p, q) : t \in Nat /\ In(t, q)
  BY <1>1, <1>4, <1>6
<1> QED BY <1>5, <1>7, <1>8 DEF c

LEMMA LatestSays ==
  ASSUME HistoryInv, NEW p \in Person, NEW t
  PROVE  \A v : Says(p, events[p], Len(events[p]), t, v) <=> v = Latest(p, t)
<1>1. events[p] \in Seq(Event)
  BY HistoryIs
<1>2. /\ \A x : Tops(events[p], Len(events[p]), Plain, t, x) => Latest(p, t) = Shown(p, x)
      /\ (\A x : ~Tops(events[p], Len(events[p]), Plain, t, x)) => Latest(p, t) = Unknown
  BY <1>1, LatestIs
<1> QED BY <1>2 DEF Says

\* es tells of a person in a range what all events do.
Tells(p, q, es) ==
  /\ es \in Seq(Event) /\ TimeOrdered(es)
  /\ \A t \in Nat : \A v : In(t, q) => (Says(p, es, Len(es), t, v) <=> v = Latest(p, t))

\* The reports without the anomalies, the last one before the range included
LEMMA DiscoveryTells ==
  ASSUME HistoryInv, NEW p \in Person, NEW q \in W
  PROVE  Tells(p, q, DiscoveryEvents(p, q))
<1> DEFINE s == events[p]
           I == {i \in DOMAIN s : ~s[i].anomaly}
           g == Picked(s, I)
           es == DiscoveryEvents(p, q)
<1>1. s \in Seq(Event) /\ TimeOrdered(s) /\ Timed(Event)
  BY HistoryIs
<1>2. es = WithPrior(g, q)
  BY DEF DiscoveryEvents
<1>3. \A i \in 1..Len(s) : i \in I <=> s[i] \in Plain
  BY <1>1 DEF Plain
<1>4. \A t, v : Says(p, s, Len(s), t, v) <=> v = Latest(p, t)
  BY LatestSays
<1> HIDE DEF s, I
<1>5. g \in Seq(Event) /\ TimeOrdered(g)
  BY <1>1, PickedOrdered
<1>6. \A i \in 1..Len(g) : g[i] \in Plain
  <2>1. PICK f : Lists(f, g, s, I, Len(s))
    BY <1>1, PickedIs
  <2>2. \A k \in 1..Len(g) : f[k] \in 1..Len(s) /\ f[k] \in I /\ g[k] = s[f[k]]
    BY <2>1 DEF Lists
  <2> QED BY <1>3, <2>2
<1>7. ASSUME NEW t, NEW x
      PROVE  Tops(g, Len(g), Plain, t, x) <=> Tops(s, Len(s), Plain, t, x)
  <2>1. Tops(g, Len(g), Plain, t, x) <=> TopsAmong(s, I, Plain, t, x)
    BY <1>1, PickedTops
  <2>2. TopsAmong(s, I, Plain, t, x) <=> Tops(s, Len(s), Plain, t, x)
    BY <1>3 DEF TopsAmong, Tops
  <2> QED BY <2>1, <2>2
<1> HIDE DEF g, es
<1>8. es \in Seq(Event) /\ TimeOrdered(es)
  <2>1. \E J : es = Picked(g, J)
    BY <1>2 DEF WithPrior
  <2> QED BY <1>1, <1>5, <2>1, PickedOrdered
<1>9. ASSUME NEW t \in Nat, In(t, q), NEW x
      PROVE  Tops(es, Len(es), Plain, t, x) <=> Tops(g, Len(g), Plain, t, x)
  BY <1>1, <1>2, <1>5, <1>6, <1>9, PriorTops
<1>10. ASSUME NEW t \in Nat, NEW v, In(t, q)
       PROVE  Says(p, es, Len(es), t, v) <=> v = Latest(p, t)
  <2>1. \A x : Tops(es, Len(es), Plain, t, x) <=> Tops(s, Len(s), Plain, t, x)
    BY <1>7, <1>9, <1>10
  <2>2. Says(p, es, Len(es), t, v) <=> Says(p, s, Len(s), t, v)
    BY <2>1 DEF Says
  <2> QED BY <1>4, <2>2
<1> QED BY <1>8, <1>10 DEF Tells, es

\* The reports with the anomalies, when the last one before the range is none
LEMMA FetchedTells ==
  ASSUME HistoryInv, NEW p \in Person, NEW q \in W, Unmasked(p, q)
  PROVE  Tells(p, q, FetchedEvents(p, q))
<1> DEFINE s == events[p]
           n == Len(s)
           prior == {i \in DOMAIN s : s[i].at < q.start}
           within == {i \in DOMAIN s : s[i].at >= q.start /\ s[i].at < q.end}
           I == {i \in prior : \A j \in prior : j <= i} \cup within
           g == FetchedEvents(p, q)
<1>1. s \in Seq(Event) /\ TimeOrdered(s) /\ Timed(Event)
  BY HistoryIs
<1>2. g = WithPrior(s, q) /\ g = Picked(s, I)
  BY DEF FetchedEvents, WithPrior
<1>3. \A t, v : Says(p, s, n, t, v) <=> v = Latest(p, t)
  BY LatestSays
<1>4. /\ n \in Nat /\ DOMAIN s = 1..n /\ q.start \in Nat
      /\ \A i \in 1..n : s[i] \in Event /\ s[i].at \in Nat
  BY <1>1 DEF W, Timed
<1>5. \A i \in 1..n : /\ i \in prior <=> s[i].at < q.start
                      /\ i \in within <=> s[i].at >= q.start /\ s[i].at < q.end
                      /\ i \in I <=> \/ i \in prior /\ \A j \in prior : j <= i
                                     \/ i \in within
  BY <1>4
<1>6. prior \subseteq 1..n
  BY <1>4
<1>7. \A i, j \in 1..n : i <= j => s[i].at <= s[j].at
  BY <1>1 DEF TimeOrdered
<1>8. g = <<>> \/ ~g[1].anomaly
  BY DEF Unmasked
<1> HIDE DEF s, n, prior, within, I, g
<1>9. g \in Seq(Event) /\ TimeOrdered(g)
  BY <1>1, <1>2, PickedOrdered
\* The last row before the range is the first of what is fetched.
<1>10. ASSUME NEW i \in 1..n, s[i].at < q.start, \A j \in 1..n : s[j].at < q.start => j <= i
       PROVE  s[i] \in Plain
  <2>1. i \in I /\ \A j \in prior : j <= i
    BY <1>5, <1>6, <1>10
  <2>2. PICK f : Lists(f, g, s, I, n)
    BY <1>1, <1>2, PickedIs DEF n
  <2> DEFINE m == Len(g)
  <2>3. /\ m \in Nat
        /\ \A k \in 1..m : f[k] \in 1..n /\ f[k] \in I /\ g[k] = s[f[k]]
        /\ \A a, b \in 1..m : a < b => f[a] < f[b]
        /\ \A j \in 1..n : j \in I => \E k \in 1..m : f[k] = j
    BY <1>9, <2>2 DEF Lists
  <2>4. g # <<>> <=> m # 0
    BY <1>9
  <2> HIDE DEF m
  <2>5. PICK k \in 1..m : f[k] = i
    BY <2>1, <2>3
  <2>6. 1 \in 1..m /\ (k = 1 \/ 1 < k) /\ m # 0
    BY <2>3
  <2>7. f[1] \in 1..n /\ f[1] \in I /\ f[1] <= i
    BY <2>3, <2>5, <2>6
  <2>8. f[1] \notin within
    <3> SUFFICES ASSUME f[1] \in within
                 PROVE  FALSE
      OBVIOUS
    <3>1. s[f[1]].at >= q.start /\ s[f[1]].at <= s[i].at
      BY <1>5, <1>7, <2>7
    <3> QED BY <1>4, <1>10, <2>7, <3>1
  <2>9. i <= f[1]
    <3>1. i \in prior
      BY <1>5, <1>10
    <3> QED BY <1>5, <2>7, <2>8, <3>1
  <2>10. f[1] = i
    BY <2>7, <2>9
  <2>11. g[1] = s[i]
    BY <2>3, <2>6, <2>10
  <2> QED BY <1>4, <1>8, <2>4, <2>6, <2>11 DEF Plain
<1>11. ASSUME NEW t \in Nat, In(t, q), NEW x
       PROVE  Tops(g, Len(g), Plain, t, x) <=> Tops(s, n, Plain, t, x)
  <2>1. \A i \in 1..Len(s) :
           /\ s[i].at < q.start
           /\ \A j \in 1..Len(s) : s[j].at < q.start => j <= i
           => s[i] \in Plain
    BY <1>10 DEF n
  <2> QED BY <1>1, <1>2, <1>11, <2>1, PriorTops DEF n
<1>12. ASSUME NEW t \in Nat, NEW v, In(t, q)
       PROVE  Says(p, g, Len(g), t, v) <=> v = Latest(p, t)
  <2>1. \A x : Tops(g, Len(g), Plain, t, x) <=> Tops(s, n, Plain, t, x)
    BY <1>11, <1>12
  <2>2. Says(p, g, Len(g), t, v) <=> Says(p, s, n, t, v)
    BY <2>1 DEF Says
  <2> QED BY <1>3, <2>2
<1> QED BY <1>9, <1>12 DEF Tells, g

\* The visits of a person say what the last report does, wherever it is known and
\* has the person online.
LEMMA VisitedSay ==
  ASSUME HistoryInv, NEW p \in Person, NEW q \in W
  PROVE  /\ Visited(p, q) \in Seq(Spn) /\ Chain(Visited(p, q))
         /\ \A t \in Nat : \A v : Has(Visited(p, q), t, v) <=>
              t \in KnownAt(p, q) /\ v = Latest(p, t) /\ v.status # "offline"
         /\ \A a, b \in 1..Len(Visited(p, q)) : b = a + 1 =>
              \/ Visited(p, q)[a].end < Visited(p, q)[b].start
              \/ View(Visited(p, q)[a]) # View(Visited(p, q)[b])
<1> DEFINE es == DiscoveryEvents(p, q)
           c == PersonCoverage(p, q)
           u == Spans(p, es, c, q)
           m == Visited(p, q)
           F == {"status", "place"}
<1>1. Tells(p, q, es)
  BY DiscoveryTells
<1>2. /\ c \in Seq(W)
      /\ \A t : t \in KnownAt(p, q) <=> t \in Nat /\ Covers(c, t)
      /\ \A t \in KnownAt(p, q) : t \in Nat /\ In(t, q)
  BY KnownIs
<1>3. m = Joined(u, F) /\ F = {"status", "place"}
  BY DEF Visited, WorldSpans
<1> HIDE DEF es, c, F
<1>4. es \in Seq(Event) /\ TimeOrdered(es)
  BY <1>1 DEF Tells
<1>5. /\ u \in Seq(Spn) /\ Chain(u)
      /\ \A t \in Nat : \A v : Has(u, t, v) <=>
           In(t, q) /\ Says(p, es, Len(es), t, v) /\ v.status # "offline" /\ Covers(c, t)
  BY <1>2, <1>4, SpansSay
<1> HIDE DEF u, m
<1>6. \A t \in Nat : \A v : Has(u, t, v) <=>
        t \in KnownAt(p, q) /\ v = Latest(p, t) /\ v.status # "offline"
  BY <1>1, <1>2, <1>5 DEF Tells
<1>7. /\ m \in Seq(Spn) /\ Chain(m)
      /\ \A t \in Nat : \A v : Has(m, t, v) <=> Has(u, t, v)
      /\ \A a, b \in 1..Len(m) : b = a + 1 => m[a].end < m[b].start \/ View(m[a]) # View(m[b])
  BY <1>3, <1>5, JoinedSay, ZenonT(40)
<1> QED BY <1>6, <1>7 DEF m

LEMMA SpanIs ==
  ASSUME NEW s \in Spn
  PROVE  \A t : t \in Span(s) <=> t \in Nat /\ In(t, s)
<1>1. s.start \in Nat /\ s.end \in Nat
  BY SpansAre
<1> QED BY <1>1 DEF Span, In

LEMMA StatesOfSpans == HistoryInv => SpansAreStates
<1> SUFFICES ASSUME HistoryInv, NEW q \in Past, NEW p \in Person
             PROVE  LET spans == Visited(p, q)
                    IN /\ Covered(spans) = {t \in KnownAt(p, q) : Latest(p, t).status # "offline"}
                       /\ \A i \in DOMAIN spans :
                            /\ \A t \in Span(spans[i]) :
                                 Latest(p, t) = [status |-> spans[i].status, place |-> spans[i].place]
                            /\ i > 1 => \/ spans[i - 1].end < spans[i].start
                                       \/ /\ spans[i - 1].end = spans[i].start
                                          /\ \/ spans[i - 1].status # spans[i].status
                                             \/ spans[i - 1].place # spans[i].place
  BY DEF SpansAreStates
<1> DEFINE m == Visited(p, q)
           n == Len(m)
<1>1. q \in W
  BY QueriesAre
<1>2. /\ m \in Seq(Spn) /\ Chain(m)
      /\ \A t \in Nat : \A v : Has(m, t, v) <=>
           t \in KnownAt(p, q) /\ v = Latest(p, t) /\ v.status # "offline"
      /\ \A a, b \in 1..n : b = a + 1 => m[a].end < m[b].start \/ View(m[a]) # View(m[b])
  BY <1>1, VisitedSay
<1>3. \A t \in KnownAt(p, q) : t \in Nat
  BY <1>1, KnownIs
<1> HIDE DEF m
<1>4. n \in Nat /\ DOMAIN m = 1..n /\ \A i \in 1..n : m[i] \in Spn
  BY <1>2
<1>5. \A t, v : Has(m, t, v) <=> \E a \in 1..n : In(t, m[a]) /\ View(m[a]) = v
  BY DEF Has
<1>6. \A a, b \in 1..n : a < b => m[a].end <= m[b].start
  BY <1>2 DEF Chain
<1>7. \A i \in 1..n : \A t : t \in Span(m[i]) <=> t \in Nat /\ In(t, m[i])
  BY <1>4, SpanIs
<1>8. \A i \in 1..n : m[i].start \in Nat /\ m[i].end \in Nat
  BY <1>4, SpansAre
<1> HIDE DEF n
<1>9. Covered(m) = {t \in KnownAt(p, q) : Latest(p, t).status # "offline"}
  <2>1. \A t : t \in Covered(m) <=> t \in Nat /\ \E v : Has(m, t, v)
    BY <1>4, <1>5, <1>7 DEF Covered
  <2> QED BY <1>2, <1>3, <2>1
<1>10. ASSUME NEW i \in 1..n
       PROVE  /\ \A t \in Span(m[i]) :
                   Latest(p, t) = [status |-> m[i].status, place |-> m[i].place]
              /\ i > 1 => \/ m[i - 1].end < m[i].start
                         \/ /\ m[i - 1].end = m[i].start
                            /\ \/ m[i - 1].status # m[i].status
                               \/ m[i - 1].place # m[i].place
  <2>1. ASSUME NEW t \in Span(m[i])
        PROVE  Latest(p, t) = [status |-> m[i].status, place |-> m[i].place]
    <3>1. t \in Nat /\ Has(m, t, View(m[i]))
      BY <1>5, <1>7
    <3>2. View(m[i]) = Latest(p, t)
      BY <1>2, <3>1
    <3> QED BY <3>2 DEF View
  <2>2. ASSUME i > 1
        PROVE  \/ m[i - 1].end < m[i].start
               \/ /\ m[i - 1].end = m[i].start
                  /\ \/ m[i - 1].status # m[i].status
                     \/ m[i - 1].place # m[i].place
    <3> DEFINE h == i - 1
    <3>1. h \in 1..n /\ h < i /\ i = h + 1
      BY <1>4, <2>2
    <3> HIDE DEF h
    <3>2. m[h].end <= m[i].start /\ (m[h].end < m[i].start \/ View(m[h]) # View(m[i]))
      BY <1>2, <1>6, <3>1 DEF n
    <3>3. m[h].end < m[i].start \/ m[h].end = m[i].start
      BY <1>8, <3>1, <3>2
    <3> QED BY <3>2, <3>3, ViewIs DEF h
  <2> QED BY <2>1, <2>2
<1> QED BY <1>4, <1>9, <1>10 DEF m

\* Whatever is collected and reported, and in whatever order, the spans of a person
\* are the known instants at which the last report has the person online.
THEOREM SpansAreReported == Spec => []SpansAreStates
BY HistoryIsInv, StatesOfSpans, PTL

-----------------------------------------------------------------------------
(* Hours and overlaps                                                       *)

\* The minutes that two lists of windows share are the instants both cover.
LEMMA MinutesOf ==
  ASSUME NEW left \in Seq(W), NEW right \in Seq(W), NEW T,
         \A t : t \in T <=> t \in Nat /\ Covers(left, t) /\ Covers(right, t)
  PROVE  Minutes(IntersectWindows(left, right)) = Cardinality(T)
<1> DEFINE ws == IntersectWindows(left, right)
<1>1. /\ ws \in Seq(W) /\ Apart(ws)
      /\ \A t \in Nat : Covers(ws, t) <=> Covers(left, t) /\ Covers(right, t)
  BY IntersectedIs
<1> HIDE DEF ws
<1>2. Minutes(ws) = Cardinality(Covered(ws))
  BY <1>1, MinutesAre
<1>3. \A t : t \in Covered(ws) <=> t \in Nat /\ Covers(ws, t)
  BY <1>1, CanonicalIs
<1>4. Covered(ws) = T
  BY <1>1, <1>3
<1> QED BY <1>2, <1>4 DEF ws

LEMMA OneWindow ==
  ASSUME NEW w \in W
  PROVE  <<w>> \in Seq(W) /\ \A t : Covers(<<w>>, t) <=> In(t, w)
<1> DEFINE ws == <<w>>
<1>1. ws \in Seq(W) /\ Len(ws) = 1 /\ ws[1] = w
  OBVIOUS
<1> HIDE DEF ws
<1>2. 1 \in 1..1 /\ \A i \in 1..1 : i = 1
  OBVIOUS
<1> QED BY <1>1, <1>2 DEF Covers, ws

\* The windows of spans
LEMMA WindowsAre ==
  ASSUME NEW u \in Seq(Spn)
  PROVE  /\ Windows(u) \in Seq(W)
         /\ \A t : Covers(Windows(u), t) <=> \E a \in 1..Len(u) : In(t, u[a])
<1> DEFINE n == Len(u)
           ws == Windows(u)
<1>1. /\ n \in Nat /\ DOMAIN u = 1..n
      /\ \A a \in 1..n : u[a].start \in Nat /\ u[a].end \in Nat /\ u[a].start < u[a].end
  BY HasEnd
<1>2. ws = [i \in 1..n |-> Window(u[i].start, u[i].end)]
  BY <1>1 DEF Windows
<1> HIDE DEF n, ws
<1>3. ASSUME NEW a \in 1..n
      PROVE  ws[a] \in W /\ \A t : In(t, ws[a]) <=> In(t, u[a])
  <2>1. ws[a] = Window(u[a].start, u[a].end)
    BY <1>2
  <2>2. ws[a] = [start |-> u[a].start, end |-> u[a].end]
    BY <2>1 DEF Window
  <2> QED BY <1>1, <2>2 DEF W, In
<1>4. ws \in Seq(W) /\ Len(ws) = n
  BY <1>1, <1>2, <1>3
<1>5. \A t : Covers(ws, t) <=> \E a \in 1..n : In(t, u[a])
  BY <1>3, <1>4 DEF Covers
<1> QED BY <1>4, <1>5 DEF ws, n

\* The instants at which it is known that a person is online
OnlineAt(p, q) == {t \in KnownAt(p, q) : Latest(p, t).status # "offline"}

LEMMA OnlineIs ==
  ASSUME HistoryInv, NEW p \in Person, NEW q \in W, Unmasked(p, q)
  PROVE  /\ Online(p, q) \in Seq(W)
         /\ \A t : t \in OnlineAt(p, q) <=> t \in Nat /\ Covers(Online(p, q), t)
<1> DEFINE es == FetchedEvents(p, q)
           c == PersonCoverage(p, q)
           u == Spans(p, es, c, q)
           F == {"status"}
           m == Joined(u, F)
<1>1. Tells(p, q, es)
  BY FetchedTells
<1>2. /\ c \in Seq(W)
      /\ \A t : t \in KnownAt(p, q) <=> t \in Nat /\ Covers(c, t)
      /\ \A t \in KnownAt(p, q) : t \in Nat /\ In(t, q)
  BY KnownIs
<1>3. Online(p, q) = Windows(m)
  BY DEF Online, OnlineSpans
<1>4. F \in SUBSET {"status", "place"}
  OBVIOUS
<1> HIDE DEF es, c, F
<1>5. es \in Seq(Event) /\ TimeOrdered(es)
  BY <1>1 DEF Tells
<1>6. /\ u \in Seq(Spn) /\ Chain(u)
      /\ \A t \in Nat : \A v : Has(u, t, v) <=>
           In(t, q) /\ Says(p, es, Len(es), t, v) /\ v.status # "offline" /\ Covers(c, t)
  BY <1>2, <1>5, SpansSay
<1> HIDE DEF u
<1>7. m \in Seq(Spn) /\ MadeOf(m, u, F, Len(u))
  BY <1>4, <1>6, JoinedIs
<1> HIDE DEF m
<1>8. ASSUME NEW t \in Nat
      PROVE  (\E a \in 1..Len(m) : In(t, m[a])) <=> \E v : Has(u, t, v)
  <2>1. /\ \A a \in 1..Len(m) : In(t, m[a]) => \E k \in 1..Len(u) : In(t, u[k])
        /\ \A k \in 1..Len(u) : In(t, u[k]) => \E a \in 1..Len(m) : In(t, m[a])
    BY <1>7 DEF MadeOf
  <2> QED BY <2>1 DEF Has
<1>9. \A t \in Nat : \A v : Has(u, t, v) <=>
        t \in KnownAt(p, q) /\ v = Latest(p, t) /\ v.status # "offline"
  BY <1>1, <1>2, <1>6 DEF Tells
<1>10. /\ Windows(m) \in Seq(W)
       /\ \A t : Covers(Windows(m), t) <=> \E a \in 1..Len(m) : In(t, m[a])
  BY <1>7, WindowsAre
<1>11. \A t : t \in OnlineAt(p, q) <=> t \in Nat /\ Covers(Windows(m), t)
  BY <1>2, <1>8, <1>9, <1>10 DEF OnlineAt
<1> QED BY <1>3, <1>10, <1>11

\* The hours of a range are windows of it.
LEMMA HoursAre ==
  ASSUME NEW q \in W, NEW i \in DOMAIN Hours(q)
  PROVE  /\ Hours(q)[i] \in W
         /\ \A t \in Nat : In(t, Hours(q)[i]) => In(t, q)
<1> DEFINE n == (q.end - q.start + HourLength - 1) \div HourLength
           x == q.end - q.start
           h == Hours(q)[i]
<1>1. HourLength \in Nat \ {0}
  BY TimeAssumption
<1>2. q.start \in Nat /\ q.end \in Nat /\ q.start < q.end
  BY DEF W
<1>3. Hours(q) = [k \in 1..n |-> Window(q.start + (k - 1) * HourLength,
                                        Min2(q.start + k * HourLength, q.end))]
  BY DEF Hours
<1>4. i \in 1..n
  BY <1>3
<1>5. x \in Nat /\ n = (x + HourLength - 1) \div HourLength
  BY <1>2
<1> HIDE DEF n, x, h
<1>6. (i - 1) * HourLength < x
  BY <1>1, <1>4, <1>5
<1>7. n \in Int
  BY <1>1, <1>5
<1> DEFINE a == (i - 1) * HourLength
           b == i * HourLength
<1>8. a \in Nat /\ b \in Nat /\ a < b
  <2>1. i \in Nat /\ i - 1 \in Nat
    BY <1>4, <1>7
  <2> QED BY <1>1, <2>1
<1>9. h = Window(q.start + a, Min2(q.start + b, q.end))
  BY <1>3, <1>4 DEF h
<1>10. a < x
  BY <1>6
<1> HIDE DEF a, b
<1>11. h.start = q.start + a /\ h.end = Min2(q.start + b, q.end)
  BY <1>9 DEF Window
<1>12. /\ h.start \in Nat /\ h.end \in Nat /\ h.start < h.end
       /\ q.start <= h.start /\ h.end <= q.end
  BY <1>2, <1>8, <1>10, <1>11 DEF Min2, x
<1>13. h \in W
  <2>1. h = [start |-> h.start, end |-> h.end]
    BY <1>9 DEF Window
  <2> HIDE DEF h
  <2> QED BY <1>12, <2>1 DEF W
<1>14. \A t \in Nat : In(t, h) => In(t, q)
  BY <1>2, <1>12 DEF In
<1> QED BY <1>13, <1>14 DEF h

\* A cell of the heatmap counts instants.
LEMMA CellIs ==
  ASSUME HistoryInv, NEW p \in Person, NEW q \in W, Unmasked(p, q), NEW hour \in W,
         \A t \in Nat : In(t, hour) => In(t, q)
  PROVE  ActivityCell(Online(p, q), ObservedWindows(FetchedSamples(q), q),
                      TrackingWindows(FetchedEdges(p, q), q), hour)
           = [eligible |-> Cardinality({t \in Span(hour) : TrackedAt(p, t)}),
              observed |-> Cardinality(KnownAt(p, q) \cap Span(hour)),
              online |-> Cardinality(OnlineAt(p, q) \cap Span(hour))]
<1> DEFINE o == ObservedWindows(FetchedSamples(q), q)
           r == TrackingWindows(FetchedEdges(p, q), q)
           l == Online(p, q)
           one == <<hour>>
           eligible == IntersectWindows(r, one)
           observed == IntersectWindows(eligible, o)
           A == {t \in Span(hour) : TrackedAt(p, t)}
           B == KnownAt(p, q) \cap Span(hour)
           C == OnlineAt(p, q) \cap Span(hour)
<1>1. o \in Seq(W) /\ \A t \in Nat : Covers(o, t) => In(t, q)
  BY ObservedOf
<1>2. r \in Seq(W) /\ \A t \in Nat : Covers(r, t) <=> In(t, q) /\ TrackedAt(p, t)
  BY TrackedOf
<1>3. l \in Seq(W) /\ \A t : t \in OnlineAt(p, q) <=> t \in Nat /\ Covers(l, t)
  BY OnlineIs
<1>4. one \in Seq(W) /\ \A t : Covers(one, t) <=> In(t, hour)
  BY OneWindow
<1>5. \A t : t \in KnownAt(p, q) <=> t \in Covered(o) /\ TrackedAt(p, t)
  BY DEF KnownAt
<1>6. ActivityCell(l, o, r, hour) = [eligible |-> Minutes(eligible), observed |-> Minutes(observed),
                                     online |-> Minutes(IntersectWindows(observed, l))]
  BY DEF ActivityCell
<1>7. \A t : t \in Span(hour) <=> t \in Nat /\ In(t, hour)
  BY DEF Span, In, W
<1> HIDE DEF o, r, l, one
<1>8. \A t : t \in Covered(o) <=> t \in Nat /\ Covers(o, t)
  BY <1>1, CanonicalIs
<1>9. \A t : t \in OnlineAt(p, q) => t \in KnownAt(p, q)
  BY DEF OnlineAt
<1>10. /\ eligible \in Seq(W)
       /\ \A t \in Nat : Covers(eligible, t) <=> Covers(r, t) /\ Covers(one, t)
  BY <1>2, <1>4, IntersectedIs
<1>11. Minutes(eligible) = Cardinality(A)
  <2>1. \A t : t \in A <=> t \in Nat /\ Covers(r, t) /\ Covers(one, t)
    BY <1>2, <1>4, <1>7
  <2> HIDE DEF A
  <2> QED BY <1>2, <1>4, <2>1, MinutesOf
<1> HIDE DEF eligible
<1>12. /\ observed \in Seq(W)
       /\ \A t \in Nat : Covers(observed, t) <=> Covers(eligible, t) /\ Covers(o, t)
  BY <1>1, <1>10, IntersectedIs
<1>13. Minutes(observed) = Cardinality(B)
  <2>1. \A t : t \in B <=> t \in Nat /\ Covers(eligible, t) /\ Covers(o, t)
    BY <1>1, <1>2, <1>4, <1>5, <1>7, <1>8, <1>10
  <2> HIDE DEF B
  <2> QED BY <1>1, <1>10, <2>1, MinutesOf
<1> HIDE DEF observed
<1>14. Minutes(IntersectWindows(observed, l)) = Cardinality(C)
  <2>1. \A t : t \in C <=> t \in Nat /\ Covers(observed, t) /\ Covers(l, t)
    BY <1>1, <1>2, <1>3, <1>4, <1>5, <1>7, <1>8, <1>9, <1>10, <1>12
  <2> HIDE DEF C
  <2> QED BY <1>3, <1>12, <2>1, MinutesOf
<1> QED BY <1>6, <1>11, <1>13, <1>14 DEF o, r, l

\* The minutes two people are online together
LEMMA OverlapIs ==
  ASSUME HistoryInv, NEW p \in Person, NEW q \in W, Unmasked(p, q), Unmasked(Me, q)
  PROVE  Overlap(p, q) = Cardinality(OnlineAt(p, q) \cap OnlineAt(Me, q))
<1>1. Me \in Person
  BY PeopleAssumption
<1>2. /\ Online(p, q) \in Seq(W)
      /\ \A t : t \in OnlineAt(p, q) <=> t \in Nat /\ Covers(Online(p, q), t)
  BY OnlineIs
<1>3. /\ Online(Me, q) \in Seq(W)
      /\ \A t : t \in OnlineAt(Me, q) <=> t \in Nat /\ Covers(Online(Me, q), t)
  BY <1>1, OnlineIs
<1> DEFINE T == OnlineAt(p, q) \cap OnlineAt(Me, q)
<1>4. \A t : t \in T <=> t \in Nat /\ Covers(Online(p, q), t) /\ Covers(Online(Me, q), t)
  BY <1>2, <1>3
<1> HIDE DEF T
<1>5. Minutes(IntersectWindows(Online(p, q), Online(Me, q))) = Cardinality(T)
  BY <1>2, <1>3, <1>4, MinutesOf
<1> QED BY <1>5 DEF Overlap, T

-----------------------------------------------------------------------------
(* Co-presence                                                              *)

\* Two spans share an instant in an instance.
Shares(a, b, t) == In(t, a) /\ In(t, b) /\ a.place = b.place /\ a.place \in Instance

Sharing(a, b) == {t \in Nat : Shares(a, b, t)}

\* The instants that the pairs of spans share that have been compared
Common(l, r, i, j) ==
  {t \in Nat : \E a \in 1..Len(l), b \in 1..Len(r) :
                 Shares(l[a], r[b], t) /\ (a < i \/ b < j)}

\* sum counts them.
Summing(l, r, at) ==
  /\ at \in [i : 1..(Len(l) + 1), j : 1..(Len(r) + 1), sum : Nat]
  /\ IsFiniteSet(Common(l, r, at.i, at.j)) /\ at.sum = Cardinality(Common(l, r, at.i, at.j))

LEMMA SharedIs ==
  ASSUME NEW a \in Spn, NEW b \in Spn
  PROVE  /\ IsFiniteSet(Sharing(a, b))
         /\ Shared(a, b) = Cardinality(Sharing(a, b))
         /\ Shared(a, b) \in Nat
<1> DEFINE T == Sharing(a, b)
           both == Intersection(a, b)
<1>1. a.start \in Nat /\ a.end \in Nat /\ b.start \in Nat /\ b.end \in Nat
  BY SpansAre
<1>2. IsFiniteSet(T)
  <2>1. T \subseteq a.start..a.end
    BY <1>1 DEF Sharing, Shares, In
  <2>2. IsFiniteSet(a.start..a.end)
    <3>1. a.start \in Int /\ a.end \in Int
      BY <1>1
    <3> QED BY <3>1, FS_Interval
  <2> QED BY <2>1, <2>2, FS_Subset
<1>3. Shared(a, b) = Cardinality(T)
  <2>1. CASE a.place = b.place /\ a.place \in Instance
    <3>1. /\ both \in Seq(W) /\ Len(both) <= 1
          /\ \A t \in Nat : (\E i \in DOMAIN both : In(t, both[i])) <=> In(t, a) /\ In(t, b)
      BY <1>1, IntersectionIs
    <3>2. Shared(a, b) = Minutes(both)
      BY <2>1 DEF Shared
    <3> HIDE DEF both
    <3>3. Len(both) \in Nat /\ DOMAIN both = 1..Len(both)
      BY <3>1
    <3>4. Apart(both)
      <4>1. \A i, j \in 1..Len(both) : ~(i < j)
        BY <3>1, <3>3
      <4> QED BY <4>1 DEF Apart
    <3>5. Minutes(both) = Cardinality(Covered(both))
      BY <3>1, <3>4, MinutesAre
    <3>6. \A t : t \in Covered(both) <=> t \in Nat /\ Covers(both, t)
      BY <3>1, CanonicalIs
    <3>7. \A t \in Nat : Covers(both, t) <=> In(t, a) /\ In(t, b)
      BY <3>1, <3>3 DEF Covers
    <3>8. Covered(both) = T
      BY <2>1, <3>6, <3>7 DEF Sharing, Shares
    <3> QED BY <3>2, <3>5, <3>8
  <2>2. CASE ~(a.place = b.place /\ a.place \in Instance)
    <3>1. Shared(a, b) = 0
      BY <2>2 DEF Shared
    <3>2. T = {}
      BY <2>2 DEF Sharing, Shares
    <3> QED BY <3>1, <3>2, FS_EmptySet
  <2> QED BY <2>1, <2>2
<1>4. Shared(a, b) \in Nat
  BY <1>2, <1>3, FS_CardinalityType
<1> QED BY <1>2, <1>3, <1>4

\* What two sets that have nothing in common count together
LEMMA Disjoint ==
  ASSUME NEW S, NEW T, IsFiniteSet(S), IsFiniteSet(T), S \cap T = {}
  PROVE  IsFiniteSet(S \cup T) /\ Cardinality(S \cup T) = Cardinality(S) + Cardinality(T)
<1>1. Cardinality(S \cap T) = 0
  BY FS_EmptySet
<1>2. /\ IsFiniteSet(S \cup T)
      /\ Cardinality(S \cup T) = Cardinality(S) + Cardinality(T) - Cardinality(S \cap T)
  BY FS_Union
<1>3. Cardinality(S) \in Nat /\ Cardinality(T) \in Nat
  BY FS_CardinalityType
<1> QED BY <1>1, <1>2, <1>3

\* The pair at i and j is compared, and the span that ends first is left behind:
\* it shares nothing with the spans that follow.
LEMMA CommonStep ==
  ASSUME NEW l \in Seq(Spn), Chain(l), NEW r \in Seq(Spn), Chain(r),
         NEW i \in 1..Len(l), NEW j \in 1..Len(r), NEW x, NEW y,
         \/ l[i].end <= r[j].end /\ x = i + 1 /\ y = j
         \/ ~(l[i].end <= r[j].end) /\ x = i /\ y = j + 1
  PROVE  /\ Common(l, r, x, y) = Common(l, r, i, j) \cup Sharing(l[i], r[j])
         /\ Common(l, r, i, j) \cap Sharing(l[i], r[j]) = {}
<1>1. /\ Len(l) \in Nat /\ Len(r) \in Nat
      /\ \A a \in 1..Len(l) : l[a].start \in Nat /\ l[a].end \in Nat
      /\ \A b \in 1..Len(r) : r[b].start \in Nat /\ r[b].end \in Nat
  BY HasEnd
<1> DEFINE m == Len(l)
           n == Len(r)
<1>2. ASSUME NEW t \in Nat, NEW a \in 1..m, NEW b \in 1..n, Shares(l[a], r[b], t),
             a < x \/ b < y, ~(a < i), ~(b < j)
      PROVE  a = i /\ b = j
  <2>1. /\ l[a].start <= t /\ t < l[a].end
        /\ r[b].start <= t /\ t < r[b].end
    BY <1>2 DEF Shares, In
  <2>2. CASE l[i].end <= r[j].end /\ x = i + 1 /\ y = j
    <3>1. a = i
      BY <1>2, <2>2
    <3>2. CASE b # j
      <4>1. r[j].end <= r[b].start
        BY <1>2, <3>2 DEF Chain
      <4> QED BY <1>1, <2>1, <2>2, <3>1, <4>1
    <3> QED BY <3>1, <3>2
  <2>3. CASE ~(l[i].end <= r[j].end) /\ x = i /\ y = j + 1
    <3>1. b = j
      BY <1>2, <2>3
    <3>2. CASE a # i
      <4>1. l[i].end <= l[a].start
        BY <1>2, <3>2 DEF Chain
      <4> QED BY <1>1, <2>1, <2>3, <3>1, <4>1
    <3> QED BY <3>1, <3>2
  <2> QED BY <2>2, <2>3
<1>3. (\A a \in 1..m : a < i => a < x) /\ (\A b \in 1..n : b < j => b < y) /\ (i < x \/ j < y)
  OBVIOUS
<1>4. ASSUME NEW t \in Nat
      PROVE  t \in Common(l, r, x, y) <=> t \in Common(l, r, i, j) \/ Shares(l[i], r[j], t)
  <2> HIDE DEF m, n
  <2>1. t \in Common(l, r, x, y) => t \in Common(l, r, i, j) \/ Shares(l[i], r[j], t)
    <3> SUFFICES ASSUME t \in Common(l, r, x, y)
                 PROVE  t \in Common(l, r, i, j) \/ Shares(l[i], r[j], t)
      OBVIOUS
    <3>1. PICK a \in 1..m, b \in 1..n : Shares(l[a], r[b], t) /\ (a < x \/ b < y)
      BY DEF Common, m, n
    <3>2. CASE a < i \/ b < j
      BY <3>1, <3>2 DEF Common, m, n
    <3>3. CASE ~(a < i) /\ ~(b < j)
      <4>1. a = i /\ b = j
        BY <1>2, <3>1, <3>3
      <4> QED BY <3>1, <4>1
    <3> QED BY <3>2, <3>3
  <2>2. t \in Common(l, r, i, j) => t \in Common(l, r, x, y)
    BY <1>3 DEF Common, m, n
  <2>3. Shares(l[i], r[j], t) => t \in Common(l, r, x, y)
    BY <1>3 DEF Common
  <2> QED BY <2>1, <2>2, <2>3
<1>5. ASSUME NEW t \in Common(l, r, i, j), Shares(l[i], r[j], t)
      PROVE  FALSE
  <2>1. t \in Nat
    BY DEF Common
  <2>2. PICK a \in 1..m, b \in 1..n : Shares(l[a], r[b], t) /\ (a < i \/ b < j)
    BY DEF Common
  <2>3. In(t, l[a]) /\ In(t, l[i]) /\ In(t, r[b]) /\ In(t, r[j])
    BY <1>5, <2>2 DEF Shares
  <2>4. a = i
    BY <2>1, <2>3, ChainOne
  <2>5. b = j
    BY <2>1, <2>3, ChainOne
  <2> QED BY <2>2, <2>4, <2>5
<1>6. \A u, v : Common(l, r, u, v) \subseteq Nat
  BY DEF Common
<1>7. \A t : t \in Sharing(l[i], r[j]) <=> t \in Nat /\ Shares(l[i], r[j], t)
  BY DEF Sharing
<1> QED BY <1>4, <1>5, <1>6, <1>7

LEMMA TogetherIs ==
  ASSUME NEW l \in Seq(Spn), Chain(l), NEW r \in Seq(Spn), Chain(r), NEW at, Summing(l, r, at)
  PROVE  /\ Summing(l, r, Together(l, r, at))
         /\ \/ Together(l, r, at).i + Together(l, r, at).j = at.i + at.j + 1
            \/ Together(l, r, at) = at /\ (at.i > Len(l) \/ at.j > Len(r))
<1> DEFINE next == Together(l, r, at)
           i == at.i
           j == at.j
           I == 1..(Len(l) + 1)
           J == 1..(Len(r) + 1)
           both == Shared(l[i], r[j])
           T == Sharing(l[i], r[j])
<1>1. /\ Len(l) \in Nat /\ Len(r) \in Nat /\ i \in I /\ j \in J /\ at.sum \in Nat
      /\ at \in [i : I, j : J, sum : Nat]
      /\ IsFiniteSet(Common(l, r, i, j)) /\ at.sum = Cardinality(Common(l, r, i, j))
  BY DEF Summing
<1>2. CASE i > Len(l) \/ j > Len(r)
  BY <1>2 DEF Together
<1>3. CASE i \in 1..Len(l) /\ j \in 1..Len(r)
  <2>1. IsFiniteSet(T) /\ both = Cardinality(T) /\ both \in Nat
    <3>1. l[i] \in Spn /\ r[j] \in Spn
      BY <1>3
    <3> QED BY <3>1, SharedIs
  <2>2. ~(i > Len(l) \/ j > Len(r))
    BY <1>1, <1>3
  <2> DEFINE x == IF l[i].end <= r[j].end THEN i + 1 ELSE i
             y == IF l[i].end <= r[j].end THEN j ELSE j + 1
  <2>3. /\ Common(l, r, x, y) = Common(l, r, i, j) \cup T
        /\ Common(l, r, i, j) \cap T = {}
    <3>1. \/ l[i].end <= r[j].end /\ x = i + 1 /\ y = j
          \/ ~(l[i].end <= r[j].end) /\ x = i /\ y = j + 1
      OBVIOUS
    <3>2. \A k \in 1..Len(l) : \A m \in 1..Len(r) : \A z, w :
            \/ l[k].end <= r[m].end /\ z = k + 1 /\ w = m
            \/ ~(l[k].end <= r[m].end) /\ z = k /\ w = m + 1
            => /\ Common(l, r, z, w) = Common(l, r, k, m) \cup Sharing(l[k], r[m])
               /\ Common(l, r, k, m) \cap Sharing(l[k], r[m]) = {}
      BY CommonStep
    <3> HIDE DEF x, y, i, j
    <3> QED BY <1>3, <3>1, <3>2
  <2>4. x \in I /\ y \in J /\ x + y = i + j + 1
    <3>1. /\ i \in Nat /\ j \in Nat
          /\ i \in I /\ j \in J /\ i + 1 \in I /\ j + 1 \in J
      BY <1>1, <1>3
    <3> HIDE DEF i, j, I, J
    <3>2. CASE l[i].end <= r[j].end
      BY <3>1, <3>2
    <3>3. CASE ~(l[i].end <= r[j].end)
      BY <3>1, <3>3
    <3> QED BY <3>2, <3>3
  <2>5. next = [at EXCEPT !.i = x, !.j = y, !.sum = at.sum + both]
    <3>1. CASE l[i].end <= r[j].end
      <4>1. next = [at EXCEPT !.i = i + 1, !.sum = at.sum + both]
        BY <1>1, <2>2, <3>1 DEF Together
      <4>2. x = i + 1 /\ y = at.j
        BY <3>1
      <4> HIDE DEF next, I, J, both, x, y
      <4> QED BY <1>1, <4>1, <4>2
    <3>2. CASE ~(l[i].end <= r[j].end)
      <4>1. next = [at EXCEPT !.j = j + 1, !.sum = at.sum + both]
        BY <1>1, <2>2, <3>2 DEF Together
      <4>2. x = at.i /\ y = j + 1
        BY <3>2
      <4> HIDE DEF next, I, J, both, x, y
      <4> QED BY <1>1, <4>1, <4>2
    <3> QED BY <3>1, <3>2
  <2> HIDE DEF next, x, y, I, J, both
  <2>6. next.i = x /\ next.j = y /\ next.sum = at.sum + both
    BY <1>1, <2>5
  <2>7. next \in [i : I, j : J, sum : Nat]
    <3>1. at.sum + both \in Nat
      BY <1>1, <2>1
    <3> QED BY <1>1, <2>4, <2>5, <3>1
  <2>8. /\ IsFiniteSet(Common(l, r, x, y))
        /\ Cardinality(Common(l, r, x, y)) = at.sum + both
    <3> DEFINE C == Common(l, r, i, j)
    <3>1. IsFiniteSet(C) /\ IsFiniteSet(T) /\ C \cap T = {} /\ Common(l, r, x, y) = C \cup T
      BY <1>1, <2>1, <2>3
    <3>2. Cardinality(C) = at.sum /\ Cardinality(T) = both
      BY <1>1, <2>1
    <3> HIDE DEF C, T
    <3>3. IsFiniteSet(C \cup T) /\ Cardinality(C \cup T) = Cardinality(C) + Cardinality(T)
      BY <3>1, Disjoint
    <3> QED BY <3>1, <3>2, <3>3
  <2>9. Summing(l, r, next)
    BY <2>6, <2>7, <2>8 DEF Summing, I, J
  <2>10. next.i + next.j = at.i + at.j + 1
    BY <2>4, <2>6
  <2> QED BY <2>9, <2>10 DEF next
<1> QED BY <1>1, <1>2, <1>3

NoneYet == [i |-> 1, j |-> 1, sum |-> 0]

LEMMA TogetherRule ==
  ASSUME NEW who,
         NEW query,
         NEW l,
         NEW r,
         l = Visited(who, query),
         r = Visited(Me, query),
         Side(l, r) \in Nat, NEW Inv, NoneYet \in Inv[0],
         \A i \in 1..Side(l, r) : \A v \in Inv[i - 1] : Together(l, r, v) \in Inv[i]
  PROVE  \E at \in Inv[Side(l, r)] : CoPresence(who, query) = at.sum
<1> DEFINE n == Side(l, r)
           V == UNION {Inv[i] : i \in 0..n}
           G == [p \in V \X (1..n) |-> Together(l, r, p[1])]
           Def(f) == [i \in 0..n |-> IF i = 0 THEN NoneYet
                                    ELSE Together(l, r, f[i - 1])]
           up == CHOOSE f : f = Def(f)
<1>1. CoPresence(who, query) = up[n].sum
  BY DEF CoPresence, Loop, Side, NoneYet
<1> HIDE DEF n
<1>2. /\ n \in Nat /\ \A i \in 0..n : i # 0 => i \in 1..n
      /\ 0 \in 0..n /\ \A i \in 1..n : i \in 0..n /\ i # 0 /\ i - 1 \in 0..n
  BY DEF n
<1>3. Within(n, Inv, V) /\ \A i \in 1..n : \A v \in Inv[i - 1] : G[<<v, i>>] = Together(l, r, v)
  BY <1>2 DEF Within
<1> HIDE DEF G, V
<1>4. Kept(n, Inv, G)
  BY <1>3 DEF n, Kept
<1>5. PICK f : Run(f, n, V, NoneYet, Inv, G)
  BY <1>2, <1>3, <1>4, Rounds
<1>6. f = Def(f)
  <2>1. \A i \in 0..n : f[i] = IF i = 0 THEN NoneYet ELSE Together(l, r, f[i - 1])
    BY <1>2, <1>3, <1>5 DEF Run
  <2> QED BY <1>5, <2>1 DEF Run
<1>7. up = Def(up)
  BY <1>6
<1>8. up[0] = NoneYet /\ \A i \in 1..n : up[i] = Together(l, r, up[i - 1])
  BY <1>2, <1>7
<1> HIDE DEF up
<1>9. \A i \in 0..n : up[i] \in Inv[i]
  <2>1. up[0] \in Inv[0] /\ \A i \in 1..n : up[i - 1] \in Inv[i - 1] => up[i] \in Inv[i]
    BY <1>8 DEF n
  <2> QED BY <1>2, <2>1, FamilyInduction
<1> QED BY <1>1, <1>2, <1>9 DEF n

\* The minutes of two people in one instance are the instants their spans share.
LEMMA CoPresenceIs ==
  ASSUME NEW p, NEW q, NEW l \in Seq(Spn), Chain(l), l = Visited(p, q),
         NEW r \in Seq(Spn), Chain(r), r = Visited(Me, q),
         NEW T, \A t : t \in T <=> /\ t \in Nat
                                   /\ \E a \in 1..Len(l), b \in 1..Len(r) : Shares(l[a], r[b], t)
  PROVE  CoPresence(p, q) = Cardinality(T)
<1> DEFINE n == Side(l, r)
           Far(at, k) == at.i + at.j = k + 2 \/ at.i > Len(l) \/ at.j > Len(r)
           S == [i : 1..(Len(l) + 1), j : 1..(Len(r) + 1), sum : Nat]
           Inv == [k \in 0..n |-> {at \in S : Summing(l, r, at) /\ Far(at, k)}]
<1>2. n \in Nat /\ n = Len(l) + Len(r) /\ Len(l) \in Nat /\ Len(r) \in Nat
  BY DEF Side
<1> HIDE DEF n
<1>3. NoneYet \in Inv[0]
  <2>1. NoneYet.i = 1 /\ NoneYet.j = 1 /\ NoneYet.sum = 0
    BY DEF NoneYet
  <2>2. NoneYet \in S
    BY <1>2 DEF NoneYet
  <2>3. Common(l, r, 1, 1) = {}
    <3>1. (\A a \in 1..Len(l) : ~(a < 1)) /\ (\A b \in 1..Len(r) : ~(b < 1))
      BY <1>2
    <3> QED BY <3>1 DEF Common
  <2>4. Summing(l, r, NoneYet)
    BY <2>1, <2>2, <2>3, FS_EmptySet DEF Summing
  <2>5. 0 \in 0..n /\ 1 + 1 = 0 + 2
    BY <1>2
  <2> QED BY <2>1, <2>2, <2>4, <2>5
<1>4. ASSUME NEW k \in 1..n, NEW at \in Inv[k - 1]
      PROVE  Together(l, r, at) \in Inv[k]
  <2> DEFINE next == Together(l, r, at)
  <2>1. k - 1 \in 0..n /\ k \in 0..n
    BY <1>2
  <2>2. at \in S /\ Summing(l, r, at) /\ Far(at, k - 1)
    BY <2>1
  <2>3. /\ Summing(l, r, next)
        /\ \/ next.i + next.j = at.i + at.j + 1
           \/ next = at /\ (at.i > Len(l) \/ at.j > Len(r))
    <3>1. Summing(l, r, at)
      BY <2>2
    <3> HIDE DEF S, Far
    <3> QED BY <3>1, TogetherIs
  <2> HIDE DEF next
  <2>4. next \in S
    BY <2>3 DEF Summing
  <2>5. Far(next, k)
    <3>1. CASE next = at
      BY <2>2, <2>3, <3>1, <1>2
    <3>2. CASE next.i + next.j = at.i + at.j + 1 /\ at.i + at.j = (k - 1) + 2
      BY <2>2, <2>4, <3>2, <1>2
    <3>3. CASE next # at /\ (at.i > Len(l) \/ at.j > Len(r))
      <4>1. Together(l, r, at) = at
        BY <3>3 DEF Together
      <4> QED BY <3>3, <4>1 DEF next
    <3> QED BY <2>2, <2>3, <3>1, <3>2, <3>3
  <2> HIDE DEF Far, S
  <2> QED BY <2>1, <2>3, <2>4, <2>5 DEF next
<1>5. PICK at \in Inv[n] : CoPresence(p, q) = at.sum
  <2> HIDE DEF Inv
  <2> QED BY <1>2, <1>3, <1>4, TogetherRule DEF n
<1>6. n \in 0..n
  BY <1>2
<1>7. at \in S /\ Summing(l, r, at) /\ (at.i > Len(l) \/ at.j > Len(r))
  BY <1>2, <1>5, <1>6
<1>8. Common(l, r, at.i, at.j) = T
  <2>1. \A a \in 1..Len(l), b \in 1..Len(r) : a < at.i \/ b < at.j
    BY <1>2, <1>7
  <2>2. \A t : t \in Common(l, r, at.i, at.j) <=> t \in T
    BY <2>1 DEF Common
  <2>3. \A t \in T : t \in Nat
    OBVIOUS
  <2> QED BY <2>2
<1>9. at.sum = Cardinality(Common(l, r, at.i, at.j))
  BY <1>7 DEF Summing
<1> QED BY <1>5, <1>8, <1>9

LEMMA FiguresOf == HistoryInv => FiguresAddUp
<1> SUFFICES ASSUME HistoryInv, NEW q \in Past, NEW p \in Person, Unmasked(p, q)
             PROVE  LET known == KnownAt(p, q)
                        online == {t \in known : Latest(p, t).status # "offline"}
                        cells == Cells(p, q)
                        hours == Hours(q)
                        mine == KnownAt(Me, q)
                        both == {t \in online \cap mine : Latest(Me, t).status # "offline"}
                    IN /\ \A i \in DOMAIN hours :
                            cells[i] =
                              [eligible |-> Cardinality({t \in Span(hours[i]) : TrackedAt(p, t)}),
                               observed |-> Cardinality(known \cap Span(hours[i])),
                               online |-> Cardinality(online \cap Span(hours[i]))]
                       /\ p # Me /\ Unmasked(Me, q) =>
                            /\ Overlap(p, q) = Cardinality(both)
                            /\ CoPresence(p, q) =
                                 Cardinality({t \in both : /\ Latest(p, t).place = Latest(Me, t).place
                                                           /\ Latest(p, t).place \in Instance})
  BY DEF FiguresAddUp
<1> DEFINE online == {t \in KnownAt(p, q) : Latest(p, t).status # "offline"}
           both == {t \in online \cap KnownAt(Me, q) : Latest(Me, t).status # "offline"}
           T == {t \in both : /\ Latest(p, t).place = Latest(Me, t).place
                              /\ Latest(p, t).place \in Instance}
           hours == Hours(q)
<1>1. q \in W /\ Me \in Person
  BY QueriesAre, PeopleAssumption
<1>2. online = OnlineAt(p, q)
  BY DEF OnlineAt
<1>3. both = OnlineAt(p, q) \cap OnlineAt(Me, q)
  BY DEF OnlineAt
<1>4. ASSUME NEW i \in DOMAIN hours
      PROVE  Cells(p, q)[i] =
               [eligible |-> Cardinality({t \in Span(hours[i]) : TrackedAt(p, t)}),
                observed |-> Cardinality(KnownAt(p, q) \cap Span(hours[i])),
                online |-> Cardinality(online \cap Span(hours[i]))]
  <2>1. hours[i] \in W /\ \A t \in Nat : In(t, hours[i]) => In(t, q)
    BY <1>1, HoursAre
  <2>2. Cells(p, q)[i] = ActivityCell(Online(p, q), ObservedWindows(FetchedSamples(q), q),
                                      TrackingWindows(FetchedEdges(p, q), q), hours[i])
    BY DEF Cells
  <2> DEFINE hour == hours[i]
  <2> HIDE DEF hour, online
  <2> QED BY <1>1, <1>2, <2>1, <2>2, CellIs
<1>5. ASSUME Unmasked(Me, q)
      PROVE  Overlap(p, q) = Cardinality(both)
  <2> HIDE DEF both
  <2> QED BY <1>1, <1>3, <1>5, OverlapIs
<1>6. CoPresence(p, q) = Cardinality(T)
  <2> DEFINE l == Visited(p, q)
             r == Visited(Me, q)
  <2>1. /\ l \in Seq(Spn) /\ Chain(l)
        /\ \A t \in Nat : \A v : Has(l, t, v) <=>
             t \in KnownAt(p, q) /\ v = Latest(p, t) /\ v.status # "offline"
    BY <1>1, VisitedSay
  <2>2. /\ r \in Seq(Spn) /\ Chain(r)
        /\ \A t \in Nat : \A v : Has(r, t, v) <=>
             t \in KnownAt(Me, q) /\ v = Latest(Me, t) /\ v.status # "offline"
    BY <1>1, VisitedSay
  <2>3. l = Visited(p, q) /\ r = Visited(Me, q)
    OBVIOUS
  <2>4. \A t \in KnownAt(p, q) : t \in Nat
    BY <1>1, KnownIs
  <2> HIDE DEF l, r
  <2>5. ASSUME NEW t \in Nat
        PROVE  t \in T <=> \E a \in 1..Len(l), b \in 1..Len(r) : Shares(l[a], r[b], t)
    <3>1. ASSUME t \in T
          PROVE  \E a \in 1..Len(l), b \in 1..Len(r) : Shares(l[a], r[b], t)
      <4>1. Has(l, t, Latest(p, t)) /\ Has(r, t, Latest(Me, t))
        BY <2>1, <2>2, <3>1
      <4>2. PICK a \in 1..Len(l) : In(t, l[a]) /\ View(l[a]) = Latest(p, t)
        BY <4>1 DEF Has
      <4>3. PICK b \in 1..Len(r) : In(t, r[b]) /\ View(r[b]) = Latest(Me, t)
        BY <4>1 DEF Has
      <4>4. l[a].place = Latest(p, t).place /\ r[b].place = Latest(Me, t).place
        <5>1. View(l[a]).place = l[a].place /\ View(r[b]).place = r[b].place
          BY DEF View
        <5> QED BY <4>2, <4>3, <5>1
      <4>5. Latest(p, t).place = Latest(Me, t).place /\ Latest(p, t).place \in Instance
        BY <3>1
      <4> QED BY <4>2, <4>3, <4>4, <4>5 DEF Shares
    <3>2. ASSUME NEW a \in 1..Len(l), NEW b \in 1..Len(r), Shares(l[a], r[b], t)
          PROVE  t \in T
      <4>1. Has(l, t, View(l[a])) /\ Has(r, t, View(r[b]))
        BY <3>2 DEF Has, Shares
      <4>2. /\ t \in KnownAt(p, q) /\ View(l[a]) = Latest(p, t) /\ View(l[a]).status # "offline"
            /\ t \in KnownAt(Me, q) /\ View(r[b]) = Latest(Me, t) /\ View(r[b]).status # "offline"
        BY <2>1, <2>2, <4>1
      <4>3. Latest(p, t).place = l[a].place /\ Latest(Me, t).place = r[b].place
        <5>1. View(l[a]).place = l[a].place /\ View(r[b]).place = r[b].place
          BY DEF View
        <5> QED BY <4>2, <5>1
      <4>4. l[a].place = r[b].place /\ l[a].place \in Instance
        BY <3>2 DEF Shares
      <4> QED BY <4>2, <4>3, <4>4
    <3> QED BY <3>1, <3>2
  <2>6. \A t : t \in T <=> /\ t \in Nat
                           /\ \E a \in 1..Len(l), b \in 1..Len(r) : Shares(l[a], r[b], t)
    <3>1. \A t \in T : t \in Nat
      BY <2>4
    <3> HIDE DEF T
    <3> QED BY <2>5, <3>1
  <2> HIDE DEF T
  <2> QED BY <2>1, <2>2, <2>3, <2>6, CoPresenceIs
<1> HIDE DEF hours
<1> QED BY <1>4, <1>5, <1>6 DEF hours

\* For every history whose range is not preceded by an anomaly, the hours of a
\* person and what two people share count the instants at which it is so.
THEOREM FiguresCount == Spec => []FiguresAddUp
BY HistoryIsInv, FiguresOf, PTL

-----------------------------------------------------------------------------
(* Visits                                                                   *)

\* A place changes because a report says so.
LEMMA PlaceMoves ==
  ASSUME HistoryInv, NEW p \in Person, NEW u \in Nat, NEW w \in Nat, u <= w,
         Latest(p, u).place # Latest(p, w).place
  PROVE  \E i \in DOMAIN events[p] :
           /\ ~events[p][i].anomaly /\ events[p][i].place = Latest(p, w).place
           /\ u < events[p][i].at /\ events[p][i].at <= w
<1> DEFINE s == events[p]
           n == Len(s)
<1>1. s \in Seq(Event) /\ Timed(Event)
  BY HistoryIs
<1>2. /\ n \in Nat /\ DOMAIN s = 1..n
      /\ \A i \in 1..n : s[i] \in Event /\ s[i].at \in Nat /\ (s[i] \in Plain <=> ~s[i].anomaly)
  BY <1>1 DEF Timed, Plain
<1>3. /\ \A t, v : Says(p, s, n, t, v) <=> v = Latest(p, t)
  BY LatestSays
<1> HIDE DEF s, n
<1>4. ASSUME NEW x, Tops(s, n, Plain, w, x)
      PROVE  \E i \in 1..n : /\ s[i] \in Plain /\ s[i].place = Latest(p, w).place
                             /\ u < s[i].at /\ s[i].at <= w
  <2>1. PICK i \in 1..n : /\ s[i] = x /\ x \in Plain /\ x.at <= w
                          /\ \A j \in 1..n : s[j] \in Plain /\ s[j].at <= w => j <= i
    BY <1>4 DEF Tops
  <2>2. Latest(p, w) = Shown(p, x)
    BY <1>3, <1>4 DEF Says
  <2>3. x.place = Latest(p, w).place
    BY <2>2 DEF Shown
  <2>4. CASE x.at <= u
    <3>1. \A j \in 1..n : s[j].at <= u => s[j].at <= w
      BY <1>2
    <3>2. Tops(s, n, Plain, u, x)
      BY <2>1, <2>4, <3>1 DEF Tops
    <3>3. Latest(p, u) = Shown(p, x)
      BY <1>3, <3>2 DEF Says
    <3> QED BY <2>2, <3>3
  <2>5. CASE ~(x.at <= u)
    <3>1. u < s[i].at
      BY <1>2, <2>1, <2>5
    <3> QED BY <2>1, <2>3, <3>1
  <2> QED BY <2>4, <2>5
<1>5. ASSUME \A x : ~Tops(s, n, Plain, w, x)
      PROVE  FALSE
  <2>1. Latest(p, w) = Unknown
    BY <1>3, <1>5 DEF Says
  <2>2. \A k \in 1..n : ~(s[k] \in Plain /\ s[k].at <= w)
    BY <1>2, <1>5, TopsExist
  <2>3. \A k \in 1..n : ~(s[k] \in Plain /\ s[k].at <= u)
    BY <1>2, <2>2
  <2>4. \A x : ~Tops(s, n, Plain, u, x)
    BY <2>3 DEF Tops
  <2>5. Latest(p, u) = Unknown
    BY <1>3, <2>4 DEF Says
  <2> QED BY <2>1, <2>5
<1>6. \E i \in 1..n : /\ s[i] \in Plain /\ s[i].place = Latest(p, w).place
                      /\ u < s[i].at /\ s[i].at <= w
  BY <1>4, <1>5
<1> QED BY <1>2, <1>6 DEF s

\* What is picked is one of the rows.
LEMMA PickedHolds ==
  ASSUME NEW S, NEW s \in Seq(S), NEW indices, NEW k \in DOMAIN Picked(s, indices)
  PROVE  \E i \in DOMAIN s : Picked(s, indices)[k] = s[i]
<1> DEFINE g == Picked(s, indices)
<1>1. g \in Seq(S) /\ \E f : Lists(f, g, s, indices, Len(s))
  BY PickedIs
<1>2. k \in DOMAIN g
  OBVIOUS
<1> HIDE DEF g
<1>3. PICK f : Lists(f, g, s, indices, Len(s))
  BY <1>1
<1>4. k \in 1..Len(g) /\ DOMAIN s = 1..Len(s)
  BY <1>1, <1>2
<1>5. f[k] \in 1..Len(s) /\ g[k] = s[f[k]]
  BY <1>3, <1>4 DEF Lists
<1> QED BY <1>4, <1>5 DEF g

\* What the discovery of a range reads are reports of the person.
LEMMA DiscoveryHolds ==
  ASSUME HistoryInv, NEW p \in Person, NEW q, NEW k \in DOMAIN DiscoveryEvents(p, q)
  PROVE  \E i \in DOMAIN events[p] : DiscoveryEvents(p, q)[k] = events[p][i]
<1> DEFINE s == events[p]
           I == {i \in DOMAIN s : ~s[i].anomaly}
           g == Picked(s, I)
           es == DiscoveryEvents(p, q)
<1>1. s \in Seq(Event)
  BY HistoryIs
<1>2. \E J : es = Picked(g, J)
  BY DEF DiscoveryEvents, WithPrior
<1> HIDE DEF s, I
<1>3. g \in Seq(Event)
  BY <1>1, PickedIs
<1>4. \A j \in DOMAIN g : \E i \in DOMAIN s : g[j] = s[i]
  BY <1>1, PickedHolds
<1> HIDE DEF g
<1>5. PICK J : es = Picked(g, J)
  BY <1>2
<1> HIDE DEF es
<1>6. \E j \in DOMAIN g : es[k] = g[j]
  <2>1. k \in DOMAIN Picked(g, J)
    BY <1>5 DEF es
  <2> QED BY <2>1, <1>3, <1>5, PickedHolds
<1> QED BY <1>4, <1>6 DEF s, es

\* The instants at which a person is seen at a place
SeenAt(p, place, q) ==
  {t \in KnownAt(p, q) : Latest(p, t).status # "offline" /\ Latest(p, t).place = place}

Gone(e, place) == e.status = "offline" \/ e.place # place

\* The spans that are counted as visits of a place
Counted(p, place, q) ==
  {i \in DOMAIN Visited(p, q) :
     /\ Visited(p, q)[i].place = place
     /\ ~Continues(Visited(p, q), DiscoveryEvents(p, q), i)}

\* Before a span that is counted, the person has gone since being seen there.
LEMMA CountedArrives ==
  ASSUME HistoryInv, NEW p \in Person, NEW q \in W, NEW place, NEW i \in Counted(p, place, q)
  PROVE  Visited(p, q)[i].start \in Arrivals(p, place, q)
<1> DEFINE m == Visited(p, q)
           n == Len(m)
           es == DiscoveryEvents(p, q)
           s == events[p]
           x == m[i].start
<1>1. /\ m \in Seq(Spn) /\ Chain(m)
      /\ \A t \in Nat : \A v : Has(m, t, v) <=>
           t \in KnownAt(p, q) /\ v = Latest(p, t) /\ v.status # "offline"
  BY VisitedSay
<1>2. n \in Nat /\ DOMAIN m = 1..n /\ i \in 1..n /\ m[i].place = place /\ ~Continues(m, es, i)
  BY <1>1 DEF Counted
<1>3. /\ \A a \in 1..n : /\ m[a].start \in Nat /\ m[a].end \in Nat /\ m[a].start < m[a].end
                         /\ Has(m, m[a].start, View(m[a]))
      /\ \A a, b \in 1..n : a < b => m[a].end <= m[b].start
  BY <1>1, HasEnd DEF Chain
<1>4. \A t, v : Has(m, t, v) <=> \E a \in 1..n : In(t, m[a]) /\ View(m[a]) = v
  BY DEF Has
<1>5. \A a \in 1..n : View(m[a]).place = m[a].place
  BY DEF View
<1>6. \A k \in DOMAIN es : \E j \in DOMAIN s : es[k] = s[j]
  BY DiscoveryHolds
<1>7. \A t \in KnownAt(p, q) : t \in Nat
  BY KnownIs
<1>8. i > 1 => \/ m[i - 1].place # place
               \/ Interrupted(es, m[i - 1].end, x, place)
  BY <1>2 DEF Continues
<1>9. \A t \in KnownAt(p, q) : t \in SeenAt(p, place, q) <=>
        Latest(p, t).status # "offline" /\ Latest(p, t).place = place
  BY DEF SeenAt
<1>10. SeenAt(p, place, q) \subseteq KnownAt(p, q)
  BY DEF SeenAt
<1>11. \A t : t \in Arrivals(p, place, q) <=>
         /\ t \in SeenAt(p, place, q)
         /\ \A u \in SeenAt(p, place, q) : u < t =>
              \E j \in DOMAIN s : /\ ~s[j].anomaly /\ Gone(s[j], place)
                                  /\ u < s[j].at /\ s[j].at <= t
  BY DEF Arrivals, SeenAt, Gone
<1>12. \A j \in DOMAIN s : s[j].at \in Nat
  <2>1. s \in Seq(Event) /\ Timed(Event)
    BY HistoryIs
  <2> HIDE DEF s
  <2>2. \A j \in DOMAIN s : s[j] \in Event
    BY <2>1
  <2> QED BY <2>1, <2>2 DEF Timed
<1> HIDE DEF m, n, es, s
<1>13. x \in SeenAt(p, place, q)
  <2>1. Has(m, x, View(m[i])) /\ x \in Nat /\ View(m[i]).place = place
    BY <1>2, <1>3, <1>5
  <2>2. x \in KnownAt(p, q) /\ View(m[i]) = Latest(p, x) /\ View(m[i]).status # "offline"
    BY <1>1, <2>1
  <2> QED BY <1>9, <2>1, <2>2
<1>14. ASSUME NEW u \in SeenAt(p, place, q), u < x
       PROVE  \E j \in DOMAIN s : /\ ~s[j].anomaly /\ Gone(s[j], place)
                                  /\ u < s[j].at /\ s[j].at <= x
  <2>1. u \in Nat /\ Latest(p, u).status # "offline" /\ Latest(p, u).place = place
        /\ Has(m, u, Latest(p, u))
    BY <1>1, <1>7, <1>9, <1>10
  <2>2. PICK a \in 1..n : In(u, m[a]) /\ View(m[a]) = Latest(p, u)
    BY <1>4, <2>1
  <2>3. m[a].place = place /\ u < m[a].end /\ m[a].start <= u
    BY <1>5, <2>1, <2>2 DEF In
  <2>4. a < i
    <3>1. a = i => x <= u
      BY <2>3
    <3>2. i < a => m[i].end <= m[a].start
      BY <1>2, <1>3
    <3>3. x \in Nat /\ m[i].end \in Nat /\ x < m[i].end /\ m[a].start \in Nat
      BY <1>2, <1>3
    <3>4. ~(i < a) /\ a # i
      BY <1>14, <2>1, <2>3, <3>1, <3>2, <3>3
    <3> QED BY <1>2, <3>4
  <2> DEFINE h == i - 1
  <2>5. h \in 1..n /\ h < i /\ (a = h \/ a < h) /\ i > 1
    BY <1>2, <2>4
  <2>6. m[h].place # place \/ Interrupted(es, m[h].end, x, place)
    BY <1>8, <2>5
  <2> HIDE DEF h
  <2>7. CASE Interrupted(es, m[h].end, x, place)
    <3>1. PICK k \in DOMAIN es : /\ ~es[k].anomaly /\ m[h].end < es[k].at /\ es[k].at <= x
                                 /\ Gone(es[k], place)
      BY <2>7 DEF Interrupted, Gone
    <3>2. PICK j \in DOMAIN s : es[k] = s[j]
      BY <1>6
    <3>3. m[a].end <= m[h].end
      <4>1. CASE a < h
        <5>1. m[a].end <= m[h].start
          BY <1>3, <2>5, <4>1
        <5> QED BY <1>3, <2>5, <5>1
      <4>2. CASE a = h
        BY <1>3, <2>5, <4>2
      <4> QED BY <2>5, <4>1, <4>2
    <3>4. u < s[j].at
      BY <1>3, <1>12, <2>1, <2>3, <2>5, <3>1, <3>2, <3>3
    <3> QED BY <3>1, <3>2, <3>4
  <2>8. CASE m[h].place # place
    <3> DEFINE w == m[h].start
    <3>1. a < h
      BY <2>3, <2>5, <2>8
    <3>2. u < w /\ w \in Nat /\ w < x /\ x \in Nat
      <4>1. m[a].end <= m[h].start /\ m[h].end <= m[i].start
        BY <1>2, <1>3, <2>5, <3>1
      <4>2. m[a].end \in Nat /\ m[h].start \in Nat /\ m[h].end \in Nat /\ m[h].start < m[h].end /\ x \in Nat
        BY <1>2, <1>3, <2>5
      <4> QED BY <2>1, <2>3, <4>1, <4>2
    <3>3. Latest(p, w).place = m[h].place
      <4>1. Has(m, w, View(m[h])) /\ w \in Nat
        BY <1>3, <2>5
      <4> QED BY <1>1, <1>5, <2>5, <4>1
    <3> HIDE DEF w
    <3>4. u <= w /\ Latest(p, u).place # Latest(p, w).place
      BY <2>1, <2>8, <3>2, <3>3
    <3>5. PICK j \in DOMAIN s : /\ ~s[j].anomaly /\ s[j].place = Latest(p, w).place
                                /\ u < s[j].at /\ s[j].at <= w
      BY <2>1, <3>2, <3>4, PlaceMoves DEF s
    <3>6. s[j].at <= x
      BY <1>12, <3>2, <3>5
    <3>7. Gone(s[j], place)
      BY <2>8, <3>3, <3>5 DEF Gone
    <3> QED BY <3>5, <3>6, <3>7
  <2> QED BY <2>6, <2>7, <2>8
<1>15. x \in Arrivals(p, place, q)
  BY <1>11, <1>13, <1>14
<1> QED BY <1>15 DEF m

\* Whoever is seen at a place has a span that is counted.
LEMMA SeenCounts ==
  ASSUME HistoryInv, NEW p \in Person, NEW q \in W, NEW place, NEW t \in SeenAt(p, place, q)
  PROVE  Counted(p, place, q) # {}
<1> DEFINE m == Visited(p, q)
           n == Len(m)
           There == {a \in 1..n : m[a].place = place}
<1>1. /\ m \in Seq(Spn)
      /\ \A x \in Nat : \A v : Has(m, x, v) <=>
           x \in KnownAt(p, q) /\ v = Latest(p, x) /\ v.status # "offline"
  BY VisitedSay
<1>2. n \in Nat /\ DOMAIN m = 1..n
  BY <1>1
<1>3. t \in KnownAt(p, q) /\ t \in Nat /\ Latest(p, t).status # "offline" /\ Latest(p, t).place = place
  BY KnownIs DEF SeenAt
<1>4. Has(m, t, Latest(p, t))
  BY <1>1, <1>3
<1>5. PICK a \in 1..n : View(m[a]) = Latest(p, t)
  BY <1>4 DEF Has
<1>6. m[a].place = place
  BY <1>3, <1>5 DEF View
<1>7. a \in There /\ There \subseteq Nat /\ There \subseteq 1..n /\ \A b \in There : m[b].place = place
  BY <1>6
<1>8. \A b \in 1..n : m[b].place = place => b \in There
  OBVIOUS
<1> HIDE DEF There
<1>9. PICK i \in There : \A b \in There : i <= b
  BY <1>7, Least
<1>10. ~Continues(m, DiscoveryEvents(p, q), i)
  <2> SUFFICES ASSUME i > 1, m[i - 1].place = m[i].place
               PROVE  FALSE
    BY DEF Continues
  <2> DEFINE h == i - 1
  <2>1. h \in 1..n /\ h < i /\ m[h].place = place /\ ~(i <= h)
    BY <1>2, <1>7, <1>9
  <2> HIDE DEF h
  <2> QED BY <1>8, <1>9, <2>1
<1>11. i \in DOMAIN m /\ m[i].place = place
  BY <1>2, <1>7, <1>9
<1> QED BY <1>10, <1>11 DEF Counted

LEMMA VisitsOf == HistoryInv => GapsAreNotVisits
<1> SUFFICES ASSUME HistoryInv, NEW q \in Past, NEW p \in Person, NEW place \in Instance
             PROVE  LET arrivals == Cardinality(Arrivals(p, place, q))
                    IN /\ Visits(p, place, q) <= arrivals
                       /\ arrivals > 0 => Visits(p, place, q) > 0
  BY DEF GapsAreNotVisits
<1> DEFINE A == Arrivals(p, place, q)
           B == Counted(p, place, q)
           m == Visited(p, q)
           f == [i \in B |-> m[i].start]
<1>1. q \in W
  BY QueriesAre
<1>2. Visits(p, place, q) = Cardinality(B)
  BY DEF Visits, Counted
<1>3. \A i \in B : m[i].start \in A
  BY <1>1, CountedArrives
<1>4. m \in Seq(Spn) /\ Chain(m) /\ \A i \in B : i \in DOMAIN m
  BY <1>1, VisitedSay DEF Counted
<1>5. A \subseteq SeenAt(p, place, q)
  BY DEF Arrivals, SeenAt
<1>6. \A t \in SeenAt(p, place, q) : B # {}
  BY <1>1, SeenCounts
<1>7. IsFiniteSet(A)
  <2>1. q.start \in Int /\ q.end \in Int /\ q.start \in Nat /\ q.end \in Nat
    BY <1>1 DEF W
  <2>2. \A t \in KnownAt(p, q) : t \in Nat /\ In(t, q)
    BY <1>1, KnownIs
  <2>3. A \subseteq q.start..q.end
    BY <1>5, <2>1, <2>2 DEF SeenAt, In
  <2>4. IsFiniteSet(q.start..q.end)
    BY <2>1, FS_Interval
  <2> HIDE DEF A
  <2> QED BY <2>3, <2>4, FS_Subset
<1> HIDE DEF A, B, m
<1>8. \A i, j \in B : m[i].start = m[j].start => i = j
  <2> SUFFICES ASSUME NEW i \in B, NEW j \in B, m[i].start = m[j].start
               PROVE  i = j
    OBVIOUS
  <2>1. i \in 1..Len(m) /\ j \in 1..Len(m)
    BY <1>4
  <2>2. /\ m[i].start \in Nat /\ m[i].end \in Nat /\ m[i].start < m[i].end
        /\ m[j].start \in Nat /\ m[j].end \in Nat /\ m[j].start < m[j].end
    BY <1>4, <2>1, HasEnd
  <2>3. In(m[i].start, m[i]) /\ In(m[i].start, m[j])
    BY <2>2 DEF In
  <2> QED BY <1>4, <2>1, <2>2, <2>3, ChainOne
<1>9. f \in Injection(B, A)
  <2>1. f \in [B -> A]
    BY <1>3
  <2>2. \A i, j \in DOMAIN f : f[i] = f[j] => i = j
    BY <1>8
  <2> HIDE DEF f
  <2> QED BY <2>1, <2>2 DEF Injection, IsInjective
<1> HIDE DEF f
<1>10. IsFiniteSet(B) /\ Cardinality(B) <= Cardinality(A)
  BY <1>7, <1>9, FS_Injection
<1>11. ASSUME Cardinality(A) > 0
       PROVE  Cardinality(B) > 0
  <2>1. A # {}
    BY <1>7, <1>11, FS_EmptySet
  <2>2. B # {}
    BY <1>5, <1>6, <2>1
  <2>3. Cardinality(B) # 0 /\ Cardinality(B) \in Nat
    BY <1>10, <2>2, FS_EmptySet, FS_CardinalityType
  <2> QED BY <2>3
<1> QED BY <1>2, <1>10, <1>11 DEF A

\* Whatever is unknown in between, the visits of a place are never more than the
\* arrivals there, and who was seen there has visited.
THEOREM GapsCountNothing == Spec => []GapsAreNotVisits
BY HistoryIsInv, VisitsOf, PTL

=============================================================================
