------------------------- MODULE SubsequencesProofs -------------------------
EXTENDS Subsequences, FiniteSetsExt, FiniteSetTheorems, WellFoundedInduction, TLAPS

(* A set of naturals that has a member has a least one. *)
LEMMA LeastNat ==
  ASSUME NEW T, T \subseteq Nat, T # {}
  PROVE  \E x \in T : \A y \in T : x <= y
<1>1. IsWellFoundedOn(OpToRel(<, Nat), Nat)
  BY NatLessThanWellFounded
<1>2. PICK x \in T : \A y \in T : <<y, x>> \notin OpToRel(<, Nat)
  BY <1>1, WFMin
<1>3. \A y \in T : ~(y < x)
  BY <1>2 DEF OpToRel
<1> QED
  BY <1>3

(* What holds of 0 and of each number whose predecessor it holds of, holds up to n.  *)
(* Where induction would be used, the proofs argue by the least number it fails for. *)
LEMMA StepByStep ==
  ASSUME NEW n \in Nat, NEW P, 0 \in P, \A i \in 1..n : i - 1 \in P => i \in P
  PROVE  \A i \in 0..n : i \in P
<1> SUFFICES ASSUME NEW k \in 0..n, k \notin P PROVE FALSE
  OBVIOUS
<1> DEFINE T == {i \in 0..n : i \notin P}
<1>1. PICK x \in T : \A y \in T : x <= y
  <2>1. T # {} /\ T \subseteq Nat
    OBVIOUS
  <2> HIDE DEF T
  <2> QED
    BY <2>1, LeastNat
<1>2. x \in 1..n /\ x - 1 \in 0..n
  BY <1>1
<1>3. x - 1 \in P
  BY <1>1, <1>2
<1> QED
  BY <1>1, <1>2, <1>3

(* A step on values of V, given with the number of the step, stays in V. *)
Closed(step, n, V) == \A i \in 1..n, q \in V : step[<<i, q>>] \in V

(* f starts at b and goes on by the steps. *)
Computes(f, n, V, b, step) ==
  f \in [0..n -> V] /\ f[0] = b /\ \A i \in 1..n : f[i] = step[<<i, f[i - 1]>>]

(* A recursive function over positions exists; its equation follows from it. *)
LEMMA Recursion ==
  ASSUME NEW n \in Nat, NEW V, NEW b \in V, NEW step, Closed(step, n, V)
  PROVE  \E f : Computes(f, n, V, b, step)
<1> USE DEF Closed
<1> DEFINE Upto(m) == \E f \in [0..m -> V] :
                        f[0] = b /\ \A i \in 1..m : f[i] = step[<<i, f[i - 1]>>]
           P == {m \in 0..n : Upto(m)}
<1>1. 0 \in P
  <2>1. PICK f : f = [i \in 0..0 |-> b]
    OBVIOUS
  <2>2. f \in [0..0 -> V] /\ f[0] = b
    BY <2>1
  <2>3. Upto(0)
    BY <2>2
  <2> QED
    BY <2>3
<1>2. ASSUME NEW m \in 1..n, m - 1 \in P PROVE m \in P
  <2>1. PICK f \in [0..m - 1 -> V] :
           f[0] = b /\ \A i \in 1..m - 1 : f[i] = step[<<i, f[i - 1]>>]
    BY <1>2
  <2>2. step[<<m, f[m - 1]>>] \in V
    BY <2>1
  <2>3. PICK g : g = [i \in 0..m |-> IF i = m THEN step[<<m, f[m - 1]>>] ELSE f[i]]
    OBVIOUS
  <2>4. g \in [0..m -> V] /\ g[0] = b
    BY <2>1, <2>2, <2>3
  <2>5. ASSUME NEW i \in 1..m PROVE g[i] = step[<<i, g[i - 1]>>]
    <3>1. i - 1 \in 0..m /\ i - 1 # m /\ g[i - 1] = f[i - 1]
      BY <2>3
    <3>2. CASE i = m
      BY <2>3, <3>1, <3>2
    <3>3. CASE i # m
      <4>1. i \in 1..m - 1 /\ g[i] = f[i]
        BY <2>3, <3>3
      <4> QED
        BY <2>1, <3>1, <4>1
    <3> QED
      BY <3>2, <3>3
  <2>6. Upto(m)
    BY <2>4, <2>5
  <2> QED
    BY <2>6
<1> HIDE DEF P
<1>3. \A i \in 0..n : i \in P
  BY <1>1, <1>2, StepByStep
<1>4. n \in P
  BY <1>3
<1> QED
  BY <1>4 DEF P, Computes

(* f is the recursive function of Only: what is kept of each beginning of s. *)
Filters(f, s, kept, S) ==
  /\ f \in [0..Len(s) -> Seq(S)]
  /\ Only(s, kept) = f[Len(s)]
  /\ f[0] = <<>>
  /\ \A n \in 1..Len(s) :
       f[n] = IF s[n] \in kept THEN Append(f[n - 1], s[n]) ELSE f[n - 1]

(* One step of a computation, without the rest of it. *)
LEMMA ComputesStep ==
  ASSUME NEW n \in Nat, NEW V, NEW b, NEW step, NEW f, Computes(f, n, V, b, step),
         NEW i \in 1..n
  PROVE  f[i - 1] \in V /\ f[i] \in V /\ f[i] = step[<<i, f[i - 1]>>]
BY DEF Computes

(* Only is computed position by position. *)
LEMMA OnlyStep ==
  ASSUME NEW S, NEW s \in Seq(S), NEW kept
  PROVE  \E f : Filters(f, s, kept, S)
<1>1. PICK n \in Nat : n = Len(s)
  OBVIOUS
<1>2. PICK V, b : V = Seq(S) /\ b = <<>>
  OBVIOUS
<1> DEFINE Add(i, q) == IF s[i] \in kept THEN Append(q, s[i]) ELSE q
           Body(g) == [i \in 0..Len(s) |-> IF i = 0 THEN <<>> ELSE Add(i, g[i - 1])]
<1>3. PICK g : g = CHOOSE h : h = Body(h)
  OBVIOUS
<1>4. Only(s, kept) = g[n]
  BY <1>1, <1>3 DEF Only
<1>5. b \in V /\ \A i \in 1..n, q \in V : Add(i, q) \in V
  BY <1>1, <1>2
<1> HIDE DEF Add
<1>6. PICK step : step = [p \in (1..n) \X V |-> Add(p[1], p[2])]
  OBVIOUS
<1>7. \A i \in 1..n, q \in V : step[<<i, q>>] = Add(i, q)
  BY <1>6
<1>8. Closed(step, n, V)
  BY <1>5, <1>7 DEF Closed
<1>9. \E f : Computes(f, n, V, b, step)
  BY <1>5, <1>8, Recursion
<1>10. PICK f \in [0..n -> V] : f[0] = b /\ \A i \in 1..n : f[i] = step[<<i, f[i - 1]>>]
  BY <1>9 DEF Computes
<1>11. ASSUME NEW i \in 1..n PROVE f[i] = Add(i, f[i - 1])
  <2>1. i - 1 \in 0..n /\ f[i - 1] \in V
    BY <1>10
  <2> QED
    BY <1>7, <1>10, <2>1
<1>12. f = Body(f)
  BY <1>1, <1>2, <1>10, <1>11
<1>13. g = Body(g)
  <2> HIDE DEF Body
  <2> QED
    BY <1>3, <1>12
<1>14. PICK h : h = g
  OBVIOUS
<1>15. g = [i \in 0..n |-> IF i = 0 THEN b ELSE Add(i, h[i - 1])]
  BY <1>1, <1>2, <1>13, <1>14
<1>16. /\ g = [i \in 0..n |-> g[i]]
       /\ g[0] = b
       /\ \A i \in 1..n : g[i] = Add(i, g[i - 1])
  BY <1>14, <1>15
<1>17. PICK P : P = {i \in 0..n : g[i] \in V}
  OBVIOUS
<1>18. 0 \in P /\ \A i \in 1..n : i - 1 \in P => i \in P
  BY <1>5, <1>16, <1>17
<1>19. \A i \in 0..n : i \in P
  BY <1>18, StepByStep
<1>20. g \in [0..n -> V]
  BY <1>16, <1>17, <1>19
<1>21. \A i \in 1..n : g[i] = IF s[i] \in kept THEN Append(g[i - 1], s[i]) ELSE g[i - 1]
  BY <1>16 DEF Add
<1> QED
  BY <1>1, <1>2, <1>4, <1>16, <1>20, <1>21 DEF Filters

(* q consists of the elements of s up to n that are kept, found at the places "at". *)
Selects(at, s, n, kept, q) ==
  /\ at \in Seq(1..n) /\ q \in Seq(ToSet(s)) /\ Len(at) = Len(q)
  /\ \A k \in 1..Len(q) : at[k] \in 1..n /\ q[k] = s[at[k]] /\ s[at[k]] \in kept
  /\ \A k, l \in 1..Len(q) : k < l => at[k] < at[l]
  /\ \A i \in 1..n : s[i] \in kept => \E k \in 1..Len(q) : at[k] = i

(* One position more. *)
LEMMA SelectMore ==
  ASSUME NEW S, NEW s \in Seq(S), NEW kept, NEW n \in 1..Len(s), NEW at, NEW q,
         Selects(at, s, n - 1, kept, q)
  PROVE  IF s[n] \in kept THEN Selects(Append(at, n), s, n, kept, Append(q, s[n]))
         ELSE Selects(at, s, n, kept, q)
<1>1. PICK m \in Nat : m = Len(q)
  BY DEF Selects
<1>2. /\ at \in Seq(1..n - 1) /\ q \in Seq(ToSet(s)) /\ Len(at) = m
      /\ \A k \in 1..m : at[k] \in 1..n - 1 /\ q[k] = s[at[k]] /\ s[at[k]] \in kept
      /\ \A k, l \in 1..m : k < l => at[k] < at[l]
      /\ \A i \in 1..n - 1 : s[i] \in kept => \E k \in 1..m : at[k] = i
  BY <1>1 DEF Selects
<1>3. s[n] \in ToSet(s) /\ at \in Seq(1..n)
  <2>1. \A i \in 1..n - 1 : i \in 1..n
    OBVIOUS
  <2> QED
    BY <1>2, <2>1 DEF ToSet
<1>4. CASE s[n] \in kept
  <2>1. PICK bt, r : bt = Append(at, n) /\ r = Append(q, s[n])
    OBVIOUS
  <2>2. bt \in Seq(1..n) /\ r \in Seq(ToSet(s)) /\ Len(bt) = m + 1 /\ Len(r) = m + 1
    BY <1>1, <1>2, <1>3, <2>1
  <2>3. /\ \A k \in 1..m : k \in 1..m + 1 /\ bt[k] = at[k] /\ r[k] = q[k]
        /\ bt[m + 1] = n /\ r[m + 1] = s[n] /\ m + 1 \in 1..m + 1
    BY <1>1, <1>2, <2>1
  <2>4. \A k \in 1..m + 1 : k \in 1..m \/ k = m + 1
    OBVIOUS
  <2>5. \A k \in 1..m + 1 : bt[k] \in 1..n /\ r[k] = s[bt[k]] /\ s[bt[k]] \in kept
    <3>1. ASSUME NEW k \in 1..m
          PROVE  bt[k] \in 1..n /\ r[k] = s[bt[k]] /\ s[bt[k]] \in kept
      <4>1. bt[k] = at[k] /\ r[k] = q[k]
        BY <2>3
      <4>2. at[k] \in 1..n - 1 /\ q[k] = s[at[k]] /\ s[at[k]] \in kept
        BY <1>2
      <4> QED
        BY <4>1, <4>2
    <3> QED
      BY <1>4, <2>3, <2>4, <3>1
  <2>6. ASSUME NEW k \in 1..m + 1, NEW l \in 1..m + 1, k < l PROVE bt[k] < bt[l]
    <3>1. k \in 1..m /\ bt[k] = at[k] /\ at[k] \in 1..n - 1
      <4>1. k \in 1..m
        BY <2>6
      <4> QED
        BY <1>2, <2>3, <4>1
    <3>2. CASE l = m + 1
      BY <2>3, <3>1, <3>2
    <3>3. CASE l \in 1..m
      BY <1>2, <2>3, <2>6, <3>1, <3>3
    <3> QED
      BY <2>4, <3>2, <3>3
  <2>7. ASSUME NEW i \in 1..n, s[i] \in kept PROVE \E k \in 1..m + 1 : bt[k] = i
    <3>1. CASE i = n
      BY <2>3, <3>1
    <3>2. CASE i # n
      <4>1. i \in 1..n - 1
        BY <3>2
      <4>2. PICK k \in 1..m : at[k] = i
        BY <1>2, <2>7, <4>1
      <4>3. k \in 1..m + 1 /\ bt[k] = i
        BY <2>3, <4>2
      <4> QED
        BY <4>3
    <3> QED
      BY <3>1, <3>2
  <2>8. Selects(bt, s, n, kept, r)
    BY <2>2, <2>5, <2>6, <2>7 DEF Selects
  <2> QED
    BY <1>4, <2>1, <2>8
<1>5. CASE s[n] \notin kept
  <2>1. \A k \in 1..m : at[k] \in 1..n
    BY <1>2
  <2>2. ASSUME NEW i \in 1..n, s[i] \in kept PROVE \E k \in 1..m : at[k] = i
    <3>1. i \in 1..n - 1
      BY <1>5, <2>2
    <3> QED
      BY <1>2, <2>2, <3>1
  <2>3. Selects(at, s, n, kept, q)
    BY <1>1, <1>2, <1>3, <2>1, <2>2 DEF Selects
  <2> QED
    BY <1>5, <2>3
<1> QED
  BY <1>4, <1>5

(* Only selects: nothing that is kept is lost, doubled or moved. *)
LEMMA OnlySelects ==
  ASSUME NEW S, NEW s \in Seq(S), NEW kept
  PROVE  Only(s, kept) \in Seq(S) /\ \E at : Selects(at, s, Len(s), kept, Only(s, kept))
<1>1. PICK n \in Nat : n = Len(s)
  OBVIOUS
<1>2. PICK f : Filters(f, s, kept, S)
  BY OnlyStep
<1>3. /\ f \in [0..n -> Seq(S)] /\ Only(s, kept) = f[n] /\ f[0] = <<>>
      /\ \A i \in 1..n : s[i] \in kept => f[i] = Append(f[i - 1], s[i])
      /\ \A i \in 1..n : s[i] \notin kept => f[i] = f[i - 1]
  BY <1>1, <1>2 DEF Filters
<1>4. PICK P : P = {i \in 0..n : \E at : Selects(at, s, i, kept, f[i])}
  OBVIOUS
<1>5. 0 \in P
  <2>1. Selects(<<>>, s, 0, kept, <<>>)
    BY DEF Selects
  <2> QED
    BY <1>3, <1>4, <2>1
<1>6. ASSUME NEW i \in 1..n, i - 1 \in P PROVE i \in P
  <2>1. PICK at : Selects(at, s, i - 1, kept, f[i - 1])
    BY <1>4, <1>6
  <2>2. i \in 1..Len(s)
    BY <1>1
  <2>3. IF s[i] \in kept THEN Selects(Append(at, i), s, i, kept, Append(f[i - 1], s[i]))
        ELSE Selects(at, s, i, kept, f[i - 1])
    BY <2>1, <2>2, SelectMore
  <2>4. CASE s[i] \in kept
    <3>1. f[i] = Append(f[i - 1], s[i])
      BY <1>3, <2>4
    <3>2. Selects(Append(at, i), s, i, kept, f[i])
      BY <2>3, <2>4, <3>1
    <3> QED
      BY <1>4, <3>2
  <2>5. CASE s[i] \notin kept
    <3>1. f[i] = f[i - 1]
      BY <1>3, <2>5
    <3>2. Selects(at, s, i, kept, f[i])
      BY <2>3, <2>5, <3>1
    <3> QED
      BY <1>4, <3>2
  <2> QED
    BY <2>4, <2>5
<1>7. \A i \in 0..n : i \in P
  BY <1>5, <1>6, StepByStep
<1>8. n \in P /\ f[n] \in Seq(S)
  BY <1>3, <1>7
<1>9. \E at : Selects(at, s, n, kept, f[n])
  BY <1>4, <1>8
<1> QED
  BY <1>1, <1>3, <1>8, <1>9

(* What Only leaves, as a set. *)
LEMMA OnlyFacts ==
  ASSUME NEW S, NEW s \in Seq(S), NEW kept
  PROVE  /\ Only(s, kept) \in Seq(S)
         /\ ToSet(Only(s, kept)) = ToSet(s) \cap kept
<1>1. PICK at, q : q = Only(s, kept) /\ q \in Seq(S) /\ Selects(at, s, Len(s), kept, q)
  BY OnlySelects
<1>2. PICK n, m \in Nat : n = Len(s) /\ m = Len(q) /\ DOMAIN s = 1..n /\ DOMAIN q = 1..m
  BY <1>1
<1>3. /\ \A k \in 1..m : at[k] \in 1..n /\ q[k] = s[at[k]] /\ s[at[k]] \in kept
      /\ \A i \in 1..n : s[i] \in kept => \E k \in 1..m : at[k] = i
  BY <1>1, <1>2 DEF Selects
<1>4. ToSet(q) \subseteq ToSet(s) \cap kept
  BY <1>2, <1>3 DEF ToSet
<1>5. ASSUME NEW x \in ToSet(s) \cap kept PROVE x \in ToSet(q)
  <2>1. PICK i \in 1..n : x = s[i]
    BY <1>2 DEF ToSet
  <2>2. PICK k \in 1..m : at[k] = i
    BY <1>3, <1>5, <2>1
  <2>3. x = q[k]
    BY <1>3, <2>1, <2>2
  <2> QED
    BY <1>2, <2>3 DEF ToSet
<1> QED
  BY <1>1, <1>4, <1>5

(* No two elements of s are the same. *)
Different(s) == \A k, l \in DOMAIN s : s[k] = s[l] => k = l

(* Distinct keeps every element once. *)
LEMMA DistinctFacts ==
  ASSUME NEW S, NEW s \in Seq(S)
  PROVE  /\ Distinct(s) \in Seq(S)
         /\ ToSet(Distinct(s)) = ToSet(s)
         /\ Different(Distinct(s))
<1>1. PICK n \in Nat : n = Len(s) /\ DOMAIN s = 1..n
  OBVIOUS
<1>2. PICK first : first = {i \in DOMAIN s : \A j \in 1..(i - 1) : s[j] # s[i]}
  OBVIOUS
<1>3. PICK idx : idx = [i \in DOMAIN s |-> i]
  OBVIOUS
<1>4. idx \in Seq(1..n) /\ Len(idx) = n /\ \A i \in 1..n : idx[i] = i
  BY <1>1, <1>3
<1>5. PICK at, q : q = Only(idx, first) /\ q \in Seq(1..n) /\ Selects(at, idx, n, first, q)
  BY <1>4, OnlySelects
<1>6. PICK m \in Nat : m = Len(q) /\ DOMAIN q = 1..m
  BY <1>5
<1>7. /\ \A k \in 1..m : q[k] \in 1..n /\ q[k] \in first
      /\ \A k, l \in 1..m : k < l => q[k] < q[l]
      /\ \A i \in 1..n : i \in first => \E k \in 1..m : q[k] = i
  <2>1. /\ \A k \in 1..m : at[k] \in 1..n /\ q[k] = idx[at[k]] /\ idx[at[k]] \in first
        /\ \A k, l \in 1..m : k < l => at[k] < at[l]
        /\ \A i \in 1..n : idx[i] \in first => \E k \in 1..m : at[k] = i
    BY <1>5, <1>6 DEF Selects
  <2>2. \A k \in 1..m : at[k] = q[k]
    BY <1>4, <2>1
  <2> QED
    BY <1>4, <2>1, <2>2
<1>8. PICK d : d = [k \in DOMAIN q |-> s[q[k]]]
  OBVIOUS
<1>9. Distinct(s) = d
  BY <1>2, <1>3, <1>5, <1>8 DEF Distinct
<1>10. d \in Seq(S) /\ DOMAIN d = 1..m /\ \A k \in 1..m : d[k] = s[q[k]]
  BY <1>1, <1>6, <1>7, <1>8
<1>11. Different(d)
  <2> SUFFICES ASSUME NEW k \in 1..m, NEW l \in 1..m, d[k] = d[l], k < l PROVE FALSE
    BY <1>10 DEF Different
  <2>1. q[k] < q[l] /\ q[k] \in 1..n /\ q[l] \in first
    BY <1>7
  <2>2. s[q[k]] # s[q[l]]
    BY <1>2, <2>1
  <2> QED
    BY <1>10, <2>2
<1>12. \A i \in 1..n : \E k \in 1..m : d[k] = s[i]
  <2> SUFFICES ASSUME NEW i \in 1..n PROVE \E k \in 1..m : d[k] = s[i]
    OBVIOUS
  <2>0. PICK v : v = s[i]
    OBVIOUS
  <2>1. PICK T : T = {j \in 1..n : s[j] = v}
    OBVIOUS
  <2>2. T # {} /\ T \subseteq Nat
    <3>1. i \in T
      BY <2>0, <2>1
    <3> QED
      BY <2>1, <3>1
  <2>3. PICK x \in T : \A y \in T : x <= y
    BY <2>2, LeastNat
  <2>4. x \in first
    <3>1. x \in 1..n /\ s[x] = v /\ \A j \in 1..(x - 1) : j \in 1..n /\ ~(x <= j)
      BY <2>1, <2>3
    <3>2. \A j \in 1..(x - 1) : s[j] # s[x]
      BY <2>1, <2>3, <3>1
    <3> QED
      BY <1>1, <1>2, <3>1, <3>2
  <2>5. PICK k \in 1..m : q[k] = x
    BY <1>7, <2>1, <2>3, <2>4
  <2> QED
    BY <1>10, <2>0, <2>1, <2>3, <2>5
<1>13. ToSet(d) = ToSet(s)
  <2>1. \A x \in ToSet(d) : x \in ToSet(s)
    BY <1>1, <1>7, <1>10 DEF ToSet
  <2>2. \A x \in ToSet(s) : x \in ToSet(d)
    BY <1>1, <1>10, <1>12 DEF ToSet
  <2> QED
    BY <2>1, <2>2
<1> QED
  BY <1>9, <1>10, <1>11, <1>13

(* g is the recursive function of FlattenSeq: the concatenation of each beginning of ss. *)
Flattens(g, ss, S) ==
  /\ FlattenSeq(ss) = g[Len(ss)]
  /\ \A i \in 1..Len(ss) : g[i] \in Seq(S) /\ g[i] = IF i = 1 THEN ss[i] ELSE g[i - 1] \o ss[i]

(* FlattenSeq is computed sequence by sequence. *)
LEMMA FlattenStep ==
  ASSUME NEW S, NEW ss \in Seq(Seq(S)), Len(ss) # 0
  PROVE  \E g : Flattens(g, ss, S)
<1>1. PICK n \in Nat : n = Len(ss) /\ n # 0
  OBVIOUS
<1>2. PICK V, b : V = Seq(S) /\ b = <<>>
  OBVIOUS
<1> DEFINE Add(i, q) == q \o ss[i]
           Body(g) == [i \in 1..Len(ss) |-> IF i = 1 THEN ss[i] ELSE Add(i, g[i - 1])]
<1>3. PICK g : g = CHOOSE h : h = Body(h)
  OBVIOUS
<1>4. FlattenSeq(ss) = g[n]
  BY <1>1, <1>3 DEF FlattenSeq
<1>5. b \in V /\ (\A i \in 1..n, q \in V : Add(i, q) \in V) /\ Add(1, b) = ss[1]
      /\ \A i \in 1..n : ss[i] \in V
  BY <1>1, <1>2
<1> HIDE DEF Add
<1>6. PICK step : step = [p \in (1..n) \X V |-> Add(p[1], p[2])]
  OBVIOUS
<1>7. \A i \in 1..n, q \in V : step[<<i, q>>] = Add(i, q)
  BY <1>6
<1>8. Closed(step, n, V)
  BY <1>5, <1>7 DEF Closed
<1>9. PICK f : Computes(f, n, V, b, step)
  BY <1>5, <1>8, Recursion
<1>10. ASSUME NEW i \in 1..n PROVE f[i] = Add(i, f[i - 1]) /\ f[i] \in V
  <2>1. f[i - 1] \in V /\ f[i] \in V /\ f[i] = step[<<i, f[i - 1]>>]
    BY <1>9, ComputesStep
  <2> QED
    BY <1>7, <2>1
<1>11. f[1] = ss[1]
  <2>1. f[0] = b /\ 1 \in 1..n /\ 1 - 1 = 0
    BY <1>1, <1>9 DEF Computes
  <2>2. f[1] = Add(1, f[1 - 1])
    BY <1>10, <2>1
  <2> QED
    BY <1>5, <2>1, <2>2
<1>12. PICK e : e = [i \in 1..n |-> f[i]]
  OBVIOUS
<1>13. \A i \in 1..n : e[i] = IF i = 1 THEN ss[i] ELSE Add(i, e[i - 1])
  <2> SUFFICES ASSUME NEW i \in 1..n, i # 1 PROVE e[i] = Add(i, e[i - 1])
    BY <1>11, <1>12
  <2>1. i - 1 \in 1..n
    OBVIOUS
  <2> QED
    BY <1>10, <1>12, <2>1
<1>14. e = Body(e)
  BY <1>1, <1>12, <1>13
<1>15. g = Body(g)
  <2> HIDE DEF Body
  <2> QED
    BY <1>3, <1>14
<1>16. PICK h : h = g
  OBVIOUS
<1>17. g = [i \in 1..n |-> IF i = 1 THEN ss[i] ELSE Add(i, h[i - 1])]
  BY <1>1, <1>15, <1>16
<1>18. \A i \in 1..n : g[i] = IF i = 1 THEN ss[i] ELSE Add(i, g[i - 1])
  BY <1>16, <1>17
<1>19. PICK P : P = {i \in 0..n : i = 0 \/ g[i] \in V}
  OBVIOUS
<1>20. ASSUME NEW i \in 1..n, i - 1 \in P PROVE i \in P
  BY <1>5, <1>18, <1>19, <1>20
<1>21. \A i \in 0..n : i \in P
  <2>1. 0 \in P
    BY <1>19
  <2> QED
    BY <1>20, <2>1, StepByStep
<1>22. \A i \in 1..n : g[i] \in Seq(S)
  BY <1>2, <1>19, <1>21
<1>23. \A i \in 1..n : g[i] = IF i = 1 THEN ss[i] ELSE g[i - 1] \o ss[i]
  BY <1>18 DEF Add
<1> QED
  BY <1>1, <1>4, <1>22, <1>23 DEF Flattens

(* The concatenation of sequences over S is one over S. *)
LEMMA FlattenFacts ==
  ASSUME NEW S, NEW ss \in Seq(Seq(S))
  PROVE  FlattenSeq(ss) \in Seq(S)
<1>1. CASE Len(ss) = 0
  <2>1. ss = <<>> /\ Len(ss) = 0 /\ <<>> \in Seq(S)
    <3>1. PICK V : V = Seq(S)
      OBVIOUS
    <3>2. ss \in Seq(V) /\ Len(ss) = 0 /\ <<>> \in Seq(S)
      BY <1>1, <3>1
    <3> QED
      BY <3>2
  <2>2. FlattenSeq(ss) = ss
    BY <2>1 DEF FlattenSeq
  <2> QED
    BY <2>1, <2>2
<1>2. CASE Len(ss) # 0
  <2>1. PICK g : Flattens(g, ss, S)
    BY <1>2, FlattenStep
  <2>2. Len(ss) \in 1..Len(ss)
    BY <1>2
  <2> QED
    BY <2>1, <2>2 DEF Flattens
<1> QED
  BY <1>1, <1>2

(* The elements of two sequences put together. *)
LEMMA JoinSet ==
  ASSUME NEW S, NEW s \in Seq(S), NEW t \in Seq(S)
  PROVE  ToSet(s) \subseteq ToSet(s \o t) /\ ToSet(t) \subseteq ToSet(s \o t)
<1>1. PICK m, n \in Nat : m = Len(s) /\ DOMAIN s = 1..m /\ n = Len(t) /\ DOMAIN t = 1..n
  OBVIOUS
<1>2. PICK j : j = s \o t
  OBVIOUS
<1>3. /\ DOMAIN j = 1..m + n /\ \A k \in 1..m : j[k] = s[k]
      /\ \A k \in 1..n : j[m + k] = t[k]
  BY <1>1, <1>2
<1>4. ASSUME NEW x \in ToSet(s) PROVE x \in ToSet(j)
  <2>1. PICK k \in 1..m : x = s[k]
    BY <1>1 DEF ToSet
  <2>2. k \in 1..m + n
    OBVIOUS
  <2> QED
    BY <1>3, <2>1, <2>2 DEF ToSet
<1>5. ASSUME NEW x \in ToSet(t) PROVE x \in ToSet(j)
  <2>1. PICK k \in 1..n : x = t[k]
    BY <1>1 DEF ToSet
  <2>2. PICK l : l = m + k /\ l \in 1..m + n
    OBVIOUS
  <2>3. x = j[l]
    BY <1>3, <2>1, <2>2
  <2> QED
    BY <1>3, <2>2, <2>3 DEF ToSet
<1> QED
  BY <1>2, <1>4, <1>5

(* A concatenation has every element of every sequence in it. *)
LEMMA FlattenHas ==
  ASSUME NEW S, NEW ss \in Seq(Seq(S)), NEW r \in 1..Len(ss)
  PROVE  ToSet(ss[r]) \subseteq ToSet(FlattenSeq(ss))
<1>1. PICK n \in Nat : n = Len(ss) /\ n # 0
  OBVIOUS
<1>2. PICK g : Flattens(g, ss, S)
  BY <1>1, FlattenStep
<1>3. /\ FlattenSeq(ss) = g[n]
      /\ \A i \in 1..n : g[i] \in Seq(S) /\ g[i] = IF i = 1 THEN ss[i] ELSE g[i - 1] \o ss[i]
  BY <1>1, <1>2 DEF Flattens
<1>3a. \A i \in 1..n : i = 1 => g[i] = ss[i]
  BY <1>3
<1>3b. \A i \in 1..n : i # 1 => g[i] = g[i - 1] \o ss[i]
  BY <1>3
<1>4. \A i \in 1..n : ss[i] \in Seq(S)
  <2>1. PICK V : V = Seq(S)
    OBVIOUS
  <2> QED
    BY <1>1, <2>1
<1>5. PICK P : P = {i \in 0..n : \A k \in 1..i : ToSet(ss[k]) \subseteq ToSet(g[i])}
  OBVIOUS
<1>6. 0 \in P
  BY <1>5
<1>7. ASSUME NEW i \in 1..n, i - 1 \in P PROVE i \in P
  <2>1. CASE i = 1
    <3>1. g[i] = ss[i]
      BY <1>3a, <2>1
    <3>2. \A k \in 1..i : k = i
      BY <2>1
    <3>3. \A k \in 1..i : ToSet(ss[k]) \subseteq ToSet(g[i])
      BY <3>1, <3>2
    <3>4. i \in 0..n
      OBVIOUS
    <3> QED
      BY <1>5, <3>3, <3>4
  <2>2. CASE i # 1
    <3>1. i - 1 \in 1..n /\ i - 1 \in 0..n
      BY <2>2
    <3>1a. g[i] = g[i - 1] \o ss[i]
      BY <1>3b, <2>2
    <3>2. g[i - 1] \in Seq(S) /\ ss[i] \in Seq(S)
      BY <1>3, <1>4, <3>1
    <3>3. ToSet(g[i - 1]) \subseteq ToSet(g[i]) /\ ToSet(ss[i]) \subseteq ToSet(g[i])
      BY <3>1a, <3>2, JoinSet
    <3>4. \A k \in 1..i : k = i \/ k \in 1..(i - 1)
      OBVIOUS
    <3>5. \A k \in 1..(i - 1) : ToSet(ss[k]) \subseteq ToSet(g[i - 1])
      BY <1>5, <1>7
    <3>6. \A k \in 1..i : ToSet(ss[k]) \subseteq ToSet(g[i])
      BY <3>3, <3>4, <3>5
    <3> QED
      BY <1>5, <3>6
  <2> QED
    BY <2>1, <2>2
<1>8. \A i \in 0..n : i \in P
  BY <1>6, <1>7, StepByStep
<1>9. n \in P /\ r \in 1..n
  BY <1>1, <1>8
<1> QED
  BY <1>3, <1>5, <1>9

(* The minimum of a set of naturals. *)
LEMMA SmallestIn ==
  ASSUME NEW T, T \subseteq Nat, T # {}
  PROVE  Min(T) \in T /\ \A x \in T : Min(T) <= x
<1>1. \E x \in T : \A y \in T : x <= y
  BY LeastNat
<1> QED
  BY <1>1 DEF Min

(* The maximum of a bounded set of naturals. *)
LEMMA LargestIn ==
  ASSUME NEW n \in Nat, NEW T, T \subseteq 0..n, T # {}
  PROVE  Max(T) \in T /\ \A x \in T : x <= Max(T)
<1>1. PICK R : R = {k \in 0..n : \A y \in T : y <= k}
  OBVIOUS
<1>2. R \subseteq Nat /\ n \in R
  BY <1>1
<1>3. PICK k \in R : \A y \in R : k <= y
  BY <1>2, LeastNat
<1>4. k \in T
  <2> SUFFICES ASSUME k \notin T PROVE FALSE
    OBVIOUS
  <2>1. \A y \in T : y <= k /\ y # k /\ y \in 0..n
    BY <1>1, <1>3
  <2>2. k \in 1..n
    <3>1. PICK y \in T : TRUE
      OBVIOUS
    <3>2. k \in 0..n /\ y <= k /\ y # k /\ y \in 0..n
      BY <1>1, <1>3, <2>1, <3>1
    <3> QED
      BY <3>2
  <2>3. \A y \in T : y <= k - 1
    BY <2>1, <2>2
  <2>4. k - 1 \in R
    BY <1>1, <2>2, <2>3
  <2> QED
    BY <1>1, <1>3, <2>2, <2>4
<1>5. \E x \in T : \A y \in T : x >= y
  BY <1>1, <1>3, <1>4
<1>6. Max(T) \in T /\ \A y \in T : Max(T) >= y
  BY <1>5 DEF Max
<1> QED
  BY <1>6

(* A slice of a sequence. *)
LEMMA SliceFacts ==
  ASSUME NEW S, NEW s \in Seq(S), NEW a \in Nat \ {0}, NEW b \in Int, b <= Len(s)
  PROVE  /\ SubSeq(s, a, b) \in Seq(S)
         /\ Len(SubSeq(s, a, b)) = IF a <= b THEN b - a + 1 ELSE 0
         /\ \A i \in 1..Len(SubSeq(s, a, b)) : SubSeq(s, a, b)[i] = s[a + i - 1]
         /\ ToSet(SubSeq(s, a, b)) \subseteq ToSet(s)
BY DEF ToSet

(* A selection from different elements has different elements. *)
LEMMA OnlyDifferent ==
  ASSUME NEW S, NEW s \in Seq(S), NEW kept, Different(s)
  PROVE  Different(Only(s, kept))
<1>1. PICK at, q : q = Only(s, kept) /\ q \in Seq(S) /\ Selects(at, s, Len(s), kept, q)
  BY OnlySelects
<1>2. PICK n, m \in Nat : n = Len(s) /\ m = Len(q) /\ DOMAIN s = 1..n /\ DOMAIN q = 1..m
  BY <1>1
<1>3. /\ \A k \in 1..m : at[k] \in 1..n /\ q[k] = s[at[k]]
      /\ \A k, l \in 1..m : k < l => at[k] < at[l]
  BY <1>1, <1>2 DEF Selects
<1>4. ASSUME NEW k \in 1..m, NEW l \in 1..m, q[k] = q[l] PROVE k = l
  <2>1. at[k] = at[l]
    BY <1>2, <1>3, <1>4 DEF Different
  <2> QED
    BY <1>3, <2>1
<1> QED
  BY <1>1, <1>2, <1>4 DEF Different

(* A new element at the end. *)
LEMMA AppendDifferent ==
  ASSUME NEW S, NEW s \in Seq(S), NEW x \in S, Different(s), x \notin ToSet(s)
  PROVE  /\ Append(s, x) \in Seq(S) /\ Different(Append(s, x))
         /\ ToSet(Append(s, x)) = ToSet(s) \cup {x}
<1>1. PICK n \in Nat : n = Len(s) /\ DOMAIN s = 1..n
  OBVIOUS
<1>2. PICK t : t = Append(s, x) /\ t \in Seq(S) /\ DOMAIN t = 1..n + 1
  <2>1. Append(s, x) \in Seq(S) /\ DOMAIN Append(s, x) = 1..n + 1
    BY <1>1
  <2> QED
    BY <2>1
<1>3. (\A k \in 1..n : t[k] = s[k] /\ t[k] # x) /\ t[n + 1] = x
  BY <1>1, <1>2 DEF ToSet
<1>4. \A k \in 1..n + 1 : k \in 1..n \/ k = n + 1
  BY <1>1
<1>5. Different(t)
  BY <1>1, <1>2, <1>3, <1>4 DEF Different
<1>6. ToSet(t) = ToSet(s) \cup {x}
  <2>1. \A k \in 1..n : k \in 1..n + 1
    OBVIOUS
  <2>2. n + 1 \in 1..n + 1
    OBVIOUS
  <2> QED
    BY <1>1, <1>2, <1>3, <1>4, <2>1, <2>2 DEF ToSet
<1> QED
  BY <1>2, <1>5, <1>6

(* Two sequences without a common element. *)
LEMMA JoinDifferent ==
  ASSUME NEW S, NEW s \in Seq(S), NEW t \in Seq(S), Different(s), Different(t),
         ToSet(s) \cap ToSet(t) = {}
  PROVE  s \o t \in Seq(S) /\ Len(s \o t) = Len(s) + Len(t) /\ Different(s \o t)
<1>1. PICK m, n \in Nat : m = Len(s) /\ DOMAIN s = 1..m /\ n = Len(t) /\ DOMAIN t = 1..n
  OBVIOUS
<1>2. PICK j : j = s \o t
  OBVIOUS
<1>3. j \in Seq(S) /\ Len(j) = m + n /\ DOMAIN j = 1..m + n
  BY <1>1, <1>2
<1>4. /\ \A k \in 1..m : j[k] = s[k] /\ s[k] \in ToSet(s)
      /\ \A k \in m + 1..m + n : j[k] = t[k - m] /\ t[k - m] \in ToSet(t) /\ k - m \in 1..n
  <2>1. \A k \in 1..m : j[k] = s[k] /\ s[k] \in ToSet(s)
    BY <1>1, <1>2 DEF ToSet
  <2>2. \A k \in m + 1..m + n : k - m \in 1..n
    OBVIOUS
  <2>3. \A k \in m + 1..m + n : j[k] = t[k - m]
    BY <1>1, <1>2
  <2>4. \A i \in 1..n : t[i] \in ToSet(t)
    BY <1>1 DEF ToSet
  <2> QED
    BY <2>1, <2>2, <2>3, <2>4
<1>5. ASSUME NEW k \in 1..m + n, NEW l \in 1..m + n, j[k] = j[l] PROVE k = l
  <2>1. CASE k \in 1..m /\ l \in 1..m
    BY <1>1, <1>4, <1>5, <2>1 DEF Different
  <2>2. CASE k \in m + 1..m + n /\ l \in m + 1..m + n
    <3>1. PICK a, b \in 1..n : a = k - m /\ b = l - m /\ t[a] = t[b]
      BY <1>4, <1>5, <2>2
    <3>2. a = b
      BY <1>1, <3>1 DEF Different
    <3> QED
      BY <3>1, <3>2
  <2>3. k \in 1..m \/ k \in m + 1..m + n
    OBVIOUS
  <2>4. l \in 1..m \/ l \in m + 1..m + n
    OBVIOUS
  <2> QED
    BY <1>4, <1>5, <2>1, <2>2, <2>3, <2>4
<1> QED
  BY <1>1, <1>2, <1>3, <1>5 DEF Different

(* The beginning of a sequence of different elements. *)
LEMMA SliceDifferent ==
  ASSUME NEW S, NEW s \in Seq(S), NEW n \in 0..Len(s), Different(s)
  PROVE  /\ SubSeq(s, 1, n) \in Seq(S) /\ Len(SubSeq(s, 1, n)) = n
         /\ Different(SubSeq(s, 1, n)) /\ ToSet(SubSeq(s, 1, n)) \subseteq ToSet(s)
<1>1. PICK q : q = SubSeq(s, 1, n)
  OBVIOUS
<1>2. 1 \in Nat \ {0} /\ n \in Int /\ n <= Len(s)
  OBVIOUS
<1>3. /\ q \in Seq(S)
      /\ Len(q) = IF 1 <= n THEN n - 1 + 1 ELSE 0
      /\ \A i \in 1..Len(q) : q[i] = s[1 + i - 1]
      /\ ToSet(q) \subseteq ToSet(s)
  BY <1>1, <1>2, SliceFacts
<1>4. Len(q) = n /\ DOMAIN q = 1..n /\ \A i \in 1..n : q[i] = s[i] /\ i \in DOMAIN s
  <2>1. Len(q) = n
    BY <1>3
  <2>2. \A i \in 1..n : 1 + i - 1 = i
    OBVIOUS
  <2> QED
    BY <1>3, <2>1, <2>2
<1> QED
  BY <1>1, <1>3, <1>4 DEF Different

(* Different elements are as many as the set of them. *)
LEMMA DifferentCount ==
  ASSUME NEW S, NEW s \in Seq(S), Different(s)
  PROVE  Cardinality(ToSet(s)) = Len(s)
<1>1. PICK n \in Nat : n = Len(s) /\ DOMAIN s = 1..n
  OBVIOUS
<1>2. s \in Bijection(1..n, ToSet(s))
  BY <1>1 DEF Bijection, Injection, Surjection, IsInjective, Different, ToSet
<1> QED
  BY <1>1, <1>2, FS_CountingElements DEF ExistsBijection

(* A sequence with two different elements has two positions. *)
LEMMA TwoDifferent ==
  ASSUME NEW S, NEW s \in Seq(S), NEW x \in ToSet(s), NEW y \in ToSet(s), x # y
  PROVE  Len(s) >= 2
BY DEF ToSet

(* A sequence over a set is one over any larger set. *)
LEMMA SeqWider ==
  ASSUME NEW S, NEW T, S \subseteq T, NEW s \in Seq(S)
  PROVE  s \in Seq(T)
<1>1. \A x \in S : x \in T
  OBVIOUS
<1> QED
  BY <1>1

(* A sequence that is not empty has a position. *)
LEMMA NotEmpty ==
  ASSUME NEW S, NEW s \in Seq(S), s # <<>>
  PROVE  Len(s) >= 1
OBVIOUS

(* Two, three and four elements written out. *)
LEMMA PairDifferent ==
  ASSUME NEW S, NEW a \in S, NEW b \in S, a # b
  PROVE  <<a, b>> \in Seq(S) /\ Different(<<a, b>>) /\ Len(<<a, b>>) = 2
<1>1. PICK s : s = <<a, b>>
  OBVIOUS
<1>2. s \in Seq(S) /\ DOMAIN s = 1..2 /\ Len(s) = 2
  BY <1>1
<1>3. s[1] = a /\ s[2] = b
  BY <1>1
<1>4. \A k \in 1..2 : k = 1 \/ k = 2
  OBVIOUS
<1>5. \A k, l \in 1..2 : s[k] = s[l] => k = l
  BY <1>3, <1>4
<1> QED
  BY <1>1, <1>2, <1>5 DEF Different

(* Two, three and four elements written out. *)
LEMMA ThreeDifferent ==
  ASSUME NEW S, NEW a \in S, NEW b \in S, NEW c \in S, a # b, a # c, b # c
  PROVE  <<a, b, c>> \in Seq(S) /\ Different(<<a, b, c>>) /\ Len(<<a, b, c>>) = 3
<1>1. PICK s : s = <<a, b, c>>
  OBVIOUS
<1>2. s \in Seq(S) /\ DOMAIN s = 1..3 /\ Len(s) = 3
  BY <1>1
<1>3. s[1] = a /\ s[2] = b /\ s[3] = c
  BY <1>1
<1>4. \A k \in 1..3 : k = 1 \/ k = 2 \/ k = 3
  OBVIOUS
<1>5. \A k, l \in 1..3 : s[k] = s[l] => k = l
  BY <1>3, <1>4
<1> QED
  BY <1>1, <1>2, <1>5 DEF Different

(* Two, three and four elements written out. *)
LEMMA FourDifferent ==
  ASSUME NEW S, NEW a \in S, NEW b \in S, NEW c \in S, NEW d \in S,
         a # b, a # c, a # d, b # c, b # d, c # d
  PROVE  <<a, b, c, d>> \in Seq(S) /\ Different(<<a, b, c, d>>)
<1>1. PICK s : s = <<a, b, c, d>>
  OBVIOUS
<1>2. s \in Seq(S) /\ DOMAIN s = 1..4
  BY <1>1
<1>3. s[1] = a /\ s[2] = b /\ s[3] = c /\ s[4] = d
  BY <1>1
<1>4. \A k \in 1..4 : k = 1 \/ k = 2 \/ k = 3 \/ k = 4
  OBVIOUS
<1>5. \A k, l \in 1..4 : s[k] = s[l] => k = l
  BY <1>3, <1>4
<1> QED
  BY <1>1, <1>2, <1>5 DEF Different

(* Both parts of a sequence cut in two. *)
LEMMA PartOf ==
  ASSUME NEW S, NEW s \in Seq(S), NEW first \in 0..Len(s)
  PROVE  SubSeq(s, 1, first) \in Seq(S) /\ SubSeq(s, first + 1, Len(s)) \in Seq(S)
<1>1. PICK n \in Nat : n = Len(s)
  OBVIOUS
<1>2. first \in Int /\ first + 1 \in Nat \ {0} /\ 1 \in Nat \ {0} /\ n \in Int
      /\ n <= n /\ first <= n
  BY <1>1
<1> QED
  BY <1>1, <1>2, SliceFacts

(* Two sequences that agree position by position are the same. *)
LEMMA SameSequence ==
  ASSUME NEW S, NEW s \in Seq(S), NEW t \in Seq(S), Len(s) = Len(t),
         \A i \in 1..Len(s) : s[i] = t[i]
  PROVE  s = t
<1>1. PICK n \in Nat : n = Len(s) /\ DOMAIN s = 1..n /\ DOMAIN t = 1..n
  OBVIOUS
<1>2. s = [i \in 1..n |-> s[i]] /\ t = [i \in 1..n |-> t[i]]
  BY <1>1
<1> QED
  BY <1>1, <1>2

(* A sequence is one over any set that holds its elements. *)
LEMMA SeqNarrower ==
  ASSUME NEW S, NEW s \in Seq(S), NEW T, ToSet(s) \subseteq T
  PROVE  s \in Seq(T)
<1>1. PICK n \in Nat : n = Len(s) /\ DOMAIN s = 1..n /\ s = [i \in 1..n |-> s[i]]
  OBVIOUS
<1>2. \A i \in 1..n : s[i] \in T
  BY <1>1 DEF ToSet
<1>3. [i \in 1..n |-> s[i]] \in Seq(T)
  BY <1>2
<1> QED
  BY <1>1, <1>3

(* A selection keeps the order, and whatever is kept has its place in it. *)
LEMMA OnlyInOrder ==
  ASSUME NEW S, NEW s \in Seq(S), NEW kept
  PROVE  \E at \in [1..Len(Only(s, kept)) -> 1..Len(s)] :
           /\ \A k \in 1..Len(Only(s, kept)) : Only(s, kept)[k] = s[at[k]]
           /\ \A k, l \in 1..Len(Only(s, kept)) : k < l => at[k] < at[l]
           /\ \A i \in 1..Len(s) : s[i] \in kept => \E k \in 1..Len(Only(s, kept)) : at[k] = i
<1>1. PICK at, q : q = Only(s, kept) /\ q \in Seq(S) /\ Selects(at, s, Len(s), kept, q)
  BY OnlySelects
<1>2. PICK n, m \in Nat : n = Len(s) /\ m = Len(q)
  BY <1>1
<1>3. /\ at \in Seq(1..n) /\ Len(at) = m
      /\ \A k \in 1..m : at[k] \in 1..n /\ q[k] = s[at[k]]
      /\ \A k, l \in 1..m : k < l => at[k] < at[l]
      /\ \A i \in 1..n : s[i] \in kept => \E k \in 1..m : at[k] = i
  BY <1>1, <1>2 DEF Selects
<1>4. at \in [1..m -> 1..n]
  BY <1>3
<1>5. /\ at \in [1..Len(Only(s, kept)) -> 1..Len(s)]
      /\ \A k \in 1..Len(Only(s, kept)) : Only(s, kept)[k] = s[at[k]]
  BY <1>1, <1>2, <1>3, <1>4
<1>6. /\ \A k, l \in 1..Len(Only(s, kept)) : k < l => at[k] < at[l]
      /\ \A i \in 1..Len(s) : s[i] \in kept => \E k \in 1..Len(Only(s, kept)) : at[k] = i
  BY <1>1, <1>2, <1>3
<1> QED
  BY <1>5, <1>6, Zenon

(* A selection that keeps the first element begins with it. *)
LEMMA OnlyFirst ==
  ASSUME NEW S, NEW s \in Seq(S), NEW kept, Len(s) >= 1, s[1] \in kept
  PROVE  Only(s, kept)[1] = s[1]
<1>1. PICK at, q : q = Only(s, kept) /\ q \in Seq(S) /\ Selects(at, s, Len(s), kept, q)
  BY OnlySelects
<1>2. PICK n, m \in Nat : n = Len(s) /\ m = Len(q)
  BY <1>1
<1>3. /\ \A k \in 1..m : at[k] \in 1..n /\ q[k] = s[at[k]]
      /\ \A k, l \in 1..m : k < l => at[k] < at[l]
      /\ \A i \in 1..n : s[i] \in kept => \E k \in 1..m : at[k] = i
  BY <1>1, <1>2 DEF Selects
<1>4. PICK k \in 1..m : at[k] = 1
  BY <1>2, <1>3
<1>5. k = 1
  <2> SUFFICES ASSUME 1 < k PROVE FALSE
    OBVIOUS
  <2>1. 1 \in 1..m /\ at[1] < at[k]
    BY <1>3
  <2>2. at[1] \in 1..n
    BY <1>3, <2>1
  <2> QED
    BY <1>4, <2>1, <2>2
<1> QED
  BY <1>1, <1>3, <1>4, <1>5

(* A sequence with one more element. *)
LEMMA Appended ==
  ASSUME NEW S, NEW s \in Seq(S), NEW x \in S
  PROVE  /\ Len(Append(s, x)) = Len(s) + 1 /\ Append(s, x)[Len(s) + 1] = x
         /\ \A k \in 1..Len(s) : Append(s, x)[k] = s[k]
OBVIOUS

(* The elements of a sequence. *)
LEMMA ElementsOf ==
  ASSUME NEW S, NEW s \in Seq(S)
  PROVE  \A i \in 1..Len(s) : s[i] \in S
OBVIOUS

(* Sequences of which the same places are kept. *)
KeptAlike(s, kept, t, held) ==
  Len(s) = Len(t) /\ \A i \in 1..Len(s) : s[i] \in kept <=> t[i] \in held

(* Two sequences that are filtered alike keep elements of the same places. *)
LEMMA OnlyTogether ==
  ASSUME NEW S, NEW s \in Seq(S), NEW T, NEW t \in Seq(T), NEW kept, NEW held,
         KeptAlike(s, kept, t, held)
  PROVE  /\ Len(Only(s, kept)) = Len(Only(t, held))
         /\ \A k \in 1..Len(Only(s, kept)) : \E i \in 1..Len(s) :
              Only(s, kept)[k] = s[i] /\ Only(t, held)[k] = t[i]
<1>1. Len(s) = Len(t) /\ \A i \in 1..Len(s) : s[i] \in kept <=> t[i] \in held
  BY DEF KeptAlike
<1>2. PICK n \in Nat : n = Len(s) /\ n = Len(t)
  BY <1>1
<1>3. \A i \in 1..n : s[i] \in S
  BY <1>2, ElementsOf
<1>4. \A i \in 1..n : t[i] \in T
  BY <1>2, ElementsOf
<1>5. PICK f : Filters(f, s, kept, S)
  BY OnlyStep
<1>6. PICK g : Filters(g, t, held, T)
  BY OnlyStep
<1>7. /\ Only(s, kept) = f[n] /\ f[0] = <<>> /\ Only(t, held) = g[n] /\ g[0] = <<>>
      /\ \A i \in 1..n : s[i] \in kept =>
           f[i] = Append(f[i - 1], s[i]) /\ g[i] = Append(g[i - 1], t[i])
      /\ \A i \in 1..n : s[i] \notin kept => f[i] = f[i - 1] /\ g[i] = g[i - 1]
  BY <1>1, <1>2, <1>5, <1>6 DEF Filters
<1>8. \A i \in 0..n : f[i] \in Seq(S) /\ g[i] \in Seq(T)
  BY <1>2, <1>5, <1>6 DEF Filters
<1>9. PICK P : P = {i \in 0..n : /\ Len(f[i]) = Len(g[i])
                                /\ \A k \in 1..Len(f[i]) : \E j \in 1..n :
                                     f[i][k] = s[j] /\ g[i][k] = t[j]}
  OBVIOUS
<1>10. 0 \in P
  <2>1. Len(f[0]) = 0 /\ Len(g[0]) = 0 /\ 0 \in 0..n
    BY <1>7
  <2> QED
    BY <1>9, <2>1
<1>11. ASSUME NEW i \in 1..n, i - 1 \in P PROVE i \in P
  <2>1. i - 1 \in 0..n
    OBVIOUS
  <2>2. PICK a \in Seq(S), b \in Seq(T) : a = f[i - 1] /\ b = g[i - 1]
    BY <1>8, <2>1
  <2>3. PICK m \in Nat : m = Len(a) /\ m = Len(b)
    BY <1>9, <1>11, <2>2
  <2>4. \A k \in 1..m : \E j \in 1..n : a[k] = s[j] /\ b[k] = t[j]
    BY <1>9, <1>11, <2>2, <2>3
  <2>5. CASE s[i] \in kept
    <3>1. PICK x \in S, y \in T : x = s[i] /\ y = t[i]
      BY <1>3, <1>4
    <3>2. PICK c, d : c = Append(a, x) /\ d = Append(b, y)
      OBVIOUS
    <3>3. Len(c) = m + 1 /\ c[m + 1] = x /\ \A k \in 1..m : c[k] = a[k]
      <4>1. /\ Len(Append(a, x)) = Len(a) + 1 /\ Append(a, x)[Len(a) + 1] = x
            /\ \A k \in 1..Len(a) : Append(a, x)[k] = a[k]
        BY Appended
      <4> QED
        BY <2>3, <3>2, <4>1
    <3>4. Len(d) = m + 1 /\ d[m + 1] = y /\ \A k \in 1..m : d[k] = b[k]
      BY <2>3, <3>2, Appended
    <3>5. /\ Len(c) = m + 1 /\ Len(d) = m + 1 /\ c[m + 1] = x /\ d[m + 1] = y
          /\ \A k \in 1..m : c[k] = a[k] /\ d[k] = b[k]
      BY <3>3, <3>4
    <3>6. \A k \in 1..m + 1 : k \in 1..m \/ k = m + 1
      OBVIOUS
    <3>7. \A k \in 1..m + 1 : \E j \in 1..n : c[k] = s[j] /\ d[k] = t[j]
      BY <2>4, <3>1, <3>5, <3>6
    <3>8. c = f[i] /\ d = g[i]
      BY <1>7, <2>2, <2>5, <3>1, <3>2
    <3>9. Len(f[i]) = m + 1 /\ Len(g[i]) = m + 1
      BY <3>5, <3>8
    <3>10. \A k \in 1..m + 1 : \E j \in 1..n : f[i][k] = s[j] /\ g[i][k] = t[j]
      BY <3>7, <3>8
    <3>11. i \in 0..n
      OBVIOUS
    <3> QED
      BY <1>9, <3>9, <3>10, <3>11
  <2>6. CASE s[i] \notin kept
    <3>1. f[i] = a /\ g[i] = b
      BY <1>7, <2>2, <2>6
    <3>2. Len(f[i]) = m /\ Len(g[i]) = m
      BY <2>3, <3>1
    <3>3. \A k \in 1..m : \E j \in 1..n : f[i][k] = s[j] /\ g[i][k] = t[j]
      BY <2>4, <3>1
    <3>4. i \in 0..n
      OBVIOUS
    <3> QED
      BY <1>9, <3>2, <3>3, <3>4
  <2> QED
    BY <2>5, <2>6
<1>12. \A i \in 0..n : i \in P
  BY <1>10, <1>11, StepByStep
<1>13. n \in P
  BY <1>12
<1>14. PICK a, b : a = f[n] /\ b = g[n]
  OBVIOUS
<1>15. Len(a) = Len(b) /\ \A k \in 1..Len(a) : \E j \in 1..n : a[k] = s[j] /\ b[k] = t[j]
  BY <1>9, <1>13, <1>14
<1>16. Only(s, kept) = a /\ Only(t, held) = b
  BY <1>7, <1>14
<1> QED
  BY <1>2, <1>15, <1>16

(* A sequence all of which is kept stays as it is. *)
LEMMA OnlyAll ==
  ASSUME NEW S, NEW s \in Seq(S), NEW kept, ToSet(s) \subseteq kept
  PROVE  Only(s, kept) = s
<1>1. PICK n \in Nat : n = Len(s) /\ DOMAIN s = 1..n
  OBVIOUS
<1>2. PICK f : Filters(f, s, kept, S)
  BY OnlyStep
<1>3. \A i \in 1..n : s[i] \in kept
  BY <1>1 DEF ToSet
<1>4. Only(s, kept) = f[n] /\ f[0] = <<>> /\ \A i \in 1..n : f[i] = Append(f[i - 1], s[i])
  BY <1>1, <1>2, <1>3 DEF Filters
<1>4a. \A i \in 0..n : f[i] \in Seq(S)
  BY <1>1, <1>2 DEF Filters
<1>4b. \A i \in 1..n : s[i] \in S
  BY <1>1
<1>5. PICK P : P = {i \in 0..n : Len(f[i]) = i /\ \A k \in 1..i : f[i][k] = s[k]}
  OBVIOUS
<1>6. 0 \in P
  BY <1>4, <1>5
<1>7. ASSUME NEW i \in 1..n, i - 1 \in P PROVE i \in P
  <2>1. PICK m \in Nat : m = i - 1 /\ m \in 0..n
    OBVIOUS
  <2>2. f[m] \in Seq(S) /\ s[i] \in S
    BY <1>4a, <1>4b, <2>1
  <2>3. PICK g \in Seq(S), x \in S : g = f[m] /\ x = s[i]
    BY <2>2
  <2>4. Len(g) = m /\ \A k \in 1..m : g[k] = s[k]
    BY <1>5, <1>7, <2>1, <2>3
  <2>5. /\ Len(Append(g, x)) = m + 1 /\ Append(g, x)[m + 1] = x
        /\ \A k \in 1..m : Append(g, x)[k] = g[k]
    BY <2>4
  <2>6. f[i] = Append(g, x)
    BY <1>4, <2>1, <2>3
  <2>7. PICK h : h = Append(g, x)
    OBVIOUS
  <2>8. Len(h) = i /\ \A k \in 1..i : h[k] = s[k]
    BY <2>1, <2>3, <2>4, <2>5, <2>7
  <2> QED
    BY <1>5, <2>6, <2>7, <2>8
<1>8. \A i \in 0..n : i \in P
  BY <1>6, <1>7, StepByStep
<1>9. PICK q \in Seq(S) : q = f[n]
  BY <1>4a
<1>10. Len(q) = n /\ \A k \in 1..n : q[k] = s[k]
  <2>1. n \in P
    BY <1>8
  <2> QED
    BY <1>5, <1>9, <2>1
<1>11. q = [k \in 1..n |-> q[k]] /\ s = [k \in 1..n |-> s[k]]
  BY <1>1, <1>9, <1>10
<1>12. q = s
  BY <1>10, <1>11
<1> QED
  BY <1>4, <1>9, <1>12

-----------------------------------------------------------------------------
(* g starts at b and goes on by the steps as long as it stays in V: so it does. *)
LEMMA Looped ==
  ASSUME NEW n \in Nat, NEW V, NEW b \in V, NEW step, Closed(step, n, V), NEW g,
         g = [i \in 0..n |-> g[i]], g[0] = b,
         \A i \in 1..n : g[i - 1] \in V => g[i] = step[<<i, g[i - 1]>>]
  PROVE  Computes(g, n, V, b, step)
<1>1. PICK P : P = {i \in 0..n : g[i] \in V}
  OBVIOUS
<1>2. 0 \in P /\ \A i \in 1..n : i - 1 \in P => i \in P
  <2>1. ASSUME NEW i \in 1..n, i - 1 \in P PROVE i \in P
    <3>1. g[i - 1] \in V /\ g[i] = step[<<i, g[i - 1]>>]
      BY <1>1, <2>1
    <3>2. g[i] \in V
      BY <3>1 DEF Closed
    <3> QED
      BY <1>1, <3>2
  <2> QED
    BY <1>1, <2>1
<1>3. \A i \in 0..n : i \in P
  BY <1>2, StepByStep
<1>4. g \in [0..n -> V] /\ \A i \in 1..n : g[i - 1] \in V
  BY <1>1, <1>3
<1> QED
  BY <1>4 DEF Computes

(* A strict total order of S, as a set of pairs. *)
Orders(before, S) ==
  /\ \A x, y \in S : <<x, y>> \in before => <<y, x>> \notin before
  /\ \A x, y \in S : x # y => <<x, y>> \in before \/ <<y, x>> \in before
  /\ \A x, y, z \in S : <<x, y>> \in before /\ <<y, z>> \in before => <<x, z>> \in before

(* Of some elements of a finite set one comes first. *)
LEMMA FirstInOrder ==
  ASSUME NEW S, IsFiniteSet(S), NEW before, Orders(before, S), NEW R, R \subseteq S, R # {}
  PROVE  \E x \in R : \A y \in R : y # x => <<x, y>> \in before
<1> DEFINE Below(x) == {z \in S : <<z, x>> \in before}
<1>1. \A x : Below(x) \subseteq S
  OBVIOUS
<1>2. \A x : IsFiniteSet(Below(x)) /\ Cardinality(Below(x)) \in Nat
  <2> HIDE DEF Below
  <2> QED
    BY <1>1, FS_Subset, FS_CardinalityType
<1>3. ASSUME NEW x \in S, NEW y \in S, <<y, x>> \in before
      PROVE  Cardinality(Below(y)) < Cardinality(Below(x))
  <2>1. Below(y) \subseteq Below(x) /\ y \in Below(x) /\ y \notin Below(y)
    BY <1>3 DEF Orders
  <2>2. Below(x) # Below(y)
    BY <2>1
  <2> HIDE DEF Below
  <2>3. /\ Cardinality(Below(y)) <= Cardinality(Below(x))
        /\ Cardinality(Below(x)) = Cardinality(Below(y)) => Below(x) = Below(y)
    BY <1>2, <2>1, FS_Subset
  <2> QED
    BY <1>2, <2>2, <2>3
<1> HIDE DEF Below
<1>4. PICK T : T = {Cardinality(Below(x)) : x \in R}
  OBVIOUS
<1>5. T \subseteq Nat /\ T # {}
  BY <1>2, <1>4
<1>6. PICK c \in T : \A d \in T : c <= d
  BY <1>5, LeastNat
<1>7. PICK x \in R : c = Cardinality(Below(x))
  BY <1>4, <1>6
<1>8. ASSUME NEW y \in R, y # x PROVE <<x, y>> \in before
  <2>1. Cardinality(Below(x)) <= Cardinality(Below(y))
    BY <1>4, <1>6, <1>7
  <2>2. <<y, x>> \notin before
    BY <1>2, <1>3, <2>1
  <2> QED
    BY <1>8, <2>2 DEF Orders
<1> QED
  BY <1>8

(* The one that comes first. *)
First(left, before) == CHOOSE x \in left : \A y \in left : y # x => <<x, y>> \in before

(* f is the recursive function of Ordered: the first so many in order. *)
Sorts(f, S, before) ==
  /\ Ordered(S, before) = f[Cardinality(S)]
  /\ f[0] = <<>>
  /\ \A n \in 1..Cardinality(S) :
       f[n] = Append(f[n - 1], First(S \ ToSet(f[n - 1]), before))

(* Ordered is computed element by element. *)
LEMMA OrderedStep ==
  ASSUME NEW S, IsFiniteSet(S), NEW before
  PROVE  \E f : Sorts(f, S, before)
<1>1. PICK n \in Nat : n = Cardinality(S)
  BY FS_CardinalityType
<1>2. PICK E : E = {First(left, before) : left \in SUBSET S}
  OBVIOUS
<1>3. PICK V, b : V = Seq(E) /\ b = <<>>
  OBVIOUS
<1> DEFINE Longer(q) == Append(q, First(S \ ToSet(q), before))
           Body(g) == [i \in 0..n |-> IF i = 0 THEN <<>> ELSE Longer(g[i - 1])]
<1>4. PICK g : g = CHOOSE h : h = Body(h)
  OBVIOUS
<1>5. Ordered(S, before) = g[n]
  BY <1>1, <1>4 DEF Ordered, First
<1>6. b \in V /\ \A i \in 1..n, q \in V : Longer(q) \in V
  <2>1. ASSUME NEW q \in V PROVE Longer(q) \in V
    <3>1. PICK e \in E : e = First(S \ ToSet(q), before)
      BY <1>2
    <3> QED
      BY <1>3, <3>1
  <2> QED
    BY <1>3, <2>1
<1> HIDE DEF Longer
<1>7. PICK step : step = [p \in (1..n) \X V |-> Longer(p[2])]
  OBVIOUS
<1>8. \A i \in 1..n, q \in V : step[<<i, q>>] = Longer(q)
  BY <1>7
<1>9. Closed(step, n, V)
  BY <1>6, <1>8 DEF Closed
<1>10. PICK f : Computes(f, n, V, b, step)
  BY <1>6, <1>9, Recursion
<1>11. /\ f = [i \in 0..n |-> f[i]] /\ f[0] = <<>>
       /\ \A i \in 1..n : f[i] = Longer(f[i - 1])
  <2>1. f \in [0..n -> V] /\ f[0] = b /\ \A i \in 1..n : f[i] = step[<<i, f[i - 1]>>]
    BY <1>10 DEF Computes
  <2>2. \A i \in 1..n : f[i - 1] \in V
    BY <2>1
  <2> QED
    BY <1>3, <1>8, <2>1, <2>2
<1>12. f = Body(f)
  BY <1>11
<1>13. g = Body(g)
  <2> HIDE DEF Body
  <2> QED
    BY <1>4, <1>12
<1>14. PICK h : h = g
  OBVIOUS
<1>15. g = [i \in 0..n |-> IF i = 0 THEN <<>> ELSE Longer(h[i - 1])]
  BY <1>13, <1>14
<1>16. g[0] = <<>> /\ \A i \in 1..n : g[i] = Longer(g[i - 1])
  BY <1>14, <1>15
<1> QED
  BY <1>1, <1>5, <1>16 DEF Sorts, Longer

(* What Ordered returns: every element of S once, each before the later ones. *)
LEMMA OrderedFacts ==
  ASSUME NEW S, IsFiniteSet(S), NEW before, Orders(before, S)
  PROVE  /\ Ordered(S, before) \in Seq(S)
         /\ Different(Ordered(S, before))
         /\ ToSet(Ordered(S, before)) = S
         /\ \A k, l \in DOMAIN Ordered(S, before) :
              k < l => <<Ordered(S, before)[k], Ordered(S, before)[l]>> \in before
<1>1. PICK n \in Nat : n = Cardinality(S)
  BY FS_CardinalityType
<1>2. PICK f : Sorts(f, S, before)
  BY OrderedStep
<1> DEFINE Begins(q, i) ==
             /\ q \in Seq(S) /\ Len(q) = i /\ Different(q)
             /\ \A k, l \in 1..i : k < l => <<q[k], q[l]>> \in before
             /\ \A k \in 1..i, y \in S \ ToSet(q) : <<q[k], y>> \in before
<1>3. ASSUME NEW i \in 1..n, NEW q, Begins(q, i - 1)
      PROVE  Begins(Append(q, First(S \ ToSet(q), before)), i)
  <2>1. PICK R : R = S \ ToSet(q)
    OBVIOUS
  <2>2. PICK m \in Nat : m = i - 1 /\ m < n
    OBVIOUS
  <2>3. q \in Seq(S) /\ Len(q) = m /\ DOMAIN q = 1..m
    BY <1>3, <2>2
  <2>4. ToSet(q) \subseteq S /\ Cardinality(ToSet(q)) = m
    BY <1>3, <2>3, DifferentCount DEF ToSet
  <2>5. R # {}
    <3>1. ToSet(q) # S
      BY <1>1, <2>2, <2>4
    <3> QED
      BY <2>1, <2>4, <3>1
  <2>6. PICK x : x = First(R, before)
    OBVIOUS
  <2>7. x \in R /\ \A y \in R : y # x => <<x, y>> \in before
    <3>1. \E z \in R : \A y \in R : y # z => <<z, y>> \in before
      BY <2>1, <2>5, FirstInOrder
    <3> QED
      BY <2>6, <3>1 DEF First
  <2>8. PICK t : t = Append(q, x)
    OBVIOUS
  <2>9. t \in Seq(S) /\ Different(t) /\ ToSet(t) = ToSet(q) \cup {x}
    BY <1>3, <2>1, <2>3, <2>7, <2>8, AppendDifferent
  <2>10. Len(t) = i /\ t[i] = x /\ \A k \in 1..m : t[k] = q[k]
    BY <2>2, <2>3, <2>8
  <2>11. \A k, l \in 1..m : k < l => <<q[k], q[l]>> \in before
    BY <1>3, <2>2
  <2>12. \A k \in 1..m, y \in R : <<q[k], y>> \in before
    BY <1>3, <2>1, <2>2
  <2>13. ASSUME NEW k \in 1..i, NEW l \in 1..i, k < l PROVE <<t[k], t[l]>> \in before
    <3>1. k \in 1..m /\ t[k] = q[k]
      BY <2>2, <2>10, <2>13
    <3>2. CASE l = i
      BY <2>7, <2>10, <2>12, <3>1, <3>2
    <3>3. CASE l # i
      <4>1. l \in 1..m /\ t[l] = q[l]
        BY <2>2, <2>10, <3>3
      <4> QED
        BY <2>11, <2>13, <3>1, <4>1
    <3> QED
      BY <3>2, <3>3
  <2>14. ASSUME NEW k \in 1..i, NEW y \in S \ ToSet(t) PROVE <<t[k], y>> \in before
    <3>1. y \in R /\ y # x
      BY <2>1, <2>9
    <3>2. CASE k = i
      BY <2>7, <2>10, <3>1, <3>2
    <3>3. CASE k # i
      <4>1. k \in 1..m /\ t[k] = q[k]
        BY <2>2, <2>10, <3>3
      <4> QED
        BY <2>12, <3>1, <4>1
    <3> QED
      BY <3>2, <3>3
  <2> HIDE DEF Begins
  <2>15. Begins(t, i)
    BY <2>9, <2>10, <2>13, <2>14 DEF Begins
  <2> QED
    BY <2>1, <2>6, <2>8, <2>15
<1>4. Begins(<<>>, 0)
  BY DEF Different
<1>5. PICK P : P = {i \in 0..n : Begins(f[i], i)}
  OBVIOUS
<1>6. 0 \in P
  <2> HIDE DEF Begins
  <2> QED
    BY <1>1, <1>2, <1>4, <1>5 DEF Sorts
<1> HIDE DEF Begins
<1>7. ASSUME NEW i \in 1..n, i - 1 \in P PROVE i \in P
  <2>1. Begins(f[i - 1], i - 1)
    BY <1>5, <1>7
  <2>2. f[i] = Append(f[i - 1], First(S \ ToSet(f[i - 1]), before))
    BY <1>1, <1>2 DEF Sorts
  <2>3. Begins(f[i], i)
    BY <1>3, <2>1, <2>2
  <2> QED
    BY <1>5, <2>3
<1>8. \A i \in 0..n : i \in P
  BY <1>6, <1>7, StepByStep
<1>9. PICK q : q = Ordered(S, before)
  OBVIOUS
<1>10. Begins(q, n)
  <2>1. n \in P
    BY <1>8
  <2> QED
    BY <1>1, <1>2, <1>5, <1>9, <2>1 DEF Sorts
<1>11. /\ q \in Seq(S) /\ Len(q) = n /\ DOMAIN q = 1..n /\ Different(q)
       /\ \A k, l \in 1..n : k < l => <<q[k], q[l]>> \in before
  BY <1>10 DEF Begins
<1>12. ToSet(q) = S
  <2>1. ToSet(q) \in SUBSET S /\ Cardinality(ToSet(q)) = n
    BY <1>11, DifferentCount DEF ToSet
  <2> QED
    BY <1>1, <2>1, FS_Subset
<1> QED
  BY <1>9, <1>11, <1>12

=============================================================================
