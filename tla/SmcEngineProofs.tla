--------------------------- MODULE SmcEngineProofs ---------------------------
(* Theorems about SmcEngine, for every shape and number of bars, every     *)
(* window, tolerance, threshold and size of the history.                   *)
EXTENDS SmcEngine, FiniteSetTheorems, SequenceTheorems, TLAPS
-----------------------------------------------------------------------------
(* Induction, over numbers and over subsets of a finite set.               *)
LEMMA NatSetInduction ==
  ASSUME NEW S, 0 \in S, \A n \in Nat : n \in S => n + 1 \in S
  PROVE  Nat \subseteq S
<1> DEFINE T == Nat \ S
           R == OpToRel(<, Nat)
<1> SUFFICES ASSUME T # {} PROVE FALSE
  OBVIOUS
<1>1. IsWellFoundedOn(R, Nat)
  BY NatLessThanWellFounded
<1>2. T \subseteq Nat
  OBVIOUS
<1>3. PICK x \in T : \A y \in T : ~ (<<y, x>> \in R)
  <2> HIDE DEF T, R
  <2> QED
    BY <1>1, <1>2, WFMin
<1>4. x \in Nat /\ x # 0
  OBVIOUS
<1>5. x - 1 \in Nat /\ x - 1 \notin S
  BY <1>4
<1>6. <<x - 1, x>> \in R
  BY <1>4, <1>5 DEF OpToRel
<1> QED
  BY <1>3, <1>5, <1>6

LEMMA LeastNatural == ASSUME NEW S \in SUBSET Nat, S # {} PROVE \E n \in S : \A m \in S : n <= m
<1> DEFINE R == OpToRel(<, Nat)
<1>1. IsWellFoundedOn(R, Nat)
  BY NatLessThanWellFounded
<1>2. PICK n \in S : \A m \in S : ~ (<<m, n>> \in R)
  <2> HIDE DEF R
  <2> QED
    BY <1>1, WFMin
<1>3. ASSUME NEW m \in S PROVE n <= m
  <2>1. m \in Nat /\ n \in Nat
    OBVIOUS
  <2>2. m < n => <<m, n>> \in R
    BY <2>1 DEF OpToRel
  <2> HIDE DEF R
  <2> QED
    BY <1>2, <2>1, <2>2
<1> QED
  BY <1>3

(* A set of numbers within 0 .. n has a greatest element.                  *)
LEMMA GreatestNatural ==
  ASSUME NEW n \in Nat, NEW S \in SUBSET (0 .. n), S # {}
  PROVE  /\ Max(S) \in S /\ \A m \in S : m <= Max(S)
         /\ \A x \in S : (\A m \in S : m <= x) => x = Max(S)
<1> DEFINE T == {n - s : s \in S}
<1>0. \A y \in S : y \in Nat
  OBVIOUS
<1>1. T \in SUBSET Nat /\ T # {}
  <2>1. \A s \in S : s \in Nat /\ s <= n
    OBVIOUS
  <2> QED
    BY <2>1
<1>2. PICK t \in T : \A m \in T : t <= m
  <2> HIDE DEF T
  <2> QED
    BY <1>1, LeastNatural
<1>3. PICK x \in S : t = n - x
  OBVIOUS
<1>4. ASSUME NEW m \in S PROVE m <= x
  <2>1. m \in Nat /\ x \in Nat
    BY <1>0
  <2>2. n - m \in T
    OBVIOUS
  <2>3. t <= n - m
    BY <1>2, <2>2
  <2> QED
    BY <1>3, <2>1, <2>3
<1>5. \A y \in S : x >= y
  <2> HIDE DEF T
  <2> QED
    BY <1>0, <1>4
<1>6. Max(S) \in S /\ \A y \in S : Max(S) >= y
  BY <1>5 DEF Max
<1>8. ASSUME NEW y \in S, \A m \in S : m <= y PROVE y = Max(S)
  <2>1. Max(S) <= y /\ Max(S) >= y /\ Max(S) \in Nat /\ y \in Nat
    BY <1>0, <1>6, <1>8
  <2> QED
    BY <2>1
<1>9. \A m \in S : m <= Max(S)
  BY <1>0, <1>6
<1> QED
  BY <1>6, <1>8, <1>9

-----------------------------------------------------------------------------
(* Folds.  FoldLeft goes through the sets of indices and takes out the     *)
(* greatest one each time.  With the operator as a function op on A \X B   *)
(* such a function exists, it is the only one, and on 1 .. k it is what    *)
(* the fold has reached after k items.                                     *)
Folds(F, A, op, c, q) ==
  /\ F \in [SUBSET DOMAIN q -> A]
  /\ F = [s \in SUBSET DOMAIN q |->
            IF s = {} THEN c ELSE op[<<F[s \ {Max(s)}], q[Max(s)]>>]]

Reaches(a, op, c, q) ==
  a[0] = c /\ \A k \in 1 .. Len(q) : a[k] = op[<<a[k - 1], q[k]>>]

(* G takes the steps of a fold as long as it stays within A.               *)
Steps(G, A, op, c, q) ==
  /\ G[{}] = c
  /\ \A s \in SUBSET DOMAIN q : s # {} /\ G[s \ {Max(s)}] \in A
       => G[s] = op[<<G[s \ {Max(s)}], q[Max(s)]>>]

(* r is what a fold comes to.                                              *)
ComesTo(r, A, op, c, q) ==
  \E a \in [0 .. Len(q) -> A] : Reaches(a, op, c, q) /\ a[Len(q)] = r

(* The greatest index of 1 .. k, and of a set with k in it.                *)
LEMMA LastIndex ==
  ASSUME NEW k \in Nat, NEW s \in SUBSET (1 .. k), k \in s
  PROVE  Max(s) = k
<1>1. s \in SUBSET (0 .. k) /\ s # {} /\ \A m \in s : m <= k
  OBVIOUS
<1> QED
  BY <1>1, GreatestNatural

LEMMA MaxIsIn == ASSUME NEW k \in Nat, NEW s \in SUBSET (1 .. k), s # {} PROVE Max(s) \in s
<1>1. s \in SUBSET (0 .. k)
  OBVIOUS
<1> QED
  BY <1>1, GreatestNatural

LEMMA FoldExists ==
  ASSUME NEW A, NEW B, NEW c \in A, NEW op \in [A \X B -> A], NEW q \in Seq(B)
  PROVE  \E F : Folds(F, A, op, c, q)
<1> DEFINE FoldsTo(F, k) == F = [s \in SUBSET (1 .. k) |->
             IF s = {} THEN c ELSE op[<<F[s \ {Max(s)}], q[Max(s)]>>]]
           Can(k) == \E F \in [SUBSET (1 .. k) -> A] : FoldsTo(F, k)
           S == {k \in Nat : k <= Len(q) => Can(k)}
<1>0. Len(q) \in Nat /\ DOMAIN q = 1 .. Len(q) /\ \A i \in 1 .. Len(q) : q[i] \in B
  OBVIOUS
<1>1. 0 \in S
  <2> DEFINE F == [s \in SUBSET (1 .. 0) |-> c]
  <2>1. \A s \in SUBSET (1 .. 0) : s = {}
    OBVIOUS
  <2>2. FoldsTo(F, 0) /\ F \in [SUBSET (1 .. 0) -> A]
    BY <2>1
  <2> HIDE DEF F, FoldsTo
  <2> QED
    BY <2>2
<1>2. ASSUME NEW k \in Nat, k \in S PROVE k + 1 \in S
  <2> SUFFICES ASSUME k + 1 <= Len(q) PROVE Can(k + 1)
    <3> HIDE DEF Can
    <3> QED
      OBVIOUS
  <2>1. PICK F \in [SUBSET (1 .. k) -> A] : FoldsTo(F, k)
    <3>1. Can(k)
      <4> HIDE DEF Can
      <4> QED
        BY <1>0, <1>2
    <3> HIDE DEF FoldsTo
    <3> QED
      BY <3>1
  <2>2. q[k + 1] \in B
    BY <1>0
  <2> DEFINE G == [s \in SUBSET (1 .. k + 1) |->
               IF k + 1 \in s THEN op[<<F[s \ {k + 1}], q[k + 1]>>] ELSE F[s]]
  <2>3. ASSUME NEW s \in SUBSET (1 .. k + 1)
        PROVE  /\ G[s] \in A
               /\ G[s] = IF s = {} THEN c ELSE op[<<G[s \ {Max(s)}], q[Max(s)]>>]
    <3>1. CASE k + 1 \in s
      <4>1. Max(s) = k + 1
        BY <3>1, LastIndex
      <4>2. s \ {k + 1} \in SUBSET (1 .. k) /\ s \ {k + 1} \in SUBSET (1 .. k + 1)
        OBVIOUS
      <4>3. G[s \ {k + 1}] = F[s \ {k + 1}] /\ F[s \ {k + 1}] \in A
        BY <4>2
      <4>4. G[s] = op[<<F[s \ {k + 1}], q[k + 1]>>]
        BY <3>1
      <4>5. G[s] \in A
        BY <2>2, <4>3, <4>4
      <4> HIDE DEF G, FoldsTo
      <4> QED
        BY <3>1, <4>1, <4>3, <4>4, <4>5
    <3>2. CASE k + 1 \notin s
      <4>1. s \in SUBSET (1 .. k) /\ s \ {Max(s)} \in SUBSET (1 .. k)
        <5>1. \A x \in s : x \in 1 .. k + 1 /\ x # k + 1
          BY <3>2
        <5>2. \A x \in s : x \in 1 .. k
          BY <5>1
        <5> QED
          BY <5>2
      <4>2. G[s] = F[s] /\ G[s \ {Max(s)}] = F[s \ {Max(s)}]
        BY <3>2
      <4>3. F[s] = IF s = {} THEN c ELSE op[<<F[s \ {Max(s)}], q[Max(s)]>>]
        BY <2>1, <4>1
      <4>4. F[s] \in A
        BY <4>1
      <4> HIDE DEF G, FoldsTo
      <4> QED
        BY <4>2, <4>3, <4>4
    <3> QED
      BY <3>1, <3>2
  <2>4. G = [s \in SUBSET (1 .. k + 1) |-> G[s]]
    OBVIOUS
  <2> HIDE DEF G
  <2>5. G \in [SUBSET (1 .. k + 1) -> A]
    BY <2>3, <2>4
  <2>6. FoldsTo(G, k + 1)
    BY <2>3, <2>4
  <2> HIDE DEF FoldsTo
  <2> QED
    BY <2>5, <2>6
<1>3. Nat \subseteq S
  <2> HIDE DEF S
  <2> QED
    BY <1>1, <1>2, NatSetInduction
<1>4. Can(Len(q))
  <2> HIDE DEF Can
  <2> QED
    BY <1>0, <1>3
<1>5. PICK F \in [SUBSET (1 .. Len(q)) -> A] : FoldsTo(F, Len(q))
  <2> HIDE DEF FoldsTo
  <2> QED
    BY <1>4
<1>6. Folds(F, A, op, c, q)
  BY <1>0, <1>5 DEF Folds
<1> QED
  BY <1>6

(* A function that takes the same steps is the same.                       *)
LEMMA FoldIsUnique ==
  ASSUME NEW A, NEW B, NEW op, NEW c, NEW q \in Seq(B),
         NEW F, Folds(F, A, op, c, q),
         NEW G, Steps(G, A, op, c, q)
  PROVE  \A s \in SUBSET DOMAIN q : G[s] = F[s]
<1> DEFINE S == {k \in Nat : \A s \in SUBSET DOMAIN q : s \subseteq 1 .. k => G[s] = F[s]}
<1>0. Len(q) \in Nat /\ DOMAIN q = 1 .. Len(q)
  OBVIOUS
<1>1. \A s \in SUBSET DOMAIN q :
        F[s] \in A /\ F[s] = IF s = {} THEN c ELSE op[<<F[s \ {Max(s)}], q[Max(s)]>>]
  BY DEF Folds
<1>2a. G[{}] = c /\ \A s \in SUBSET DOMAIN q : s # {} /\ G[s \ {Max(s)}] \in A
           => G[s] = op[<<G[s \ {Max(s)}], q[Max(s)]>>]
  BY DEF Steps
<1>2. 0 \in S
  <2>1. ASSUME NEW s \in SUBSET DOMAIN q, s \subseteq 1 .. 0 PROVE G[s] = F[s]
    <3>1. s = {}
      BY <2>1
    <3> QED
      BY <1>1, <1>2a, <3>1
  <2> QED
    BY <2>1
<1>3. ASSUME NEW k \in Nat, k \in S PROVE k + 1 \in S
  <2>1. ASSUME NEW s \in SUBSET DOMAIN q, s \subseteq 1 .. k + 1 PROVE G[s] = F[s]
    <3>1. CASE k + 1 \notin s
      <4>1. \A x \in s : x \in 1 .. k + 1 /\ x # k + 1
        BY <2>1, <3>1
      <4>2. \A x \in s : x \in 1 .. k
        BY <4>1
      <4> QED
        BY <1>3, <4>2
    <3>2. CASE k + 1 \in s
      <4>1. Max(s) = k + 1
        BY <2>1, <3>2, LastIndex
      <4>2. s \ {k + 1} \in SUBSET DOMAIN q /\ s \ {k + 1} \subseteq 1 .. k
        BY <2>1
      <4>3. G[s \ {k + 1}] = F[s \ {k + 1}]
        BY <1>3, <4>2
      <4>4. F[s \ {k + 1}] \in A
        BY <1>1, <4>2
      <4> HIDE DEF S
      <4> QED
        BY <1>1, <1>2a, <3>2, <4>1, <4>3, <4>4
    <3> QED
      BY <3>1, <3>2
  <2> QED
    BY <2>1
<1>4. Nat \subseteq S
  <2> HIDE DEF S
  <2> QED
    BY <1>2, <1>3, NatSetInduction
<1>5. Len(q) \in S
  BY <1>0, <1>4
<1> QED
  BY <1>0, <1>5

(* What the fold has reached after k items.                                *)
LEMMA FoldReaches ==
  ASSUME NEW A, NEW B, NEW op, NEW c, NEW q \in Seq(B),
         NEW F, Folds(F, A, op, c, q)
  PROVE  ComesTo(F[DOMAIN q], A, op, c, q)
<1>0. Len(q) \in Nat /\ DOMAIN q = 1 .. Len(q)
  OBVIOUS
<1>1. \A s \in SUBSET DOMAIN q :
        F[s] \in A /\ F[s] = IF s = {} THEN c ELSE op[<<F[s \ {Max(s)}], q[Max(s)]>>]
  BY DEF Folds
<1> DEFINE a == [k \in 0 .. Len(q) |-> F[1 .. k]]
<1>2. ASSUME NEW k \in 0 .. Len(q) PROVE 1 .. k \in SUBSET DOMAIN q /\ a[k] = F[1 .. k] /\ a[k] \in A
  <2>1. \A i \in 1 .. k : i \in 1 .. Len(q)
    BY <1>0
  <2>2. 1 .. k \in SUBSET DOMAIN q
    BY <1>0, <2>1
  <2> QED
    BY <1>1, <2>2
<1>3. a[0] = c
  <2>1. 1 .. 0 = {} /\ 0 \in 0 .. Len(q) /\ {} \in SUBSET DOMAIN q
    BY <1>0
  <2> HIDE DEF a
  <2> QED
    BY <1>1, <1>2, <2>1
<1>4. ASSUME NEW k \in 1 .. Len(q) PROVE a[k] = op[<<a[k - 1], q[k]>>]
  <2>1. k \in Nat /\ k \in 0 .. Len(q) /\ k - 1 \in 0 .. Len(q) /\ k \in 1 .. k
    BY <1>0
  <2>2. Max(1 .. k) = k
    BY <2>1, LastIndex
  <2>3. (1 .. k) \ {k} = 1 .. k - 1
    <3>1. \A x : x \in (1 .. k) \ {k} <=> x \in 1 .. k - 1
      BY <2>1
    <3> QED
      BY <3>1
  <2>4. a[k] = F[1 .. k] /\ a[k - 1] = F[1 .. k - 1] /\ 1 .. k \in SUBSET DOMAIN q
    BY <1>2, <2>1
  <2>5. F[1 .. k] = op[<<F[1 .. k - 1], q[k]>>]
    <3>1. PICK s : s = 1 .. k
      OBVIOUS
    <3>2. F[s] = IF s = {} THEN c ELSE op[<<F[s \ {Max(s)}], q[Max(s)]>>]
      BY <1>1, <2>4, <3>1
    <3>3. s # {} /\ Max(s) = k /\ s \ {k} = 1 .. k - 1
      BY <2>1, <2>2, <2>3, <3>1
    <3> QED
      BY <3>1, <3>2, <3>3
  <2> HIDE DEF a
  <2> QED
    BY <2>4, <2>5
<1>5. a \in [0 .. Len(q) -> A]
  BY <1>2
<1>6. a[Len(q)] = F[DOMAIN q]
  BY <1>0
<1>7. Reaches(a, op, c, q)
  BY <1>3, <1>4 DEF Reaches
<1> QED
  BY <1>5, <1>6, <1>7 DEF ComesTo

(* So a function that takes the steps of a fold comes to its result.       *)
LEMMA FoldComesTo ==
  ASSUME NEW A, NEW B, NEW c, NEW op, NEW q \in Seq(B),
         NEW F, Folds(F, A, op, c, q),
         NEW G, Steps(G, A, op, c, q)
  PROVE  ComesTo(G[DOMAIN q], A, op, c, q)
<1>1. G[DOMAIN q] = F[DOMAIN q]
  <2>1. \A s \in SUBSET DOMAIN q : G[s] = F[s]
    BY FoldIsUnique
  <2> QED
    BY <2>1
<1> QED
  BY <1>1, FoldReaches
-----------------------------------------------------------------------------
(* What the helpers on sequences return.                                   *)

(* The last n items.                                                       *)
LEMMA LastNIs ==
  ASSUME NEW S, NEW s \in Seq(S), NEW n \in Nat \ {0}
  PROVE  \E d \in Nat :
           /\ d = IF Len(s) > n THEN Len(s) - n ELSE 0
           /\ LastN(s, n) \in Seq(S) /\ Len(LastN(s, n)) = Len(s) - d
           /\ \A r \in 1 .. Len(s) - d : r + d \in DOMAIN s /\ LastN(s, n)[r] = s[r + d]
<1> DEFINE d == IF Len(s) > n THEN Len(s) - n ELSE 0
           t == SubSeq(s, d + 1, Len(s))
<1>1. Len(s) \in Nat /\ DOMAIN s = 1 .. Len(s)
  OBVIOUS
<1>2. d \in Nat /\ d <= Len(s)
  BY <1>1
<1>3. LastN(s, n) = t
  <2>1. Larger(1, Len(s) - n + 1) = d + 1
    BY <1>1 DEF Larger
  <2> HIDE DEF d
  <2> QED
    BY <2>1 DEF LastN
<1> HIDE DEF d
<1>4. t \in Seq(S) /\ Len(t) = Len(s) - d
  <2>1a. PICK p \in Nat : p = d + 1
    BY <1>2
  <2>1b. PICK e \in Nat : e = Len(s)
    BY <1>1
  <2>1. p = d + 1 /\ e = Len(s) /\ e - p + 1 = e - d /\ p >= 1 /\ d <= e
    BY <1>1, <1>2, <2>1a, <2>1b
  <2>2. \A i \in p .. e : s[i] \in S
    BY <1>1, <1>2, <2>1
  <2>3. SubSeq(s, p, e) \in Seq(S) /\ Len(SubSeq(s, p, e)) = IF p <= e THEN e - p + 1 ELSE 0
    BY <2>2, SubSeqProperties
  <2>4. t = SubSeq(s, p, e)
    BY <2>1
  <2> HIDE DEF t
  <2>5. p <= e => e - p + 1 = Len(s) - d
    BY <2>1
  <2>6. ~ (p <= e) => Len(s) - d = 0
    <3>1. PICK q \in Nat : q = d
      BY <1>2
    <3>2. p = q + 1 /\ q <= e
      BY <2>1, <3>1
    <3>3. ~ (p <= e) => e - q = 0
      BY <3>2
    <3> QED
      BY <2>1, <3>1, <3>3
  <2>7. Len(t) = IF p <= e THEN e - p + 1 ELSE 0
    BY <2>3, <2>4, Zenon
  <2>8. Len(t) = Len(s) - d
    BY <2>5, <2>6, <2>7, Zenon
  <2>9. t \in Seq(S)
    BY <2>3, <2>4, Zenon
  <2> QED
    BY <2>8, <2>9
<1>5. ASSUME NEW r \in 1 .. Len(s) - d PROVE r + d \in DOMAIN s /\ t[r] = s[r + d]
  BY <1>1, <1>2
<1> HIDE DEF t
<1> QED
  BY <1>2, <1>3, <1>4, <1>5 DEF d

(* x goes in after the first m items.                                      *)
LEMMA InsertAtIs ==
  ASSUME NEW S, NEW s \in Seq(S), NEW x \in S, NEW m \in 0 .. Len(s)
  PROVE  /\ InsertAt(s, m + 1, x) \in Seq(S)
         /\ Len(InsertAt(s, m + 1, x)) = Len(s) + 1
         /\ \A r \in 1 .. m : InsertAt(s, m + 1, x)[r] = s[r]
         /\ InsertAt(s, m + 1, x)[m + 1] = x
         /\ \A r \in m + 1 .. Len(s) : InsertAt(s, m + 1, x)[r + 1] = s[r]
<1> DEFINE a == SubSeq(s, 1, m)
           b == SubSeq(s, m + 1, Len(s))
           t == (a \o <<x>>) \o b
<1>1. Len(s) \in Nat /\ m \in Nat /\ m <= Len(s)
  OBVIOUS
<1>2. InsertAt(s, m + 1, x) = t
  <2>1. m + 1 - 1 = m
    BY <1>1
  <2>2. InsertAt(s, m + 1, x) = (SubSeq(s, 1, (m + 1) - 1) \o <<x>>) \o SubSeq(s, m + 1, Len(s))
    BY DEF InsertAt
  <2>3. SubSeq(s, 1, (m + 1) - 1) = SubSeq(s, 1, m)
    <3>1. PICK j : j = (m + 1) - 1
      OBVIOUS
    <3>2. j = m
      BY <2>1, <3>1
    <3> QED
      BY <3>1, <3>2, Zenon
  <2> QED
    BY <2>2, <2>3, Zenon
<1>3. a \in Seq(S) /\ Len(a) = m /\ \A r \in 1 .. m : a[r] = s[r]
  BY <1>1
<1>4. b \in Seq(S) /\ Len(b) = Len(s) - m /\ \A r \in 1 .. Len(s) - m : b[r] = s[r + m]
  BY <1>1
<1> HIDE DEF a, b
<1> DEFINE u == a \o <<x>>
<1>5. /\ u \in Seq(S) /\ Len(u) = m + 1 /\ u[m + 1] = x
      /\ \A r \in 1 .. m : u[r] = s[r]
  BY <1>1, <1>3
<1> HIDE DEF u
<1>6. t = u \o b
  BY DEF u
<1> HIDE DEF t
<1>7. t \in Seq(S) /\ Len(t) = Len(s) + 1
  <2>1. t \in Seq(S) /\ Len(t) = Len(u) + Len(b)
    BY <1>4, <1>5, <1>6, ConcatProperties
  <2> QED
    BY <1>1, <1>4, <1>5, <2>1
<1>8. ASSUME NEW r \in 1 .. m + 1 PROVE t[r] = u[r]
  BY <1>1, <1>4, <1>5, <1>6
<1>9. ASSUME NEW r \in m + 1 .. Len(s) PROVE t[r + 1] = s[r]
  <2>1. r - m \in 1 .. Len(s) - m /\ r + 1 = Len(u) + (r - m) /\ (r - m) + m = r
    BY <1>1, <1>5
  <2>2. t[r + 1] = b[r - m]
    BY <1>1, <1>4, <1>5, <1>6, <2>1
  <2> QED
    BY <1>4, <2>1, <2>2
<1>10. \A r \in 1 .. m : t[r] = s[r]
  <2>1. \A r \in 1 .. m : r \in 1 .. m + 1
    BY <1>1
  <2> QED
    BY <1>5, <1>8, <2>1
<1>11. t[m + 1] = x
  <2>1. m + 1 \in 1 .. m + 1
    BY <1>1
  <2> QED
    BY <1>5, <1>8, <2>1
<1> QED
  BY <1>2, <1>7, <1>9, <1>10, <1>11

(* o holds the items of s at the indices of I, in their order; at says     *)
(* where each comes from.                                                  *)
Picks(o, s, I, at) ==
  /\ at \in [1 .. Len(o) -> I]
  /\ \A i \in I : \E r \in 1 .. Len(o) : at[r] = i
  /\ \A r, u \in 1 .. Len(o) : r < u => at[r] < at[u]
  /\ \A r \in 1 .. Len(o) : o[r] = s[at[r]]

LEMMA ChosenIs ==
  ASSUME NEW S, NEW s \in Seq(S), NEW I
  PROVE  /\ Chosen(s, I) \in Seq(S)
         /\ \E at : Picks(Chosen(s, I), s, I \cap DOMAIN s, at)
<1> DEFINE n == Len(s)
           q == Indices(s)
           A == Seq(S)
           B == DOMAIN s
           op == [x \in A \X B |-> IF x[2] \in I THEN Append(x[1], s[x[2]]) ELSE x[1]]
<1>1. n \in Nat /\ DOMAIN s = 1 .. n /\ \A i \in 1 .. n : s[i] \in S
  OBVIOUS
<1>2. q \in Seq(B) /\ Len(q) = n /\ DOMAIN q = 1 .. n /\ \A i \in 1 .. n : q[i] = i
  BY <1>1 DEF Indices
<1>3. << >> \in A /\ op \in [A \X B -> A]
  <2>1. ASSUME NEW x \in A \X B PROVE op[x] \in A
    <3>1. x[1] \in Seq(S) /\ x[2] \in 1 .. n
      BY <1>1
    <3>2. s[x[2]] \in S
      BY <1>1, <3>1
    <3> QED
      BY <3>1, <3>2
  <2> QED
    BY <2>1
<1>4. \A o \in A, i \in B : op[<<o, i>>] = IF i \in I THEN Append(o, s[i]) ELSE o
  OBVIOUS
<1> HIDE DEF op
<1>5. PICK F : Folds(F, A, op, << >>, q)
  <2> HIDE DEF A, B
  <2> QED
    BY <1>2, <1>3, FoldExists
<1> DEFINE iter == CHOOSE f : f = [t \in SUBSET DOMAIN q |->
             IF t = {} THEN << >>
             ELSE IF q[Max(t)] \in I THEN Append(f[t \ {Max(t)}], s[q[Max(t)]])
                  ELSE f[t \ {Max(t)}]]
<1>6. Chosen(s, I) = iter[DOMAIN q]
  BY Zenon DEF Chosen, FoldLeft, MapThenFoldSet
<1>7. \A t \in SUBSET DOMAIN q : t # {} => q[Max(t)] \in B /\ t \ {Max(t)} \in SUBSET DOMAIN q
  BY <1>1, <1>2, MaxIsIn
<1>8. iter = [t \in SUBSET DOMAIN q |->
             IF t = {} THEN << >>
             ELSE IF q[Max(t)] \in I THEN Append(iter[t \ {Max(t)}], s[q[Max(t)]])
                  ELSE iter[t \ {Max(t)}]]
  <2>0. \A t \in SUBSET DOMAIN q : t # {} => F[t \ {Max(t)}] \in A
    <3> HIDE DEF A, B, q
    <3> QED
      BY <1>5, <1>7 DEF Folds
  <2>1. \A t \in SUBSET DOMAIN q : t # {} =>
          op[<<F[t \ {Max(t)}], q[Max(t)]>>]
            = IF q[Max(t)] \in I THEN Append(F[t \ {Max(t)}], s[q[Max(t)]])
              ELSE F[t \ {Max(t)}]
    <3> HIDE DEF A, B, q
    <3> QED
      BY <1>4, <1>7, <2>0
  <2>2. F = [t \in SUBSET DOMAIN q |->
             IF t = {} THEN << >>
             ELSE IF q[Max(t)] \in I THEN Append(F[t \ {Max(t)}], s[q[Max(t)]])
                  ELSE F[t \ {Max(t)}]]
    <3> HIDE DEF A, B
    <3> QED
      BY <1>5, <2>1 DEF Folds
  <2> QED
    BY <2>2, Zenon
<1> HIDE DEF iter
<1>9. Steps(iter, A, op, << >>, q)
  <2>1. iter[{}] = << >>
    BY <1>8
  <2>2. \A t \in SUBSET DOMAIN q : t # {} /\ iter[t \ {Max(t)}] \in A
          => iter[t] = op[<<iter[t \ {Max(t)}], q[Max(t)]>>]
    <3> HIDE DEF A, B
    <3> QED
      BY <1>4, <1>7, <1>8
  <2> HIDE DEF A, B
  <2> QED
    BY <2>1, <2>2 DEF Steps
<1>10. PICK a \in [0 .. n -> A] : Reaches(a, op, << >>, q) /\ a[n] = Chosen(s, I)
  <2>1. ComesTo(iter[DOMAIN q], A, op, << >>, q)
    <3> HIDE DEF A, B, q
    <3> QED
      BY <1>2, <1>5, <1>9, FoldComesTo
  <2> HIDE DEF A, B, q
  <2> QED
    BY <1>2, <1>6, <2>1 DEF ComesTo
<1>11. a[0] = << >> /\ \A k \in 1 .. n : a[k] = IF k \in I THEN Append(a[k - 1], s[k]) ELSE a[k - 1]
  <2>1. \A k \in 1 .. n : k - 1 \in 0 .. n /\ k \in B /\ a[k - 1] \in A
    <3>1. \A k \in 1 .. n : k - 1 \in 0 .. n /\ k \in B
      BY <1>1
    <3> HIDE DEF A, B
    <3> QED
      BY <1>10, <3>1
  <2>2. a[0] = << >> /\ \A k \in 1 .. n : a[k] = op[<<a[k - 1], k>>]
    BY <1>2, <1>10 DEF Reaches
  <2> HIDE DEF A, B, q, n
  <2> QED
    BY <1>4, <2>1, <2>2
<1> DEFINE Can(k) == \E at : Picks(a[k], s, I \cap (1 .. k), at)
           W == {k \in Nat : k <= n => Can(k)}
<1>12. 0 \in W
  <2> DEFINE at == [r \in 1 .. 0 |-> 0]
  <2>1. 1 .. 0 = {} /\ Len(<< >>) = 0
    OBVIOUS
  <2>2. Picks(<< >>, s, I \cap (1 .. 0), at)
    BY <2>1 DEF Picks
  <2> QED
    BY <1>11, <2>2
<1>13. ASSUME NEW k \in Nat, k \in W PROVE k + 1 \in W
  <2> SUFFICES ASSUME k + 1 <= n PROVE Can(k + 1)
    <3> HIDE DEF Can
    <3> QED
      OBVIOUS
  <2>1. PICK at : Picks(a[k], s, I \cap (1 .. k), at)
    <3>1. Can(k)
      <4> HIDE DEF Can
      <4> QED
        BY <1>1, <1>13
    <3> QED
      BY <3>1
  <2>2. k + 1 \in 1 .. n /\ k \in 0 .. n /\ a[k] \in Seq(S) /\ s[k + 1] \in S
        /\ a[k + 1] = IF k + 1 \in I THEN Append(a[k], s[k + 1]) ELSE a[k]
    <3>1. k + 1 \in 1 .. n /\ k \in 0 .. n /\ (k + 1) - 1 = k
      BY <1>1
    <3> QED
      BY <1>1, <1>11, <3>1
  <2>3. CASE k + 1 \notin I
    <3>1. I \cap (1 .. k + 1) = I \cap (1 .. k)
      <4>1. \A i \in I : i \in 1 .. k + 1 <=> i \in 1 .. k
        BY <2>3
      <4> QED
        BY <4>1
    <3> QED
      BY <2>1, <2>2, <2>3, <3>1
  <2>4. CASE k + 1 \in I
    <3> DEFINE o == a[k]
               m == Len(o)
               v == Append(o, s[k + 1])
               bt == [r \in 1 .. m + 1 |-> IF r = m + 1 THEN k + 1 ELSE at[r]]
    <3>1. m \in Nat /\ Len(v) = m + 1 /\ v[m + 1] = s[k + 1] /\ \A r \in 1 .. m : v[r] = o[r]
      BY <2>2
    <3>2. a[k + 1] = v
      BY <2>2, <2>4
    <3> HIDE DEF v
    <3>3. /\ \A r \in 1 .. m : at[r] \in I /\ at[r] \in 1 .. k /\ o[r] = s[at[r]]
          /\ \A i \in I \cap (1 .. k) : \E r \in 1 .. m : at[r] = i
          /\ \A r, u \in 1 .. m : r < u => at[r] < at[u]
      BY <2>1 DEF Picks
    <3> HIDE DEF o, m
    <3>4. ASSUME NEW r \in 1 .. m + 1
          PROVE  /\ bt[r] \in I \cap (1 .. k + 1)
                 /\ v[r] = s[bt[r]]
                 /\ r \in 1 .. m => bt[r] = at[r]
      <4>1. r \in 1 .. m \/ r = m + 1
        BY <3>1
      <4>2. CASE r = m + 1
        BY <2>4, <3>1, <4>2
      <4>3. CASE r \in 1 .. m
        <5>1. bt[r] = at[r]
          BY <3>1, <4>3
        <5> HIDE DEF bt
        <5> QED
          BY <3>1, <3>3, <4>3, <5>1
      <4> QED
        BY <4>1, <4>2, <4>3
    <3>5. bt[m + 1] = k + 1
      BY <3>1
    <3>6. bt \in [1 .. m + 1 -> I \cap (1 .. k + 1)]
      BY <3>4
    <3> HIDE DEF bt
    <3>7. ASSUME NEW i \in I \cap (1 .. k + 1) PROVE \E r \in 1 .. m + 1 : bt[r] = i
      <4>1. CASE i = k + 1
        BY <3>1, <3>5, <4>1
      <4>2. CASE i # k + 1
        <5>1. i \in I \cap (1 .. k)
          BY <4>2
        <5>2. PICK r \in 1 .. m : at[r] = i
          BY <3>3, <5>1
        <5>3. r \in 1 .. m + 1
          BY <3>1
        <5> QED
          BY <3>4, <5>2, <5>3
      <4> QED
        BY <4>1, <4>2
    <3>8. ASSUME NEW r \in 1 .. m + 1, NEW u \in 1 .. m + 1, r < u PROVE bt[r] < bt[u]
      <4>1. r \in 1 .. m
        BY <3>1, <3>8
      <4>2. bt[r] = at[r] /\ at[r] \in 1 .. k
        BY <3>3, <3>4, <4>1
      <4>3. CASE u = m + 1
        BY <3>5, <4>2, <4>3
      <4>4. CASE u # m + 1
        <5>1. u \in 1 .. m
          BY <3>1, <4>4
        <5> QED
          BY <3>3, <3>4, <3>8, <4>1, <4>2, <5>1
      <4> QED
        BY <4>3, <4>4
    <3>9. Picks(v, s, I \cap (1 .. k + 1), bt)
      BY <3>1, <3>4, <3>6, <3>7, <3>8 DEF Picks
    <3> QED
      BY <3>2, <3>9
  <2> QED
    BY <2>3, <2>4
<1>14. Nat \subseteq W
  <2> HIDE DEF W
  <2> QED
    BY <1>12, <1>13, NatSetInduction
<1>15. Can(n)
  <2> HIDE DEF Can
  <2> QED
    BY <1>1, <1>14
<1>16. I \cap DOMAIN s = I \cap (1 .. n) /\ Chosen(s, I) \in Seq(S)
  BY <1>1, <1>10
<1> QED
  BY <1>1, <1>10, <1>15, <1>16

(* The place of an item with key v in s, after the items not above it.     *)
Place(s, field, v) == Cardinality({j \in DOMAIN s : s[j][field] <= v})
Ascends(s, field) == \A i, j \in DOMAIN s : i < j => s[i][field] <= s[j][field]

LEMMA PlaceFits ==
  ASSUME NEW S, NEW s \in Seq(S), NEW field, NEW v
  PROVE  Place(s, field, v) \in 0 .. Len(s)
<1> DEFINE K == {j \in DOMAIN s : s[j][field] <= v}
<1>1. Len(s) \in Nat /\ DOMAIN s = 1 .. Len(s) /\ K \subseteq 1 .. Len(s)
  OBVIOUS
<1>2. IsFiniteSet(1 .. Len(s)) /\ Cardinality(1 .. Len(s)) = Len(s)
  BY <1>1, FS_Interval
<1>3. IsFiniteSet(K) /\ Cardinality(K) <= Cardinality(1 .. Len(s))
  <2> HIDE DEF K
  <2> QED
    BY <1>1, <1>2, FS_Subset
<1>4. Cardinality(K) \in Nat
  BY <1>3, FS_CardinalityType
<1> HIDE DEF K
<1>5. Cardinality(K) \in 0 .. Len(s)
  BY <1>1, <1>2, <1>3, <1>4
<1> QED
  BY <1>5 DEF Place, K

(* In an ascending sequence it is where the greater keys begin.            *)
LEMMA PlaceIs ==
  ASSUME NEW S, NEW s \in Seq(S), NEW field, \A x \in S : x[field] \in Int,
         Ascends(s, field), NEW v \in Int
  PROVE  \A j \in DOMAIN s : s[j][field] <= v <=> j <= Place(s, field, v)
<1> DEFINE K == {j \in DOMAIN s : s[j][field] <= v}
<1>1. Len(s) \in Nat /\ DOMAIN s = 1 .. Len(s) /\ \A j \in 1 .. Len(s) : s[j] \in S
  OBVIOUS
<1>2. \A j \in 1 .. Len(s) : s[j][field] \in Int
  BY <1>1
<1>3. \E m \in 0 .. Len(s) : K = 1 .. m
  <2>1. CASE K = {}
    <3>1. K = 1 .. 0
      BY <2>1
    <3> QED
      BY <1>1, <3>1
  <2>2. CASE K # {}
    <3>1. K \in SUBSET (0 .. Len(s))
      BY <1>1
    <3>2. PICK m \in K : \A j \in K : j <= m
      <4> HIDE DEF K
      <4> QED
        BY <1>1, <2>2, <3>1, GreatestNatural
    <3>3. m \in 1 .. Len(s) /\ s[m][field] <= v
      BY <1>1, <3>2
    <3>4. ASSUME NEW j \in 1 .. m PROVE j \in K
      <4>1. j \in 1 .. Len(s)
        BY <1>1, <3>3
      <4>2. j = m \/ s[j][field] <= s[m][field]
        BY <1>1, <3>3, <4>1 DEF Ascends
      <4>3. s[j][field] <= v
        BY <1>2, <3>3, <4>1, <4>2
      <4> QED
        BY <1>1, <4>1, <4>3
    <3>5. \A j \in K : j \in 1 .. m
      BY <1>1, <3>2, <3>3
    <3>6. m \in 0 .. Len(s)
      BY <1>1, <3>3
    <3> HIDE DEF K
    <3> QED
      BY <3>4, <3>5, <3>6
  <2> QED
    BY <2>1, <2>2
<1>4. PICK m \in 0 .. Len(s) : K = 1 .. m
  BY <1>3
<1>5. Place(s, field, v) = m
  <2>1. Cardinality(1 .. m) = m
    BY <1>1, FS_Interval
  <2> QED
    BY <1>4, <2>1 DEF Place
<1>6. ASSUME NEW j \in DOMAIN s PROVE s[j][field] <= v <=> j <= m
  <2>1. s[j][field] <= v <=> j \in K
    OBVIOUS
  <2>2. j \in K <=> j <= m
    <3> HIDE DEF K
    <3> QED
      BY <1>1, <1>4
  <2> HIDE DEF K
  <2> QED
    BY <2>1, <2>2
<1> QED
  BY <1>5, <1>6

(* The sort takes in the items one by one.                                 *)
Inserts(a, s, field) ==
  /\ a[0] = << >>
  /\ \A k \in 1 .. Len(s) : a[k] = InsertAt(a[k - 1], 1 + Place(a[k - 1], field, s[k][field]), s[k])

LEMMA SortedInserts ==
  ASSUME NEW S, NEW s \in Seq(S), NEW field
  PROVE  \E a \in [0 .. Len(s) -> Seq(S)] : Inserts(a, s, field) /\ a[Len(s)] = Sorted(s, field)
<1> DEFINE n == Len(s)
           A == Seq(S)
           op == [x \in A \X S |-> InsertAt(x[1], 1 + Place(x[1], field, x[2][field]), x[2])]
<1>1. n \in Nat /\ DOMAIN s = 1 .. n /\ \A i \in 1 .. n : s[i] \in S
  OBVIOUS
<1>2. ASSUME NEW o \in Seq(S), NEW x \in S
      PROVE  InsertAt(o, 1 + Place(o, field, x[field]), x) \in Seq(S)
  <2>1. PICK m : m = Place(o, field, x[field])
    OBVIOUS
  <2>2. m \in 0 .. Len(o)
    BY <2>1, PlaceFits
  <2>3. InsertAt(o, m + 1, x) \in Seq(S)
    BY <2>2, InsertAtIs
  <2>4. 1 + m = m + 1
    BY <2>2
  <2> QED
    BY <2>1, <2>3, <2>4
<1>3. << >> \in A /\ op \in [A \X S -> A]
  <2>1. \A x \in A \X S : x[1] \in Seq(S) /\ x[2] \in S
    OBVIOUS
  <2>2. \A x \in A \X S : InsertAt(x[1], 1 + Place(x[1], field, x[2][field]), x[2]) \in A
    BY <1>2, <2>1
  <2> QED
    BY <2>2
<1>4. \A o \in A, x \in S : op[<<o, x>>] = InsertAt(o, 1 + Place(o, field, x[field]), x)
  OBVIOUS
<1> HIDE DEF op
<1>5. PICK F : Folds(F, A, op, << >>, s)
  <2> HIDE DEF A
  <2> QED
    BY <1>3, FoldExists
<1> DEFINE iter == CHOOSE f : f = [t \in SUBSET DOMAIN s |->
             IF t = {} THEN << >>
             ELSE InsertAt(f[t \ {Max(t)}],
                           1 + Place(f[t \ {Max(t)}], field, s[Max(t)][field]), s[Max(t)])]
<1>6. Sorted(s, field) = iter[DOMAIN s]
  BY Zenon DEF Sorted, SortedBy, Place, FoldLeft, MapThenFoldSet
<1>7. \A t \in SUBSET DOMAIN s : t # {} => s[Max(t)] \in S /\ t \ {Max(t)} \in SUBSET DOMAIN s
  BY <1>1, MaxIsIn
<1>8. iter = [t \in SUBSET DOMAIN s |->
             IF t = {} THEN << >>
             ELSE InsertAt(iter[t \ {Max(t)}],
                           1 + Place(iter[t \ {Max(t)}], field, s[Max(t)][field]), s[Max(t)])]
  <2>1. \A t \in SUBSET DOMAIN s : t # {} => F[t \ {Max(t)}] \in A
    <3> HIDE DEF A
    <3> QED
      BY <1>5, <1>7 DEF Folds
  <2>2. \A t \in SUBSET DOMAIN s : t # {} =>
          op[<<F[t \ {Max(t)}], s[Max(t)]>>]
            = InsertAt(F[t \ {Max(t)}],
                       1 + Place(F[t \ {Max(t)}], field, s[Max(t)][field]), s[Max(t)])
    <3> HIDE DEF A
    <3> QED
      BY <1>4, <1>7, <2>1
  <2>3. F = [t \in SUBSET DOMAIN s |->
             IF t = {} THEN << >>
             ELSE InsertAt(F[t \ {Max(t)}],
                           1 + Place(F[t \ {Max(t)}], field, s[Max(t)][field]), s[Max(t)])]
    <3> HIDE DEF A
    <3> QED
      BY <1>5, <2>2 DEF Folds
  <2> QED
    BY <2>3, Zenon
<1> HIDE DEF iter
<1>9. Steps(iter, A, op, << >>, s)
  <2>1. iter[{}] = << >>
    BY <1>8
  <2>2. \A t \in SUBSET DOMAIN s : t # {} /\ iter[t \ {Max(t)}] \in A
          => iter[t] = op[<<iter[t \ {Max(t)}], s[Max(t)]>>]
    <3> HIDE DEF A
    <3> QED
      BY <1>4, <1>7, <1>8
  <2> HIDE DEF A
  <2> QED
    BY <2>1, <2>2 DEF Steps
<1>10. PICK a \in [0 .. n -> A] : Reaches(a, op, << >>, s) /\ a[n] = Sorted(s, field)
  <2>1. ComesTo(iter[DOMAIN s], A, op, << >>, s)
    <3> HIDE DEF A
    <3> QED
      BY <1>5, <1>9, FoldComesTo
  <2> HIDE DEF A
  <2> QED
    BY <1>6, <2>1 DEF ComesTo
<1>11. Inserts(a, s, field)
  <2>1. ASSUME NEW k \in 1 .. n
        PROVE  a[k] = InsertAt(a[k - 1], 1 + Place(a[k - 1], field, s[k][field]), s[k])
    <3>1. k - 1 \in 0 .. n
      BY <1>1
    <3>2. a[k - 1] \in A /\ s[k] \in S
      <4> HIDE DEF A
      <4> QED
        BY <1>1, <1>10, <3>1
    <3>3. a[k] = op[<<a[k - 1], s[k]>>]
      BY <1>10 DEF Reaches
    <3> HIDE DEF A
    <3> QED
      BY <1>4, <3>2, <3>3
  <2>2. a[0] = << >>
    BY <1>10 DEF Reaches
  <2> QED
    BY <2>1, <2>2 DEF Inserts
<1> QED
  BY <1>10, <1>11

(* o is an arrangement of the first k items of s; at says where each comes *)
(* from.                                                                   *)
Arranges(o, s, k, at) ==
  /\ Len(o) = k /\ at \in [1 .. k -> 1 .. k]
  /\ \A i \in 1 .. k : \E r \in 1 .. k : at[r] = i
  /\ \A r, u \in 1 .. k : at[r] = at[u] => r = u
  /\ \A r \in 1 .. k : o[r] = s[at[r]]

(* An item that goes into an ascending arrangement at its place.           *)
LEMMA InsertArranges ==
  ASSUME NEW S, NEW s \in Seq(S), NEW field, \A x \in S : x[field] \in Int,
         NEW k \in Nat, k + 1 \in 1 .. Len(s),
         NEW o \in Seq(S), Ascends(o, field), NEW at, Arranges(o, s, k, at),
         NEW v \in Seq(S), v = InsertAt(o, 1 + Place(o, field, s[k + 1][field]), s[k + 1])
  PROVE  Ascends(v, field) /\ \E bt : Arranges(v, s, k + 1, bt)
<1>0. PICK x : x = s[k + 1]
  OBVIOUS
<1>1. /\ k \in Nat /\ Len(s) \in Nat /\ x \in S
      /\ Len(o) = k /\ DOMAIN o = 1 .. k /\ \A r \in 1 .. k : o[r] \in S
  BY <1>0 DEF Arranges
<1>2. PICK m : m = Place(o, field, x[field])
  OBVIOUS
<1>3. m \in 0 .. k
  BY <1>1, <1>2, PlaceFits
<1>4. \A j \in 1 .. k : o[j][field] <= x[field] <=> j <= m
  <2>1. x[field] \in Int
    BY <1>1
  <2> QED
    BY <1>1, <1>2, <2>1, PlaceIs
<1>5. v = InsertAt(o, m + 1, x)
  <2>1. 1 + m = m + 1
    BY <1>3
  <2> QED
    BY <1>0, <1>2, <2>1
<1>6. /\ Len(v) = k + 1 /\ v[m + 1] = x
      /\ \A r \in 1 .. m : v[r] = o[r]
      /\ \A r \in m + 1 .. k : v[r + 1] = o[r]
  <2>1. m \in 0 .. Len(o) /\ x \in S
    BY <1>1, <1>3
  <2>2. /\ Len(InsertAt(o, m + 1, x)) = Len(o) + 1
        /\ InsertAt(o, m + 1, x)[m + 1] = x
        /\ \A r \in 1 .. m : InsertAt(o, m + 1, x)[r] = o[r]
        /\ \A r \in m + 1 .. Len(o) : InsertAt(o, m + 1, x)[r + 1] = o[r]
    <3>1. Len(InsertAt(o, m + 1, x)) = Len(o) + 1
      BY <2>1, InsertAtIs
    <3>2. InsertAt(o, m + 1, x)[m + 1] = x
      BY <2>1, InsertAtIs
    <3>3. \A r \in 1 .. m : InsertAt(o, m + 1, x)[r] = o[r]
      BY <2>1, InsertAtIs
    <3>4. \A r \in m + 1 .. Len(o) : InsertAt(o, m + 1, x)[r + 1] = o[r]
      BY <2>1, InsertAtIs
    <3> QED
      BY <3>1, <3>2, <3>3, <3>4
  <2>3. /\ Len(v) = Len(o) + 1 /\ v[m + 1] = x
        /\ \A r \in 1 .. m : v[r] = o[r]
        /\ \A r \in m + 1 .. Len(o) : v[r + 1] = o[r]
    BY <1>5, <2>2, Zenon
  <2> QED
    BY <1>1, <2>3
<1>7. ASSUME NEW r \in 1 .. k + 1
      PROVE  \/ r \in 1 .. m /\ v[r] = o[r]
             \/ r = m + 1 /\ v[r] = x
             \/ r > m + 1 /\ r - 1 \in m + 1 .. k /\ v[r] = o[r - 1]
  <2>1. r \in 1 .. m \/ r = m + 1 \/ (r > m + 1 /\ r - 1 \in m + 1 .. k)
    BY <1>1, <1>3
  <2>2. CASE r > m + 1 /\ r - 1 \in m + 1 .. k
    <3>1. PICK u \in m + 1 .. k : u = r - 1
      BY <2>2
    <3>2. u + 1 = r
      BY <1>3, <3>1
    <3> QED
      BY <1>6, <2>2, <3>1, <3>2
  <2> QED
    BY <1>6, <2>1, <2>2
<1>8. Ascends(v, field)
  <2>1. ASSUME NEW i \in 1 .. k + 1, NEW j \in 1 .. k + 1, i < j
        PROVE  v[i][field] <= v[j][field]
    <3>1. \A r \in 1 .. k : o[r][field] \in Int
      BY <1>1
    <3>2. x[field] \in Int
      BY <1>1
    <3>3. \A r, u \in 1 .. k : r < u => o[r][field] <= o[u][field]
      BY <1>1 DEF Ascends
    <3>4. CASE i \in 1 .. m
      <4>1. i \in 1 .. k /\ v[i] = o[i]
        BY <1>1, <1>3, <1>6, <3>4
      <4>2. CASE j \in 1 .. m
        <5>1. j \in 1 .. k /\ v[j] = o[j]
          BY <1>1, <1>3, <1>6, <4>2
        <5> QED
          BY <2>1, <3>3, <4>1, <5>1
      <4>3. CASE j = m + 1
        <5>1. i <= m
          BY <3>4
        <5> QED
          BY <1>4, <1>6, <4>1, <4>3, <5>1
      <4>4. CASE j > m + 1 /\ j - 1 \in m + 1 .. k /\ v[j] = o[j - 1]
        <5>1. PICK u \in 1 .. k : u = j - 1
          BY <1>1, <1>3, <4>4
        <5>2. i < u
          BY <1>3, <3>4, <4>4, <5>1
        <5> QED
          BY <3>3, <4>1, <4>4, <5>1, <5>2
      <4> QED
        BY <1>7, <4>2, <4>3, <4>4
    <3>5. CASE i = m + 1
      <4>1. PICK u \in m + 1 .. k : u = j - 1 /\ v[j] = o[u]
        BY <1>1, <1>3, <1>7, <2>1, <3>5
      <4>2. u \in 1 .. k /\ ~ (u <= m)
        BY <1>1, <1>3
      <4>3. ~ (o[u][field] <= x[field])
        BY <1>4, <4>2
      <4>4. PICK y \in Int : y = o[u][field]
        BY <3>1, <4>2
      <4>5. PICK z \in Int : z = x[field]
        BY <3>2
      <4>6. z <= y
        BY <4>3, <4>4, <4>5
      <4> QED
        BY <1>6, <3>5, <4>1, <4>4, <4>5, <4>6
    <3>6. CASE i > m + 1 /\ i - 1 \in m + 1 .. k /\ v[i] = o[i - 1]
      <4>1. PICK u \in m + 1 .. k : u = i - 1
        BY <3>6
      <4>2. PICK y \in m + 1 .. k : y = j - 1 /\ v[j] = o[y]
        BY <1>1, <1>3, <1>7, <2>1, <3>6
      <4>3. u \in 1 .. k /\ y \in 1 .. k /\ u < y
        BY <1>1, <1>3, <2>1, <4>1, <4>2
      <4> QED
        BY <3>3, <3>6, <4>1, <4>2, <4>3
    <3> QED
      BY <1>7, <3>4, <3>5, <3>6
  <2>2. DOMAIN v = 1 .. k + 1
    BY <1>6
  <2> QED
    BY <2>1, <2>2 DEF Ascends
<1>9. /\ at \in [1 .. k -> 1 .. k]
      /\ \A i \in 1 .. k : \E r \in 1 .. k : at[r] = i
      /\ \A r, u \in 1 .. k : at[r] = at[u] => r = u
      /\ \A r \in 1 .. k : o[r] = s[at[r]]
  BY DEF Arranges
<1> DEFINE bt == [r \in 1 .. k + 1 |->
                    IF r <= m THEN at[r] ELSE IF r = m + 1 THEN k + 1 ELSE at[r - 1]]
           src == [r \in 1 .. k + 1 |-> IF r <= m THEN r ELSE IF r = m + 1 THEN 0 ELSE r - 1]
<1>10. \A r \in 1 .. k + 1 :
         /\ r # m + 1 => src[r] \in 1 .. k /\ v[r] = o[src[r]]
         /\ bt[r] = IF r = m + 1 THEN k + 1 ELSE at[src[r]]
  <2>1. ASSUME NEW r \in 1 .. k + 1
        PROVE  /\ r # m + 1 => src[r] \in 1 .. k /\ v[r] = o[src[r]]
               /\ bt[r] = IF r = m + 1 THEN k + 1 ELSE at[src[r]]
    <3>1. CASE r \in 1 .. m /\ v[r] = o[r]
      BY <1>1, <1>3, <3>1
    <3>2. CASE r = m + 1
      BY <1>1, <1>3, <3>2
    <3>3. CASE r > m + 1 /\ r - 1 \in m + 1 .. k /\ v[r] = o[r - 1]
      <4>1. ~ (r <= m) /\ r # m + 1 /\ r - 1 \in 1 .. k
        BY <1>1, <1>3, <3>3
      <4> QED
        BY <3>3, <4>1
    <3> QED
      BY <1>7, <3>1, <3>2, <3>3
  <2> QED
    BY <2>1
<1>11. \A j \in 1 .. k : \E r \in 1 .. k + 1 : r # m + 1 /\ src[r] = j
  <2>1. ASSUME NEW j \in 1 .. k PROVE \E r \in 1 .. k + 1 : r # m + 1 /\ src[r] = j
    <3>1. CASE j <= m
      <4>1. j \in 1 .. k + 1 /\ j # m + 1 /\ src[j] = j
        BY <1>1, <1>3, <3>1
      <4> QED
        BY <4>1
    <3>2. CASE ~ (j <= m)
      <4>1. j + 1 \in 1 .. k + 1 /\ j + 1 # m + 1 /\ src[j + 1] = j
        BY <1>1, <1>3, <3>2
      <4> QED
        BY <4>1
    <3> QED
      BY <3>1, <3>2
  <2> QED
    BY <2>1
<1>12. \A r, u \in 1 .. k + 1 : r # m + 1 /\ u # m + 1 /\ src[r] = src[u] => r = u
  <2>1. ASSUME NEW r \in 1 .. k + 1, NEW u \in 1 .. k + 1, r # m + 1, u # m + 1, src[r] = src[u]
        PROVE  r = u
    <3>1. src[r] = (IF r <= m THEN r ELSE r - 1) /\ src[u] = (IF u <= m THEN u ELSE u - 1)
      BY <2>1
    <3> HIDE DEF src
    <3>2. m \in Nat /\ r \in Nat /\ u \in Nat
      BY <1>1, <1>3
    <3>3. (IF r <= m THEN r ELSE r - 1) = (IF u <= m THEN u ELSE u - 1)
      BY <2>1, <3>1
    <3>4. CASE r <= m /\ u <= m
      BY <3>3, <3>4
    <3>5. CASE r <= m /\ ~ (u <= m)
      <4>1. r = u - 1
        BY <3>3, <3>5
      <4> QED
        BY <2>1, <3>2, <3>5, <4>1
    <3>6. CASE ~ (r <= m) /\ u <= m
      <4>1. r - 1 = u
        BY <3>3, <3>6
      <4> QED
        BY <2>1, <3>2, <3>6, <4>1
    <3>7. CASE ~ (r <= m) /\ ~ (u <= m)
      <4>1. r - 1 = u - 1
        BY <3>3, <3>7
      <4> QED
        BY <3>2, <4>1
    <3> QED
      BY <3>4, <3>5, <3>6, <3>7
  <2> QED
    BY <2>1
<1>13. bt \in [1 .. k + 1 -> 1 .. k + 1]
  <2>1. DOMAIN bt = 1 .. k + 1 /\ bt = [r \in 1 .. k + 1 |-> bt[r]]
    OBVIOUS
  <2>2. ASSUME NEW r \in 1 .. k + 1 PROVE bt[r] \in 1 .. k + 1
    <3>1. CASE r = m + 1
      BY <1>1, <1>10, <3>1
    <3>2. CASE r # m + 1
      <4>1. src[r] \in 1 .. k /\ bt[r] = at[src[r]]
        BY <1>10, <3>2
      <4> HIDE DEF bt, src
      <4>2. at[src[r]] \in 1 .. k
        BY <1>9, <4>1
      <4> QED
        BY <1>1, <4>1, <4>2
    <3> QED
      BY <3>1, <3>2
  <2> HIDE DEF bt
  <2> QED
    BY <2>1, <2>2
<1> HIDE DEF bt, src
<1>14. ASSUME NEW i \in 1 .. k + 1 PROVE \E r \in 1 .. k + 1 : bt[r] = i
  <2>1. m + 1 \in 1 .. k + 1
    BY <1>1, <1>3
  <2>2. CASE i = k + 1
    BY <1>10, <2>1, <2>2
  <2>3. CASE i # k + 1
    <3>1. i \in 1 .. k
      BY <1>1, <2>3
    <3>2. PICK j \in 1 .. k : at[j] = i
      BY <1>9, <3>1
    <3>3. PICK r \in 1 .. k + 1 : r # m + 1 /\ src[r] = j
      BY <1>11
    <3> QED
      BY <1>10, <3>2, <3>3
  <2> QED
    BY <2>2, <2>3
<1>15. ASSUME NEW r \in 1 .. k + 1, NEW u \in 1 .. k + 1, bt[r] = bt[u] PROVE r = u
  <2>1. ASSUME NEW y \in 1 .. k + 1, y # m + 1 PROVE bt[y] # k + 1
    <3>1. src[y] \in 1 .. k /\ bt[y] = at[src[y]]
      BY <1>10, <2>1
    <3>2. at[src[y]] \in 1 .. k
      BY <1>9, <3>1
    <3> QED
      BY <1>1, <3>1, <3>2
  <2>2. m + 1 \in 1 .. k + 1 /\ bt[m + 1] = k + 1
    BY <1>1, <1>3, <1>10
  <2>3. CASE r = m + 1 \/ u = m + 1
    BY <1>15, <2>1, <2>2, <2>3
  <2>4. CASE r # m + 1 /\ u # m + 1
    <3>1. PICK y \in 1 .. k : y = src[r] /\ bt[r] = at[y]
      BY <1>10, <2>4
    <3>2. PICK z \in 1 .. k : z = src[u] /\ bt[u] = at[z]
      BY <1>10, <2>4
    <3>0. at[y] = at[z]
      BY <1>15, <3>1, <3>2
    <3>3. y = z
      BY <1>9, <3>0
    <3> QED
      BY <1>12, <2>4, <3>1, <3>2, <3>3
  <2> QED
    BY <2>3, <2>4
<1>16. ASSUME NEW r \in 1 .. k + 1 PROVE v[r] = s[bt[r]]
  <2>1. CASE r = m + 1
    BY <1>0, <1>6, <1>10, <2>1
  <2>2. CASE r # m + 1
    <3>1. PICK y \in 1 .. k : y = src[r] /\ bt[r] = at[y] /\ v[r] = o[y]
      BY <1>10, <2>2
    <3> QED
      BY <1>9, <3>1
  <2> QED
    BY <2>1, <2>2
<1>17. Arranges(v, s, k + 1, bt)
  BY <1>6, <1>13, <1>14, <1>15, <1>16 DEF Arranges
<1> QED
  BY <1>8, <1>17

(* Sorted arranges all items of s in ascending order.                      *)
LEMMA SortedIs ==
  ASSUME NEW S, NEW s \in Seq(S), NEW field, \A x \in S : x[field] \in Int
  PROVE  /\ Sorted(s, field) \in Seq(S) /\ Ascends(Sorted(s, field), field)
         /\ \E at : Arranges(Sorted(s, field), s, Len(s), at)
<1> DEFINE n == Len(s)
<1>1. n \in Nat /\ DOMAIN s = 1 .. n
  OBVIOUS
<1>2. PICK a \in [0 .. n -> Seq(S)] : Inserts(a, s, field) /\ a[n] = Sorted(s, field)
  BY SortedInserts
<1> DEFINE Can(k) == Ascends(a[k], field) /\ \E at : Arranges(a[k], s, k, at)
           W == {k \in Nat : k <= n => Can(k)}
<1>3. 0 \in W
  <2> DEFINE at == [r \in 1 .. 0 |-> 0]
  <2>1. 1 .. 0 = {} /\ Len(<< >>) = 0 /\ DOMAIN << >> = {}
    OBVIOUS
  <2>2. a[0] = << >>
    BY <1>2 DEF Inserts
  <2>3. Arranges(<< >>, s, 0, at) /\ Ascends(<< >>, field)
    BY <2>1 DEF Arranges, Ascends
  <2> QED
    BY <2>2, <2>3
<1>4. ASSUME NEW k \in Nat, k \in W PROVE k + 1 \in W
  <2> SUFFICES ASSUME k + 1 <= n PROVE Can(k + 1)
    <3> HIDE DEF Can
    <3> QED
      OBVIOUS
  <2>1. Can(k)
    <3> HIDE DEF Can
    <3> QED
      BY <1>1, <1>4
  <2>2. k + 1 \in 1 .. n /\ k \in 0 .. n /\ k + 1 \in 0 .. n /\ (k + 1) - 1 = k
    BY <1>1
  <2>3. PICK o \in Seq(S) : o = a[k]
    BY <2>2
  <2>4. PICK v \in Seq(S) : v = a[k + 1]
    BY <2>2
  <2>5. v = InsertAt(o, 1 + Place(o, field, s[k + 1][field]), s[k + 1])
    BY <1>2, <2>2, <2>3, <2>4 DEF Inserts
  <2>6. PICK at : Arranges(o, s, k, at)
    BY <2>1, <2>3
  <2>7. Ascends(o, field)
    BY <2>1, <2>3
  <2> HIDE DEF n
  <2>8. Ascends(v, field) /\ \E bt : Arranges(v, s, k + 1, bt)
    BY <2>2, <2>5, <2>6, <2>7, InsertArranges DEF n
  <2> QED
    BY <2>4, <2>8
<1>5. Nat \subseteq W
  <2> HIDE DEF W
  <2> QED
    BY <1>3, <1>4, NatSetInduction
<1>6. Can(n)
  <2> HIDE DEF Can
  <2> QED
    BY <1>1, <1>5
<1>7. n \in 0 .. n
  BY <1>1
<1> QED
  BY <1>2, <1>6, <1>7

(* What is in order already stays as it is.                                *)
LEMMA SortedKeeps ==
  ASSUME NEW S, NEW s \in Seq(S), NEW field, \A x \in S : x[field] \in Int,
         Ascends(s, field)
  PROVE  Sorted(s, field) = s
<1> DEFINE n == Len(s)
<1>1. n \in Nat /\ DOMAIN s = 1 .. n /\ \A i \in 1 .. n : s[i] \in S /\ s[i][field] \in Int
  OBVIOUS
<1>2. PICK a \in [0 .. n -> Seq(S)] : Inserts(a, s, field) /\ a[n] = Sorted(s, field)
  BY SortedInserts
<1> DEFINE Can(k) == Len(a[k]) = k /\ \A r \in 1 .. k : a[k][r] = s[r]
           W == {k \in Nat : k <= n => Can(k)}
<1>3. 0 \in W
  <2>1. a[0] = << >>
    BY <1>2 DEF Inserts
  <2> QED
    BY <2>1
<1>4. ASSUME NEW k \in Nat, k \in W PROVE k + 1 \in W
  <2> SUFFICES ASSUME k + 1 <= n PROVE Can(k + 1)
    <3> HIDE DEF Can
    <3> QED
      OBVIOUS
  <2>1. Can(k)
    <3> HIDE DEF Can
    <3> QED
      BY <1>1, <1>4
  <2>2. k + 1 \in 1 .. n /\ k \in 0 .. n /\ k + 1 \in 0 .. n /\ (k + 1) - 1 = k
    BY <1>1
  <2>3. PICK o \in Seq(S) : o = a[k]
    BY <2>2
  <2>4. PICK v \in Seq(S) : v = a[k + 1]
    BY <2>2
  <2>5. PICK x \in S : x = s[k + 1] /\ x[field] \in Int
    BY <1>1, <2>2
  <2>6. v = InsertAt(o, 1 + Place(o, field, x[field]), x)
    BY <1>2, <2>2, <2>3, <2>4, <2>5 DEF Inserts
  <2>7. Len(o) = k /\ DOMAIN o = 1 .. k /\ \A r \in 1 .. k : o[r] = s[r]
    BY <2>1, <2>3
  <2>8. Ascends(o, field)
    <3>1. ASSUME NEW i \in 1 .. k, NEW j \in 1 .. k, i < j PROVE o[i][field] <= o[j][field]
      <4>1. i \in DOMAIN s /\ j \in DOMAIN s
        BY <1>1, <2>2
      <4> QED
        BY <2>7, <3>1, <4>1 DEF Ascends
    <3> QED
      BY <2>7, <3>1 DEF Ascends
  <2>9. PICK m : m = Place(o, field, x[field])
    OBVIOUS
  <2>10. m \in 0 .. k /\ \A j \in 1 .. k : o[j][field] <= x[field] <=> j <= m
    BY <2>5, <2>7, <2>8, <2>9, PlaceFits, PlaceIs
  <2>11. m = k
    <3>1. CASE k = 0
      BY <2>10, <3>1
    <3>2. CASE k # 0
      <4>1. k \in 1 .. k
        BY <3>2
      <4>2. o[k][field] <= x[field]
        <5>1. k \in DOMAIN s /\ k + 1 \in DOMAIN s /\ k < k + 1
          BY <1>1, <2>2, <4>1
        <5> QED
          BY <2>5, <2>7, <4>1, <5>1 DEF Ascends
      <4>3. k <= m
        BY <2>10, <4>1, <4>2
      <4> QED
        BY <2>10, <4>3
    <3> QED
      BY <3>1, <3>2
  <2>12. v = InsertAt(o, k + 1, x)
    BY <2>6, <2>9, <2>11
  <2>13. k \in 0 .. Len(o)
    BY <2>7
  <2>14. Len(v) = k + 1
    <3>1. Len(InsertAt(o, k + 1, x)) = Len(o) + 1
      BY <2>13, InsertAtIs
    <3> QED
      BY <2>7, <2>12, <3>1
  <2>15. v[k + 1] = x
    <3>1. InsertAt(o, k + 1, x)[k + 1] = x
      BY <2>13, InsertAtIs
    <3> QED
      BY <2>12, <3>1, Zenon
  <2>16. \A r \in 1 .. k : v[r] = o[r]
    <3>1. \A r \in 1 .. k : InsertAt(o, k + 1, x)[r] = o[r]
      BY <2>13, InsertAtIs
    <3> QED
      BY <2>12, <3>1, Zenon
  <2>17. \A r \in 1 .. k + 1 : v[r] = s[r]
    <3>1. \A r \in 1 .. k + 1 : r \in 1 .. k \/ r = k + 1
      OBVIOUS
    <3> QED
      BY <2>5, <2>7, <2>15, <2>16, <3>1
  <2> QED
    BY <2>4, <2>14, <2>17
<1>5. Nat \subseteq W
  <2> HIDE DEF W
  <2> QED
    BY <1>3, <1>4, NatSetInduction
<1>6. Can(n)
  <2> HIDE DEF Can
  <2> QED
    BY <1>1, <1>5
<1>7. PICK v \in Seq(S) : v = a[n] /\ v = Sorted(s, field)
  <2>1. n \in 0 .. n
    BY <1>1
  <2> QED
    BY <1>2, <2>1
<1>8. Len(v) = n /\ \A r \in 1 .. n : v[r] = s[r]
  <2>1. Len(a[n]) = n /\ \A r \in 1 .. n : a[n][r] = s[r]
    BY <1>6
  <2> QED
    BY <1>7, <2>1, Zenon
<1>9. v = s
  BY <1>8
<1> QED
  BY <1>7, <1>9
-----------------------------------------------------------------------------
(* The swings of a window.                                                 *)

Bars == {b \in [o : Nat, h : Nat, l : Nat, c : Nat, t : Nat] : b.l <= b.h}
Kinds == {"HIGH", "LOW"}
Swings == [idx : Nat, t : Nat, price : Nat, kind : Kinds]

SwingOf(w, i, kind) ==
  [idx |-> i, t |-> w[i].t, price |-> IF kind = "HIGH" THEN w[i].h ELSE w[i].l, kind |-> kind]

Turns(w, i, kind) ==
  /\ i \in DOMAIN w /\ HasNeighbours(w, i)
  /\ kind = "HIGH" => \A j \in Neighbours(w, i) : w[j].h <= w[i].h
  /\ kind = "LOW" => \A j \in Neighbours(w, i) : w[j].l >= w[i].l

(* x comes before y in a list of swings: HIGH first on a bar that is both. *)
Earlier(x, y) == x.idx < y.idx \/ (x.idx = y.idx /\ x.kind = "HIGH" /\ y.kind = "LOW")

(* s lists the swings of the bars of I, in order.                          *)
Lists(s, w, I) ==
  /\ s \in Seq(Swings)
  /\ \A r \in DOMAIN s : \E i \in I, kind \in Kinds : Turns(w, i, kind) /\ s[r] = SwingOf(w, i, kind)
  /\ \A i \in I, kind \in Kinds : Turns(w, i, kind) => \E r \in DOMAIN s : s[r] = SwingOf(w, i, kind)
  /\ \A r, u \in DOMAIN s : r < u => Earlier(s[r], s[u])

LEMMA SwingOfIs ==
  ASSUME NEW w \in Seq(Bars), NEW i \in DOMAIN w, NEW kind \in Kinds
  PROVE  SwingOf(w, i, kind) \in Swings /\ SwingOf(w, i, kind).idx = i /\ SwingOf(w, i, kind).kind = kind
<1>1. w[i] \in Bars /\ i \in Nat
  OBVIOUS
<1>2. w[i].h \in Nat /\ w[i].l \in Nat /\ w[i].t \in Nat
  BY <1>1 DEF Bars
<1> QED
  BY <1>1, <1>2 DEF SwingOf, Swings

LEMMA SwingsAtIs ==
  ASSUME NEW w \in Seq(Bars), NEW i \in DOMAIN w
  PROVE  Lists(SwingsAt(w, i), w, {i})
<1>1. PICK hi : hi = SwingOf(w, i, "HIGH")
  OBVIOUS
<1>2. PICK lo : lo = SwingOf(w, i, "LOW")
  OBVIOUS
<1>3. /\ hi \in Swings /\ lo \in Swings /\ i \in Nat
      /\ hi.idx = i /\ lo.idx = i /\ hi.kind = "HIGH" /\ lo.kind = "LOW"
  BY <1>1, <1>2, SwingOfIs DEF Kinds
<1>4. SwingsAt(w, i) = IF ~ HasNeighbours(w, i) THEN << >>
        ELSE (IF Turns(w, i, "HIGH") THEN <<hi>> ELSE << >>) \o (IF Turns(w, i, "LOW") THEN <<lo>> ELSE << >>)
  <2>1. hi = [idx |-> i, t |-> w[i].t, price |-> w[i].h, kind |-> "HIGH"]
    BY <1>1 DEF SwingOf
  <2>2. lo = [idx |-> i, t |-> w[i].t, price |-> w[i].l, kind |-> "LOW"]
    BY <1>2 DEF SwingOf
  <2>3. HasNeighbours(w, i) => (Turns(w, i, "HIGH") <=> \A j \in Neighbours(w, i) : w[j].h <= w[i].h)
    BY DEF Turns
  <2>4. HasNeighbours(w, i) => (Turns(w, i, "LOW") <=> \A j \in Neighbours(w, i) : w[j].l >= w[i].l)
    BY DEF Turns
  <2> QED
    BY <2>1, <2>2, <2>3, <2>4 DEF SwingsAt
<1>5. Turns(w, i, "HIGH") \/ Turns(w, i, "LOW") => HasNeighbours(w, i)
  BY DEF Turns
<1>6. Earlier(hi, lo)
  BY <1>3 DEF Earlier
<1>7. CASE Turns(w, i, "HIGH") /\ Turns(w, i, "LOW")
  <2>1. SwingsAt(w, i) = <<hi, lo>>
    <3>1. SwingsAt(w, i) = <<hi>> \o <<lo>>
      BY <1>4, <1>5, <1>7
    <3>2. PICK v : v = <<hi>> \o <<lo>>
      OBVIOUS
    <3>3. v \in Seq(Swings) /\ Len(v) = 2 /\ v[1] = hi /\ v[2] = lo
      BY <1>3, <3>2
    <3>4. v = <<hi, lo>>
      BY <3>3
    <3> QED
      BY <3>1, <3>2, <3>4
  <2> QED
    BY <1>1, <1>2, <1>3, <1>6, <1>7, <2>1 DEF Lists, Kinds
<1>8. CASE Turns(w, i, "HIGH") /\ ~ Turns(w, i, "LOW")
  <2>1. SwingsAt(w, i) = <<hi>>
    BY <1>3, <1>4, <1>5, <1>8
  <2> QED
    BY <1>1, <1>3, <1>8, <2>1 DEF Lists, Kinds
<1>9. CASE ~ Turns(w, i, "HIGH") /\ Turns(w, i, "LOW")
  <2>1. SwingsAt(w, i) = <<lo>>
    BY <1>3, <1>4, <1>5, <1>9
  <2> QED
    BY <1>2, <1>3, <1>9, <2>1 DEF Lists, Kinds
<1>10. CASE ~ Turns(w, i, "HIGH") /\ ~ Turns(w, i, "LOW")
  <2>1. SwingsAt(w, i) = << >>
    BY <1>4, <1>10
  <2> QED
    BY <1>10, <2>1 DEF Lists, Kinds
<1> QED
  BY <1>7, <1>8, <1>9, <1>10

(* The swings of bar k + 1 follow those of the bars before it.             *)
LEMMA ListsOn ==
  ASSUME NEW w \in Seq(Bars), NEW k \in Nat, k + 1 \in DOMAIN w,
         NEW s, Lists(s, w, 1 .. k), NEW t, Lists(t, w, {k + 1})
  PROVE  Lists(s \o t, w, 1 .. k + 1)
<1>1. s \in Seq(Swings) /\ t \in Seq(Swings)
  BY DEF Lists
<1>2. PICK m \in Nat : m = Len(s) /\ DOMAIN s = 1 .. m
  BY <1>1
<1>3. PICK n \in Nat : n = Len(t) /\ DOMAIN t = 1 .. n
  BY <1>1
<1>4. PICK v \in Seq(Swings) : v = s \o t
  BY <1>1, ConcatProperties
<1>5. /\ Len(v) = m + n /\ DOMAIN v = 1 .. m + n
      /\ \A r \in 1 .. m : v[r] = s[r]
      /\ \A r \in 1 .. n : v[m + r] = t[r]
  BY <1>1, <1>2, <1>3, <1>4
<1>6. ASSUME NEW r \in 1 .. m + n
      PROVE  \/ r \in 1 .. m /\ v[r] = s[r]
             \/ r > m /\ r - m \in 1 .. n /\ v[r] = t[r - m]
  <2>1. r \in 1 .. m \/ (r > m /\ r - m \in 1 .. n)
    BY <1>2, <1>3
  <2>2. CASE r > m /\ r - m \in 1 .. n
    <3>1. PICK u \in 1 .. n : u = r - m
      BY <2>2
    <3>2. m + u = r
      BY <1>2, <3>1
    <3> QED
      BY <1>5, <2>2, <3>1, <3>2
  <2> QED
    BY <1>5, <2>1, <2>2
<1>7. ASSUME NEW r \in 1 .. m
      PROVE  \E i \in 1 .. k, kind \in Kinds : Turns(w, i, kind) /\ s[r] = SwingOf(w, i, kind)
  BY <1>2 DEF Lists
<1>8. ASSUME NEW r \in 1 .. n
      PROVE  \E kind \in Kinds : Turns(w, k + 1, kind) /\ t[r] = SwingOf(w, k + 1, kind)
  BY <1>3 DEF Lists
<1>9. ASSUME NEW r \in DOMAIN v
      PROVE  \E i \in 1 .. k + 1, kind \in Kinds : Turns(w, i, kind) /\ v[r] = SwingOf(w, i, kind)
  <2>1. r \in 1 .. m + n
    BY <1>5
  <2>2. CASE r \in 1 .. m /\ v[r] = s[r]
    <3>1. PICK i \in 1 .. k, kind \in Kinds : Turns(w, i, kind) /\ s[r] = SwingOf(w, i, kind)
      BY <1>7, <2>2
    <3>2. i \in 1 .. k + 1
      OBVIOUS
    <3> QED
      BY <2>2, <3>1, <3>2
  <2>3. CASE r > m /\ r - m \in 1 .. n /\ v[r] = t[r - m]
    <3>1. PICK kind \in Kinds : Turns(w, k + 1, kind) /\ t[r - m] = SwingOf(w, k + 1, kind)
      BY <1>8, <2>3
    <3>2. k + 1 \in 1 .. k + 1
      OBVIOUS
    <3> QED
      BY <2>3, <3>1, <3>2
  <2> QED
    BY <1>6, <2>1, <2>2, <2>3
<1>10. ASSUME NEW i \in 1 .. k + 1, NEW kind \in Kinds, Turns(w, i, kind)
       PROVE  \E r \in DOMAIN v : v[r] = SwingOf(w, i, kind)
  <2>1. CASE i = k + 1
    <3>1. PICK r \in 1 .. n : t[r] = SwingOf(w, i, kind)
      BY <1>3, <1>10, <2>1 DEF Lists
    <3>2. m + r \in DOMAIN v
      BY <1>2, <1>3, <1>5
    <3> QED
      BY <1>5, <3>1, <3>2
  <2>2. CASE i # k + 1
    <3>1. i \in 1 .. k
      BY <2>2
    <3>2. PICK r \in 1 .. m : s[r] = SwingOf(w, i, kind)
      BY <1>2, <1>10, <3>1 DEF Lists
    <3>3. r \in DOMAIN v
      BY <1>2, <1>3, <1>5
    <3> QED
      BY <1>5, <3>2, <3>3
  <2> QED
    BY <2>1, <2>2
<1>11. ASSUME NEW r \in DOMAIN v, NEW u \in DOMAIN v, r < u PROVE Earlier(v[r], v[u])
  <2>1. r \in 1 .. m + n /\ u \in 1 .. m + n
    BY <1>5
  <2>2. CASE r \in 1 .. m /\ v[r] = s[r]
    <3>1. CASE u \in 1 .. m /\ v[u] = s[u]
      BY <1>2, <1>11, <2>2, <3>1 DEF Lists
    <3>2. CASE u > m /\ u - m \in 1 .. n /\ v[u] = t[u - m]
      <4>1. PICK i \in 1 .. k, kind \in Kinds : Turns(w, i, kind) /\ s[r] = SwingOf(w, i, kind)
        BY <1>7, <2>2
      <4>2. PICK kind2 \in Kinds : Turns(w, k + 1, kind2) /\ t[u - m] = SwingOf(w, k + 1, kind2)
        BY <1>8, <3>2
      <4>3. v[r].idx = i /\ v[u].idx = k + 1
        BY <2>2, <3>2, <4>1, <4>2 DEF SwingOf
      <4>4. i < k + 1
        OBVIOUS
      <4> QED
        BY <4>3, <4>4 DEF Earlier
    <3> QED
      BY <1>6, <2>1, <3>1, <3>2
  <2>3. CASE r > m /\ r - m \in 1 .. n /\ v[r] = t[r - m]
    <3>1. u > m
      BY <1>2, <1>3, <1>11, <2>1, <2>3
    <3>2. u - m \in 1 .. n /\ v[u] = t[u - m]
      <4>1. ~ (u \in 1 .. m)
        BY <1>2, <3>1
      <4> QED
        BY <1>6, <2>1, <4>1, Zenon
    <3>3. r - m < u - m
      BY <1>2, <1>3, <1>11, <2>1
    <3> QED
      BY <1>3, <2>3, <3>2, <3>3 DEF Lists
  <2> QED
    BY <1>6, <2>1, <2>2, <2>3
<1> QED
  BY <1>4, <1>9, <1>10, <1>11 DEF Lists

(* DetectSwings lists all swings of the window, in order.                  *)
LEMMA DetectSwingsIs ==
  ASSUME NEW w \in Seq(Bars)
  PROVE  Lists(DetectSwings(w), w, DOMAIN w)
<1> DEFINE n == Len(w)
           q == Indices(w)
           A == Seq(Swings)
           B == DOMAIN w
           op == [x \in A \X B |-> x[1] \o SwingsAt(w, x[2])]
<1>1. n \in Nat /\ DOMAIN w = 1 .. n
  OBVIOUS
<1>2. q \in Seq(B) /\ Len(q) = n /\ DOMAIN q = 1 .. n /\ \A i \in 1 .. n : q[i] = i
  BY <1>1 DEF Indices
<1>3. \A i \in B : SwingsAt(w, i) \in Seq(Swings)
  BY SwingsAtIs DEF Lists
<1>4. << >> \in A /\ op \in [A \X B -> A]
  <2>1. ASSUME NEW x \in A \X B PROVE x[1] \o SwingsAt(w, x[2]) \in A
    <3>1. x[1] \in Seq(Swings) /\ x[2] \in B
      OBVIOUS
    <3> QED
      BY <1>3, <3>1, ConcatProperties
  <2> QED
    BY <2>1
<1>5. \A o \in A, i \in B : op[<<o, i>>] = o \o SwingsAt(w, i)
  OBVIOUS
<1> HIDE DEF op
<1>6. PICK F : Folds(F, A, op, << >>, q)
  <2> HIDE DEF A, B
  <2> QED
    BY <1>2, <1>4, FoldExists
<1> DEFINE iter == CHOOSE f : f = [t \in SUBSET DOMAIN q |->
             IF t = {} THEN << >>
             ELSE f[t \ {Max(t)}] \o SwingsAt(w, q[Max(t)])]
<1>7. DetectSwings(w) = iter[DOMAIN q]
  BY Zenon DEF DetectSwings, FoldLeft, MapThenFoldSet
<1>8. \A t \in SUBSET DOMAIN q : t # {} => q[Max(t)] \in B /\ t \ {Max(t)} \in SUBSET DOMAIN q
  BY <1>1, <1>2, MaxIsIn
<1>9. iter = [t \in SUBSET DOMAIN q |->
             IF t = {} THEN << >>
             ELSE iter[t \ {Max(t)}] \o SwingsAt(w, q[Max(t)])]
  <2>1. \A t \in SUBSET DOMAIN q : t # {} => F[t \ {Max(t)}] \in A
    <3> HIDE DEF A, B, q
    <3> QED
      BY <1>6, <1>8 DEF Folds
  <2>2. \A t \in SUBSET DOMAIN q : t # {} =>
          op[<<F[t \ {Max(t)}], q[Max(t)]>>] = F[t \ {Max(t)}] \o SwingsAt(w, q[Max(t)])
    <3> HIDE DEF A, B, q
    <3> QED
      BY <1>5, <1>8, <2>1
  <2>3. F = [t \in SUBSET DOMAIN q |->
             IF t = {} THEN << >>
             ELSE F[t \ {Max(t)}] \o SwingsAt(w, q[Max(t)])]
    <3> HIDE DEF A, B
    <3> QED
      BY <1>6, <2>2 DEF Folds
  <2> QED
    BY <2>3, Zenon
<1> HIDE DEF iter
<1>10. Steps(iter, A, op, << >>, q)
  <2>1. iter[{}] = << >>
    BY <1>9
  <2>2. \A t \in SUBSET DOMAIN q : t # {} /\ iter[t \ {Max(t)}] \in A
          => iter[t] = op[<<iter[t \ {Max(t)}], q[Max(t)]>>]
    <3> HIDE DEF A, B
    <3> QED
      BY <1>5, <1>8, <1>9
  <2> HIDE DEF A, B
  <2> QED
    BY <2>1, <2>2 DEF Steps
<1>11. PICK a \in [0 .. n -> A] : Reaches(a, op, << >>, q) /\ a[n] = DetectSwings(w)
  <2>1. ComesTo(iter[DOMAIN q], A, op, << >>, q)
    <3> HIDE DEF A, B, q
    <3> QED
      BY <1>2, <1>6, <1>10, FoldComesTo
  <2> HIDE DEF A, B, q
  <2> QED
    BY <1>2, <1>7, <2>1 DEF ComesTo
<1>12. a[0] = << >> /\ \A k \in 1 .. n : a[k] = a[k - 1] \o SwingsAt(w, k)
  <2>1. \A k \in 1 .. n : k - 1 \in 0 .. n /\ k \in B /\ a[k - 1] \in A
    <3>1. \A k \in 1 .. n : k - 1 \in 0 .. n /\ k \in B
      BY <1>1
    <3> HIDE DEF A, B
    <3> QED
      BY <1>11, <3>1
  <2>2. a[0] = << >> /\ \A k \in 1 .. n : a[k] = op[<<a[k - 1], k>>]
    BY <1>2, <1>11 DEF Reaches
  <2> HIDE DEF A, B, q, n
  <2> QED
    BY <1>5, <2>1, <2>2
<1> DEFINE Can(k) == Lists(a[k], w, 1 .. k)
           W == {k \in Nat : k <= n => Can(k)}
<1>13. 0 \in W
  <2>1. Lists(<< >>, w, 1 .. 0)
    BY DEF Lists
  <2> QED
    BY <1>12, <2>1
<1>14. ASSUME NEW k \in Nat, k \in W PROVE k + 1 \in W
  <2> SUFFICES ASSUME k + 1 <= n PROVE Can(k + 1)
    <3> HIDE DEF Can
    <3> QED
      OBVIOUS
  <2>1. Can(k)
    <3> HIDE DEF Can
    <3> QED
      BY <1>1, <1>14
  <2>2. k + 1 \in 1 .. n /\ k + 1 \in DOMAIN w /\ (k + 1) - 1 = k
    BY <1>1
  <2>3. a[k + 1] = a[k] \o SwingsAt(w, k + 1)
    BY <1>12, <2>2
  <2>4. PICK s : s = a[k] /\ Lists(s, w, 1 .. k)
    BY <2>1
  <2>5. PICK t : t = SwingsAt(w, k + 1) /\ Lists(t, w, {k + 1})
    BY <2>2, SwingsAtIs
  <2>6. Lists(s \o t, w, 1 .. k + 1)
    BY <2>2, <2>4, <2>5, ListsOn
  <2> QED
    BY <2>3, <2>4, <2>5, <2>6
<1>15. Nat \subseteq W
  <2> HIDE DEF W
  <2> QED
    BY <1>13, <1>14, NatSetInduction
<1>16. Can(n)
  <2> HIDE DEF Can
  <2> QED
    BY <1>1, <1>15
<1> QED
  BY <1>1, <1>11, <1>16
-----------------------------------------------------------------------------
(* Legs and break events.                                                  *)

Labels == {"UNDEFINED", "HH", "LH", "HL", "LL"}
Legs == [from : Swings, to : Swings, label : Labels, ref : Nat]
Sides == {"LONG", "SHORT"}
EventRecords == [type : {"BOS", "CHOCH"}, dir : Sides, price : Nat, t : Nat, leg : Nat \X Nat \X Labels]
Told == [bias : Sides \cup {"none"}, events : Seq(EventRecords)]

LEMMA LegIs ==
  ASSUME NEW s \in Seq(Swings), NEW i \in 1 .. Len(s) - 1
  PROVE  /\ Leg(s, i) \in Legs /\ Leg(s, i).from = s[i] /\ Leg(s, i).to = s[i + 1]
<1> DEFINE same == {j \in 1 .. i : s[j].kind = s[i + 1].kind}
           ref == s[Max(same)].price
<1>1. Len(s) \in Nat /\ i \in Nat /\ i \in DOMAIN s /\ i + 1 \in DOMAIN s /\ DOMAIN s = 1 .. Len(s)
  OBVIOUS
<1>2. s[i] \in Swings /\ s[i + 1] \in Swings
  BY <1>1
<1>3. same # {} => ref \in Nat
  <2> SUFFICES ASSUME same # {} PROVE ref \in Nat
    OBVIOUS
  <2>1. Max(same) \in 1 .. i
    <3>1. same \in SUBSET (1 .. i)
      OBVIOUS
    <3>2. Max(same) \in same
      <4> HIDE DEF same
      <4> QED
        BY <1>1, <3>1, MaxIsIn
    <3> QED
      BY <3>2
  <2>2. Max(same) \in DOMAIN s
    BY <1>1, <2>1
  <2>3. s[Max(same)] \in Swings
    BY <2>2
  <2> HIDE DEF same
  <2> QED
    BY <2>3 DEF Swings
<1>4. Leg(s, i) =
        IF same = {} THEN [from |-> s[i], to |-> s[i + 1], label |-> "UNDEFINED", ref |-> 0]
        ELSE [from |-> s[i], to |-> s[i + 1], ref |-> ref,
              label |-> IF s[i + 1].kind = "HIGH" THEN (IF s[i + 1].price > ref THEN "HH" ELSE "LH")
                                                  ELSE (IF s[i + 1].price > ref THEN "HL" ELSE "LL")]
  BY DEF Leg
<1> HIDE DEF same, ref
<1> QED
  BY <1>2, <1>3, <1>4 DEF Legs, Labels

LEMMA BuildLegsIs ==
  ASSUME NEW s \in Seq(Swings)
  PROVE  /\ BuildLegs(s) \in Seq(Legs) /\ DOMAIN BuildLegs(s) = 1 .. Len(s) - 1
         /\ \A i \in 1 .. Len(s) - 1 : BuildLegs(s)[i] = Leg(s, i)
<1>1. Len(s) \in Nat
  OBVIOUS
<1>2. \A i \in 1 .. Len(s) - 1 : Leg(s, i) \in Legs
  BY LegIs
<1>3. PICK n \in Nat : 1 .. n = 1 .. Len(s) - 1
  <2>1. CASE Len(s) = 0
    <3>1. 1 .. 0 = 1 .. Len(s) - 1
      BY <2>1
    <3> QED
      BY <3>1
  <2>2. CASE Len(s) # 0
    BY <1>1, <2>2
  <2> QED
    BY <2>1, <2>2
<1>4. BuildLegs(s) = [i \in 1 .. n |-> Leg(s, i)]
  BY <1>3 DEF BuildLegs
<1>5. BuildLegs(s) \in [1 .. n -> Legs]
  BY <1>2, <1>3, <1>4
<1>6. BuildLegs(s) \in Seq(Legs)
  BY <1>5
<1> QED
  BY <1>6 DEF BuildLegs

(* The events tell a story and the bias is where it stands.                *)
Story(acc) ==
  /\ \A i \in DOMAIN acc.events :
       acc.events[i].type = "CHOCH" <=> i > 1 /\ acc.events[i].dir # acc.events[i - 1].dir
  /\ acc.bias = IF acc.events = << >> THEN "none" ELSE acc.events[Len(acc.events)].dir

LEMMA ApplyLegTells ==
  ASSUME NEW w, NEW acc \in Told, NEW leg \in Legs
  PROVE  ApplyLeg(w, acc, leg) \in Told /\ (Story(acc) => Story(ApplyLeg(w, acc, leg)))
<1> DEFINE dir == BreakDirection(leg, acc.bias)
           new == [type |-> BreakType(acc.bias, dir), dir |-> dir, price |-> leg.to.price,
                   t |-> leg.to.t, leg |-> LegSignature(leg)]
<1>1. PICK h \in Seq(EventRecords) : h = acc.events
  BY DEF Told
<1>2. PICK b \in Sides \cup {"none"} : b = acc.bias
  BY DEF Told
<1>3. CASE ApplyLeg(w, acc, leg) = acc
  BY <1>3
<1>4. CASE ApplyLeg(w, acc, leg) # acc
  <2>1. dir \in Sides
    BY <1>4 DEF ApplyLeg, BreakDirection, Sides
  <2>2. ApplyLeg(w, acc, leg) = [bias |-> dir, events |-> Append(h, new)]
    BY <1>1, <1>4 DEF ApplyLeg
  <2>3. BreakType(acc.bias, dir) = IF b = "none" \/ b = dir THEN "BOS" ELSE "CHOCH"
    BY <1>2 DEF BreakType
  <2>4. leg.to.price \in Nat /\ leg.to.t \in Nat /\ LegSignature(leg) \in Nat \X Nat \X Labels
    BY DEF Legs, Swings, LegSignature
  <2> HIDE DEF dir
  <2>5. new \in EventRecords
    BY <2>1, <2>3, <2>4 DEF EventRecords
  <2>6. PICK e \in EventRecords : e = new
    BY <2>5
  <2>7. e.dir = dir /\ e.type = IF b = "none" \/ b = dir THEN "BOS" ELSE "CHOCH"
    BY <2>3, <2>6
  <2> HIDE DEF new
  <2>8. PICK v \in Seq(EventRecords) : v = Append(h, e)
    BY AppendProperties
  <2>9. PICK n \in Nat : n = Len(h) /\ DOMAIN h = 1 .. n
    OBVIOUS
  <2>10. /\ Len(v) = n + 1 /\ DOMAIN v = 1 .. n + 1 /\ v[n + 1] = e /\ v # << >>
         /\ \A r \in 1 .. n : v[r] = h[r]
    BY <2>8, <2>9
  <2>11. PICK r \in Told : r = ApplyLeg(w, acc, leg) /\ r.events = v /\ r.bias = dir
    <3>1. ApplyLeg(w, acc, leg) = [bias |-> dir, events |-> v]
      BY <2>2, <2>6, <2>8
    <3>2. [bias |-> dir, events |-> v] \in Told
      BY <2>1 DEF Told
    <3> QED
      BY <3>1, <3>2
  <2>12. ASSUME Story(acc) PROVE Story(r)
    <3>1. /\ \A i \in 1 .. n : h[i].type = "CHOCH" <=> i > 1 /\ h[i].dir # h[i - 1].dir
          /\ b = IF n = 0 THEN "none" ELSE h[n].dir
      BY <1>1, <1>2, <2>9, <2>12 DEF Story
    <3>2. ASSUME NEW i \in 1 .. n + 1
          PROVE  v[i].type = "CHOCH" <=> i > 1 /\ v[i].dir # v[i - 1].dir
      <4>1. CASE i \in 1 .. n
        <5>1. i > 1 => i - 1 \in 1 .. n
          BY <2>9, <4>1
        <5> QED
          BY <2>10, <3>1, <4>1, <5>1
      <4>2. CASE i = n + 1
        <5>1. CASE n = 0
          <6>1. b = "none"
            BY <3>1, <5>1
          <6> QED
            BY <2>7, <2>10, <4>2, <5>1, <6>1
        <5>2. CASE n # 0
          <6>1. n \in 1 .. n /\ i > 1 /\ i - 1 = n
            BY <4>2, <5>2
          <6>2. b = h[n].dir
            BY <3>1, <5>2
          <6>3. h[n] \in EventRecords
            BY <2>9, <6>1
          <6>4. b # "none"
            BY <6>2, <6>3 DEF EventRecords, Sides
          <6>5. v[i - 1].dir = b /\ v[i].dir = dir
            BY <2>7, <2>10, <4>2, <6>1, <6>2
          <6>6. v[i].type = "CHOCH" <=> b # dir
            BY <2>7, <2>10, <4>2, <6>4
          <6> QED
            BY <6>1, <6>5, <6>6
        <5> QED
          BY <5>1, <5>2
      <4> QED
        BY <2>9, <4>1, <4>2
    <3> QED
      BY <2>7, <2>10, <2>11, <3>2 DEF Story
  <2> QED
    BY <2>11, <2>12
<1> QED
  BY <1>3, <1>4

LEMMA DetectEventsTells ==
  ASSUME NEW w, NEW q \in Seq(Legs)
  PROVE  /\ DetectEvents(w, q) \in Seq(EventRecords)
         /\ \E acc \in Told : Story(acc) /\ acc.events = DetectEvents(w, q)
<1> DEFINE n == Len(q)
           op == [x \in Told \X Legs |-> ApplyLeg(w, x[1], x[2])]
<1>1. n \in Nat /\ DOMAIN q = 1 .. n
  OBVIOUS
<1>2. PICK c : c = [bias |-> "none", events |-> << >>]
  OBVIOUS
<1>3. c \in Told /\ Story(c)
  BY <1>2 DEF Told, Story
<1>4. op \in [Told \X Legs -> Told]
  BY ApplyLegTells
<1>5. \A o \in Told, leg \in Legs : op[<<o, leg>>] = ApplyLeg(w, o, leg)
  OBVIOUS
<1> HIDE DEF op
<1>6. PICK F : Folds(F, Told, op, c, q)
  BY <1>3, <1>4, FoldExists
<1> DEFINE iter == CHOOSE f : f = [t \in SUBSET DOMAIN q |->
             IF t = {} THEN c ELSE ApplyLeg(w, f[t \ {Max(t)}], q[Max(t)])]
<1>7. DetectEvents(w, q) = iter[DOMAIN q].events
  BY <1>2, Zenon DEF DetectEvents, FoldLeft, MapThenFoldSet
<1>8. \A t \in SUBSET DOMAIN q : t # {} => q[Max(t)] \in Legs /\ t \ {Max(t)} \in SUBSET DOMAIN q
  BY <1>1, MaxIsIn
<1>9. iter = [t \in SUBSET DOMAIN q |->
             IF t = {} THEN c ELSE ApplyLeg(w, iter[t \ {Max(t)}], q[Max(t)])]
  <2>1. \A t \in SUBSET DOMAIN q : t # {} => F[t \ {Max(t)}] \in Told
    BY <1>6, <1>8 DEF Folds
  <2>2. \A t \in SUBSET DOMAIN q : t # {} =>
          op[<<F[t \ {Max(t)}], q[Max(t)]>>] = ApplyLeg(w, F[t \ {Max(t)}], q[Max(t)])
    BY <1>5, <1>8, <2>1
  <2>3. F = [t \in SUBSET DOMAIN q |->
             IF t = {} THEN c ELSE ApplyLeg(w, F[t \ {Max(t)}], q[Max(t)])]
    BY <1>6, <2>2 DEF Folds
  <2> QED
    BY <2>3, Zenon
<1> HIDE DEF iter
<1>10. Steps(iter, Told, op, c, q)
  <2>1. iter[{}] = c
    BY <1>9
  <2>2. \A t \in SUBSET DOMAIN q : t # {} /\ iter[t \ {Max(t)}] \in Told
          => iter[t] = op[<<iter[t \ {Max(t)}], q[Max(t)]>>]
    BY <1>5, <1>8, <1>9
  <2> QED
    BY <2>1, <2>2 DEF Steps
<1>11. PICK a \in [0 .. n -> Told] : Reaches(a, op, c, q) /\ a[n] = iter[DOMAIN q]
  <2>1. ComesTo(iter[DOMAIN q], Told, op, c, q)
    BY <1>6, <1>10, FoldComesTo
  <2> QED
    BY <2>1 DEF ComesTo
<1> DEFINE W == {k \in Nat : k <= n => Story(a[k])}
<1>12. 0 \in W
  BY <1>3, <1>11 DEF Reaches
<1>13. ASSUME NEW k \in Nat, k \in W PROVE k + 1 \in W
  <2> SUFFICES ASSUME k + 1 <= n PROVE Story(a[k + 1])
    OBVIOUS
  <2>1. Story(a[k])
    BY <1>1, <1>13
  <2>2. k + 1 \in 1 .. n /\ k \in 0 .. n /\ (k + 1) - 1 = k
    BY <1>1
  <2>3. a[k] \in Told /\ q[k + 1] \in Legs
    BY <1>1, <2>2
  <2>4. a[k + 1] = ApplyLeg(w, a[k], q[k + 1])
    BY <1>5, <1>11, <2>2, <2>3 DEF Reaches
  <2> QED
    BY <2>1, <2>3, <2>4, ApplyLegTells
<1>14. Nat \subseteq W
  <2> HIDE DEF W
  <2> QED
    BY <1>12, <1>13, NatSetInduction
<1>15. Story(a[n]) /\ a[n] \in Told
  BY <1>1, <1>14
<1>16. a[n].events \in Seq(EventRecords) /\ a[n].events = DetectEvents(w, q)
  BY <1>7, <1>11, <1>15 DEF Told
<1> QED
  BY <1>15, <1>16
-----------------------------------------------------------------------------
(* The event history.                                                      *)

HasKey(h, key) == \E i \in DOMAIN h : EventKey(h[i]) = key
Distinct(h) == \A i, j \in DOMAIN h : EventKey(h[i]) = EventKey(h[j]) => i = j

LEMMA PutEventKeeps ==
  ASSUME NEW h \in Seq(EventRecords), NEW e \in EventRecords
  PROVE  /\ PutEvent(h, e) \in Seq(EventRecords)
         /\ HasKey(PutEvent(h, e), EventKey(e))
         /\ \A key : HasKey(h, key) => HasKey(PutEvent(h, e), key)
         /\ Distinct(h) => Distinct(PutEvent(h, e))
<1> DEFINE same == {i \in DOMAIN h : EventKey(h[i]) = EventKey(e)}
<1>1. PICK n \in Nat : n = Len(h) /\ DOMAIN h = 1 .. n
  OBVIOUS
<1>2. CASE same = {}
  <2>1. PICK v \in Seq(EventRecords) : v = Append(h, e)
    BY AppendProperties
  <2>2. v = PutEvent(h, e)
    BY <1>2, <2>1 DEF PutEvent
  <2>3. /\ DOMAIN v = 1 .. n + 1 /\ v[n + 1] = e /\ n + 1 \in DOMAIN v
        /\ \A r \in 1 .. n : v[r] = h[r] /\ r \in DOMAIN v
    BY <1>1, <2>1
  <2>4. \A i \in 1 .. n : EventKey(h[i]) # EventKey(e)
    BY <1>1, <1>2
  <2>5. HasKey(v, EventKey(e)) /\ \A key : HasKey(h, key) => HasKey(v, key)
    BY <1>1, <2>3 DEF HasKey
  <2>6. ASSUME Distinct(h), NEW i \in DOMAIN v, NEW j \in DOMAIN v, EventKey(v[i]) = EventKey(v[j])
        PROVE  i = j
    <3>1. (i \in 1 .. n \/ i = n + 1) /\ (j \in 1 .. n \/ j = n + 1)
      BY <1>1, <2>3
    <3>2. CASE i \in 1 .. n /\ j \in 1 .. n
      BY <1>1, <2>3, <2>6, <3>2 DEF Distinct
    <3>3. CASE i \in 1 .. n /\ j = n + 1
      BY <2>3, <2>4, <2>6, <3>3
    <3>4. CASE i = n + 1 /\ j \in 1 .. n
      BY <2>3, <2>4, <2>6, <3>4
    <3> QED
      BY <3>1, <3>2, <3>3, <3>4
  <2> QED
    BY <2>2, <2>5, <2>6 DEF Distinct
<1>3. CASE same # {}
  <2>1. PICK p : p = Min(same)
    OBVIOUS
  <2>2. p \in same
    <3>1. same \in SUBSET Nat
      BY <1>1
    <3>2. PICK x \in same : \A y \in same : x <= y
      <4> HIDE DEF same
      <4> QED
        BY <1>3, <3>1, LeastNatural
    <3> HIDE DEF same
    <3> QED
      BY <2>1, <3>2 DEF Min
  <2>3. p \in 1 .. n /\ EventKey(h[p]) = EventKey(e)
    BY <1>1, <2>2
  <2>4. PICK v : v = [h EXCEPT ![p] = e]
    OBVIOUS
  <2>5. v = PutEvent(h, e)
    BY <1>3, <2>1, <2>4 DEF PutEvent
  <2>6. v \in Seq(EventRecords) /\ DOMAIN v = 1 .. n /\ v[p] = e /\ \A r \in 1 .. n : r # p => v[r] = h[r]
    BY <1>1, <2>3, <2>4
  <2>7. \A r \in 1 .. n : EventKey(v[r]) = EventKey(h[r])
    BY <2>3, <2>6
  <2> HIDE DEF same
  <2>8. HasKey(v, EventKey(e)) /\ \A key : HasKey(h, key) => HasKey(v, key)
    BY <1>1, <2>3, <2>6, <2>7 DEF HasKey
  <2>9. Distinct(h) => Distinct(v)
    BY <1>1, <2>6, <2>7 DEF Distinct
  <2> QED
    BY <2>5, <2>6, <2>8, <2>9
<1> QED
  BY <1>2, <1>3

(* What has been put in when the first k events are.                       *)
Upserted(g, h, events, k) ==
  /\ \A key : HasKey(h, key) => HasKey(g, key)
  /\ \A j \in 1 .. k : HasKey(g, EventKey(events[j]))
  /\ Distinct(h) => Distinct(g)

LEMMA UpsertKeeps ==
  ASSUME NEW h \in Seq(EventRecords), NEW events \in Seq(EventRecords)
  PROVE  \E g \in Seq(EventRecords) :
           g = FoldLeft(PutEvent, h, events) /\ Upserted(g, h, events, Len(events))
<1> DEFINE n == Len(events)
           A == Seq(EventRecords)
           op == [x \in A \X EventRecords |-> PutEvent(x[1], x[2])]
<1>1. n \in Nat /\ DOMAIN events = 1 .. n
  OBVIOUS
<1>2. \A o \in A, e \in EventRecords : PutEvent(o, e) \in A
  BY PutEventKeeps
<1>3. h \in A /\ op \in [A \X EventRecords -> A]
  <2>1. \A x \in A \X EventRecords : x[1] \in A /\ x[2] \in EventRecords
    OBVIOUS
  <2> HIDE DEF A
  <2>2. \A x \in A \X EventRecords : PutEvent(x[1], x[2]) \in A
    BY <1>2, <2>1
  <2>3. op \in [A \X EventRecords -> A]
    BY <2>2
  <2> QED
    BY <2>3 DEF A
<1>4. \A o \in A, e \in EventRecords : op[<<o, e>>] = PutEvent(o, e)
  OBVIOUS
<1> HIDE DEF op
<1>5. PICK F : Folds(F, A, op, h, events)
  <2> HIDE DEF A
  <2> QED
    BY <1>3, FoldExists
<1> DEFINE iter == CHOOSE f : f = [t \in SUBSET DOMAIN events |->
             IF t = {} THEN h ELSE PutEvent(f[t \ {Max(t)}], events[Max(t)])]
<1>6. FoldLeft(PutEvent, h, events) = iter[DOMAIN events]
  BY Zenon DEF FoldLeft, MapThenFoldSet
<1>7. \A t \in SUBSET DOMAIN events : t # {} =>
        events[Max(t)] \in EventRecords /\ t \ {Max(t)} \in SUBSET DOMAIN events
  <2>1. \A i \in 1 .. n : events[i] \in EventRecords
    BY <1>1
  <2>2. \A t \in SUBSET (1 .. n) : t # {} => Max(t) \in 1 .. n
    <3> HIDE DEF n
    <3>1. ASSUME NEW t \in SUBSET (1 .. n), t # {} PROVE Max(t) \in t
      BY <1>1, <3>1, MaxIsIn
    <3> QED
      BY <3>1
  <2> HIDE DEF n
  <2> QED
    BY <1>1, <2>1, <2>2
<1>8. iter = [t \in SUBSET DOMAIN events |->
             IF t = {} THEN h ELSE PutEvent(iter[t \ {Max(t)}], events[Max(t)])]
  <2> HIDE DEF A
  <2>1. \A t \in SUBSET DOMAIN events : t # {} => F[t \ {Max(t)}] \in A
    BY <1>5, <1>7 DEF Folds
  <2>2. \A t \in SUBSET DOMAIN events : t # {} =>
          op[<<F[t \ {Max(t)}], events[Max(t)]>>] = PutEvent(F[t \ {Max(t)}], events[Max(t)])
    BY <1>4, <1>7, <2>1
  <2>3. F = [t \in SUBSET DOMAIN events |->
             IF t = {} THEN h ELSE PutEvent(F[t \ {Max(t)}], events[Max(t)])]
    BY <1>5, <2>2 DEF Folds
  <2> QED
    BY <2>3, Zenon
<1> HIDE DEF iter
<1>9. Steps(iter, A, op, h, events)
  <2> HIDE DEF A
  <2>1. iter[{}] = h
    BY <1>8
  <2>2. \A t \in SUBSET DOMAIN events : t # {} /\ iter[t \ {Max(t)}] \in A
          => iter[t] = op[<<iter[t \ {Max(t)}], events[Max(t)]>>]
    BY <1>4, <1>7, <1>8
  <2> QED
    BY <2>1, <2>2 DEF Steps
<1>10. PICK a \in [0 .. n -> A] : Reaches(a, op, h, events) /\ a[n] = FoldLeft(PutEvent, h, events)
  <2> HIDE DEF A
  <2>1. ComesTo(iter[DOMAIN events], A, op, h, events)
    BY <1>5, <1>9, FoldComesTo
  <2> QED
    BY <1>6, <2>1 DEF ComesTo
<1> DEFINE Can(k) == Upserted(a[k], h, events, k)
           W == {k \in Nat : k <= n => Can(k)}
<1>11. 0 \in W
  <2>1. a[0] = h
    BY <1>10 DEF Reaches
  <2> QED
    BY <2>1 DEF Upserted
<1>12. ASSUME NEW k \in Nat, k \in W PROVE k + 1 \in W
  <2> SUFFICES ASSUME k + 1 <= n PROVE Can(k + 1)
    <3> HIDE DEF Can
    <3> QED
      OBVIOUS
  <2>1. Can(k)
    <3> HIDE DEF Can
    <3> QED
      BY <1>1, <1>12
  <2>2. k + 1 \in 1 .. n /\ k \in 0 .. n /\ (k + 1) - 1 = k
    BY <1>1
  <2>3. PICK o \in Seq(EventRecords) : o = a[k]
    BY <2>2
  <2>4. PICK e \in EventRecords : e = events[k + 1]
    BY <1>1, <2>2
  <2>5. a[k + 1] = PutEvent(o, e)
    <3>1. a[k + 1] = op[<<o, e>>]
      BY <1>10, <2>2, <2>3, <2>4 DEF Reaches
    <3> QED
      BY <1>4, <3>1
  <2>6. PICK g \in Seq(EventRecords) : g = PutEvent(o, e)
    BY PutEventKeeps
  <2>7. /\ HasKey(g, EventKey(e)) /\ \A key : HasKey(o, key) => HasKey(g, key)
        /\ Distinct(o) => Distinct(g)
    BY <2>6, PutEventKeeps
  <2>8. Upserted(o, h, events, k)
    BY <2>1, <2>3
  <2>9. ASSUME NEW j \in 1 .. k + 1 PROVE HasKey(g, EventKey(events[j]))
    <3>1. j \in 1 .. k \/ j = k + 1
      OBVIOUS
    <3> QED
      BY <2>4, <2>7, <2>8, <3>1 DEF Upserted
  <2>10. Upserted(g, h, events, k + 1)
    BY <2>7, <2>8, <2>9 DEF Upserted
  <2> QED
    BY <2>5, <2>6, <2>10
<1>13. Nat \subseteq W
  <2> HIDE DEF W
  <2> QED
    BY <1>11, <1>12, NatSetInduction
<1>14. Can(n)
  <2> HIDE DEF Can
  <2> QED
    BY <1>1, <1>13
<1>15. n \in 0 .. n
  BY <1>1
<1> QED
  BY <1>10, <1>14, <1>15

LEMMA RecordsHaveTimes ==
  /\ \A e \in EventRecords : e["t"] = e.t /\ e.t \in Int
  /\ \A e, f \in EventRecords : EventKey(e) = EventKey(f) => e.t = f.t
  BY DEF EventRecords, EventKey

(* What Prune drops is too old, or HistoryEntries others are as new.       *)
LEMMA PruneKeeps ==
  ASSUME NEW g \in Seq(EventRecords), Distinct(g), NEW now \in Int
  PROVE  /\ Prune(g, now) \in Seq(EventRecords)
         /\ Ascends(Prune(g, now), "t") /\ Distinct(Prune(g, now))
         /\ \A e \in EventRecords : HasKey(g, EventKey(e)) =>
              \/ HasKey(Prune(g, now), EventKey(e))
              \/ e.t < now - HistoryMinutes
              \/ Superseded(e, Prune(g, now))
<1> DEFINE I == {i \in DOMAIN g : HistoryMinutes = 0 \/ g[i].t >= now - HistoryMinutes}
<1>0. HistoryEntries \in Nat \ {0} /\ HistoryMinutes \in Nat
  BY SmcStructureAssumption
<1>a. PICK y \in Seq(EventRecords) :
        y = Young(g, now) /\ \E at : Picks(y, g, I \cap DOMAIN g, at)
  <2>1. Young(g, now) = Chosen(g, I)
    BY DEF Young
  <2> HIDE DEF I
  <2> QED
    BY <2>1, ChosenIs
<1>1. PICK at : Picks(y, g, I \cap DOMAIN g, at)
  BY <1>a
<1>2. PICK n \in Nat : n = Len(y) /\ DOMAIN y = 1 .. n
  OBVIOUS
<1>b. PICK z \in Seq(EventRecords) :
        z = Sorted(y, "t") /\ Ascends(z, "t") /\ \E bt : Arranges(z, y, n, bt)
  BY <1>2, RecordsHaveTimes, SortedIs
<1>3. PICK bt : Arranges(z, y, n, bt) /\ Ascends(z, "t")
  BY <1>b
<1>4. Len(z) = n /\ DOMAIN z = 1 .. n
  BY <1>2, <1>3 DEF Arranges
<1>5. PICK p : p = LastN(z, HistoryEntries)
  OBVIOUS
<1>6. PICK d \in Nat :
        /\ d = IF n > HistoryEntries THEN n - HistoryEntries ELSE 0
        /\ p \in Seq(EventRecords) /\ Len(p) = n - d
        /\ \A r \in 1 .. n - d : r + d \in DOMAIN z /\ p[r] = z[r + d]
  <2>1. PICK c \in Nat \ {0} : c = HistoryEntries
    BY <1>0
  <2>2. \E d \in Nat :
           /\ d = IF Len(z) > c THEN Len(z) - c ELSE 0
           /\ LastN(z, c) \in Seq(EventRecords) /\ Len(LastN(z, c)) = Len(z) - d
           /\ \A r \in 1 .. Len(z) - d : r + d \in DOMAIN z /\ LastN(z, c)[r] = z[r + d]
    BY LastNIs
  <2> QED
    BY <1>4, <1>5, <2>1, <2>2
<1>7. p = Prune(g, now) /\ DOMAIN p = 1 .. n - d
  BY <1>a, <1>b, <1>5, <1>6 DEF Prune
<1>8. ASSUME NEW r \in 1 .. n, NEW u \in 1 .. n, EventKey(y[r]) = EventKey(y[u]) PROVE r = u
  <2>1. /\ at[r] \in I /\ at[u] \in I /\ y[r] = g[at[r]] /\ y[u] = g[at[u]]
        /\ (r < u => at[r] < at[u]) /\ (u < r => at[u] < at[r])
    BY <1>1, <1>2 DEF Picks
  <2>2. at[r] = at[u]
    BY <1>8, <2>1 DEF Distinct
  <2>3. PICK v \in Nat : v = at[r] /\ v = at[u]
    BY <2>1, <2>2
  <2>4. ~ (r < u) /\ ~ (u < r)
    BY <2>1, <2>3
  <2> QED
    BY <2>4
<1>9. ASSUME NEW r \in 1 .. n, NEW u \in 1 .. n, EventKey(z[r]) = EventKey(z[u]) PROVE r = u
  <2>1. /\ bt[r] \in 1 .. n /\ bt[u] \in 1 .. n /\ z[r] = y[bt[r]] /\ z[u] = y[bt[u]]
        /\ bt[r] = bt[u] => r = u
    BY <1>3 DEF Arranges
  <2>2. EventKey(y[bt[r]]) = EventKey(y[bt[u]])
    BY <1>9, <2>1
  <2>3. bt[r] = bt[u]
    BY <1>8, <2>1, <2>2
  <2> QED
    BY <2>1, <2>3
<1>10. Distinct(p)
  <2>1. ASSUME NEW r \in 1 .. n - d, NEW u \in 1 .. n - d, EventKey(p[r]) = EventKey(p[u]) PROVE r = u
    <3>1. r + d \in 1 .. n /\ u + d \in 1 .. n /\ p[r] = z[r + d] /\ p[u] = z[u + d]
      BY <1>4, <1>6
    <3>2. r + d = u + d
      BY <1>9, <2>1, <3>1
    <3> QED
      BY <3>2
  <2> QED
    BY <1>7, <2>1 DEF Distinct
<1>11. ASSUME NEW r \in 1 .. n, NEW u \in 1 .. n, r < u PROVE z[r].t <= z[u].t
  <2>1. z[r] \in EventRecords /\ z[u] \in EventRecords
    BY <1>4
  <2>2. z[r]["t"] <= z[u]["t"]
    BY <1>3, <1>4, <1>11 DEF Ascends
  <2> QED
    BY <2>1, <2>2, RecordsHaveTimes
<1>12. Ascends(p, "t")
  <2>1. ASSUME NEW r \in 1 .. n - d, NEW u \in 1 .. n - d, r < u PROVE p[r]["t"] <= p[u]["t"]
    <3>1. r + d \in 1 .. n /\ u + d \in 1 .. n /\ p[r] = z[r + d] /\ p[u] = z[u + d]
      BY <1>4, <1>6
    <3>2. r + d < u + d
      BY <2>1
    <3> QED
      BY <1>3, <1>4, <3>1, <3>2 DEF Ascends
  <2> QED
    BY <1>7, <2>1 DEF Ascends
<1>13. ASSUME NEW e \in EventRecords, HasKey(g, EventKey(e))
       PROVE  HasKey(p, EventKey(e)) \/ e.t < now - HistoryMinutes \/ Superseded(e, p)
  <2>1. PICK i \in DOMAIN g : EventKey(g[i]) = EventKey(e)
    BY <1>13 DEF HasKey
  <2>2. g[i] \in EventRecords
    OBVIOUS
  <2>3. g[i].t = e.t /\ e.t \in Int
    BY <2>1, <2>2, RecordsHaveTimes
  <2>4. CASE i \notin I
    <3>1. ~ (g[i].t >= now - HistoryMinutes)
      BY <2>4
    <3> QED
      BY <1>0, <2>3, <3>1
  <2>5. CASE i \in I
    <3>0. i \in I \cap DOMAIN g
      BY <2>5
    <3> HIDE DEF I
    <3>1. PICK r \in 1 .. n : at[r] = i /\ y[r] = g[i]
      BY <1>1, <1>2, <3>0 DEF Picks
    <3>2. PICK u \in 1 .. n : bt[u] = r /\ z[u] = y[r]
      <4>1. PICK u \in 1 .. n : bt[u] = r
        BY <1>3 DEF Arranges
      <4> QED
        BY <1>3, <4>1 DEF Arranges
    <3>3. CASE u > d
      <4>1. PICK k \in 1 .. n - d : k + d = u
        <5>1. u - d \in 1 .. n - d /\ (u - d) + d = u
          BY <1>2, <1>6, <3>3
        <5> QED
          BY <5>1
      <4>2. p[k] = z[u]
        BY <1>6, <4>1
      <4> QED
        BY <1>7, <2>1, <3>1, <3>2, <4>2 DEF HasKey
    <3>4. CASE ~ (u > d)
      <4>1. u \in 1 .. d /\ d = n - HistoryEntries /\ n - d = HistoryEntries
        BY <1>0, <1>2, <1>6, <3>4
      <4>2. ASSUME NEW k \in 1 .. n - d PROVE p[k].t >= e.t
        <5>1. k + d \in 1 .. n /\ p[k] = z[k + d] /\ u < k + d
          BY <1>2, <1>4, <1>6, <4>1
        <5>2. z[u].t <= z[k + d].t
          BY <1>11, <5>1
        <5>3. z[u].t = e.t
          BY <2>3, <3>1, <3>2
        <5>4. z[k + d].t \in Int
          BY <1>4, <5>1, RecordsHaveTimes
        <5> QED
          BY <2>3, <5>1, <5>2, <5>3, <5>4
      <4>3. {k \in DOMAIN p : p[k].t >= e.t} = 1 .. HistoryEntries
        BY <1>7, <4>1, <4>2
      <4>4. Cardinality(1 .. HistoryEntries) = HistoryEntries
        BY <1>0, FS_Interval
      <4> QED
        <5>1. HistoryEntries >= HistoryEntries
          BY <1>0
        <5> QED
          BY <4>3, <4>4, <5>1, Zenon DEF Superseded
    <3> QED
      BY <1>2, <1>6, <3>3, <3>4
  <2> QED
    BY <2>4, <2>5
<1> QED
  BY <1>6, <1>7, <1>10, <1>12, <1>13
-----------------------------------------------------------------------------
(* The bars of the store.                                                  *)

Frames == Seq(Bars) \ {<< >>}
Rises(s) == \A i, j \in DOMAIN s : i < j => s[i].t < s[j].t

(* b is what became of the frame f: the bars of one time are the same, and *)
(* of f nothing is missing from the first bar of b on.                     *)
Follows(b, f) ==
  /\ \A i \in DOMAIN f, j \in DOMAIN b : f[i].t = b[j].t => f[i] = b[j]
  /\ \A i \in DOMAIN f : f[i].t >= b[1].t => \E j \in DOMAIN b : b[j] = f[i]

(* The store is a row of bars in strict order of time, the history holds   *)
(* no event twice, and the last hint was computed from a frame that the    *)
(* store has only added to since, or dropped the oldest bars of.           *)
EngineInv ==
  /\ bars \in Frames /\ Rises(bars)
  /\ history \in Seq(EventRecords) /\ Distinct(history)
  /\ hint # NoHint =>
       \E f \in Frames, p \in Seq(EventRecords) : hint = Hint(f, p) /\ Rises(f) /\ Follows(bars, f)

LEMMA BarsHaveTimes ==
  /\ \A b \in Bars : b["t"] = b.t /\ b.t \in Nat /\ b["t"] \in Int
  BY DEF Bars

LEMMA RisesAscends ==
  ASSUME NEW s \in Seq(Bars)
  PROVE  /\ Rises(s) => Ascends(s, "t")
         /\ Ascends(s, "t") /\ (\A i, j \in DOMAIN s : s[i].t = s[j].t => i = j) => Rises(s)
         /\ Rises(s) => \A i, j \in DOMAIN s : s[i].t = s[j].t => i = j
<1>1. \A i \in DOMAIN s : s[i]["t"] = s[i].t /\ s[i].t \in Nat /\ i \in Nat
  BY BarsHaveTimes
<1>2. ASSUME Rises(s), NEW i \in DOMAIN s, NEW j \in DOMAIN s, i < j PROVE s[i]["t"] <= s[j]["t"]
  BY <1>1, <1>2 DEF Rises
<1>3. ASSUME Ascends(s, "t"), \A i, j \in DOMAIN s : s[i].t = s[j].t => i = j,
             NEW i \in DOMAIN s, NEW j \in DOMAIN s, i < j
      PROVE  s[i].t < s[j].t
  <2>1. s[i]["t"] <= s[j]["t"]
    BY <1>3 DEF Ascends
  <2>2. s[i].t # s[j].t
    BY <1>1, <1>3
  <2> QED
    BY <1>1, <2>1, <2>2
<1>4. ASSUME Rises(s), NEW i \in DOMAIN s, NEW j \in DOMAIN s, s[i].t = s[j].t PROVE i = j
  <2>1. ~ (i < j) /\ ~ (j < i)
    BY <1>1, <1>4 DEF Rises
  <2> QED
    BY <1>1, <2>1
<1> QED
  BY <1>2, <1>3, <1>4 DEF Ascends, Rises

(* The newest bars of a row are a row.                                     *)
LEMMA LastNRises ==
  ASSUME NEW s \in Frames, Rises(s), NEW n \in Nat \ {0}
  PROVE  /\ LastN(s, n) \in Frames /\ Rises(LastN(s, n))
         /\ \A j \in DOMAIN LastN(s, n) : \E i \in DOMAIN s : LastN(s, n)[j] = s[i]
         /\ \A i \in DOMAIN s : s[i].t >= LastN(s, n)[1].t => \E j \in DOMAIN LastN(s, n) : LastN(s, n)[j] = s[i]
<1>1. s \in Seq(Bars) /\ s # << >>
  BY DEF Frames
<1>2. PICK m \in Nat : m = Len(s) /\ DOMAIN s = 1 .. m /\ m # 0
  BY <1>1
<1>3. PICK v : v = LastN(s, n)
  OBVIOUS
<1>4. PICK d \in Nat :
        /\ d = IF m > n THEN m - n ELSE 0
        /\ v \in Seq(Bars) /\ Len(v) = m - d
        /\ \A r \in 1 .. m - d : r + d \in DOMAIN s /\ v[r] = s[r + d]
  <2>1. \E d \in Nat :
           /\ d = IF Len(s) > n THEN Len(s) - n ELSE 0
           /\ LastN(s, n) \in Seq(Bars) /\ Len(LastN(s, n)) = Len(s) - d
           /\ \A r \in 1 .. Len(s) - d : r + d \in DOMAIN s /\ LastN(s, n)[r] = s[r + d]
    BY <1>1, LastNIs
  <2> QED
    BY <1>2, <1>3, <2>1
<1>5. DOMAIN v = 1 .. m - d /\ m - d \in Nat /\ m - d # 0 /\ 1 \in 1 .. m - d
  BY <1>2, <1>4
<1>6. v \in Frames
  BY <1>4, <1>5 DEF Frames
<1>7. Rises(v)
  <2>1. ASSUME NEW i \in 1 .. m - d, NEW j \in 1 .. m - d, i < j PROVE v[i].t < v[j].t
    <3>1. i + d \in DOMAIN s /\ j + d \in DOMAIN s /\ i + d < j + d /\ v[i] = s[i + d] /\ v[j] = s[j + d]
      BY <1>4, <2>1
    <3> QED
      BY <3>1 DEF Rises
  <2> QED
    BY <1>5, <2>1 DEF Rises
<1>8. \A j \in DOMAIN v : \E i \in DOMAIN s : v[j] = s[i]
  BY <1>4, <1>5
<1>9. ASSUME NEW i \in DOMAIN s, s[i].t >= v[1].t PROVE \E j \in DOMAIN v : v[j] = s[i]
  <2>1. 1 + d \in DOMAIN s /\ v[1] = s[1 + d]
    BY <1>4, <1>5
  <2>2. s[i].t \in Nat /\ s[1 + d].t \in Nat
    BY <1>1, <2>1, BarsHaveTimes
  <2>3. ~ (i < 1 + d)
    BY <1>9, <2>1, <2>2 DEF Rises
  <2>4. i - d \in 1 .. m - d /\ (i - d) + d = i
    BY <1>2, <1>4, <2>3
  <2>5. v[i - d] = s[i]
    BY <1>4, <2>4
  <2> QED
    BY <1>5, <2>4, <2>5
<1> QED
  BY <1>3, <1>6, <1>7, <1>8, <1>9

(* A bar of a new time, later than the first one, arrives.                 *)
LEMMA ArriveIs ==
  ASSUME NEW s \in Frames, Rises(s), NEW new \in Bars,
         \A i \in DOMAIN s : s[i].t # new.t, new.t > s[1].t,
         NEW b, b = LastN(Sorted(Append(s, new), "t"), Limit)
  PROVE  /\ b \in Frames /\ Rises(b)
         /\ \A f \in Frames : Rises(f) /\ Follows(s, f) => Follows(b, f)
<1>1. s \in Seq(Bars) /\ s # << >>
  BY DEF Frames
<1>2. PICK m \in Nat : m = Len(s) /\ DOMAIN s = 1 .. m /\ m # 0 /\ 1 \in DOMAIN s
  BY <1>1
<1>3. PICK a \in Seq(Bars) : a = Append(s, new)
  BY <1>1, AppendProperties
<1>4. Len(a) = m + 1 /\ DOMAIN a = 1 .. m + 1 /\ a[m + 1] = new /\ \A r \in 1 .. m : a[r] = s[r]
  BY <1>1, <1>2, <1>3
<1>5. PICK z \in Seq(Bars) :
        z = Sorted(a, "t") /\ Ascends(z, "t") /\ \E at : Arranges(z, a, m + 1, at)
  BY <1>4, BarsHaveTimes, SortedIs
<1>6. PICK at : Arranges(z, a, m + 1, at)
  BY <1>5
<1>7. /\ DOMAIN z = 1 .. m + 1
      /\ \A r \in 1 .. m + 1 : at[r] \in 1 .. m + 1 /\ z[r] = a[at[r]]
      /\ \A i \in 1 .. m + 1 : \E r \in 1 .. m + 1 : at[r] = i
      /\ \A r, u \in 1 .. m + 1 : at[r] = at[u] => r = u
  <2>1. /\ Len(z) = m + 1 /\ at \in [1 .. m + 1 -> 1 .. m + 1]
        /\ \A i \in 1 .. m + 1 : \E r \in 1 .. m + 1 : at[r] = i
        /\ \A r, u \in 1 .. m + 1 : at[r] = at[u] => r = u
        /\ \A r \in 1 .. m + 1 : z[r] = a[at[r]]
    BY <1>6 DEF Arranges
  <2>2. DOMAIN z = 1 .. m + 1
    BY <2>1
  <2> QED
    BY <2>1, <2>2
<1>8. ASSUME NEW i \in 1 .. m + 1, NEW j \in 1 .. m + 1, a[i].t = a[j].t PROVE i = j
  <2>1. (i \in 1 .. m \/ i = m + 1) /\ (j \in 1 .. m \/ j = m + 1)
    OBVIOUS
  <2>2. CASE i \in 1 .. m /\ j \in 1 .. m
    BY <1>1, <1>2, <1>4, <1>8, <2>2, RisesAscends
  <2>3. CASE i \in 1 .. m /\ j = m + 1
    BY <1>2, <1>4, <1>8, <2>3
  <2>4. CASE i = m + 1 /\ j \in 1 .. m
    BY <1>2, <1>4, <1>8, <2>4
  <2> QED
    BY <2>1, <2>2, <2>3, <2>4
<1>9. Rises(z)
  <2>1. ASSUME NEW r \in 1 .. m + 1, NEW u \in 1 .. m + 1, z[r].t = z[u].t PROVE r = u
    <3>1. PICK x \in 1 .. m + 1 : x = at[r] /\ z[r] = a[x]
      BY <1>7
    <3>2. PICK y \in 1 .. m + 1 : y = at[u] /\ z[u] = a[y]
      BY <1>7
    <3>3. x = y
      BY <1>8, <2>1, <3>1, <3>2
    <3>4. at[r] = at[u]
      BY <3>1, <3>2, <3>3
    <3> QED
      BY <1>7, <3>4
  <2> QED
    BY <1>5, <1>7, <2>1, RisesAscends
<1>10. z \in Frames
  <2>1. z # << >>
    BY <1>2, <1>7
  <2> QED
    BY <2>1 DEF Frames
<1>11. /\ b \in Frames /\ Rises(b)
       /\ \A j \in DOMAIN b : \E i \in DOMAIN z : b[j] = z[i]
       /\ \A i \in DOMAIN z : z[i].t >= b[1].t => \E j \in DOMAIN b : b[j] = z[i]
  <2>1. PICK n \in Nat \ {0} : n = Limit
    BY SmcEngineAssumption
  <2>2. b = LastN(z, n)
    BY <1>3, <1>5, <2>1
  <2> QED
    BY <1>9, <1>10, <2>2, LastNRises
<1>12. ASSUME NEW j \in DOMAIN b PROVE b[j] = new \/ \E i \in DOMAIN s : b[j] = s[i]
  <2>1. PICK r \in 1 .. m + 1 : b[j] = z[r]
    BY <1>7, <1>11
  <2>2. at[r] \in 1 .. m + 1 /\ b[j] = a[at[r]]
    BY <1>7, <2>1
  <2>3. at[r] = m + 1 \/ at[r] \in 1 .. m
    BY <2>2
  <2> QED
    BY <1>2, <1>4, <2>2, <2>3
<1>13. ASSUME NEW i \in DOMAIN s, s[i].t >= b[1].t PROVE \E j \in DOMAIN b : b[j] = s[i]
  <2>1. i \in 1 .. m
    BY <1>2
  <2>2. i \in 1 .. m + 1 /\ a[i] = s[i]
    BY <1>4, <2>1
  <2>3. PICK r \in 1 .. m + 1 : at[r] = i
    BY <1>7, <2>2
  <2>4. r \in DOMAIN z /\ z[r] = s[i]
    BY <1>7, <2>2, <2>3
  <2>5. z[r].t >= b[1].t
    BY <1>13, <2>4
  <2>6. PICK j \in DOMAIN b : b[j] = z[r]
    BY <1>11, <2>4, <2>5
  <2> QED
    BY <2>4, <2>6
<1>14. b[1].t \in Nat /\ b[1].t >= s[1].t
  <2>1. 1 \in DOMAIN b /\ b \in Seq(Bars)
    BY <1>11 DEF Frames
  <2>2. \A i \in DOMAIN s : s[i].t \in Nat /\ i \in Nat
    BY <1>1, <1>2, BarsHaveTimes
  <2>3. \A i \in DOMAIN s : s[i].t >= s[1].t
    <3>1. ASSUME NEW i \in DOMAIN s PROVE s[i].t >= s[1].t
      <4>1. i = 1 \/ 1 < i
        BY <1>2
      <4> QED
        BY <1>2, <2>2, <4>1 DEF Rises
    <3> QED
      BY <3>1
  <2>4. new.t \in Nat /\ new.t >= s[1].t
    BY <1>2, <2>2, BarsHaveTimes
  <2> QED
    BY <1>12, <2>1, <2>2, <2>3, <2>4
<1>15. ASSUME NEW f \in Frames, Rises(f), Follows(s, f) PROVE Follows(b, f)
  <2>1. f \in Seq(Bars) /\ s[1].t \in Nat
    BY <1>1, <1>2, BarsHaveTimes DEF Frames
  <2>2. \A i \in DOMAIN f : f[i].t \in Nat
    BY <2>1, BarsHaveTimes
  <2>3. ASSUME NEW i \in DOMAIN f, f[i].t = new.t PROVE FALSE
    <3>1. f[i].t >= s[1].t
      BY <2>1, <2>2, <2>3
    <3>2. PICK j \in DOMAIN s : s[j] = f[i]
      BY <1>15, <3>1 DEF Follows
    <3> QED
      BY <2>3, <3>2
  <2>4. ASSUME NEW i \in DOMAIN f, NEW j \in DOMAIN b, f[i].t = b[j].t PROVE f[i] = b[j]
    <3>1. PICK k \in DOMAIN s : b[j] = s[k]
      BY <1>12, <2>3, <2>4
    <3> QED
      BY <1>15, <2>4, <3>1 DEF Follows
  <2>5. ASSUME NEW i \in DOMAIN f, f[i].t >= b[1].t PROVE \E j \in DOMAIN b : b[j] = f[i]
    <3>1. f[i].t >= s[1].t
      BY <1>14, <2>1, <2>2, <2>5
    <3>2. PICK k \in DOMAIN s : s[k] = f[i]
      BY <1>15, <3>1 DEF Follows
    <3>3. PICK j \in DOMAIN b : b[j] = s[k]
      BY <1>13, <2>5, <3>2
    <3> QED
      BY <3>2, <3>3
  <2> QED
    BY <2>4, <2>5 DEF Follows
<1> QED
  BY <1>11, <1>15
-----------------------------------------------------------------------------
(* A cycle.                                                                *)

LEMMA PreparedIs ==
  ASSUME NEW f \in Frames
  PROVE  Prepared(f) \in Frames /\ (Rises(f) => Prepared(f) = LastN(f, MaxLookback))
<1>1. f \in Seq(Bars) /\ f # << >>
  BY DEF Frames
<1>2. PICK n \in Nat \ {0} : n = MaxLookback
  BY SmcStructureAssumption
<1>3. PICK v : v = LastN(f, n)
  OBVIOUS
<1>4. v \in Seq(Bars) /\ Len(v) # 0
  <2>1. \E d \in Nat :
           /\ d = IF Len(f) > n THEN Len(f) - n ELSE 0
           /\ LastN(f, n) \in Seq(Bars) /\ Len(LastN(f, n)) = Len(f) - d
           /\ \A r \in 1 .. Len(f) - d : r + d \in DOMAIN f /\ LastN(f, n)[r] = f[r + d]
    BY <1>1, LastNIs
  <2>2. Len(f) \in Nat /\ Len(f) # 0
    BY <1>1
  <2> QED
    BY <1>3, <2>1, <2>2
<1>5. Prepared(f) = Sorted(v, "t")
  BY <1>2, <1>3 DEF Prepared
<1>6. PICK z \in Seq(Bars) : z = Sorted(v, "t") /\ \E at : Arranges(z, v, Len(v), at)
  BY <1>4, BarsHaveTimes, SortedIs
<1>7. z \in Frames
  <2>1. Len(z) = Len(v)
    BY <1>6 DEF Arranges
  <2>2. z # << >>
    BY <1>4, <2>1
  <2> QED
    BY <2>2 DEF Frames
<1>8. ASSUME Rises(f) PROVE Sorted(v, "t") = v
  <2>1. Rises(v)
    BY <1>3, <1>8, LastNRises
  <2>2. Ascends(v, "t")
    BY <1>4, <2>1, RisesAscends
  <2> QED
    BY <1>4, <2>2, BarsHaveTimes, SortedKeeps
<1> QED
  BY <1>2, <1>3, <1>5, <1>6, <1>7, <1>8

LEMMA StructureIs ==
  ASSUME NEW f \in Frames, NEW st, st = ComputeStructure(f)
  PROVE  \E w \in Frames :
           /\ w = Prepared(f)
           /\ st.swings = DetectSwings(w) /\ st.legs = BuildLegs(st.swings)
           /\ st.events = DetectEvents(w, st.legs) /\ st.end = Last(w).t
           /\ st.ote = BuildOteZones(w, st.legs, st.trend, DeriveBias(st.trend, st.events))
           /\ Lists(st.swings, w, DOMAIN w) /\ st.swings \in Seq(Swings)
           /\ st.legs \in Seq(Legs) /\ st.events \in Seq(EventRecords) /\ st.end \in Nat
<1>1. PICK w \in Frames : w = Prepared(f)
  BY PreparedIs
<1>2. /\ st.swings = DetectSwings(w) /\ st.legs = BuildLegs(st.swings)
      /\ st.events = DetectEvents(w, st.legs) /\ st.end = Last(w).t
      /\ st.ote = BuildOteZones(w, st.legs, st.trend, DeriveBias(st.trend, st.events))
  BY <1>1 DEF ComputeStructure
<1>3. w \in Seq(Bars) /\ w # << >>
  BY DEF Frames
<1>4. Lists(st.swings, w, DOMAIN w) /\ st.swings \in Seq(Swings)
  BY <1>2, <1>3, DetectSwingsIs DEF Lists
<1>5. st.legs \in Seq(Legs)
  BY <1>2, <1>4, BuildLegsIs
<1>6. st.events \in Seq(EventRecords)
  BY <1>2, <1>5, DetectEventsTells
<1>7. st.end \in Nat
  <2>1. w[Len(w)] \in Bars
    BY <1>3
  <2> QED
    BY <1>2, <2>1, BarsHaveTimes DEF Last
<1> QED
  BY <1>1, <1>2, <1>4, <1>5, <1>6, <1>7

LEMMA HintIs ==
  ASSUME NEW f, NEW p
  PROVE  /\ Hint(f, p).bars = f
         /\ Hint(f, p).structure = ComputeStructure(f)
         /\ Hint(f, p).history =
              UpdateHistory(p, Hint(f, p).structure.events, Hint(f, p).structure.end)
         /\ Hint(f, p).liquidity = ComputeLiquidity(f, Hint(f, p).structure)
  BY DEF Hint

(* A cycle keeps what it knew, unless that is old or superseded.           *)
LEMMA UpdateIs ==
  ASSUME NEW h \in Seq(EventRecords), Distinct(h), NEW events \in Seq(EventRecords), NEW now \in Nat
  PROVE  \E p \in Seq(EventRecords) :
           /\ p = UpdateHistory(h, events, now) /\ Ascends(p, "t") /\ Distinct(p)
           /\ \A e \in Range(h) \cup Range(events) :
                \/ HasKey(p, EventKey(e))
                \/ e.t < now - HistoryMinutes
                \/ Superseded(e, p)
<1>1. PICK g \in Seq(EventRecords) :
        g = FoldLeft(PutEvent, h, events) /\ Upserted(g, h, events, Len(events))
  BY UpsertKeeps
<1>2. Distinct(g)
  BY <1>1 DEF Upserted
<1>3. PICK p \in Seq(EventRecords) : p = Prune(g, now)
  BY <1>2, PruneKeeps
<1>4. /\ Ascends(p, "t") /\ Distinct(p)
      /\ \A e \in EventRecords : HasKey(g, EventKey(e)) =>
           HasKey(p, EventKey(e)) \/ e.t < now - HistoryMinutes \/ Superseded(e, p)
  BY <1>2, <1>3, PruneKeeps
<1>5. ASSUME NEW e \in Range(h) \cup Range(events) PROVE e \in EventRecords /\ HasKey(g, EventKey(e))
  <2>1. CASE e \in Range(h)
    <3>1. PICK i \in DOMAIN h : e = h[i]
      BY <2>1 DEF Range
    <3>2. HasKey(h, EventKey(e)) /\ e \in EventRecords
      BY <3>1 DEF HasKey
    <3> QED
      BY <1>1, <3>2 DEF Upserted
  <2>2. CASE e \in Range(events)
    <3>1. PICK i \in DOMAIN events : e = events[i]
      BY <2>2 DEF Range
    <3>2. i \in 1 .. Len(events) /\ e \in EventRecords
      BY <3>1
    <3> QED
      BY <1>1, <3>1, <3>2 DEF Upserted
  <2> QED
    BY <2>1, <2>2
<1>6. p = UpdateHistory(h, events, now)
  BY <1>1, <1>3 DEF UpdateHistory
<1> QED
  BY <1>4, <1>5, <1>6
-----------------------------------------------------------------------------
(* The inductive invariant.                                                *)

LEMMA InitInv == Init => EngineInv
<1> SUFFICES ASSUME Init PROVE EngineInv
  OBVIOUS
<1>1. PICK w \in Warmups : bars = LastN([i \in DOMAIN w |-> Bar(w[i], Epoch + i * BarMinutes)], Limit)
  BY DEF Init
<1>2. w \in Seq(Shapes) /\ w # << >>
  BY SmcEngineAssumption
<1>3. PICK m \in Nat : m = Len(w) /\ DOMAIN w = 1 .. m /\ m # 0
  BY <1>2
<1>4. PICK e \in Nat, n \in Nat, c \in Nat : e = Epoch /\ n = BarMinutes /\ c = Limit /\ n # 0 /\ c # 0
  BY SmcEngineAssumption
<1>5. PICK s : s = [i \in DOMAIN w |-> Bar(w[i], Epoch + i * BarMinutes)]
  OBVIOUS
<1>6. ASSUME NEW i \in 1 .. m PROVE s[i] \in Bars /\ s[i].t = e + i * n
  <2>1. e + i * n \in Nat
    BY <1>4
  <2>2. w[i] \in Shapes
    BY <1>2, <1>3
  <2>3. /\ w[i].o \in Nat /\ w[i].h \in Nat /\ w[i].l \in Nat /\ w[i].c \in Nat
        /\ w[i].l <= w[i].h
    <3>1. PICK x \in Shapes : x = w[i]
      BY <2>2
    <3>2. /\ x \in [o : Nat \ {0}, h : Nat \ {0}, l : Nat \ {0}, c : Nat \ {0}]
          /\ x.l <= Smaller(x.o, x.c) /\ Larger(x.o, x.c) <= x.h
      BY SmcEngineAssumption
    <3>3. PICK xo \in Nat, xh \in Nat, xl \in Nat, xc \in Nat :
            xo = x.o /\ xh = x.h /\ xl = x.l /\ xc = x.c
      BY <3>2
    <3>4. xl <= Smaller(xo, xc) /\ Larger(xo, xc) <= xh
      BY <3>2, <3>3
    <3>5. xl <= xh
      BY <3>4 DEF Smaller, Larger
    <3> QED
      BY <3>1, <3>3, <3>5
  <2>4. s[i] = Bar(w[i], e + i * n)
    BY <1>3, <1>4, <1>5
  <2> QED
    BY <2>1, <2>3, <2>4 DEF Bar, Bars
<1>7. s \in Frames
  <2>1. s \in [1 .. m -> Bars]
    BY <1>3, <1>5, <1>6
  <2>2. s \in Seq(Bars) /\ s # << >>
    BY <1>3, <2>1
  <2> QED
    BY <2>2 DEF Frames
<1>8. Rises(s)
  <2>1. ASSUME NEW i \in 1 .. m, NEW j \in 1 .. m, i < j PROVE s[i].t < s[j].t
    <3>1. PICK d \in Nat : j = i + d /\ d # 0
      <4>1. j - i \in Nat /\ j = i + (j - i) /\ j - i # 0
        BY <2>1
      <4> QED
        BY <4>1
    <3>2. j * n = i * n + d * n
      BY <3>1
    <3>3. d * n > 0
      BY <1>4, <3>1
    <3>4. i * n \in Nat /\ j * n \in Nat /\ d * n \in Nat
      BY <1>4
    <3> QED
      BY <1>6, <3>2, <3>3, <3>4
  <2>2. DOMAIN s = 1 .. m
    BY <1>3, <1>5
  <2> QED
    BY <2>1, <2>2 DEF Rises
<1>9. bars = LastN(s, c)
  BY <1>1, <1>4, <1>5
<1>10. bars \in Frames /\ Rises(bars)
  BY <1>4, <1>7, <1>8, <1>9, LastNRises
<1>11. history = << >> /\ hint = NoHint
  BY DEF Init
<1> QED
  BY <1>10, <1>11 DEF EngineInv, Distinct

(* What Arrive asks of a bar, and what it does to the invariant.           *)
LEMMA ArriveInv ==
  ASSUME EngineInv, NEW new \in Bars, new.t > bars[1].t,
         \A i \in DOMAIN bars : bars[i].t # new.t, Arrive(new)
  PROVE  EngineInv'
<1>1. bars \in Frames /\ Rises(bars)
  BY DEF EngineInv
<1>2. PICK b : b = LastN(Sorted(Append(bars, new), "t"), Limit) /\ b = bars'
  BY DEF Arrive
<1>3. b \in Frames /\ Rises(b) /\ \A f \in Frames : Rises(f) /\ Follows(bars, f) => Follows(b, f)
  BY <1>1, <1>2, ArriveIs
<1>4. history' = history /\ hint' = hint
  BY DEF Arrive
<1>5. ASSUME hint # NoHint
      PROVE  \E f \in Frames, p \in Seq(EventRecords) : hint = Hint(f, p) /\ Rises(f) /\ Follows(b, f)
  <2>1. PICK f \in Frames, p \in Seq(EventRecords) : hint = Hint(f, p) /\ Rises(f) /\ Follows(bars, f)
    BY <1>5 DEF EngineInv
  <2> QED
    BY <1>3, <2>1
<1>6. history \in Seq(EventRecords) /\ Distinct(history)
  BY DEF EngineInv
<1> QED
  BY <1>2, <1>3, <1>4, <1>5, <1>6 DEF EngineInv

LEMMA NewestBar ==
  ASSUME NEW s \in Frames, Rises(s), NEW t \in Nat, t > Last(s).t
  PROVE  t > s[1].t /\ \A i \in DOMAIN s : s[i].t # t
<1>1. s \in Seq(Bars) /\ s # << >>
  BY DEF Frames
<1>2. PICK m \in Nat : m = Len(s) /\ DOMAIN s = 1 .. m /\ m # 0
  BY <1>1
<1>3. Last(s) = s[m] /\ m \in DOMAIN s /\ 1 \in DOMAIN s
  BY <1>2 DEF Last
<1>4. \A i \in DOMAIN s : s[i].t \in Nat
  BY <1>1, BarsHaveTimes
<1>5. ASSUME NEW i \in DOMAIN s PROVE s[i].t < t
  <2>1. i = m \/ i < m
    BY <1>2
  <2>2. s[i].t <= s[m].t
    BY <1>3, <1>4, <2>1 DEF Rises
  <2> QED
    BY <1>3, <1>4, <2>2
<1> QED
  BY <1>3, <1>4, <1>5

LEMMA BarIs ==
  ASSUME NEW shape \in Shapes, NEW t \in Nat
  PROVE  Bar(shape, t) \in Bars /\ Bar(shape, t).t = t
<1>1. /\ shape \in [o : Nat \ {0}, h : Nat \ {0}, l : Nat \ {0}, c : Nat \ {0}]
      /\ shape.l <= Smaller(shape.o, shape.c) /\ Larger(shape.o, shape.c) <= shape.h
  BY SmcEngineAssumption
<1>2. PICK xo \in Nat, xh \in Nat, xl \in Nat, xc \in Nat :
        xo = shape.o /\ xh = shape.h /\ xl = shape.l /\ xc = shape.c
  BY <1>1
<1>3. xl <= Smaller(xo, xc) /\ Larger(xo, xc) <= xh
  BY <1>1, <1>2
<1>4. xl <= xh
  BY <1>3 DEF Smaller, Larger
<1> QED
  BY <1>2, <1>4 DEF Bar, Bars

LEMMA SnapshotInv == ASSUME EngineInv, ProcessSnapshot PROVE EngineInv'
<1>1. PICK new : new = Hint(bars, history) /\ hint' = new /\ history' = new.history /\ bars' = bars
  BY DEF ProcessSnapshot
<1>2. bars \in Frames /\ Rises(bars) /\ history \in Seq(EventRecords) /\ Distinct(history)
  BY DEF EngineInv
<1>3. PICK st : st = new.structure /\ st = ComputeStructure(bars)
  BY <1>1, HintIs
<1>4. st.events \in Seq(EventRecords) /\ st.end \in Nat
  BY <1>2, <1>3, StructureIs
<1>5. history' = UpdateHistory(history, st.events, st.end)
  BY <1>1, <1>3, HintIs
<1>6. history' \in Seq(EventRecords) /\ Distinct(history')
  BY <1>2, <1>4, <1>5, UpdateIs
<1>7. Follows(bars, bars)
  <2>1. bars \in Seq(Bars)
    BY <1>2 DEF Frames
  <2> QED
    BY <1>2, <2>1, RisesAscends DEF Follows
<1> QED
  BY <1>1, <1>2, <1>6, <1>7 DEF EngineInv

LEMMA NextInv == ASSUME EngineInv, [Next]_vars PROVE EngineInv'
<1>1. bars \in Frames /\ Rises(bars)
  BY DEF EngineInv
<1>2. bars \in Seq(Bars) /\ bars # << >>
  BY <1>1 DEF Frames
<1>3. PICK n \in Nat : n = BarMinutes /\ n # 0
  BY SmcEngineAssumption
<1>4. PICK t \in Nat : t = Last(bars).t
  <2>1. Len(bars) \in DOMAIN bars
    BY <1>2
  <2> QED
    BY <1>2, <2>1, BarsHaveTimes DEF Last
<1>5. ASSUME NEW shape \in Shapes, NEW later \in Nat, later > t, Arrive(Bar(shape, later)) PROVE EngineInv'
  <2>1. PICK new \in Bars : new = Bar(shape, later) /\ new.t = later
    BY BarIs
  <2>2. new.t > bars[1].t /\ \A i \in DOMAIN bars : bars[i].t # new.t
    BY <1>1, <1>4, <1>5, <2>1, NewestBar
  <2> QED
    BY <1>5, <2>1, <2>2, ArriveInv
<1>6. ASSUME NEW shape \in Shapes, NewBar(shape) \/ MissedCycle(shape) PROVE EngineInv'
  <2>1. t + n \in Nat /\ t + n > t
    BY <1>3
  <2>2. Arrive(Bar(shape, t + n))
    BY <1>3, <1>4, <1>6 DEF NewBar, MissedCycle
  <2> QED
    BY <1>5, <2>1, <2>2
<1>7. ASSUME NEW shape \in Shapes, SkippedBar(shape) PROVE EngineInv'
  <2>1. t + 2 * n \in Nat /\ t + 2 * n > t
    BY <1>3
  <2>2. Arrive(Bar(shape, t + 2 * n))
    BY <1>3, <1>4, <1>7 DEF SkippedBar
  <2> QED
    BY <1>5, <2>1, <2>2
<1>8. ASSUME NEW shape \in Shapes, LateBar(shape) PROVE EngineInv'
  <2>1. PICK i \in 1 .. Len(bars) - 1 :
          bars[i + 1].t > bars[i].t + n /\ Arrive(Bar(shape, bars[i].t + n))
    BY <1>3, <1>8 DEF LateBar
  <2>2. PICK m \in Nat : m = Len(bars) /\ DOMAIN bars = 1 .. m
    BY <1>2
  <2>3. i \in DOMAIN bars /\ i + 1 \in DOMAIN bars /\ 1 \in DOMAIN bars
    BY <2>1, <2>2
  <2>4. \A j \in DOMAIN bars : bars[j].t \in Nat
    BY <1>2, BarsHaveTimes
  <2>5. PICK x \in Nat, y \in Nat : x = bars[i].t /\ y = bars[i + 1].t
    BY <2>3, <2>4
  <2>6. PICK new \in Bars : new = Bar(shape, x + n) /\ new.t = x + n
    BY BarIs
  <2>7. ASSUME NEW j \in DOMAIN bars PROVE bars[j].t # x + n
    <3>1. j = i \/ j = i + 1 \/ j < i \/ i + 1 < j
      BY <2>1, <2>2
    <3>2. bars[j].t <= x \/ bars[j].t >= y
      BY <1>1, <2>3, <2>4, <2>5, <3>1 DEF Rises
    <3> QED
      BY <1>3, <2>1, <2>4, <2>5, <3>2
  <2>8. x + n > bars[1].t
    <3>1. i = 1 \/ 1 < i
      BY <2>1, <2>2
    <3>2. bars[1].t <= x
      BY <1>1, <2>3, <2>4, <2>5, <3>1 DEF Rises
    <3> QED
      BY <1>3, <2>3, <2>4, <3>2
  <2>9. Arrive(new)
    BY <2>1, <2>5, <2>6
  <2> QED
    BY <2>6, <2>7, <2>8, <2>9, ArriveInv
<1>9. ASSUME Restart PROVE EngineInv'
  BY <1>9 DEF Restart, EngineInv, Distinct
<1>10. ASSUME UNCHANGED vars PROVE EngineInv'
  BY <1>10 DEF vars, EngineInv
<1> QED
  BY <1>6, <1>7, <1>8, <1>9, <1>10, SnapshotInv DEF Next

(* The bars, the history and the last hint hold together: bars in strict   *)
(* order, no event twice, nothing that a hint was computed from changed.   *)
THEOREM EngineHolds == Spec => []EngineInv
<1>1. EngineInv /\ [Next]_vars => EngineInv'
  BY NextInv
<1> QED
  BY <1>1, InitInv, PTL DEF Spec
-----------------------------------------------------------------------------
(* Properties.                                                             *)

(* The events of a hint tell a story: CHOCH exactly where the direction    *)
(* turns, for every series of bars.                                        *)
THEOREM EventsTurn == Spec => []ChochTurns
<1>1. EngineInv => ChochTurns
  <2> SUFFICES ASSUME EngineInv, hint # NoHint
               PROVE  \A i \in DOMAIN hint.structure.events :
                        hint.structure.events[i].type = "CHOCH"
                          <=> i > 1 /\ hint.structure.events[i].dir # hint.structure.events[i - 1].dir
    BY DEF ChochTurns, Computed, Events
  <2>1. PICK f \in Frames : hint.structure = ComputeStructure(f)
    BY HintIs DEF EngineInv
  <2>2. PICK st : st = hint.structure
    OBVIOUS
  <2>3. PICK w \in Frames : st.events = DetectEvents(w, st.legs) /\ st.legs \in Seq(Legs)
    BY <2>1, <2>2, StructureIs
  <2>4. PICK acc \in Told : Story(acc) /\ acc.events = st.events
    BY <2>3, DetectEventsTells
  <2> QED
    BY <2>2, <2>4 DEF Story
<1> QED
  BY <1>1, EngineHolds, PTL

(* The history forgets only what is old or superseded, keeps its order and *)
(* holds nothing twice, for every limit of age and of entries.             *)
THEOREM HistoryIsKept == Spec => HistoryRemembers
<1> DEFINE P == hint' # NoHint /\ hint' # hint
                => /\ \A e \in Range(history) \cup Range(hint'.structure.events) :
                        \/ \E k \in DOMAIN history' : EventKey(history'[k]) = EventKey(e)
                        \/ e.t < hint'.structure.end - HistoryMinutes
                        \/ Superseded(e, history')
                   /\ \A i, j \in DOMAIN history' :
                        i < j => /\ history'[i].t <= history'[j].t
                                 /\ EventKey(history'[i]) # EventKey(history'[j])
<1>1. ASSUME EngineInv, [Next]_vars PROVE [P]_vars
  <2> SUFFICES ASSUME hint' # NoHint, hint' # hint
               PROVE  /\ \A e \in Range(history) \cup Range(hint'.structure.events) :
                           \/ \E k \in DOMAIN history' : EventKey(history'[k]) = EventKey(e)
                           \/ e.t < hint'.structure.end - HistoryMinutes
                           \/ Superseded(e, history')
                      /\ \A i, j \in DOMAIN history' :
                           i < j => /\ history'[i].t <= history'[j].t
                                    /\ EventKey(history'[i]) # EventKey(history'[j])
    OBVIOUS
  <2>1. ProcessSnapshot
    BY <1>1 DEF Next, NewBar, MissedCycle, SkippedBar, LateBar, Arrive, Restart, vars
  <2>2. PICK new : new = Hint(bars, history) /\ hint' = new /\ history' = new.history
    BY <2>1 DEF ProcessSnapshot
  <2>3. PICK st : st = new.structure /\ st = ComputeStructure(bars)
    BY <2>2, HintIs
  <2>4. bars \in Frames /\ history \in Seq(EventRecords) /\ Distinct(history)
    BY <1>1 DEF EngineInv
  <2>5. st.events \in Seq(EventRecords) /\ st.end \in Nat
    BY <2>3, <2>4, StructureIs
  <2>6. history' = UpdateHistory(history, st.events, st.end)
    BY <2>2, <2>3, HintIs
  <2>7. PICK p \in Seq(EventRecords) :
          /\ p = history' /\ Ascends(p, "t") /\ Distinct(p)
          /\ \A e \in Range(history) \cup Range(st.events) :
               \/ HasKey(p, EventKey(e))
               \/ e.t < st.end - HistoryMinutes
               \/ Superseded(e, p)
    BY <2>4, <2>5, <2>6, UpdateIs
  <2>8. ASSUME NEW i \in DOMAIN p, NEW j \in DOMAIN p, i < j
        PROVE  p[i].t <= p[j].t /\ EventKey(p[i]) # EventKey(p[j])
    <3>1. p[i]["t"] <= p[j]["t"]
      BY <2>7, <2>8 DEF Ascends
    <3>2. i # j
      BY <2>8
    <3> QED
      BY <2>7, <3>1, <3>2, RecordsHaveTimes DEF Distinct
  <2> QED
    BY <2>2, <2>3, <2>7, <2>8 DEF HasKey
<1>2. Spec => [][P]_vars
  BY <1>1, EngineHolds, PTL DEF Spec
<1> QED
  BY <1>2 DEF HistoryRemembers
-----------------------------------------------------------------------------
(* OTE zones.                                                              *)

LEMMA ChosenFrom ==
  ASSUME NEW S, NEW s \in Seq(S), NEW I, NEW o, o = Chosen(s, I)
  PROVE  o \in Seq(S) /\ \A r \in DOMAIN o : \E i \in DOMAIN s : i \in I /\ o[r] = s[i]
<1>1. o \in Seq(S)
  BY ChosenIs
<1>2. PICK at : Picks(o, s, I \cap DOMAIN s, at)
  BY ChosenIs
<1>3. ASSUME NEW r \in DOMAIN o PROVE \E i \in DOMAIN s : i \in I /\ o[r] = s[i]
  <2>1. r \in 1 .. Len(o)
    BY <1>1
  <2>2. at[r] \in I \cap DOMAIN s /\ o[r] = s[at[r]]
    BY <1>2, <2>1 DEF Picks
  <2> QED
    BY <2>2
<1> QED
  BY <1>1, <1>3

LEMMA LastNFrom ==
  ASSUME NEW S, NEW s \in Seq(S), NEW n \in Nat \ {0}, NEW o, o = LastN(s, n)
  PROVE  o \in Seq(S) /\ \A r \in DOMAIN o : \E i \in DOMAIN s : o[r] = s[i]
<1>1. PICK d \in Nat :
           /\ d = IF Len(s) > n THEN Len(s) - n ELSE 0
           /\ LastN(s, n) \in Seq(S) /\ Len(LastN(s, n)) = Len(s) - d
           /\ \A r \in 1 .. Len(s) - d : r + d \in DOMAIN s /\ LastN(s, n)[r] = s[r + d]
  BY LastNIs
<1>2. o \in Seq(S) /\ DOMAIN o = 1 .. Len(s) - d
  BY <1>1
<1> QED
  BY <1>1, <1>2

(* A function on 1 .. n has a greatest value.                              *)
LEMMA HasGreatest ==
  ASSUME NEW n \in Nat, NEW g \in [1 .. n -> Int], n # 0
  PROVE  \E x \in 1 .. n : \A j \in 1 .. n : g[j] <= g[x]
<1> DEFINE Can(k) == \E x \in 1 .. k : \A j \in 1 .. k : g[j] <= g[x]
           W == {k \in Nat : k # 0 /\ k <= n => Can(k)}
<1>1. 0 \in W
  OBVIOUS
<1>2. ASSUME NEW k \in Nat, k \in W PROVE k + 1 \in W
  <2> SUFFICES ASSUME k + 1 <= n PROVE Can(k + 1)
    <3> HIDE DEF Can
    <3> QED
      OBVIOUS
  <2>1. k + 1 \in 1 .. n /\ k + 1 \in 1 .. k + 1
    OBVIOUS
  <2>2. \A j \in 1 .. k + 1 : j \in 1 .. n /\ (j \in 1 .. k \/ j = k + 1) /\ g[j] \in Int
    BY <2>1
  <2>3. CASE k = 0
    <3>1. \A j \in 1 .. k + 1 : g[j] <= g[k + 1]
      BY <2>2, <2>3
    <3> QED
      BY <2>1, <3>1
  <2>4. CASE k # 0
    <3>1. Can(k)
      <4> HIDE DEF Can
      <4> QED
        BY <1>2, <2>4
    <3>2. PICK x \in 1 .. k : \A j \in 1 .. k : g[j] <= g[x]
      BY <3>1
    <3>3. x \in 1 .. k + 1
      OBVIOUS
    <3>4. CASE g[k + 1] <= g[x]
      <4>1. \A j \in 1 .. k + 1 : g[j] <= g[x]
        BY <2>2, <3>2, <3>4
      <4> QED
        BY <3>3, <4>1
    <3>5. CASE ~ (g[k + 1] <= g[x])
      <4>1. \A j \in 1 .. k + 1 : g[j] <= g[k + 1]
        <5>1. ASSUME NEW j \in 1 .. k + 1 PROVE g[j] <= g[k + 1]
          <6>1. j = k + 1 \/ g[j] <= g[x]
            BY <2>2, <3>2
          <6>2. g[j] \in Int /\ g[x] \in Int /\ g[k + 1] \in Int
            BY <2>1, <2>2, <3>3
          <6> QED
            BY <3>5, <6>1, <6>2
        <5> QED
          BY <5>1
      <4> QED
        BY <2>1, <4>1
    <3> QED
      BY <3>4, <3>5
  <2> QED
    BY <2>3, <2>4
<1>3. Nat \subseteq W
  <2> HIDE DEF W
  <2> QED
    BY <1>1, <1>2, NatSetInduction
<1>4. Can(n)
  <2> HIDE DEF Can
  <2> QED
    BY <1>3
<1> QED
  BY <1>4

(* i is a peak of g: nothing within a span of it is higher.                *)
Peak(g, n, span, i) ==
  /\ i \in 1 .. n /\ i > span /\ i <= n - span
  /\ \A j \in 1 .. n : j - i <= span /\ i - j <= span => g[j] <= g[i]

(* Between two peaks that a value in between exceeds lies another peak.    *)
LEMMA PeakBetween ==
  ASSUME NEW n \in Nat, NEW g \in [1 .. n -> Int], NEW span \in Nat,
         NEW k, NEW b, Peak(g, n, span, k), Peak(g, n, span, b),
         NEW a \in k + 1 .. b - 1, g[a] > g[b], g[b] >= g[k]
  PROVE  \E x \in k + 1 .. b - 1 : Peak(g, n, span, x)
<1>1. k \in 1 .. n /\ b \in 1 .. n /\ k < b /\ k > span /\ b <= n - span
  BY DEF Peak
<1>2. PICK m \in Nat : m = b - k - 1 /\ m # 0
  <2>1. b - k - 1 \in Nat /\ b - k - 1 # 0
    BY <1>1
  <2> QED
    BY <2>1
<1>3. \A j \in 1 .. m : k + j \in 1 .. n /\ k + j \in k + 1 .. b - 1
  BY <1>1, <1>2
<1> DEFINE f == [j \in 1 .. m |-> g[k + j]]
<1>4. f \in [1 .. m -> Int] /\ \A j \in 1 .. m : f[j] = g[k + j]
  BY <1>3
<1>5. PICK y \in 1 .. m : \A j \in 1 .. m : f[j] <= f[y]
  <2> HIDE DEF f
  <2> QED
    BY <1>2, <1>4, HasGreatest
<1>6. PICK x \in k + 1 .. b - 1 : x = k + y /\ x \in 1 .. n
  BY <1>3
<1>7. ASSUME NEW j \in k + 1 .. b - 1 PROVE j \in 1 .. n /\ g[j] <= g[x]
  <2>1. PICK z \in 1 .. m : z = j - k
    BY <1>1, <1>2
  <2>2. k + z = j
    BY <1>1, <2>1
  <2>3. f[z] <= f[y] /\ f[z] = g[j] /\ f[y] = g[x]
    BY <1>4, <1>5, <1>6, <2>2
  <2> QED
    BY <1>1, <2>3
<1>8. \A j \in 1 .. n : g[j] \in Int
  OBVIOUS
<1>9. g[x] > g[b] /\ g[x] > g[k]
  <2>1. g[a] <= g[x] /\ a \in 1 .. n
    BY <1>7
  <2> QED
    BY <1>1, <1>6, <1>8, <2>1
<1>10. ASSUME NEW j \in 1 .. n, j - x <= span, x - j <= span PROVE g[j] <= g[x]
  <2>1. CASE j \in k + 1 .. b - 1
    BY <1>7, <2>1
  <2>2. CASE j <= k
    <3>1. j - k <= span /\ k - j <= span
      BY <1>1, <1>6, <1>10, <2>2
    <3>2. g[j] <= g[k]
      BY <3>1 DEF Peak
    <3> QED
      BY <1>1, <1>6, <1>8, <1>9, <3>2
  <2>3. CASE j >= b
    <3>1. j - b <= span /\ b - j <= span
      BY <1>1, <1>6, <1>10, <2>3
    <3>2. g[j] <= g[b]
      BY <3>1 DEF Peak
    <3> QED
      BY <1>1, <1>6, <1>8, <1>9, <3>2
  <2> QED
    BY <1>1, <2>1, <2>2, <2>3
<1>11. x > span /\ x <= n - span
  BY <1>1, <1>6
<1> QED
  BY <1>6, <1>10, <1>11 DEF Peak

(* A swing high is a peak of the highs, a swing low one of the lows turned *)
(* around.                                                                 *)
Heights(w, kind) == [j \in 1 .. Len(w) |-> IF kind = "HIGH" THEN w[j].h ELSE 0 - w[j].l]

LEMMA TurnsArePeaks ==
  ASSUME NEW w \in Seq(Bars), NEW kind \in Kinds
  PROVE  /\ SwingSpan \in Nat /\ Heights(w, kind) \in [1 .. Len(w) -> Int]
         /\ \A i \in 1 .. Len(w) :
              Turns(w, i, kind) <=> Peak(Heights(w, kind), Len(w), SwingSpan, i)
<1>1. PICK n \in Nat : n = Len(w) /\ DOMAIN w = 1 .. n
  OBVIOUS
<1>2. PICK span \in Nat : span = SwingSpan
  BY SmcStructureAssumption DEF SwingSpan, Larger
<1>3. \A j \in 1 .. n : w[j].h \in Nat /\ w[j].l \in Nat
  BY <1>1 DEF Bars
<1>4. PICK g : g = Heights(w, kind)
  OBVIOUS
<1>5. /\ g \in [1 .. n -> Int]
      /\ kind = "HIGH" => \A j \in 1 .. n : g[j] = w[j].h
      /\ kind = "LOW" => \A j \in 1 .. n : g[j] = 0 - w[j].l
  BY <1>1, <1>3, <1>4 DEF Heights
<1>6. \A i \in 1 .. n : Neighbours(w, i) = {j \in 1 .. n : j - i <= span /\ i - j <= span}
  BY <1>1, <1>2 DEF Neighbours, Abs
<1>7. ASSUME NEW i \in 1 .. n PROVE Turns(w, i, kind) <=> Peak(g, n, span, i)
  <2>1. HasNeighbours(w, i) <=> i > span /\ i <= n - span
    BY <1>1, <1>2 DEF HasNeighbours
  <2>2. CASE kind = "HIGH"
    <3>1. (\A j \in Neighbours(w, i) : w[j].h <= w[i].h)
            <=> \A j \in 1 .. n : j - i <= span /\ i - j <= span => g[j] <= g[i]
      BY <1>5, <1>6, <2>2
    <3> QED
      BY <1>1, <2>1, <2>2, <3>1 DEF Turns, Peak
  <2>3. CASE kind = "LOW"
    <3>0. \A j \in 1 .. n : w[j].l >= w[i].l <=> g[j] <= g[i]
      BY <1>3, <1>5, <2>3
    <3>1. (\A j \in Neighbours(w, i) : w[j].l >= w[i].l)
            <=> \A j \in 1 .. n : j - i <= span /\ i - j <= span => g[j] <= g[i]
      BY <1>6, <3>0
    <3> QED
      BY <1>1, <2>1, <2>3, <3>1 DEF Turns, Peak
  <2> QED
    BY <2>2, <2>3 DEF Kinds
<1> QED
  BY <1>1, <1>2, <1>4, <1>5, <1>7

(* A leg that makes a higher high rises and one that makes a lower low     *)
(* falls: a bar beyond both its ends would hold a swing between them.      *)
LEMMA LegGoesItsWay ==
  ASSUME NEW w \in Seq(Bars), NEW s, Lists(s, w, DOMAIN w), NEW i \in 1 .. Len(s) - 1,
         Leg(s, i).label \in {"HH", "LL"}, Leg(s, i).to.price # Leg(s, i).from.price
  PROVE  IF Leg(s, i).label = "HH" THEN Leg(s, i).to.price > Leg(s, i).from.price
                                   ELSE Leg(s, i).to.price < Leg(s, i).from.price
<1>1. s \in Seq(Swings)
  BY DEF Lists
<1>2. PICK n \in Nat : n = Len(s) /\ DOMAIN s = 1 .. n /\ i \in 1 .. n /\ i + 1 \in 1 .. n
  BY <1>1
<1>3. PICK x \in Swings, y \in Swings : x = s[i] /\ y = s[i + 1]
  BY <1>1, <1>2
<1> DEFINE same == {j \in 1 .. i : s[j].kind = y.kind}
<1>4. PICK m : m = Max(same)
  OBVIOUS
<1>5. PICK ref : ref = s[m].price
  OBVIOUS
<1>6. PICK leg : leg = Leg(s, i)
  OBVIOUS
<1>7. /\ same # {} /\ leg.from = x /\ leg.to = y
      /\ leg.label = "HH" <=> y.kind = "HIGH"
      /\ leg.label = "HH" => y.price > ref
      /\ leg.label = "LL" => ~ (y.price > ref)
  <2>1. leg = IF same = {} THEN [from |-> x, to |-> y, label |-> "UNDEFINED", ref |-> 0]
              ELSE [from |-> x, to |-> y, ref |-> ref,
                    label |-> IF y.kind = "HIGH" THEN (IF y.price > ref THEN "HH" ELSE "LH")
                                                 ELSE (IF y.price > ref THEN "HL" ELSE "LL")]
    BY <1>3, <1>4, <1>5, <1>6 DEF Leg
  <2>2. leg.label \in {"HH", "LL"}
    BY <1>6
  <2> HIDE DEF same
  <2> QED
    BY <2>1, <2>2
<1>8. m \in same /\ \A j \in same : j <= m
  <2>1. same \in SUBSET (0 .. i)
    BY <1>2
  <2>2. same # {} /\ i \in Nat
    BY <1>2, <1>7
  <2> HIDE DEF same
  <2>3. Max(same) \in same /\ \A j \in same : j <= Max(same)
    BY <2>1, <2>2, GreatestNatural
  <2> QED
    BY <1>4, <2>3
<1>9. m \in 1 .. i /\ m \in 1 .. n /\ s[m].kind = y.kind
  BY <1>2, <1>8
<1>10. PICK z \in Swings : z = s[m] /\ z.kind = y.kind /\ z.price = ref
  BY <1>1, <1>2, <1>5, <1>9
<1>11. x.price \in Nat /\ y.price \in Nat /\ ref \in Nat /\ x.kind \in Kinds /\ y.kind \in Kinds
  BY <1>10 DEF Swings
<1>12. leg.label \in {"HH", "LL"} /\ y.price # x.price
  BY <1>6, <1>7
<1>13. CASE x.kind = y.kind
  <2>1. i \in same
    BY <1>2, <1>3, <1>13
  <2>2. m = i
    BY <1>2, <1>8, <1>9, <2>1
  <2>3. ref = x.price
    BY <1>3, <1>5, <2>2
  <2>4. leg.label = "HH" => y.price > x.price
    BY <1>7, <2>3
  <2>5. leg.label = "LL" => y.price < x.price
    BY <1>7, <1>11, <1>12, <2>3
  <2> QED
    BY <1>6, <1>7, <1>12, <2>4, <2>5
<1>14. CASE x.kind # y.kind
  <2>1. PICK a \in DOMAIN w : Turns(w, a, x.kind) /\ x = SwingOf(w, a, x.kind) /\ x.idx = a
    <3>1. PICK a \in DOMAIN w, kind \in Kinds : Turns(w, a, kind) /\ x = SwingOf(w, a, kind)
      BY <1>2, <1>3 DEF Lists
    <3> QED
      BY <3>1, SwingOfIs
  <2>2. PICK b \in DOMAIN w : Turns(w, b, y.kind) /\ y = SwingOf(w, b, y.kind) /\ y.idx = b
    <3>1. PICK b \in DOMAIN w, kind \in Kinds : Turns(w, b, kind) /\ y = SwingOf(w, b, kind)
      BY <1>2, <1>3 DEF Lists
    <3> QED
      BY <3>1, SwingOfIs
  <2>3. PICK k \in DOMAIN w : Turns(w, k, y.kind) /\ z = SwingOf(w, k, y.kind) /\ z.idx = k
    <3>1. PICK k \in DOMAIN w, kind \in Kinds : Turns(w, k, kind) /\ z = SwingOf(w, k, kind)
      BY <1>2, <1>9, <1>10 DEF Lists
    <3> QED
      BY <1>10, <3>1, SwingOfIs
  <2>4. PICK nw \in Nat : nw = Len(w) /\ DOMAIN w = 1 .. nw
    OBVIOUS
  <2>5. PICK span \in Nat : span = SwingSpan
    BY <1>11, TurnsArePeaks
  <2>6. PICK g \in [1 .. nw -> Int] : g = Heights(w, y.kind)
    BY <1>11, <2>4, TurnsArePeaks
  <2>7. \A q \in 1 .. nw : Turns(w, q, y.kind) <=> Peak(g, nw, span, q)
    BY <1>11, <2>4, <2>5, <2>6, TurnsArePeaks
  <2>8. \A q \in 1 .. nw : w[q].h \in Nat /\ w[q].l \in Nat /\ w[q].l <= w[q].h
    <3>1. ASSUME NEW q \in 1 .. nw PROVE w[q].h \in Nat /\ w[q].l \in Nat /\ w[q].l <= w[q].h
      <4>1. w[q] \in Bars
        BY <2>4
      <4> QED
        BY <4>1 DEF Bars
    <3> QED
      BY <3>1
  <2>9. SUFFICES ASSUME ~ (IF leg.label = "HH" THEN y.price > x.price ELSE y.price < x.price)
                 PROVE  FALSE
    BY <1>6, <1>7
  <2>10. g[a] > g[b] /\ g[b] >= g[k]
    <3>1. CASE leg.label = "HH"
      <4>1. y.kind = "HIGH" /\ x.kind = "LOW"
        BY <1>7, <1>11, <1>14, <3>1 DEF Kinds
      <4>2. y.price = w[b].h /\ ref = w[k].h /\ x.price = w[a].l
        BY <1>10, <2>1, <2>2, <2>3, <4>1 DEF SwingOf
      <4>3. g[a] = w[a].h /\ g[b] = w[b].h /\ g[k] = w[k].h
        BY <2>4, <2>6, <4>1 DEF Heights
      <4>4. y.price > ref /\ x.price > y.price
        BY <1>7, <1>11, <1>12, <2>9, <3>1
      <4> QED
        BY <2>4, <2>8, <4>2, <4>3, <4>4
    <3>2. CASE leg.label = "LL"
      <4>1. y.kind = "LOW" /\ x.kind = "HIGH"
        BY <1>7, <1>11, <1>14, <3>2 DEF Kinds
      <4>2. y.price = w[b].l /\ ref = w[k].l /\ x.price = w[a].h
        BY <1>10, <2>1, <2>2, <2>3, <4>1 DEF SwingOf
      <4>3. g[a] = 0 - w[a].l /\ g[b] = 0 - w[b].l /\ g[k] = 0 - w[k].l
        BY <2>4, <2>6, <4>1 DEF Heights
      <4>4. ~ (y.price > ref) /\ x.price < y.price
        BY <1>7, <1>11, <1>12, <2>9, <3>2
      <4>5. PICK la \in Nat, lb \in Nat, lk \in Nat, ha \in Nat :
              la = w[a].l /\ lb = w[b].l /\ lk = w[k].l /\ ha = w[a].h /\ la <= ha
        BY <2>4, <2>8
      <4>6. ~ (lb > lk) /\ ha < lb
        BY <4>2, <4>4, <4>5
      <4>7. 0 - la > 0 - lb /\ 0 - lb >= 0 - lk
        <5>1. la < lb /\ lb <= lk
          BY <4>5, <4>6
        <5>2. 0 - la > 0 - lb
          BY <5>1
        <5>3. 0 - lb >= 0 - lk
          BY <5>1
        <5> QED
          BY <5>2, <5>3
      <4> QED
        BY <4>3, <4>5, <4>7
    <3> QED
      BY <1>12, <3>1, <3>2
  <2>11. a # b /\ a # k
    <3>1. g[a] \in Int /\ g[b] \in Int /\ g[k] \in Int
      BY <2>4
    <3> QED
      BY <2>10, <3>1
  <2>12. \A r, u \in 1 .. n : r < u => s[r].idx <= s[u].idx
    <3>1. ASSUME NEW r \in 1 .. n, NEW u \in 1 .. n, r < u PROVE s[r].idx <= s[u].idx
      <4>1. Earlier(s[r], s[u])
        BY <1>2, <3>1 DEF Lists
      <4>2. s[r] \in Swings /\ s[u] \in Swings
        BY <1>1, <1>2
      <4>3. s[r].idx \in Nat /\ s[u].idx \in Nat
        BY <4>2 DEF Swings
      <4> QED
        BY <4>1, <4>3 DEF Earlier
    <3> QED
      BY <3>1
  <2>13. a <= b
    BY <1>2, <1>3, <2>1, <2>2, <2>12
  <2>14. k <= a
    <3>1. m < i
      BY <1>9, <1>3, <1>14, <1>2
    <3> QED
      BY <1>2, <1>3, <1>9, <1>10, <2>1, <2>3, <2>12, <3>1
  <2>15. a \in k + 1 .. b - 1
    BY <2>4, <2>11, <2>13, <2>14
  <2>16. PICK q \in k + 1 .. b - 1 : Peak(g, nw, span, q)
    BY <2>2, <2>3, <2>4, <2>7, <2>10, <2>15, PeakBetween
  <2>17. q \in DOMAIN w /\ Turns(w, q, y.kind)
    BY <2>4, <2>7, <2>16
  <2>18. PICK r \in 1 .. n : s[r] = SwingOf(w, q, y.kind)
    BY <1>2, <1>11, <2>17 DEF Lists
  <2>19. s[r].idx = q /\ s[r].kind = y.kind
    BY <1>11, <2>17, <2>18, SwingOfIs
  <2>20. r < i + 1
    <3>1. r = i + 1 \/ i + 1 < r => b <= q
      BY <1>2, <1>3, <2>2, <2>4, <2>12, <2>19
    <3> QED
      BY <1>2, <2>4, <2>16, <3>1
  <2>21. r \in same
    BY <1>2, <2>19, <2>20
  <2>22. r <= m
    BY <1>8, <2>21
  <2>23. q <= k
    <3>1. r = m \/ r < m
      BY <1>9, <2>22
    <3>2. s[m].idx = k
      BY <1>10, <2>3
    <3>3. CASE r = m
      BY <2>4, <2>19, <3>2, <3>3
    <3>4. CASE r < m
      BY <1>9, <2>12, <2>19, <3>2, <3>4
    <3> QED
      BY <3>1, <3>3, <3>4
  <2> QED
    BY <2>4, <2>16, <2>23
<1> QED
  BY <1>13, <1>14

(* The band an OTE zone cuts out of a leg that has a height.               *)
Back(p, q, u) == 100 * q - (q - p) * u

LEMMA BandInside ==
  ASSUME NEW p \in Nat, NEW q \in Nat, p # q, NEW u \in 0 .. 100, NEW v \in 0 .. 100, u < v,
         NEW a, a = Back(p, q, u), NEW b, b = Back(p, q, v)
  PROVE  /\ 100 * Smaller(p, q) <= Min({a, b}) /\ Min({a, b}) < Max({a, b})
         /\ Max({a, b}) <= 100 * Larger(p, q)
<1>0. a = 100 * q - (q - p) * u /\ b = 100 * q - (q - p) * v
  BY DEF Back
<1>1. a \in Int /\ b \in Int
  BY <1>0
<1>2. CASE p < q
  <2>1. PICK d \in Nat : d = q - p /\ d > 0 /\ q = p + d
    <3>1. q - p \in Nat /\ q - p > 0 /\ q = p + (q - p)
      BY <1>2
    <3> QED
      BY <3>1
  <2>2. d * u < d * v /\ d * v <= 100 * d /\ 0 <= d * u
    BY <2>1
  <2>3. d * u \in Int /\ d * v \in Int
    OBVIOUS
  <2>4. a = 100 * q - d * u /\ b = 100 * q - d * v
    BY <1>0, <2>1
  <2>5. b < a /\ 100 * p <= b /\ a <= 100 * q
    BY <2>1, <2>2, <2>3, <2>4
  <2>6. Min({a, b}) = b /\ Max({a, b}) = a
    BY <1>1, <2>5 DEF Min, Max
  <2>7. Smaller(p, q) = p /\ Larger(p, q) = q
    BY <1>2 DEF Smaller, Larger
  <2> QED
    BY <2>5, <2>6, <2>7
<1>3. CASE q < p
  <2>1. PICK d \in Nat : d = p - q /\ d > 0 /\ p = q + d
    <3>1. p - q \in Nat /\ p - q > 0 /\ p = q + (p - q)
      BY <1>3
    <3> QED
      BY <3>1
  <2>2. d * u < d * v /\ d * v <= 100 * d /\ 0 <= d * u
    BY <2>1
  <2>3. d * u \in Int /\ d * v \in Int
    OBVIOUS
  <2>4. a = 100 * q + d * u /\ b = 100 * q + d * v
    <3>1. q - p = 0 - d
      BY <2>1
    <3>2. (q - p) * u = 0 - d * u /\ (q - p) * v = 0 - d * v
      BY <3>1
    <3> QED
      BY <1>0, <2>3, <3>2
  <2>5. a < b /\ 100 * q <= a /\ b <= 100 * p
    BY <2>1, <2>2, <2>3, <2>4
  <2>6. Min({a, b}) = a /\ Max({a, b}) = b
    BY <1>1, <2>5 DEF Min, Max
  <2>7. Smaller(p, q) = q /\ Larger(p, q) = p
    BY <1>3 DEF Smaller, Larger
  <2> QED
    BY <2>5, <2>6, <2>7
<1> QED
  BY <1>2, <1>3

(* An OTE zone is cut from an impulse leg of the window.                   *)
LEMMA OteZonesAre ==
  ASSUME NEW w, NEW legs \in Seq(Legs), NEW trend, NEW bias,
         NEW z \in Range(BuildOteZones(w, legs, trend, bias))
  PROVE  /\ OteMin < OteMax
         /\ \E i \in DOMAIN legs : /\ z = OteZone(legs[i], bias.side)
                                   /\ ImpulseSide(legs[i]) # "none"
                                   /\ legs[i].to.price # legs[i].from.price
<1> DEFINE Usable(leg) ==
             /\ ImpulseSide(leg) # "none"
             /\ OteTrendOnly /\ AllowedSides(trend, bias.side) # {}
                  => ImpulseSide(leg) \in AllowedSides(trend, bias.side)
             /\ PassesAmplitude(w, leg)
             /\ leg.to.price # leg.from.price
           S == {OteZone(leg, bias.side) : leg \in {g \in Legs : \E i \in DOMAIN legs : g = legs[i] /\ Usable(g)}}
<1>1. PICK later : later = LegsAfter(legs, bias.choch)
  OBVIOUS
<1>2. later \in Seq(Legs) /\ \A r \in DOMAIN later : \E i \in DOMAIN legs : later[r] = legs[i]
  <2>1. CASE later = << >>
    BY <2>1
  <2>2. CASE later # << >>
    <3> DEFINE I == {i \in DOMAIN legs : legs[i].to.t >= bias.choch}
    <3>1. I # {} /\ later = SubSeq(legs, Min(I), Len(legs))
      BY <1>1, <2>2 DEF LegsAfter
    <3>2. PICK n \in Nat : n = Len(legs) /\ DOMAIN legs = 1 .. n
      OBVIOUS
    <3>3. PICK m : m = Min(I)
      OBVIOUS
    <3>4. m \in 1 .. n
      <4>1. I \in SUBSET Nat /\ I \subseteq 1 .. n
        BY <3>2
      <4> HIDE DEF I
      <4>2. PICK x \in I : \A y \in I : x <= y
        BY <3>1, <4>1, LeastNatural
      <4> QED
        BY <3>3, <4>1, <4>2 DEF Min
    <3> HIDE DEF I
    <3>5. later = SubSeq(legs, m, n)
      BY <3>1, <3>2, <3>3
    <3>6. \A i \in m .. n : legs[i] \in Legs
      BY <3>2, <3>4
    <3>7. /\ later \in Seq(Legs) /\ Len(later) = n - m + 1
          /\ \A r \in 1 .. n - m + 1 : later[r] = legs[m + r - 1]
      BY <3>2, <3>4, <3>5, <3>6, SubSeqProperties
    <3>8. ASSUME NEW r \in DOMAIN later PROVE \E i \in DOMAIN legs : later[r] = legs[i]
      <4>1. r \in 1 .. n - m + 1
        BY <3>2, <3>4, <3>7
      <4>2. m + r - 1 \in DOMAIN legs
        BY <3>2, <3>4, <4>1
      <4> QED
        BY <3>7, <4>1, <4>2
    <3> QED
      BY <3>7, <3>8
  <2> QED
    BY <2>1, <2>2
<1>3. PICK legsIn : legsIn = Chosen(later, {i \in DOMAIN later : Usable(later[i])})
  OBVIOUS
<1>4. legsIn \in Seq(Legs) /\ \A r \in DOMAIN legsIn : \E i \in DOMAIN legs : legsIn[r] = legs[i] /\ Usable(legs[i])
  <2> DEFINE I == {i \in DOMAIN later : Usable(later[i])}
  <2> HIDE DEF Usable
  <2>1. /\ legsIn \in Seq(Legs)
        /\ \A r \in DOMAIN legsIn : \E i \in DOMAIN later : i \in I /\ legsIn[r] = later[i]
    <3> HIDE DEF I
    <3>1. legsIn = Chosen(later, I)
      BY <1>3 DEF I
    <3> QED
      BY <1>2, <3>1, ChosenFrom
  <2>2. ASSUME NEW r \in DOMAIN legsIn
        PROVE  \E i \in DOMAIN legs : legsIn[r] = legs[i] /\ Usable(legs[i])
    <3>1. PICK j \in DOMAIN later : j \in I /\ legsIn[r] = later[j]
      BY <2>1
    <3>2. Usable(later[j])
      BY <3>1
    <3>3. PICK i \in DOMAIN legs : later[j] = legs[i]
      BY <1>2
    <3> QED
      BY <3>1, <3>2, <3>3
  <2> QED
    BY <2>1, <2>2
<1>5. PICK zones : zones = [i \in DOMAIN legsIn |-> OteZone(legsIn[i], bias.side)]
  OBVIOUS
<1>6. zones \in Seq(S)
  <2>1. ASSUME NEW i \in DOMAIN legsIn PROVE OteZone(legsIn[i], bias.side) \in S
    <3>1. PICK j \in DOMAIN legs : legsIn[i] = legs[j] /\ Usable(legs[j])
      BY <1>4
    <3>2. legsIn[i] \in Legs
      BY <1>4
    <3> HIDE DEF Usable
    <3> QED
      BY <3>1, <3>2
  <2>2. DOMAIN legsIn = 1 .. Len(legsIn) /\ Len(legsIn) \in Nat
    BY <1>4
  <2> HIDE DEF S
  <2> QED
    BY <1>5, <2>1, <2>2
<1> DEFINE Newest(dir) == LastN(Chosen(zones, {i \in DOMAIN zones : zones[i].dir = dir}), Larger(1, OtePerSide))
<1>7. ASSUME NEW dir PROVE Newest(dir) \in Seq(S)
  <2>1. PICK c \in Nat \ {0} : c = Larger(1, OtePerSide)
    BY SmcStructureAssumption DEF Larger
  <2>2. PICK I : I = {i \in DOMAIN zones : zones[i].dir = dir}
    OBVIOUS
  <2> HIDE DEF S
  <2>3. Chosen(zones, I) \in Seq(S)
    BY <1>6, ChosenFrom
  <2>4. LastN(Chosen(zones, I), c) \in Seq(S)
    BY <2>3, LastNFrom
  <2> QED
    BY <2>1, <2>2, <2>4
<1>8. PICK all : all = BuildOteZones(w, legs, trend, bias)
  OBVIOUS
<1>9. all = IF OteMin >= OteMax THEN << >> ELSE Newest("LONG") \o Newest("SHORT")
  BY <1>1, <1>3, <1>5, <1>8 DEF BuildOteZones
<1> HIDE DEF Newest
<1>10. PICK r \in DOMAIN all : z = all[r]
  BY <1>8 DEF Range
<1>11. all # << >>
  BY <1>10
<1>12. ~ (OteMin >= OteMax) /\ all = Newest("LONG") \o Newest("SHORT")
  BY <1>9, <1>11
<1>13. all \in Seq(S)
  <2> HIDE DEF S
  <2> QED
    BY <1>7, <1>12, ConcatProperties
<1>14. z \in S
  <2> HIDE DEF S
  <2> QED
    BY <1>10, <1>13
<1>15. OteMin < OteMax
  <2>1. OteMin \in Nat /\ OteMax \in Nat
    BY SmcStructureAssumption
  <2> QED
    BY <1>12, <2>1
<1>16. PICK i \in DOMAIN legs : z = OteZone(legs[i], bias.side) /\ Usable(legs[i])
  <2> HIDE DEF Usable
  <2> QED
    BY <1>14
<1> QED
  BY <1>15, <1>16

(* An OTE zone lies inside its leg, and its side, taken from the prices of *)
(* the leg, is that of the label, taken from other swings: for all bars,   *)
(* windows and bands.                                                      *)
THEOREM ZonesGoWithLegs == Spec => []OteWithLeg
<1>1. EngineInv => OteWithLeg
  <2> SUFFICES ASSUME EngineInv, hint # NoHint, NEW z \in Range(hint.structure.ote)
               PROVE  /\ z.dir = ImpulseSide(z.leg)
                      /\ 100 * Smaller(z.leg.from.price, z.leg.to.price) <= z.lo
                      /\ z.lo < z.hi
                      /\ z.hi <= 100 * Larger(z.leg.from.price, z.leg.to.price)
    BY DEF OteWithLeg, Computed
  <2>1. PICK f \in Frames : hint.structure = ComputeStructure(f)
    BY HintIs DEF EngineInv
  <2>2. PICK st : st = hint.structure
    OBVIOUS
  <2>3. PICK w \in Frames :
          /\ st.legs = BuildLegs(st.swings)
          /\ st.ote = BuildOteZones(w, st.legs, st.trend, DeriveBias(st.trend, st.events))
          /\ Lists(st.swings, w, DOMAIN w) /\ st.swings \in Seq(Swings) /\ st.legs \in Seq(Legs)
    BY <2>1, <2>2, StructureIs
  <2>4. PICK bias : bias = DeriveBias(st.trend, st.events)
    OBVIOUS
  <2>5. z \in Range(BuildOteZones(w, st.legs, st.trend, bias))
    BY <2>2, <2>3, <2>4
  <2>6. OteMin < OteMax /\ OteMin \in 0 .. 100 /\ OteMax \in 0 .. 100
    BY <2>3, <2>5, OteZonesAre, SmcStructureAssumption
  <2>7. PICK i \in DOMAIN st.legs :
          /\ z = OteZone(st.legs[i], bias.side)
          /\ ImpulseSide(st.legs[i]) # "none" /\ st.legs[i].to.price # st.legs[i].from.price
    BY <2>3, <2>5, OteZonesAre
  <2>8. PICK s : s = st.swings /\ s \in Seq(Swings) /\ Lists(s, w, DOMAIN w)
    BY <2>3
  <2>9. i \in 1 .. Len(s) - 1 /\ st.legs[i] = Leg(s, i)
    BY <2>3, <2>7, <2>8, BuildLegsIs
  <2>10. PICK leg \in Legs : leg = Leg(s, i) /\ leg = st.legs[i]
    BY <2>8, <2>9, LegIs
  <2>11. PICK p \in Nat, q \in Nat : p = leg.from.price /\ q = leg.to.price
    BY DEF Legs, Swings
  <2>12. p # q /\ leg.label \in {"HH", "LL"}
    BY <2>7, <2>10, <2>11 DEF ImpulseSide
  <2>13. w \in Seq(Bars)
    BY DEF Frames
  <2>14. IF leg.label = "HH" THEN q > p ELSE q < p
    BY <2>8, <2>9, <2>10, <2>11, <2>12, <2>13, LegGoesItsWay
  <2>15. z.leg = leg /\ z.dir = IF q > p THEN "LONG" ELSE "SHORT"
    BY <2>7, <2>10, <2>11 DEF OteZone
  <2>16. z.dir = ImpulseSide(leg)
    BY <2>11, <2>12, <2>14, <2>15 DEF ImpulseSide
  <2>17. PICK a : a = Back(p, q, OteMin)
    OBVIOUS
  <2>18. PICK b : b = Back(p, q, OteMax)
    OBVIOUS
  <2>19. z.lo = Min({a, b}) /\ z.hi = Max({a, b})
    BY <2>7, <2>10, <2>11, <2>17, <2>18 DEF OteZone, Retraced, Back
  <2>20. PICK u \in 0 .. 100, v \in 0 .. 100 : u = OteMin /\ v = OteMax /\ u < v
    BY <2>6
  <2>21. /\ 100 * Smaller(p, q) <= Min({a, b}) /\ Min({a, b}) < Max({a, b})
         /\ Max({a, b}) <= 100 * Larger(p, q)
    <3>1. a = Back(p, q, u) /\ b = Back(p, q, v)
      BY <2>17, <2>18, <2>20
    <3> QED
      BY <2>12, <2>20, <3>1, BandInside
  <2> QED
    BY <2>11, <2>15, <2>16, <2>19, <2>21
<1> QED
  BY <1>1, EngineHolds, PTL
-----------------------------------------------------------------------------
(* No repainting.                                                          *)

(* A frame that extends another one continues it without a gap.            *)
LEMMA FramesAlign ==
  ASSUME NEW f \in Frames, Rises(f), NEW b \in Frames, Rises(b), Follows(b, f), Extends(b, f),
         NEW z \in DOMAIN f, f[z].t = b[1].t
  PROVE  \A x \in DOMAIN b : x + z - 1 <= Len(f) => b[x] = f[x + z - 1]
<1>1. f \in Seq(Bars) /\ b \in Seq(Bars) /\ f # << >> /\ b # << >>
  BY DEF Frames
<1>2. PICK n \in Nat : n = Len(f) /\ DOMAIN f = 1 .. n /\ n # 0
  BY <1>1
<1>3. PICK m \in Nat : m = Len(b) /\ DOMAIN b = 1 .. m /\ m # 0
  BY <1>1
<1>4. /\ \A i \in 1 .. n : f[i].t \in Nat
      /\ \A i \in 1 .. m : b[i].t \in Nat
  BY <1>1, <1>2, <1>3, BarsHaveTimes
<1>5. z \in 1 .. n
  BY <1>2
<1>6. ASSUME NEW x \in 1 .. m
      PROVE  (\E i \in 1 .. n : b[x].t = f[i].t) \/ b[x].t > f[n].t
  <2>1. Last(f) = f[n]
    BY <1>2 DEF Last
  <2>2. b[x].t \in Times(b)
    BY <1>3 DEF Times
  <2>3. b[x].t \in Times(f) \/ b[x].t > f[n].t
    BY <2>1, <2>2 DEF Extends
  <2> QED
    BY <1>2, <2>3 DEF Times
<1> DEFINE Can(k) == b[k + 1] = f[k + z]
           W == {k \in Nat : k + 1 <= m /\ k + z <= n => Can(k)}
<1>7. 0 \in W
  <2>1. b[1] = f[z]
    <3>1. 1 \in DOMAIN b
      BY <1>3
    <3> QED
      BY <3>1 DEF Follows
  <2>2. 0 + 1 = 1 /\ 0 + z = z
    BY <1>5
  <2> QED
    BY <2>1, <2>2
<1>8. ASSUME NEW k \in Nat, k \in W PROVE k + 1 \in W
  <2> SUFFICES ASSUME (k + 1) + 1 <= m, (k + 1) + z <= n PROVE Can(k + 1)
    <3> HIDE DEF Can
    <3> QED
      OBVIOUS
  <2>1. Can(k)
    <3>1. k + 1 <= m /\ k + z <= n
      BY <1>2, <1>3, <1>5
    <3> HIDE DEF Can
    <3> QED
      BY <1>8, <3>1
  <2>2. PICK x \in 1 .. m : x = k + 1 /\ x + 1 \in 1 .. m
    BY <1>3
  <2>3. PICK i \in 1 .. n : i = k + z /\ i + 1 \in 1 .. n /\ (k + 1) + z = i + 1
    BY <1>2, <1>5
  <2>4. b[x] = f[i]
    BY <2>1, <2>2, <2>3
  <2>5. f[i + 1].t > f[i].t /\ b[x + 1].t > b[x].t
    BY <1>2, <1>3, <2>2, <2>3 DEF Rises
  <2>6. f[i + 1].t >= b[1].t
    <3>1. z <= i
      BY <1>5, <2>3
    <3>2. f[z].t <= f[i].t
      <4>1. z = i \/ z < i
        BY <1>5, <3>1
      <4> QED
        BY <1>2, <1>4, <1>5, <4>1 DEF Rises
    <3>3. f[z].t \in Nat /\ f[i].t \in Nat /\ f[i + 1].t \in Nat
      BY <1>4, <1>5, <2>3
    <3> QED
      BY <2>5, <3>2, <3>3
  <2>7. PICK y \in 1 .. m : b[y] = f[i + 1]
    BY <1>2, <1>3, <2>3, <2>6 DEF Follows
  <2>8. y > x
    <3>1. y = x \/ y < x => b[y].t <= b[x].t
      BY <1>3, <1>4 DEF Rises
    <3>2. b[y].t \in Nat /\ b[x].t \in Nat
      BY <1>4
    <3> QED
      BY <1>3, <2>4, <2>5, <2>7, <3>1, <3>2
  <2>9. b[x + 1].t <= f[i + 1].t
    <3>1. y = x + 1 \/ x + 1 < y
      BY <2>8
    <3>2. b[y].t \in Nat
      BY <1>4
    <3>3. x + 1 < y => b[x + 1].t < b[y].t
      BY <1>3, <2>2 DEF Rises
    <3>4. b[x + 1].t \in Nat
      BY <1>4, <2>2
    <3> QED
      BY <2>7, <3>1, <3>2, <3>3, <3>4
  <2>10. f[i + 1].t <= f[n].t
    <3>1. i + 1 = n \/ i + 1 < n
      BY <2>3
    <3> QED
      BY <1>2, <1>4, <2>3, <3>1 DEF Rises
  <2>11. PICK c \in 1 .. n : b[x + 1].t = f[c].t
    <3>1. n \in 1 .. n
      BY <1>2
    <3>2. ~ (b[x + 1].t > f[n].t)
      BY <1>4, <2>2, <2>3, <2>9, <2>10, <3>1
    <3> QED
      BY <1>6, <2>2, <3>2
  <2>12. f[i].t < f[c].t /\ f[c].t <= f[i + 1].t
    BY <2>4, <2>5, <2>9, <2>11
  <2>13. c = i + 1
    <3>1. f[c].t \in Nat /\ f[i].t \in Nat /\ f[i + 1].t \in Nat
      BY <1>4, <2>3
    <3>2. c < i => f[c].t < f[i].t
      BY <1>2 DEF Rises
    <3>3. i + 1 < c => f[i + 1].t < f[c].t
      BY <1>2, <2>3 DEF Rises
    <3>4. c # i
      BY <2>12, <3>1
    <3>5. ~ (c < i) /\ ~ (i + 1 < c)
      BY <2>12, <3>1, <3>2, <3>3
    <3> QED
      BY <3>4, <3>5
  <2>14. b[x + 1] = f[i + 1]
    BY <1>2, <1>3, <2>2, <2>3, <2>11, <2>13 DEF Follows
  <2> QED
    BY <2>2, <2>3, <2>14
<1>9. Nat \subseteq W
  <2> HIDE DEF W
  <2> QED
    BY <1>7, <1>8, NatSetInduction
<1>10. ASSUME NEW x \in 1 .. m, x + z - 1 <= n PROVE b[x] = f[x + z - 1]
  <2>1. PICK k \in Nat : k + 1 = x /\ k + z = x + z - 1
    <3>1. x - 1 \in Nat /\ (x - 1) + 1 = x /\ (x - 1) + z = x + z - 1
      BY <1>5
    <3> QED
      BY <3>1
  <2>2. k \in W /\ k + 1 <= m /\ k + z <= n
    BY <1>9, <1>10, <2>1
  <2>3. Can(k)
    <3> HIDE DEF Can
    <3> QED
      BY <2>2
  <2> QED
    BY <2>1, <2>3
<1> QED
  BY <1>2, <1>3, <1>10

(* Around i the window w is, bar by bar, what v is around j.               *)
Alike(w, i, v, j) ==
  /\ i \in DOMAIN w /\ HasNeighbours(w, i)
  /\ j \in DOMAIN v /\ HasNeighbours(v, j)
  /\ \A d \in -SwingSpan .. SwingSpan : w[i + d] = v[j + d]

LEMMA AlikeTurns ==
  ASSUME NEW w \in Seq(Bars), NEW v \in Seq(Bars), NEW i, NEW j, Alike(w, i, v, j),
         NEW kind \in Kinds, Turns(w, i, kind)
  PROVE  Turns(v, j, kind)
<1>1. PICK span \in Nat : span = SwingSpan
  BY TurnsArePeaks
<1>2. PICK n \in Nat : n = Len(w) /\ DOMAIN w = 1 .. n
  OBVIOUS
<1>3. PICK m \in Nat : m = Len(v) /\ DOMAIN v = 1 .. m
  OBVIOUS
<1>4. /\ i \in 1 .. n /\ i > span /\ i <= n - span
      /\ j \in 1 .. m /\ j > span /\ j <= m - span
      /\ \A d \in -span .. span : w[i + d] = v[j + d]
  BY <1>1, <1>2, <1>3 DEF Alike, HasNeighbours
<1>5. w[i] = v[j]
  <2>1. 0 \in -span .. span /\ i + 0 = i /\ j + 0 = j
    BY <1>4
  <2>2. w[i + 0] = v[j + 0]
    BY <1>4, <2>1
  <2> QED
    BY <2>1, <2>2
<1>6. ASSUME NEW y \in Neighbours(v, j) PROVE \E x \in Neighbours(w, i) : w[x] = v[y]
  <2>1. y \in 1 .. m /\ y - j <= span /\ j - y <= span
    BY <1>1, <1>3, <1>4 DEF Neighbours, Abs
  <2>2. PICK d \in -span .. span : d = y - j
    BY <1>4, <2>1
  <2>3. PICK x : x = i + d
    OBVIOUS
  <2>4. x \in 1 .. n /\ x - i <= span /\ i - x <= span /\ j + d = y
    BY <1>4, <2>1, <2>2, <2>3
  <2>5. x \in Neighbours(w, i)
    BY <1>1, <1>2, <1>4, <2>4 DEF Neighbours, Abs
  <2>6. w[i + d] = v[j + d]
    BY <1>4
  <2> QED
    BY <2>3, <2>4, <2>5, <2>6
<1>7. HasNeighbours(v, j) /\ j \in DOMAIN v
  BY DEF Alike
<1>8. kind = "HIGH" => \A y \in Neighbours(v, j) : v[y].h <= v[j].h
  BY <1>5, <1>6 DEF Turns
<1>9. kind = "LOW" => \A y \in Neighbours(v, j) : v[y].l >= v[j].l
  BY <1>5, <1>6 DEF Turns
<1> QED
  BY <1>7, <1>8, <1>9 DEF Turns

(* The window of a frame is its end, bar by bar.                           *)
Windows(w, f) ==
  \E d \in Nat :
    /\ w \in Seq(Bars) /\ Len(w) = Len(f) - d /\ DOMAIN w = 1 .. Len(f) - d
    /\ \A r \in 1 .. Len(f) - d : r + d \in 1 .. Len(f) /\ w[r] = f[r + d]

LEMMA WindowIs == ASSUME NEW f \in Frames, Rises(f) PROVE Windows(Prepared(f), f)
<1> DEFINE w == Prepared(f)
           n == Len(f)
<1>1. f \in Seq(Bars) /\ DOMAIN f = 1 .. n
  BY DEF Frames
<1>2. PICK c \in Nat \ {0} : c = MaxLookback
  BY SmcStructureAssumption
<1>3. w = LastN(f, c)
  BY <1>2, PreparedIs
<1>4. \E d \in Nat :
        /\ d = IF Len(f) > c THEN Len(f) - c ELSE 0
        /\ LastN(f, c) \in Seq(Bars) /\ Len(LastN(f, c)) = Len(f) - d
        /\ \A r \in 1 .. Len(f) - d : r + d \in DOMAIN f /\ LastN(f, c)[r] = f[r + d]
  BY <1>1, LastNIs
<1>5. PICK d \in Nat :
        /\ w \in Seq(Bars) /\ Len(w) = n - d
        /\ \A r \in 1 .. n - d : r + d \in 1 .. n /\ w[r] = f[r + d]
  BY <1>1, <1>3, <1>4
<1>6. DOMAIN w = 1 .. n - d
  BY <1>5
<1> QED
  BY <1>5, <1>6 DEF Windows

(* Two windows around the bars of one time, each with all its neighbours,  *)
(* are alike there.                                                        *)
LEMMA MeetAlike ==
  ASSUME NEW f \in Frames, Rises(f), NEW b \in Frames, Rises(b), Follows(b, f), Extends(b, f),
         NEW w, w = Prepared(f), NEW v, v = Prepared(b),
         NEW i \in DOMAIN w, HasNeighbours(w, i), NEW j \in DOMAIN v, HasNeighbours(v, j),
         w[i].t = v[j].t
  PROVE  Alike(w, i, v, j) /\ Alike(v, j, w, i)
<1>1. f \in Seq(Bars) /\ b \in Seq(Bars) /\ f # << >> /\ b # << >>
  BY DEF Frames
<1>2. PICK n \in Nat : n = Len(f) /\ DOMAIN f = 1 .. n /\ n # 0
  BY <1>1
<1>3. PICK m \in Nat : m = Len(b) /\ DOMAIN b = 1 .. m /\ m # 0
  BY <1>1
<1>6. PICK d \in Nat :
        /\ w \in Seq(Bars) /\ Len(w) = n - d /\ DOMAIN w = 1 .. n - d
        /\ \A r \in 1 .. n - d : r + d \in 1 .. n /\ w[r] = f[r + d]
  <2>1. Windows(Prepared(f), f)
    BY WindowIs
  <2> QED
    BY <1>2, <2>1 DEF Windows
<1>7. PICK e \in Nat :
        /\ v \in Seq(Bars) /\ Len(v) = m - e /\ DOMAIN v = 1 .. m - e
        /\ \A r \in 1 .. m - e : r + e \in 1 .. m /\ v[r] = b[r + e]
  <2>1. Windows(Prepared(b), b)
    BY WindowIs
  <2> QED
    BY <1>3, <2>1 DEF Windows
<1>8. i \in 1 .. n - d /\ j \in 1 .. m - e
  BY <1>6, <1>7
<1>9. PICK x \in 1 .. m : x = j + e /\ v[j] = b[x]
  BY <1>7, <1>8
<1>10. PICK y \in 1 .. n : y = i + d /\ w[i] = f[y]
  BY <1>6, <1>8
<1>11. /\ \A r \in 1 .. n : f[r].t \in Nat
       /\ \A r \in 1 .. m : b[r].t \in Nat
  BY <1>1, <1>2, <1>3, BarsHaveTimes
<1>12. f[y].t = b[x].t
  BY <1>9, <1>10
<1>13. f[y].t <= f[n].t
  <2>1. y = n \/ y < n
    BY <1>2
  <2>2. y < n => f[y].t < f[n].t
    BY <1>2 DEF Rises
  <2>3. f[y].t \in Nat /\ f[n].t \in Nat
    BY <1>2, <1>11
  <2> QED
    BY <2>1, <2>2, <2>3
<1>14. b[1].t <= b[x].t
  <2>1. x = 1 \/ 1 < x
    BY <1>3
  <2>2. 1 < x => b[1].t < b[x].t
    BY <1>3 DEF Rises
  <2>3. b[x].t \in Nat /\ b[1].t \in Nat
    BY <1>3, <1>11
  <2> QED
    BY <2>1, <2>2, <2>3
<1>15. PICK z \in DOMAIN f : f[z].t = b[1].t
  <2>1. Last(f) = f[n]
    BY <1>2 DEF Last
  <2>2. b[1].t \in Times(b)
    BY <1>3 DEF Times
  <2>3. b[1].t \in Times(f) \/ b[1].t > f[n].t
    BY <2>1, <2>2 DEF Extends
  <2>4. b[1].t \in Nat /\ f[n].t \in Nat /\ b[x].t \in Nat
    BY <1>2, <1>3, <1>11
  <2>5. b[1].t <= f[n].t
    BY <1>12, <1>13, <1>14, <2>4
  <2>6. b[1].t \in Times(f)
    BY <2>3, <2>4, <2>5
  <2> QED
    BY <2>6 DEF Times
<1>16. z \in 1 .. n
  BY <1>2, <1>15
<1>17. \A r \in 1 .. m : r + z - 1 <= n => b[r] = f[r + z - 1]
  <2>1. \A r \in DOMAIN b : r + z - 1 <= Len(f) => b[r] = f[r + z - 1]
    BY <1>15, FramesAlign
  <2> QED
    BY <1>2, <1>3, <2>1
<1>18. x + z - 1 <= n
  <2> SUFFICES ASSUME x + z - 1 > n PROVE FALSE
    BY <1>16
  <2>1. PICK r \in 1 .. m : r + z - 1 = n /\ r < x
    <3>1. n - z + 1 \in 1 .. m /\ (n - z + 1) + z - 1 = n /\ n - z + 1 < x
      BY <1>3, <1>9, <1>16
    <3> QED
      BY <3>1
  <2>2. b[r] = f[n]
    <3>1. r + z - 1 <= n
      BY <2>1
    <3> QED
      BY <1>17, <2>1, <3>1
  <2>3. b[r].t < b[x].t
    BY <1>3, <2>1 DEF Rises
  <2>4. f[n].t \in Nat /\ b[x].t \in Nat
    BY <1>2, <1>11
  <2> QED
    BY <1>12, <1>13, <2>2, <2>3, <2>4
<1>19. y = x + z - 1
  <2>1. PICK u \in 1 .. n : u = x + z - 1 /\ b[x] = f[u]
    <3>1. x + z - 1 \in 1 .. n
      BY <1>16, <1>18
    <3> QED
      BY <1>17, <1>18, <3>1
  <2>2. f[u].t = f[y].t
    BY <1>12, <2>1
  <2> QED
    BY <1>1, <1>2, <2>1, <2>2, RisesAscends
<1>20. PICK span \in Nat : span = SwingSpan
  BY SmcStructureAssumption DEF SwingSpan, Larger
<1>21. /\ i > span /\ i <= (n - d) - span
       /\ j > span /\ j <= (m - e) - span
  BY <1>6, <1>7, <1>20 DEF HasNeighbours
<1>22. ASSUME NEW k \in -span .. span PROVE w[i + k] = v[j + k]
  <2>1. PICK p \in 1 .. n - d : p = i + k
    BY <1>8, <1>21
  <2>2. PICK q \in 1 .. m - e : q = j + k
    BY <1>8, <1>21
  <2>3. p + d \in 1 .. n /\ w[p] = f[p + d]
    BY <1>6
  <2>4. q + e \in 1 .. m /\ v[q] = b[q + e]
    BY <1>7
  <2>5. (q + e) + z - 1 = p + d
    <3>1. x \in Int /\ y \in Int /\ z \in Int /\ i \in Int /\ j \in Int /\ k \in Int
      BY <1>8, <1>16
    <3>2. x = j + e /\ y = i + d /\ p = i + k /\ q = j + k
      BY <1>9, <1>10, <2>1, <2>2
    <3> QED
      BY <1>19, <3>1, <3>2
  <2>6. (q + e) + z - 1 <= n
    BY <2>3, <2>5
  <2>7. b[q + e] = f[(q + e) + z - 1]
    BY <1>17, <2>4, <2>6
  <2> QED
    BY <2>1, <2>2, <2>3, <2>4, <2>5, <2>7
<1> QED
  BY <1>20, <1>22 DEF Alike

(* A swing of one frame whose bar also has all its neighbours in the other *)
(* frame is a swing of that one.                                           *)
LEMMA SwingCarries ==
  ASSUME NEW g, NEW w \in Seq(Bars), Lists(g.structure.swings, w, DOMAIN w),
         NEW h, NEW v \in Seq(Bars), Lists(h.structure.swings, v, DOMAIN v),
         \A i \in DOMAIN w, j \in DOMAIN v :
           HasNeighbours(w, i) /\ HasNeighbours(v, j) /\ w[i].t = v[j].t => Alike(w, i, v, j),
         NEW s \in SwingsOf(g),
         NEW j \in DOMAIN v, HasNeighbours(v, j), s.t = v[j].t
  PROVE  s \in SwingsOf(h)
<1>1. PICK r \in DOMAIN g.structure.swings :
        s = [t |-> g.structure.swings[r].t, kind |-> g.structure.swings[r].kind]
  BY DEF SwingsOf, Range
<1>2. PICK i \in DOMAIN w, kind \in Kinds :
        Turns(w, i, kind) /\ g.structure.swings[r] = SwingOf(w, i, kind)
  BY DEF Lists
<1>3. s = [t |-> w[i].t, kind |-> kind]
  BY <1>1, <1>2 DEF SwingOf
<1>4. w[i].t = v[j].t /\ HasNeighbours(w, i)
  BY <1>2, <1>3 DEF Turns
<1>5. Turns(v, j, kind)
  BY <1>2, <1>4, AlikeTurns
<1>6. PICK u \in DOMAIN h.structure.swings : h.structure.swings[u] = SwingOf(v, j, kind)
  BY <1>5 DEF Lists
<1>7. h.structure.swings[u].t = w[i].t /\ h.structure.swings[u].kind = kind
  BY <1>4, <1>6 DEF SwingOf
<1> QED
  BY <1>3, <1>7 DEF SwingsOf, Range

LEMMA InnerIs ==
  ASSUME NEW f \in Frames, NEW w, w = Prepared(f), NEW t \in Inner(f)
  PROVE  \E i \in DOMAIN w : HasNeighbours(w, i) /\ t = w[i].t
<1>1. w \in Seq(Bars)
  BY PreparedIs DEF Frames
<1>2. PICK n \in Nat : n = Len(w) /\ DOMAIN w = 1 .. n
  BY <1>1
<1>3. PICK span \in Nat : span = SwingSpan
  BY SmcStructureAssumption DEF SwingSpan, Larger
<1>4. PICK i \in (span + 1) .. (n - span) : t = w[i].t
  BY <1>2, <1>3 DEF Inner
<1>5. i \in 1 .. n /\ i > span /\ i <= n - span
  BY <1>4
<1> QED
  BY <1>2, <1>3, <1>4, <1>5 DEF HasNeighbours

(* Nothing is repainted: between two hints whose frames continue each      *)
(* other, a swing neither vanishes nor appears where both windows see all  *)
(* its neighbours, whatever bars came, were missed or filled in.           *)
THEOREM SwingsStay == Spec => SwingsHold
<1> DEFINE P == Computed /\ hint' # NoHint /\ Extends(hint'.bars, hint.bars)
                => /\ \A s \in SwingsOf(hint) : s.t \in Inner(hint'.bars) => s \in SwingsOf(hint')
                   /\ \A s \in SwingsOf(hint') : s.t \in Inner(hint.bars) => s \in SwingsOf(hint)
<1>1. ASSUME EngineInv, [Next]_vars PROVE [P]_vars
  <2> SUFFICES ASSUME hint # NoHint, hint' # NoHint, hint' # hint, Extends(hint'.bars, hint.bars)
               PROVE  /\ \A s \in SwingsOf(hint) : s.t \in Inner(hint'.bars) => s \in SwingsOf(hint')
                      /\ \A s \in SwingsOf(hint') : s.t \in Inner(hint.bars) => s \in SwingsOf(hint)
    BY DEF Computed
  <2>1. ProcessSnapshot
    BY <1>1 DEF Next, NewBar, MissedCycle, SkippedBar, LateBar, Arrive, Restart, vars
  <2>2. PICK h : h = hint' /\ h = Hint(bars, history)
    BY <2>1 DEF ProcessSnapshot
  <2>3. PICK b \in Frames : b = bars /\ Rises(b)
    BY <1>1 DEF EngineInv
  <2>4. PICK g : g = hint
    OBVIOUS
  <2>5. PICK f \in Frames, p \in Seq(EventRecords) : g = Hint(f, p) /\ Rises(f) /\ Follows(b, f)
    BY <1>1, <2>3, <2>4 DEF EngineInv
  <2>6. g.bars = f /\ g.structure = ComputeStructure(f) /\ h.bars = b /\ h.structure = ComputeStructure(b)
    BY <2>2, <2>3, <2>5, HintIs
  <2>7. Extends(b, f)
    BY <2>2, <2>4, <2>6
  <2>8. PICK w \in Frames : w = Prepared(f) /\ Lists(g.structure.swings, w, DOMAIN w)
    BY <2>6, StructureIs
  <2>9. PICK v \in Frames : v = Prepared(b) /\ Lists(h.structure.swings, v, DOMAIN v)
    BY <2>6, StructureIs
  <2>10. w \in Seq(Bars) /\ v \in Seq(Bars)
    BY DEF Frames
  <2>11. ASSUME NEW i \in DOMAIN w, NEW j \in DOMAIN v,
                HasNeighbours(w, i), HasNeighbours(v, j), w[i].t = v[j].t
         PROVE  Alike(w, i, v, j) /\ Alike(v, j, w, i)
    BY <2>3, <2>5, <2>7, <2>8, <2>9, <2>11, MeetAlike
  <2>12. ASSUME NEW s \in SwingsOf(g), s.t \in Inner(b) PROVE s \in SwingsOf(h)
    <3>1. PICK j \in DOMAIN v : HasNeighbours(v, j) /\ s.t = v[j].t
      BY <2>9, <2>12, InnerIs
    <3> QED
      BY <2>8, <2>9, <2>10, <2>11, <3>1, SwingCarries
  <2>13. ASSUME NEW s \in SwingsOf(h), s.t \in Inner(f) PROVE s \in SwingsOf(g)
    <3>1. PICK i \in DOMAIN w : HasNeighbours(w, i) /\ s.t = w[i].t
      BY <2>8, <2>13, InnerIs
    <3>2. \A j \in DOMAIN v, k \in DOMAIN w :
            HasNeighbours(v, j) /\ HasNeighbours(w, k) /\ v[j].t = w[k].t => Alike(v, j, w, k)
      BY <2>11
    <3> QED
      BY <2>8, <2>9, <2>10, <3>1, <3>2, SwingCarries
  <2> QED
    BY <2>2, <2>4, <2>6, <2>12, <2>13
<1>2. Spec => [][P]_vars
  BY <1>1, EngineHolds, PTL DEF Spec
<1> QED
  BY <1>2 DEF SwingsHold
-----------------------------------------------------------------------------
(* Magnets.                                                                *)

(* A price far above the average of n prices with this sum.                *)
Beyond(p, sum, n) == Tolerance[2] * (p * n - sum) > Tolerance[1] * sum

LEMMA ToleranceIs == Tolerance[1] \in Nat /\ Tolerance[2] \in Nat /\ Tolerance[2] > 0
<1>1. EqTolerance[1] \in Nat /\ EqTolerance[2] \in Nat \ {0}
  BY SmcStructureAssumption
<1>2. Tolerance = EqTolerance \/ Tolerance = <<1, 1000>>
  BY DEF Tolerance, LargerFraction
<1> QED
  BY <1>1, <1>2

(* Of a price that is not below the average the tolerance asks just that.  *)
LEMMA FarIsBeyond ==
  ASSUME NEW p \in Nat, NEW sum \in Nat, NEW n \in Nat, sum <= p * n
  PROVE  WithinTolerance(p, sum, n) <=> ~ Beyond(p, sum, n)
<1>1. PICK a \in Nat, b \in Nat : a = Tolerance[1] /\ b = Tolerance[2]
  BY ToleranceIs
<1>2. PICK x \in Nat : x = p * n - sum
  <2>1. p * n \in Nat
    OBVIOUS
  <2>2. p * n - sum \in Nat
    BY <2>1
  <2> QED
    BY <2>2
<1>3. Abs(x) = x /\ Abs(sum) = sum
  BY DEF Abs
<1>4. b * x \in Nat /\ a * sum \in Nat
  OBVIOUS
<1> QED
  BY <1>1, <1>2, <1>3, <1>4 DEF WithinTolerance, Beyond

LEMMA FartherIsBeyond ==
  ASSUME NEW p \in Nat, NEW q \in Nat, p <= q, NEW sum \in Nat, NEW n \in Nat, Beyond(p, sum, n)
  PROVE  Beyond(q, sum, n)
<1>1. PICK a \in Nat, b \in Nat : a = Tolerance[1] /\ b = Tolerance[2]
  BY ToleranceIs
<1>2. PICK d \in Nat : q = p + d
  <2>1. q - p \in Nat /\ q = p + (q - p)
    OBVIOUS
  <2> QED
    BY <2>1
<1>3. PICK x \in Int, y \in Nat : x = p * n - sum /\ y = d * n
  OBVIOUS
<1>4. q * n - sum = x + y
  <2>1. q * n = p * n + d * n
    BY <1>2
  <2>2. p * n \in Nat /\ d * n \in Nat
    OBVIOUS
  <2> QED
    BY <1>3, <2>1, <2>2
<1>5. b * (x + y) = b * x + b * y /\ b * y \in Nat /\ b * x \in Int /\ a * sum \in Nat
  OBVIOUS
<1>6. b * x > a * sum
  BY <1>1, <1>3 DEF Beyond
<1>7. b * (x + y) > a * sum
  BY <1>5, <1>6
<1> QED
  BY <1>1, <1>4, <1>7 DEF Beyond

(* A price that is near may join, and is near then.                        *)
LEMMA JoinedIsNear ==
  ASSUME NEW p \in Nat, NEW sum \in Nat, NEW n \in Nat, ~ Beyond(p, sum, n)
  PROVE  ~ Beyond(p, sum + p, n + 1)
<1>1. PICK a \in Nat, b \in Nat : a = Tolerance[1] /\ b = Tolerance[2]
  BY ToleranceIs
<1>2. p * (n + 1) - (sum + p) = p * n - sum
  <2>1. p * (n + 1) = p * n + p
    OBVIOUS
  <2>2. p * n \in Nat
    OBVIOUS
  <2> QED
    BY <2>1, <2>2
<1>3. PICK x \in Int : x = p * n - sum
  OBVIOUS
<1>4. a * (sum + p) = a * sum + a * p /\ a * p \in Nat /\ a * sum \in Nat /\ b * x \in Int
  OBVIOUS
<1>5. b * x <= a * sum
  BY <1>1, <1>3, <1>4 DEF Beyond
<1>6. ~ (b * x > a * (sum + p))
  BY <1>4, <1>5
<1> QED
  BY <1>1, <1>2, <1>3, <1>6 DEF Beyond

LEMMA AloneIsNear == ASSUME NEW p \in Nat PROVE ~ Beyond(p, p, 1)
<1>1. PICK a \in Nat, b \in Nat : a = Tolerance[1] /\ b = Tolerance[2]
  BY ToleranceIs
<1>2. p * 1 - p = 0 /\ b * 0 = 0 /\ a * p \in Nat
  OBVIOUS
<1> QED
  BY <1>1, <1>2 DEF Beyond

LEMMA AverageIsBelow ==
  ASSUME NEW p \in Nat, NEW q \in Nat, p <= q, NEW sum \in Nat, NEW n \in Nat, sum <= p * n
  PROVE  sum <= q * n /\ sum + q <= q * (n + 1)
<1>1. PICK d \in Nat : q = p + d
  <2>1. q - p \in Nat /\ q = p + (q - p)
    OBVIOUS
  <2> QED
    BY <2>1
<1>2. q * n = p * n + d * n /\ q * (n + 1) = q * n + q
  BY <1>1
<1>3. p * n \in Nat /\ d * n \in Nat /\ q * n \in Nat
  OBVIOUS
<1> QED
  BY <1>2, <1>3
-----------------------------------------------------------------------------
(* The sum of a field.                                                     *)

Sums(a, q, field) == a[0] = 0 /\ \A k \in 1 .. Len(q) : a[k] = a[k - 1] + q[k][field]

LEMMA TotalSums ==
  ASSUME NEW S, NEW field, \A x \in S : x[field] \in Nat, NEW q \in Seq(S)
  PROVE  \E a \in [0 .. Len(q) -> Nat] : Sums(a, q, field) /\ a[Len(q)] = Total(q, field)
<1> DEFINE n == Len(q)
           A == Nat
           op == [x \in A \X S |-> x[1] + x[2][field]]
<1>1. n \in Nat /\ DOMAIN q = 1 .. n /\ \A i \in 1 .. n : q[i] \in S
  OBVIOUS
<1>2. 0 \in A /\ op \in [A \X S -> A]
  <2>1. \A x \in A \X S : x[1] \in Nat /\ x[2] \in S
    OBVIOUS
  <2>2. \A x \in A \X S : x[1] + x[2][field] \in A
    BY <2>1
  <2> QED
    BY <2>2
<1>3. \A o \in A, x \in S : op[<<o, x>>] = o + x[field]
  OBVIOUS
<1> HIDE DEF op
<1>4. PICK F : Folds(F, A, op, 0, q)
  <2> HIDE DEF A
  <2> QED
    BY <1>2, FoldExists
<1> DEFINE iter == CHOOSE f : f = [t \in SUBSET DOMAIN q |->
             IF t = {} THEN 0 ELSE f[t \ {Max(t)}] + q[Max(t)][field]]
<1>5. Total(q, field) = iter[DOMAIN q]
  BY Zenon DEF Total, FoldLeft, MapThenFoldSet
<1>6. \A t \in SUBSET DOMAIN q : t # {} => q[Max(t)] \in S /\ t \ {Max(t)} \in SUBSET DOMAIN q
  BY <1>1, MaxIsIn
<1>7. iter = [t \in SUBSET DOMAIN q |->
             IF t = {} THEN 0 ELSE iter[t \ {Max(t)}] + q[Max(t)][field]]
  <2>1. \A t \in SUBSET DOMAIN q : t # {} => F[t \ {Max(t)}] \in A
    <3> HIDE DEF A
    <3> QED
      BY <1>4, <1>6 DEF Folds
  <2>2. \A t \in SUBSET DOMAIN q : t # {} =>
          op[<<F[t \ {Max(t)}], q[Max(t)]>>] = F[t \ {Max(t)}] + q[Max(t)][field]
    <3> HIDE DEF A
    <3> QED
      BY <1>3, <1>6, <2>1
  <2>3. F = [t \in SUBSET DOMAIN q |->
             IF t = {} THEN 0 ELSE F[t \ {Max(t)}] + q[Max(t)][field]]
    <3> HIDE DEF A
    <3> QED
      BY <1>4, <2>2 DEF Folds
  <2> QED
    BY <2>3, Zenon
<1> HIDE DEF iter
<1>8. Steps(iter, A, op, 0, q)
  <2>1. iter[{}] = 0
    BY <1>7
  <2>2. \A t \in SUBSET DOMAIN q : t # {} /\ iter[t \ {Max(t)}] \in A
          => iter[t] = op[<<iter[t \ {Max(t)}], q[Max(t)]>>]
    <3> HIDE DEF A
    <3> QED
      BY <1>3, <1>6, <1>7
  <2> HIDE DEF A
  <2> QED
    BY <2>1, <2>2 DEF Steps
<1>9. PICK a \in [0 .. n -> A] : Reaches(a, op, 0, q) /\ a[n] = Total(q, field)
  <2>1. ComesTo(iter[DOMAIN q], A, op, 0, q)
    <3> HIDE DEF A
    <3> QED
      BY <1>2, <1>4, <1>8, FoldComesTo
  <2> HIDE DEF A
  <2> QED
    BY <1>5, <2>1 DEF ComesTo
<1>10. Sums(a, q, field)
  <2>1. \A k \in 1 .. n : k - 1 \in 0 .. n /\ q[k] \in S /\ a[k - 1] \in A
    <3>1. \A k \in 1 .. n : k - 1 \in 0 .. n
      BY <1>1
    <3> QED
      BY <1>1, <1>9, <3>1
  <2> HIDE DEF A
  <2> QED
    BY <1>3, <1>9, <2>1 DEF Reaches, Sums
<1> QED
  BY <1>9, <1>10

LEMMA SumsAgree ==
  ASSUME NEW q, NEW r, NEW field, NEW n \in Nat, n <= Len(q), n <= Len(r),
         Len(q) \in Nat, Len(r) \in Nat,
         \A k \in 1 .. n : q[k] = r[k],
         NEW a, Sums(a, q, field), NEW b, Sums(b, r, field)
  PROVE  a[n] = b[n]
<1> DEFINE W == {k \in Nat : k <= n => a[k] = b[k]}
<1>1. 0 \in W
  BY DEF Sums
<1>2. ASSUME NEW k \in Nat, k \in W PROVE k + 1 \in W
  <2> SUFFICES ASSUME k + 1 <= n PROVE a[k + 1] = b[k + 1]
    OBVIOUS
  <2>1. k <= n /\ k + 1 \in 1 .. n /\ k + 1 \in 1 .. Len(q) /\ k + 1 \in 1 .. Len(r) /\ (k + 1) - 1 = k
    OBVIOUS
  <2>2. a[k] = b[k]
    BY <1>2, <2>1
  <2>3. a[k + 1] = a[k] + q[k + 1][field] /\ b[k + 1] = b[k] + r[k + 1][field]
    BY <2>1 DEF Sums
  <2> QED
    BY <2>1, <2>2, <2>3
<1>3. Nat \subseteq W
  <2> HIDE DEF W
  <2> QED
    BY <1>1, <1>2, NatSetInduction
<1> QED
  BY <1>3

LEMMA TotalIs ==
  ASSUME NEW S, NEW field, \A x \in S : x[field] \in Nat, NEW q \in Seq(S), NEW x \in S
  PROVE  /\ Total(q, field) \in Nat
         /\ Total(Append(q, x), field) = Total(q, field) + x[field]
         /\ Total(<<x>>, field) = x[field]
<1>1. PICK n \in Nat : n = Len(q) /\ DOMAIN q = 1 .. n
  OBVIOUS
<1>2. PICK r \in Seq(S) : r = Append(q, x)
  BY AppendProperties
<1>3. Len(r) = n + 1 /\ r[n + 1] = x /\ \A k \in 1 .. n : r[k] = q[k]
  BY <1>1, <1>2
<1>4. PICK a \in [0 .. n -> Nat] : Sums(a, q, field) /\ a[n] = Total(q, field)
  <2>1. \E a \in [0 .. Len(q) -> Nat] : Sums(a, q, field) /\ a[Len(q)] = Total(q, field)
    BY TotalSums
  <2> QED
    BY <1>1, <2>1
<1>5. PICK b \in [0 .. n + 1 -> Nat] : Sums(b, r, field) /\ b[n + 1] = Total(r, field)
  <2>1. \E b \in [0 .. Len(r) -> Nat] : Sums(b, r, field) /\ b[Len(r)] = Total(r, field)
    BY TotalSums
  <2> QED
    BY <1>3, <2>1
<1>6. a[n] = b[n]
  <2>1. n <= Len(q) /\ n <= Len(r) /\ Len(q) \in Nat /\ Len(r) \in Nat
    BY <1>1, <1>3
  <2>2. \A k \in 1 .. n : q[k] = r[k]
    BY <1>3
  <2> QED
    BY <1>4, <1>5, <2>1, <2>2, SumsAgree
<1>7. b[n + 1] = b[n] + x[field]
  <2>1. n + 1 \in 1 .. Len(r) /\ (n + 1) - 1 = n
    BY <1>3
  <2> QED
    BY <1>3, <1>5, <2>1 DEF Sums
<1>8. Total(<<x>>, field) = x[field]
  <2>0. <<x>> \in Seq(S) /\ Len(<<x>>) = 1 /\ <<x>>[1] = x
    OBVIOUS
  <2>1. PICK s \in Seq(S) : s = <<x>> /\ Len(s) = 1 /\ s[1] = x
    BY <2>0
  <2>2. \E c \in [0 .. Len(s) -> Nat] : Sums(c, s, field) /\ c[Len(s)] = Total(s, field)
    BY TotalSums
  <2>3. PICK c : Sums(c, s, field) /\ c[1] = Total(s, field)
    BY <2>1, <2>2
  <2>4. c[1] = c[0] + x[field] /\ c[0] = 0
    BY <2>1, <2>3 DEF Sums
  <2>5. x[field] \in Nat
    OBVIOUS
  <2> QED
    BY <2>1, <2>3, <2>4, <2>5
<1>9. a[n] \in Nat
  BY <1>1, <1>4
<1> QED
  BY <1>2, <1>4, <1>5, <1>6, <1>7, <1>8, <1>9
-----------------------------------------------------------------------------
(* Clusters.                                                               *)

Crowds(S) == Seq(Seq(S) \ {<< >>})
IsNear(cs, x, field, k) == WithinTolerance(x[field], Total(cs[k], field), Len(cs[k]))

Grown(cs, k, x) == [cs EXCEPT ![k] = Append(@, x)]

(* x stands alone, or joins a cluster that it is near.                     *)
Joins(cs, x, field) ==
  \/ /\ \A k \in DOMAIN cs : ~ IsNear(cs, x, field, k)
     /\ Join(cs, x, field) = Append(cs, <<x>>)
  \/ \E k \in DOMAIN cs : IsNear(cs, x, field, k) /\ Join(cs, x, field) = Grown(cs, k, x)

LEMMA JoinIs == ASSUME NEW S, NEW field, NEW cs \in Crowds(S), NEW x \in S PROVE Joins(cs, x, field)
<1>1. PICK near : near = {k \in DOMAIN cs : IsNear(cs, x, field, k)}
  OBVIOUS
<1>2. Join(cs, x, field) = IF near = {} THEN Append(cs, <<x>>)
                           ELSE Grown(cs, Min(near), x)
  BY <1>1 DEF Join, IsNear, Grown
<1>3. ASSUME near # {} PROVE Min(near) \in near
  <2>1. cs \in Seq(Seq(S) \ {<< >>})
    BY DEF Crowds
  <2>2. near \in SUBSET Nat
    BY <1>1, <2>1
  <2>3. \E k \in near : \A m \in near : k <= m
    BY <1>3, <2>2, LeastNatural
  <2> QED
    BY <2>3 DEF Min
<1> QED
  BY <1>1, <1>2, <1>3 DEF Joins

LEMMA JoinFits ==
  ASSUME NEW S, NEW field, NEW cs \in Crowds(S), NEW x \in S
  PROVE  Join(cs, x, field) \in Crowds(S)
<1> DEFINE N == Seq(S) \ {<< >>}
<1>1. cs \in Seq(N)
  BY DEF Crowds
<1>2. <<x>> \in N
  OBVIOUS
<1>3. ASSUME NEW k \in DOMAIN cs PROVE Append(cs[k], x) \in N
  <2>1. cs[k] \in N
    BY <1>1
  <2>2. cs[k] \in Seq(S)
    BY <2>1
  <2>3. Append(cs[k], x) \in Seq(S) /\ Append(cs[k], x) # << >>
    BY <2>2, AppendProperties
  <2> QED
    BY <2>3
<1> HIDE DEF N
<1>4. Append(cs, <<x>>) \in Seq(N)
  BY <1>1, <1>2, AppendProperties
<1>5. ASSUME NEW k \in DOMAIN cs PROVE Grown(cs, k, x) \in Seq(N)
  <2>1. PICK n \in Nat : n = Len(cs) /\ DOMAIN cs = 1 .. n /\ cs \in [1 .. n -> N]
    BY <1>1
  <2>2. PICK y \in N : y = Append(cs[k], x)
    BY <1>3
  <2>3. [cs EXCEPT ![k] = y] \in [1 .. n -> N]
    BY <2>1
  <2>4. [cs EXCEPT ![k] = y] \in Seq(N)
    BY <2>1, <2>3
  <2> QED
    BY <2>2, <2>4 DEF Grown
<1>6. Join(cs, x, field) \in Seq(N)
  <2>1. \/ Join(cs, x, field) = Append(cs, <<x>>)
        \/ \E k \in DOMAIN cs : Join(cs, x, field) = Grown(cs, k, x)
    <3>1. Joins(cs, x, field)
      BY JoinIs
    <3> QED
      BY <3>1 DEF Joins
  <2>2. CASE Join(cs, x, field) = Append(cs, <<x>>)
    BY <1>4, <2>2, Zenon
  <2>3. CASE \E k \in DOMAIN cs : Join(cs, x, field) = Grown(cs, k, x)
    <3>1. PICK k \in DOMAIN cs : Join(cs, x, field) = Grown(cs, k, x)
      BY <2>3
    <3> QED
      BY <1>5, <3>1, Zenon
  <2> QED
    BY <2>1, <2>2, <2>3
<1> QED
  BY <1>6 DEF Crowds, N

Clusters(a, q, field) ==
  a[0] = << >> /\ \A k \in 1 .. Len(q) : a[k] = Join(a[k - 1], q[k], field)

LEMMA ClusterIs ==
  ASSUME NEW S, NEW field, NEW q \in Seq(S)
  PROVE  \E a \in [0 .. Len(q) -> Crowds(S)] :
           Clusters(a, q, field) /\ a[Len(q)] = Cluster(q, field)
<1> DEFINE n == Len(q)
           A == Crowds(S)
           op == [x \in A \X S |-> Join(x[1], x[2], field)]
<1>1. n \in Nat /\ DOMAIN q = 1 .. n /\ \A i \in 1 .. n : q[i] \in S
  OBVIOUS
<1>2. << >> \in A /\ op \in [A \X S -> A]
  <2>1. << >> \in A
    BY DEF Crowds
  <2>2. \A x \in A \X S : x[1] \in A /\ x[2] \in S
    OBVIOUS
  <2>3. \A x \in A \X S : Join(x[1], x[2], field) \in A
    BY <2>2, JoinFits
  <2> HIDE DEF A
  <2> QED
    BY <2>1, <2>3
<1>3. \A o \in A, x \in S : op[<<o, x>>] = Join(o, x, field)
  <2> HIDE DEF A
  <2> QED
    OBVIOUS
<1> HIDE DEF op, A
<1>4. PICK F : Folds(F, A, op, << >>, q)
  BY <1>2, FoldExists
<1> DEFINE iter == CHOOSE f : f = [t \in SUBSET DOMAIN q |->
             IF t = {} THEN << >> ELSE Join(f[t \ {Max(t)}], q[Max(t)], field)]
<1>5. Cluster(q, field) = iter[DOMAIN q]
  BY Zenon DEF Cluster, FoldLeft, MapThenFoldSet
<1>6. \A t \in SUBSET DOMAIN q : t # {} => q[Max(t)] \in S /\ t \ {Max(t)} \in SUBSET DOMAIN q
  BY <1>1, MaxIsIn
<1>7. iter = [t \in SUBSET DOMAIN q |->
             IF t = {} THEN << >> ELSE Join(iter[t \ {Max(t)}], q[Max(t)], field)]
  <2>1. \A t \in SUBSET DOMAIN q : t # {} => F[t \ {Max(t)}] \in A
    BY <1>4, <1>6 DEF Folds
  <2>2. \A t \in SUBSET DOMAIN q : t # {} =>
          op[<<F[t \ {Max(t)}], q[Max(t)]>>] = Join(F[t \ {Max(t)}], q[Max(t)], field)
    BY <1>3, <1>6, <2>1
  <2>3. F = [t \in SUBSET DOMAIN q |->
             IF t = {} THEN << >> ELSE Join(F[t \ {Max(t)}], q[Max(t)], field)]
    BY <1>4, <2>2 DEF Folds
  <2> QED
    BY <2>3, Zenon
<1> HIDE DEF iter
<1>8. Steps(iter, A, op, << >>, q)
  <2>1. iter[{}] = << >>
    BY <1>7
  <2>2. \A t \in SUBSET DOMAIN q : t # {} /\ iter[t \ {Max(t)}] \in A
          => iter[t] = op[<<iter[t \ {Max(t)}], q[Max(t)]>>]
    BY <1>3, <1>6, <1>7
  <2> QED
    BY <2>1, <2>2 DEF Steps
<1>9. PICK a \in [0 .. n -> A] : Reaches(a, op, << >>, q) /\ a[n] = Cluster(q, field)
  <2>1. ComesTo(iter[DOMAIN q], A, op, << >>, q)
    BY <1>2, <1>4, <1>8, FoldComesTo
  <2> QED
    BY <1>5, <2>1 DEF ComesTo
<1>10. Clusters(a, q, field)
  <2>1. \A k \in 1 .. n : k - 1 \in 0 .. n
    BY <1>1
  <2>2. \A k \in 1 .. n : q[k] \in S /\ a[k - 1] \in A
    BY <1>1, <1>9, <2>1
  <2> QED
    BY <1>3, <1>9, <2>2 DEF Reaches, Clusters
<1> QED
  BY <1>9, <1>10 DEF A

(* The last item of a cluster is its greatest and within the tolerance of  *)
(* their average.                                                          *)
Tidy(c, field) ==
  /\ \A i \in DOMAIN c : c[i][field] <= Last(c)[field]
  /\ Total(c, field) <= Last(c)[field] * Len(c)
  /\ ~ Beyond(Last(c)[field], Total(c, field), Len(c))

(* Every cluster is tidy, none has an item greater than p, and all that a  *)
(* later cluster holds is out of reach of an earlier one.                  *)
Stacked(cs, field, p) ==
  /\ \A k \in DOMAIN cs : Tidy(cs[k], field) /\ Last(cs[k])[field] <= p
  /\ \A j, k \in DOMAIN cs : j < k =>
       \A i \in DOMAIN cs[k] : Beyond(cs[k][i][field], Total(cs[j], field), Len(cs[j]))

LEMMA CrowdIs ==
  ASSUME NEW S, NEW field, \A x \in S : x[field] \in Nat, NEW cs \in Crowds(S), NEW k \in DOMAIN cs
  PROVE  /\ cs[k] \in Seq(S) /\ Len(cs[k]) \in Nat /\ Len(cs[k]) # 0 /\ Len(cs[k]) \in DOMAIN cs[k]
         /\ Last(cs[k]) \in S /\ Last(cs[k])[field] \in Nat
         /\ Total(cs[k], field) \in Nat
         /\ \A i \in DOMAIN cs[k] : cs[k][i] \in S /\ cs[k][i][field] \in Nat
<1>1. cs[k] \in Seq(S) /\ cs[k] # << >>
  <2>1. cs \in Seq(Seq(S) \ {<< >>})
    BY DEF Crowds
  <2> QED
    BY <2>1
<1>2. Len(cs[k]) \in Nat /\ Len(cs[k]) # 0 /\ Len(cs[k]) \in DOMAIN cs[k]
  BY <1>1
<1>3. \A i \in DOMAIN cs[k] : cs[k][i] \in S /\ cs[k][i][field] \in Nat
  BY <1>1
<1>4. Last(cs[k]) \in S /\ Last(cs[k])[field] \in Nat
  BY <1>2, <1>3 DEF Last
<1>5. Total(cs[k], field) \in Nat
  BY <1>1, <1>4, TotalIs
<1> QED
  BY <1>1, <1>2, <1>3, <1>4, <1>5

(* A price that is not below any other can only join the last cluster, and *)
(* the clusters stay apart.                                                *)
LEMMA JoinStacks ==
  ASSUME NEW S, NEW field, \A x \in S : x[field] \in Nat, NEW cs \in Crowds(S),
         NEW p \in Nat, Stacked(cs, field, p), NEW x \in S, p <= x[field]
  PROVE  Stacked(Join(cs, x, field), field, x[field])
<1>1. PICK v \in Nat : v = x[field]
  OBVIOUS
<1>2. PICK m \in Nat : m = Len(cs) /\ DOMAIN cs = 1 .. m
  BY DEF Crowds
<1>3. \A k \in 1 .. m : Tidy(cs[k], field) /\ Last(cs[k])[field] <= p
  BY <1>2 DEF Stacked
<1>4. \A j, k \in 1 .. m : j < k =>
        \A i \in DOMAIN cs[k] : Beyond(cs[k][i][field], Total(cs[j], field), Len(cs[j]))
  BY <1>2 DEF Stacked
<1>5. ASSUME NEW k \in 1 .. m
      PROVE  /\ Total(cs[k], field) <= v * Len(cs[k])
             /\ Total(cs[k], field) + v <= v * (Len(cs[k]) + 1)
             /\ \A i \in DOMAIN cs[k] : cs[k][i][field] <= v
  <2>1. PICK t \in Nat, n \in Nat, s \in Nat :
          t = Last(cs[k])[field] /\ n = Len(cs[k]) /\ s = Total(cs[k], field)
    BY <1>2, CrowdIs
  <2>2. t <= v /\ s <= t * n
    BY <1>1, <1>3, <2>1 DEF Tidy
  <2>3. s <= v * n /\ s + v <= v * (n + 1)
    BY <2>2, AverageIsBelow
  <2>4. \A i \in DOMAIN cs[k] : cs[k][i][field] <= t /\ cs[k][i][field] \in Nat
    BY <1>2, <1>3, <2>1, CrowdIs DEF Tidy
  <2>5. \A i \in DOMAIN cs[k] : cs[k][i][field] <= v
    BY <2>2, <2>4
  <2> QED
    BY <2>1, <2>3, <2>5
<1>6. ASSUME NEW k \in 1 .. m
      PROVE  IsNear(cs, x, field, k) <=> ~ Beyond(v, Total(cs[k], field), Len(cs[k]))
  <2>1. PICK n \in Nat, s \in Nat : n = Len(cs[k]) /\ s = Total(cs[k], field)
    BY <1>2, CrowdIs
  <2>2. s <= v * n
    BY <1>5, <2>1
  <2>3. WithinTolerance(v, s, n) <=> ~ Beyond(v, s, n)
    BY <2>2, FarIsBeyond
  <2> QED
    BY <1>1, <2>1, <2>3 DEF IsNear
<1>7. ASSUME NEW j \in 1 .. m, j # m PROVE Beyond(v, Total(cs[j], field), Len(cs[j]))
  <2>1. m \in 1 .. m /\ j < m
    BY <1>2, <1>7
  <2>2. PICK i : i \in DOMAIN cs[m] /\ cs[m][i][field] \in Nat
    BY <1>2, <2>1, CrowdIs
  <2>3. PICK w \in Nat : w = cs[m][i][field] /\ w <= v
    BY <1>5, <2>1, <2>2
  <2>4. PICK n \in Nat, s \in Nat : n = Len(cs[j]) /\ s = Total(cs[j], field)
    BY <1>2, CrowdIs
  <2>5. Beyond(w, s, n)
    BY <1>4, <2>1, <2>2, <2>3, <2>4
  <2>6. Beyond(v, s, n)
    BY <2>3, <2>5, FartherIsBeyond
  <2> QED
    BY <2>4, <2>6
<1>8. CASE \A k \in 1 .. m : ~ IsNear(cs, x, field, k)
  <2>1. PICK o : o = <<x>> /\ Len(o) = 1 /\ DOMAIN o = {1} /\ o[1] = x /\ Last(o) = x
    <3>1. Len(<<x>>) = 1 /\ DOMAIN <<x>> = {1} /\ <<x>>[1] = x
      OBVIOUS
    <3> QED
      BY <3>1 DEF Last
  <2>2. PICK ds : ds = Append(cs, o)
    OBVIOUS
  <2>3. Len(ds) = m + 1 /\ DOMAIN ds = 1 .. m + 1 /\ ds[m + 1] = o /\ \A k \in 1 .. m : ds[k] = cs[k]
    <3> DEFINE T == Seq(S) \cup {o}
    <3>1. cs \in Seq(T) /\ o \in T
      <4>1. cs \in [1 .. m -> T]
        BY <1>2 DEF Crowds
      <4> QED
        BY <1>2, <4>1
    <3> HIDE DEF T
    <3> QED
      BY <1>2, <2>2, <3>1, AppendProperties
  <2>4. Join(cs, x, field) = ds
    <3>1. Joins(cs, x, field)
      BY JoinIs
    <3>2. Join(cs, x, field) = Append(cs, <<x>>)
      BY <1>2, <1>8, <3>1, Zenon DEF Joins
    <3> QED
      BY <2>1, <2>2, <3>2
  <2>5. Total(o, field) = v
    <3>1. << >> \in Seq(S)
      OBVIOUS
    <3> QED
      BY <1>1, <2>1, <3>1, TotalIs
  <2>6. Tidy(o, field) /\ Last(o)[field] <= v
    <3>1. ~ Beyond(v, v, 1)
      BY AloneIsNear
    <3>2. v <= v * 1 /\ v <= v
      OBVIOUS
    <3> QED
      BY <1>1, <2>1, <2>5, <3>1, <3>2 DEF Tidy
  <2>7. ASSUME NEW k \in 1 .. m + 1 PROVE Tidy(ds[k], field) /\ Last(ds[k])[field] <= v
    <3>1. k \in 1 .. m \/ k = m + 1
      BY <1>2
    <3>2. CASE k = m + 1
      BY <2>3, <2>6, <3>2
    <3>3. CASE k \in 1 .. m
      <4>1. Last(cs[k])[field] \in Nat
        BY <1>2, <3>3, CrowdIs
      <4> QED
        BY <1>1, <1>3, <2>3, <3>3, <4>1
    <3> QED
      BY <3>1, <3>2, <3>3
  <2>8. ASSUME NEW j \in 1 .. m + 1, NEW k \in 1 .. m + 1, j < k, NEW i \in DOMAIN ds[k]
        PROVE  Beyond(ds[k][i][field], Total(ds[j], field), Len(ds[j]))
    <3>1. j \in 1 .. m /\ (k \in 1 .. m \/ k = m + 1)
      BY <1>2, <2>8
    <3>2. CASE k \in 1 .. m
      BY <1>4, <2>3, <2>8, <3>1, <3>2
    <3>3. CASE k = m + 1
      <4>1. Beyond(v, Total(cs[j], field), Len(cs[j]))
        BY <1>6, <1>8, <3>1
      <4>2. i = 1 /\ ds[k][i] = x
        BY <2>1, <2>3, <2>8, <3>3
      <4> QED
        BY <1>1, <2>3, <3>1, <4>1, <4>2
    <3> QED
      BY <3>1, <3>2, <3>3
  <2> QED
    BY <1>1, <2>3, <2>4, <2>7, <2>8 DEF Stacked
<1>9. CASE \E k \in 1 .. m : IsNear(cs, x, field, k)
  <2>1. \A k \in 1 .. m : IsNear(cs, x, field, k) => k = m
    BY <1>6, <1>7
  <2>2. m \in 1 .. m /\ IsNear(cs, x, field, m) /\ Join(cs, x, field) = Grown(cs, m, x)
    <3>1. \/ \A k \in DOMAIN cs : ~ IsNear(cs, x, field, k)
          \/ \E k \in DOMAIN cs : /\ IsNear(cs, x, field, k)
                                  /\ Join(cs, x, field) = Grown(cs, k, x)
      <4>1. Joins(cs, x, field)
        BY JoinIs
      <4> QED
        BY <4>1 DEF Joins
    <3>2. PICK k \in 1 .. m : /\ IsNear(cs, x, field, k)
                              /\ Join(cs, x, field) = Grown(cs, k, x)
      BY <1>2, <1>9, <3>1, Zenon
    <3>3. k = m
      BY <2>1, <3>2
    <3> QED
      BY <3>2, <3>3, Zenon
  <2>3. PICK c \in Seq(S) : c = cs[m]
    <3>1. cs[m] \in Seq(S)
      BY <1>2, <2>2, CrowdIs
    <3> QED
      BY <3>1
  <2>4. PICK n \in Nat, s \in Nat : n = Len(c) /\ DOMAIN c = 1 .. n /\ s = Total(c, field)
    <3>1. Len(cs[m]) \in Nat /\ Total(cs[m], field) \in Nat
      BY <1>2, <2>2, CrowdIs
    <3> QED
      BY <2>3, <3>1
  <2>5. PICK o \in Seq(S) : o = Append(c, x)
    BY AppendProperties
  <2>6. /\ Len(o) = n + 1 /\ DOMAIN o = 1 .. n + 1 /\ o[n + 1] = x /\ Last(o) = x
        /\ \A i \in 1 .. n : o[i] = c[i]
    <3>1. Len(o) = n + 1 /\ o[n + 1] = x /\ \A i \in 1 .. n : o[i] = c[i]
      BY <2>4, <2>5
    <3> QED
      BY <3>1 DEF Last
  <2>7. Total(o, field) = s + v
    BY <1>1, <2>4, <2>5, TotalIs
  <2>8. Tidy(o, field) /\ Last(o)[field] <= v
    <3>1. ~ Beyond(v, s, n)
      BY <1>6, <2>2, <2>3, <2>4
    <3>2. ~ Beyond(v, s + v, n + 1)
      BY <3>1, JoinedIsNear
    <3>3. s + v <= v * (n + 1)
      BY <1>5, <2>2, <2>3, <2>4
    <3>4. ASSUME NEW i \in 1 .. n + 1 PROVE o[i][field] <= v
      <4>1. i \in 1 .. n \/ i = n + 1
        BY <2>4
      <4>2. i \in 1 .. n => c[i][field] <= v
        BY <1>5, <2>2, <2>3, <2>4
      <4> QED
        BY <1>1, <2>6, <4>1, <4>2
    <3> QED
      BY <1>1, <2>6, <2>7, <3>2, <3>3, <3>4 DEF Tidy
  <2>9. PICK ds : ds = [cs EXCEPT ![m] = o]
    OBVIOUS
  <2>10. DOMAIN ds = 1 .. m /\ ds[m] = o /\ \A k \in 1 .. m : k # m => ds[k] = cs[k]
    BY <1>2, <2>2, <2>9
  <2>11. ASSUME NEW k \in 1 .. m PROVE Tidy(ds[k], field) /\ Last(ds[k])[field] <= v
    <3>1. CASE k = m
      BY <2>8, <2>10, <3>1
    <3>2. CASE k # m
      <4>1. Last(cs[k])[field] \in Nat
        BY <1>2, CrowdIs
      <4> QED
        BY <1>1, <1>3, <2>10, <3>2, <4>1
    <3> QED
      BY <3>1, <3>2
  <2>12. ASSUME NEW j \in 1 .. m, NEW k \in 1 .. m, j < k, NEW i \in DOMAIN ds[k]
         PROVE  Beyond(ds[k][i][field], Total(ds[j], field), Len(ds[j]))
    <3>1. j # m /\ ds[j] = cs[j]
      BY <2>10, <2>12
    <3>2. CASE k # m
      BY <1>4, <2>10, <2>12, <3>1, <3>2
    <3>3. CASE k = m
      <4>1. i \in 1 .. n + 1
        BY <2>6, <2>10, <2>12, <3>3
      <4>2. i \in 1 .. n \/ i = n + 1
        BY <2>4, <4>1
      <4>3. i \in 1 .. n => Beyond(c[i][field], Total(cs[j], field), Len(cs[j]))
        BY <1>4, <2>3, <2>4, <2>12, <3>3
      <4>4. Beyond(v, Total(cs[j], field), Len(cs[j]))
        BY <1>7, <3>1
      <4> QED
        BY <1>1, <2>6, <2>10, <3>1, <3>3, <4>2, <4>3, <4>4
    <3> QED
      BY <3>2, <3>3
  <2>13. Join(cs, x, field) = ds
    BY <2>2, <2>3, <2>5, <2>9 DEF Grown
  <2> QED
    BY <1>1, <2>10, <2>11, <2>12, <2>13 DEF Stacked
<1> QED
  BY <1>8, <1>9

LEMMA ClusterStacks ==
  ASSUME NEW S, NEW field, \A x \in S : x[field] \in Nat,
         NEW q \in Seq(S), Ascends(q, field), NEW cs, cs = Cluster(q, field)
  PROVE  cs \in Crowds(S) /\ \E p \in Nat : Stacked(cs, field, p)
<1>1. PICK n \in Nat : n = Len(q) /\ DOMAIN q = 1 .. n
  OBVIOUS
<1>2. PICK a \in [0 .. n -> Crowds(S)] : Clusters(a, q, field) /\ a[n] = cs
  <2>1. \E a \in [0 .. Len(q) -> Crowds(S)] :
           Clusters(a, q, field) /\ a[Len(q)] = Cluster(q, field)
    BY ClusterIs
  <2> QED
    BY <1>1, <2>1
<1>3. \A k \in 1 .. n : q[k] \in S /\ q[k][field] \in Nat
  BY <1>1
<1> DEFINE Top(k) == IF k = 0 THEN 0 ELSE q[k][field]
           Can(k) == Stacked(a[k], field, Top(k))
           W == {k \in Nat : k <= n => Can(k)}
<1>4. 0 \in W
  <2>1. a[0] = << >>
    BY <1>2 DEF Clusters
  <2>2. Stacked(<< >>, field, 0)
    BY DEF Stacked
  <2> QED
    BY <2>1, <2>2
<1>5. ASSUME NEW k \in Nat, k \in W PROVE k + 1 \in W
  <2> SUFFICES ASSUME k + 1 <= n PROVE Can(k + 1)
    <3> HIDE DEF Can
    <3> QED
      OBVIOUS
  <2>1. Can(k)
    <3>1. k <= n
      BY <1>1
    <3> HIDE DEF Can
    <3> QED
      BY <1>5, <3>1
  <2>2. k + 1 \in 1 .. n /\ (k + 1) - 1 = k /\ k \in 0 .. n
    BY <1>1
  <2>3. PICK o \in Crowds(S) : o = a[k]
    BY <1>2, <2>2
  <2>4. PICK x \in S : x = q[k + 1] /\ x[field] \in Nat
    BY <1>3, <2>2
  <2>5. PICK p \in Nat : p = Top(k) /\ p <= x[field]
    <3>1. CASE k = 0
      BY <2>4, <3>1
    <3>2. CASE k # 0
      <4>1. k \in 1 .. n /\ k < k + 1
        BY <2>2, <3>2
      <4>2. q[k][field] <= q[k + 1][field]
        BY <1>1, <2>2, <4>1 DEF Ascends
      <4> QED
        BY <1>3, <2>4, <3>2, <4>1, <4>2
    <3> QED
      BY <3>1, <3>2
  <2>6. Stacked(o, field, p)
    BY <2>1, <2>3, <2>5
  <2>7. Stacked(Join(o, x, field), field, x[field])
    BY <2>5, <2>6, JoinStacks
  <2>8. a[k + 1] = Join(o, x, field)
    BY <1>1, <1>2, <2>2, <2>3, <2>4 DEF Clusters
  <2>9. Top(k + 1) = x[field]
    BY <2>2, <2>4
  <2> QED
    BY <2>7, <2>8, <2>9
<1>6. Nat \subseteq W
  <2> HIDE DEF W
  <2> QED
    BY <1>4, <1>5, NatSetInduction
<1>7. Can(n)
  <2> HIDE DEF Can
  <2> QED
    BY <1>1, <1>6
<1>8. Top(n) \in Nat
  <2>1. n = 0 \/ n \in 1 .. n
    BY <1>1
  <2> QED
    BY <1>3, <2>1
<1>9. cs \in Crowds(S)
  <2>1. n \in 0 .. n
    BY <1>1
  <2> QED
    BY <1>2, <2>1
<1> HIDE DEF Top
<1> QED
  BY <1>2, <1>7, <1>8, <1>9

(* Whatever an earlier cluster holds is below all of a later one.          *)
LEMMA ClustersApart ==
  ASSUME NEW S, NEW field, \A x \in S : x[field] \in Nat, NEW cs \in Crowds(S),
         NEW p, Stacked(cs, field, p), NEW j \in DOMAIN cs, NEW k \in DOMAIN cs, j < k,
         NEW i \in DOMAIN cs[j], NEW l \in DOMAIN cs[k]
  PROVE  cs[j][i][field] < cs[k][l][field]
<1>1. PICK t \in Nat, n \in Nat, s \in Nat :
        t = Last(cs[j])[field] /\ n = Len(cs[j]) /\ s = Total(cs[j], field)
  BY CrowdIs
<1>2. PICK x \in Nat : x = cs[j][i][field]
  BY CrowdIs
<1>3. PICK y \in Nat : y = cs[k][l][field]
  BY CrowdIs
<1>4. x <= t /\ ~ Beyond(t, s, n)
  BY <1>1, <1>2 DEF Stacked, Tidy
<1>5. Beyond(y, s, n)
  BY <1>1, <1>3 DEF Stacked
<1>6. ~ (y <= t)
  BY <1>4, <1>5, FartherIsBeyond
<1> QED
  BY <1>2, <1>3, <1>4, <1>6

(* A sequence of pools or of other things that have a level.               *)
Levelled(p) == \E S : p \in Seq(S) /\ \A x \in S : x["level"] \in Nat

LEMMA MagnetIs ==
  ASSUME NEW S, \A x \in S : x["level"] \in Nat, NEW cs \in Crowds(S), NEW k \in DOMAIN cs,
         Tidy(cs[k], "level")
  PROVE  /\ \E i \in DOMAIN cs[k] : Magnet(cs[k]).lo = cs[k][i]["level"]
         /\ \E i \in DOMAIN cs[k] : Magnet(cs[k]).hi = cs[k][i]["level"]
<1>1. PICK n \in Nat : n = Len(cs[k]) /\ DOMAIN cs[k] = 1 .. n /\ n # 0 /\ n \in 1 .. n
  <2>1. cs[k] \in Seq(S) /\ cs[k] # << >>
    BY DEF Crowds
  <2> QED
    BY <2>1
<1>2. PICK c \in Seq(S) : c = cs[k]
  <2>1. cs[k] \in Seq(S)
    BY CrowdIs
  <2> QED
    BY <2>1
<1>3. \A i \in 1 .. n : c[i]["level"] \in Nat /\ c[i]["level"] <= c[n]["level"]
  <2>1. Last(c) = c[n]
    BY <1>1, <1>2 DEF Last
  <2> QED
    BY <1>1, <1>2, <2>1, CrowdIs DEF Tidy
<1>4. PICK L : L = {c[i]["level"] : i \in 1 .. n}
  OBVIOUS
<1>5. Magnet(c).lo = Min(L) /\ Magnet(c).hi = Max(L)
  BY <1>1, <1>2, <1>4 DEF Magnet
<1>6. L \in SUBSET Nat /\ c[n]["level"] \in L
  BY <1>1, <1>3, <1>4
<1>7. Min(L) \in L
  <2>1. \E x \in L : \A y \in L : x <= y
    BY <1>6, LeastNatural
  <2> QED
    BY <2>1 DEF Min
<1>8. Max(L) \in L
  <2>1. \A y \in L : y <= c[n]["level"] /\ y \in Nat
    BY <1>3, <1>4
  <2>2. \A y \in L : c[n]["level"] >= y
    BY <1>6, <2>1
  <2> QED
    BY <1>6, <2>2 DEF Max
<1> QED
  BY <1>1, <1>2, <1>4, <1>5, <1>7, <1>8

(* Magnets do not overlap.                                                 *)
LEMMA MagnetsApart ==
  ASSUME NEW pools, Levelled(pools), NEW ms, ms = BuildMagnets(pools),
         NEW j \in DOMAIN ms, NEW k \in DOMAIN ms, j < k
  PROVE  ms[j].hi < ms[k].lo
<1>1. PICK S : pools \in Seq(S) /\ \A x \in S : x["level"] \in Nat
  BY DEF Levelled
<1>2. PICK q \in Seq(S) : q = Sorted(pools, "level") /\ Ascends(q, "level")
  <2>1. \A x \in S : x["level"] \in Int
    BY <1>1
  <2> QED
    BY <1>1, <2>1, SortedIs
<1>3. PICK cs : cs = Cluster(q, "level")
  OBVIOUS
<1>4. cs \in Crowds(S) /\ \E p \in Nat : Stacked(cs, "level", p)
  BY <1>1, <1>2, <1>3, ClusterStacks
<1>5. PICK p \in Nat : Stacked(cs, "level", p)
  BY <1>4
<1>6. ms = [i \in DOMAIN cs |-> Magnet(cs[i])]
  BY <1>2, <1>3 DEF BuildMagnets, Magnets
<1>7. j \in DOMAIN cs /\ k \in DOMAIN cs /\ ms[j] = Magnet(cs[j]) /\ ms[k] = Magnet(cs[k])
  BY <1>6
<1>8. Tidy(cs[j], "level") /\ Tidy(cs[k], "level")
  BY <1>5, <1>7 DEF Stacked
<1>9. PICK i \in DOMAIN cs[j] : Magnet(cs[j]).hi = cs[j][i]["level"]
  BY <1>1, <1>4, <1>7, <1>8, MagnetIs
<1>10. PICK l \in DOMAIN cs[k] : Magnet(cs[k]).lo = cs[k][l]["level"]
  BY <1>1, <1>4, <1>7, <1>8, MagnetIs
<1>11. cs[j][i]["level"] < cs[k][l]["level"]
  BY <1>1, <1>4, <1>5, <1>7, ClustersApart
<1> QED
  BY <1>7, <1>9, <1>10, <1>11
-----------------------------------------------------------------------------
(* Everything that becomes a magnet has a level.                           *)

LEMMA LevelledIs ==
  ASSUME NEW n \in Nat, NEW p, p = [i \in 1 .. n |-> p[i]], \A i \in 1 .. n : p[i]["level"] \in Nat
  PROVE  Levelled(p)
<1> DEFINE S == {p[i] : i \in 1 .. n}
<1>1. p \in [1 .. n -> S]
  OBVIOUS
<1>2. p \in Seq(S)
  BY <1>1
<1>3. \A x \in S : x["level"] \in Nat
  OBVIOUS
<1> HIDE DEF S
<1> QED
  BY <1>2, <1>3 DEF Levelled

LEMMA LevelledConcat == ASSUME NEW p, NEW q, Levelled(p), Levelled(q) PROVE Levelled(p \o q)
<1>1. PICK S : p \in Seq(S) /\ \A x \in S : x["level"] \in Nat
  BY DEF Levelled
<1>2. PICK T : q \in Seq(T) /\ \A x \in T : x["level"] \in Nat
  BY DEF Levelled
<1>3. PICK U : U = S \cup T
  OBVIOUS
<1>4. p \in Seq(U) /\ q \in Seq(U)
  <2>1. PICK n \in Nat : n = Len(p) /\ p \in [1 .. n -> U]
    BY <1>1, <1>3
  <2>2. PICK m \in Nat : m = Len(q) /\ q \in [1 .. m -> U]
    BY <1>2, <1>3
  <2> QED
    BY <2>1, <2>2
<1>5. p \o q \in Seq(U)
  BY <1>4, ConcatProperties
<1>6. \A x \in U : x["level"] \in Nat
  BY <1>1, <1>2, <1>3
<1> QED
  BY <1>5, <1>6 DEF Levelled

LEMMA NoneLevelled == Levelled(<< >>)
<1>1. PICK S : S = {}
  OBVIOUS
<1>2. << >> \in Seq(S) /\ \A x \in S : x["level"] \in Nat
  BY <1>1
<1> QED
  BY <1>2 DEF Levelled

LEMMA OneLevelled == ASSUME NEW x, x["level"] \in Nat PROVE Levelled(<<x>>)
<1>1. PICK S : S = {x}
  OBVIOUS
<1>2. <<x>> \in Seq(S) /\ \A y \in S : y["level"] \in Nat
  BY <1>1
<1> QED
  BY <1>2 DEF Levelled

LEMMA PoolHasLevel ==
  ASSUME NEW bias, NEW level \in Nat, NEW type, NEW side, NEW touches
  PROVE  Pool(bias, level, type, side, touches)["level"] \in Nat
BY DEF Pool

LEMMA OfKindIs ==
  ASSUME NEW s \in Seq(Swings), NEW kind
  PROVE  OfKind(s, kind) \in Seq(Swings)
BY ChosenIs DEF OfKind

LEMMA PricesAre == \A s \in Swings : s["price"] = s.price /\ s.price \in Nat
BY DEF Swings

(* The average of a cluster of prices is a price.                          *)
LEMMA EqPoolsLevelled ==
  ASSUME NEW st, st.swings \in Seq(Swings), NEW kind, NEW type
  PROVE  Levelled(EqPools(st, kind, type))
<1>1. PICK s \in Seq(Swings) : s = OfKind(st.swings, kind)
  BY OfKindIs
<1>2. PICK all : all = Cluster(s, "price")
  OBVIOUS
<1>3. all \in Crowds(Swings)
  <2>1. PICK n \in Nat : n = Len(s)
    OBVIOUS
  <2>2. \E a \in [0 .. Len(s) -> Crowds(Swings)] : Clusters(a, s, "price") /\ a[Len(s)] = Cluster(s, "price")
    BY ClusterIs
  <2>3. PICK a \in [0 .. n -> Crowds(Swings)] : a[n] = Cluster(s, "price")
    BY <2>1, <2>2
  <2>4. n \in 0 .. n
    OBVIOUS
  <2> QED
    BY <1>2, <2>3, <2>4
<1>4. PICK I : I = {k \in DOMAIN all : Len(all[k]) >= 2}
  OBVIOUS
<1>5. PICK cs : cs = Chosen(all, I)
  OBVIOUS
<1>6. cs \in Crowds(Swings)
  <2>1. all \in Seq(Seq(Swings) \ {<< >>})
    BY <1>3 DEF Crowds
  <2>2. Chosen(all, I) \in Seq(Seq(Swings) \ {<< >>})
    BY <2>1, ChosenIs
  <2> QED
    BY <1>5, <2>2 DEF Crowds
<1>7. PICK n \in Nat : n = Len(cs) /\ DOMAIN cs = 1 .. n
  BY <1>6 DEF Crowds
<1>8. PICK p : p = EqPools(st, kind, type)
  OBVIOUS
<1>9. p = [k \in 1 .. n |-> Pool(st.bias, Total(cs[k], "price") \div Len(cs[k]), type, kind, Len(cs[k]))]
  <2>1. Touched(all) = cs
    BY <1>4, <1>5 DEF Touched
  <2>2. p = ClustersToPools(st, cs, kind, type)
    BY <1>1, <1>2, <1>8, <2>1 DEF EqPools
  <2> QED
    BY <1>7, <2>2 DEF ClustersToPools
<1>10. ASSUME NEW k \in 1 .. n PROVE p[k]["level"] \in Nat
  <2>1. PICK t \in Nat, m \in Nat : t = Total(cs[k], "price") /\ m = Len(cs[k]) /\ m # 0
    <3>1. Total(cs[k], "price") \in Nat /\ Len(cs[k]) \in Nat /\ Len(cs[k]) # 0
      BY <1>6, <1>7, PricesAre, CrowdIs
    <3> QED
      BY <3>1
  <2>2. t \div m \in Nat
    <3>1. m > 0
      BY <2>1
    <3>2. t \div m \in Int
      BY <3>1
    <3>3. t \div m >= 0
      BY <3>1
    <3> QED
      BY <3>2, <3>3
  <2>3. p[k] = Pool(st.bias, t \div m, type, kind, m)
    BY <1>9, <2>1
  <2> QED
    BY <2>2, <2>3, PoolHasLevel
<1>11. p = [k \in 1 .. n |-> p[k]]
  BY <1>9
<1> QED
  BY <1>8, <1>10, <1>11, LevelledIs

LEMMA TrendPoolsLevelled ==
  ASSUME NEW st, st.swings \in Seq(Swings)
  PROVE  Levelled(TrendPools(st))
<1>1. ASSUME NEW kind, OfKind(st.swings, kind) # << >>
      PROVE  Last(OfKind(st.swings, kind)).price \in Nat
  <2>1. PICK s \in Seq(Swings) : s = OfKind(st.swings, kind)
    BY OfKindIs
  <2>2. s[Len(s)] \in Swings
    BY <1>1, <2>1
  <2> QED
    BY <2>1, <2>2, PricesAre DEF Last
<1>2. CASE st.bias = "LONG" /\ OfKind(st.swings, "LOW") # << >>
  <2>1. PICK x : x = Pool(st.bias, Last(OfKind(st.swings, "LOW")).price, "TLQ", "LOW", 1)
    OBVIOUS
  <2>2. x["level"] \in Nat
    BY <1>1, <1>2, <2>1, PoolHasLevel
  <2>3. TrendPools(st) = <<x>>
    BY <1>2, <2>1 DEF TrendPools
  <2> QED
    BY <2>2, <2>3, OneLevelled
<1>3. CASE st.bias = "SHORT" /\ OfKind(st.swings, "HIGH") # << >>
  <2>1. PICK x : x = Pool(st.bias, Last(OfKind(st.swings, "HIGH")).price, "SLQ", "HIGH", 1)
    OBVIOUS
  <2>2. x["level"] \in Nat
    BY <1>1, <1>3, <2>1, PoolHasLevel
  <2>3. TrendPools(st) = <<x>>
    BY <1>3, <2>1 DEF TrendPools
  <2> QED
    BY <2>2, <2>3, OneLevelled
<1>4. CASE ~ (st.bias = "LONG" /\ OfKind(st.swings, "LOW") # << >>)
           /\ ~ (st.bias = "SHORT" /\ OfKind(st.swings, "HIGH") # << >>)
  <2>1. TrendPools(st) = << >>
    BY <1>4 DEF TrendPools
  <2> QED
    BY <2>1, NoneLevelled
<1> QED
  BY <1>2, <1>3, <1>4

(* The edges of a range are prices of bars.                                *)
LEMMA RangeIs ==
  ASSUME NEW w \in Frames, NEW r, r = DetectActiveRange(w)
  PROVE  r.high \in Nat /\ r.low \in Nat
<1>1. w \in Seq(Bars) /\ Len(w) \in Nat /\ Len(w) # 0
  BY DEF Frames
<1>2. PICK c \in Nat \ {0} : c = MinRangeBars
  BY SmcStructureAssumption
<1>3. CASE Len(w) < c
  BY <1>2, <1>3 DEF DetectActiveRange, NoRange
<1>4. CASE ~ (Len(w) < c)
  <2>1. PICK last : last = LastN(w, c)
    OBVIOUS
  <2>2. last \in Seq(Bars) /\ Len(last) # 0
    <3>1. \E d \in Nat :
            /\ d = IF Len(w) > c THEN Len(w) - c ELSE 0
            /\ LastN(w, c) \in Seq(Bars) /\ Len(LastN(w, c)) = Len(w) - d
            /\ \A i \in 1 .. Len(w) - d : i + d \in DOMAIN w /\ LastN(w, c)[i] = w[i + d]
      BY <1>1, LastNIs
    <3> QED
      BY <1>1, <2>1, <3>1
  <2>3. PICK n \in Nat : n = Len(last) /\ DOMAIN last = 1 .. n /\ n # 0 /\ 1 \in 1 .. n
    BY <2>2
  <2>4. \A i \in 1 .. n : last[i].h \in Nat /\ last[i].l \in Nat
    BY <2>2, <2>3 DEF Bars
  <2>5. PICK H : H = {last[i].h : i \in 1 .. n}
    OBVIOUS
  <2>6. PICK L : L = {last[i].l : i \in 1 .. n}
    OBVIOUS
  <2>7. r.high = Max(H) /\ r.low = Min(L)
    BY <1>2, <1>4, <2>1, <2>3, <2>5, <2>6 DEF DetectActiveRange
  <2>8. Max(H) \in H
    <3> DEFINE g == [i \in 1 .. n |-> last[i].h]
    <3>1. g \in [1 .. n -> Int]
      BY <2>4
    <3>2. PICK x \in 1 .. n : \A j \in 1 .. n : g[j] <= g[x]
      <4> HIDE DEF g
      <4> QED
        BY <2>3, <3>1, HasGreatest
    <3>3. \A y \in H : last[x].h >= y
      BY <2>4, <2>5, <3>2
    <3>4. last[x].h \in H
      BY <2>5
    <3> QED
      BY <3>3, <3>4 DEF Max
  <2>9. Min(L) \in L
    <3>1. L \in SUBSET Nat /\ L # {}
      BY <2>3, <2>4, <2>6
    <3>2. \E x \in L : \A y \in L : x <= y
      BY <3>1, LeastNatural
    <3> QED
      BY <3>2 DEF Min
  <2> QED
    BY <2>4, <2>5, <2>6, <2>7, <2>8, <2>9
<1> QED
  BY <1>3, <1>4

LEMMA RangePoolsLevelled ==
  ASSUME NEW st, st.range.high \in Nat, st.range.low \in Nat
  PROVE  Levelled(RangePools(st))
<1>1. CASE st.range = NoRange
  BY <1>1, NoneLevelled DEF RangePools
<1>2. CASE st.range # NoRange
  <2>1. PICK x : x = Pool(st.bias, st.range.low, "RANGE_EXTREME", "LOW", 1) /\ x["level"] \in Nat
    BY PoolHasLevel
  <2>2. PICK y : y = Pool(st.bias, st.range.high, "RANGE_EXTREME", "HIGH", 1) /\ y["level"] \in Nat
    BY PoolHasLevel
  <2>3. RangePools(st) = <<x, y>>
    BY <1>2, <2>1, <2>2 DEF RangePools
  <2>4. PICK S : S = {x, y}
    OBVIOUS
  <2>5. <<x, y>> \in Seq(S) /\ \A z \in S : z["level"] \in Nat
    BY <2>1, <2>2, <2>4
  <2> QED
    BY <2>3, <2>5 DEF Levelled
<1> QED
  BY <1>1, <1>2

LEMMA LevelAt ==
  ASSUME NEW p, Levelled(p)
  PROVE  \E n \in Nat : DOMAIN p = 1 .. n /\ \A i \in 1 .. n : p[i].level \in Nat
<1>1. PICK S : p \in Seq(S) /\ \A x \in S : x["level"] \in Nat
  BY DEF Levelled
<1>2. PICK n \in Nat : n = Len(p) /\ DOMAIN p = 1 .. n
  BY <1>1
<1>3. \A i \in 1 .. n : p[i] \in S
  BY <1>1, <1>2
<1>4. \A i \in 1 .. n : p[i].level \in Nat
  BY <1>1, <1>3
<1> QED
  BY <1>2, <1>4

LEMMA ChosenLevelled == ASSUME NEW s, Levelled(s), NEW I PROVE Levelled(Chosen(s, I))
<1>1. PICK S : s \in Seq(S) /\ \A x \in S : x["level"] \in Nat
  BY DEF Levelled
<1>2. Chosen(s, I) \in Seq(S)
  BY <1>1, ChosenIs
<1> QED
  BY <1>1, <1>2 DEF Levelled

LEMMA SortedLevelled == ASSUME NEW s, Levelled(s), NEW field PROVE Levelled(Sorted(s, field))
<1>1. PICK S : s \in Seq(S) /\ \A x \in S : x["level"] \in Nat
  BY DEF Levelled
<1>2. PICK a \in [0 .. Len(s) -> Seq(S)] : Inserts(a, s, field) /\ a[Len(s)] = Sorted(s, field)
  BY <1>1, SortedInserts
<1>3. Len(s) \in 0 .. Len(s)
  BY <1>1
<1>4. Sorted(s, field) \in Seq(S)
  BY <1>2, <1>3
<1> QED
  BY <1>1, <1>4 DEF Levelled

(* The levels that sweeps are looked for at are prices of bars.            *)
LEMMA CollectLevelled ==
  ASSUME NEW st, st.swings \in Seq(Swings), st.range.high \in Nat, st.range.low \in Nat
  PROVE  Levelled(CollectLevels(st))
<1> DEFINE level(price, side, source) == [level |-> price, side |-> side, source |-> source]
           swings == [i \in DOMAIN st.swings |->
                         level(st.swings[i].price, st.swings[i].kind, "swing")]
           ends == IF st.range = NoRange THEN << >>
                   ELSE <<level(st.range.high, "HIGH", "range"), level(st.range.low, "LOW", "range")>>
           all == swings \o ends
           I == {i \in DOMAIN all : \A j \in 1 .. i - 1 : all[j] # all[i]}
<1>1. Levelled(swings)
  <2>1. PICK n \in Nat : n = Len(st.swings) /\ DOMAIN st.swings = 1 .. n
    OBVIOUS
  <2>2. \A i \in 1 .. n : st.swings[i].price \in Nat
    BY <2>1, PricesAre
  <2>4. ASSUME NEW i \in 1 .. n PROVE swings[i]["level"] \in Nat
    <3>1. PICK x \in Nat : x = st.swings[i].price
      BY <2>2
    <3>2. swings[i] = [level |-> x, side |-> st.swings[i].kind, source |-> "swing"]
      BY <2>1, <3>1
    <3> HIDE DEF swings
    <3> QED
      BY <3>2
  <2>5. swings = [i \in 1 .. n |-> swings[i]]
    BY <2>1
  <2> HIDE DEF swings
  <2> QED
    BY <2>4, <2>5, LevelledIs
<1>2. Levelled(ends)
  <2>1. CASE st.range = NoRange
    BY <2>1, NoneLevelled
  <2>2. CASE st.range # NoRange
    <3>1. PICK x : x = level(st.range.high, "HIGH", "range")
      OBVIOUS
    <3>2. PICK y : y = level(st.range.low, "LOW", "range")
      OBVIOUS
    <3>3. Levelled(<<x>>) /\ Levelled(<<y>>)
      BY <3>1, <3>2, OneLevelled
    <3>4. Levelled(<<x>> \o <<y>>)
      BY <3>3, LevelledConcat
    <3>5. ends = <<x>> \o <<y>>
      BY <2>2, <3>1, <3>2
    <3> QED
      BY <3>4, <3>5
  <2> QED
    BY <2>1, <2>2
<1>3. CollectLevels(st) = Chosen(all, I)
  BY DEF CollectLevels, Firsts
<1> HIDE DEF swings, ends
<1>4. Levelled(all)
  BY <1>1, <1>2, LevelledConcat
<1> HIDE DEF all, I
<1> QED
  BY <1>3, <1>4, ChosenLevelled

LEMMA ByFirstBarLevelled ==
  ASSUME NEW levels, Levelled(levels), NEW at
  PROVE  Levelled(ByFirstBar(levels, at))
<1>1. PICK I : I = {i \in DOMAIN levels : at[levels[i]] # {}}
  OBVIOUS
<1>2. PICK hit : hit = Chosen(levels, I) /\ Levelled(hit)
  BY ChosenLevelled
<1>3. PICK n \in Nat : DOMAIN hit = 1 .. n /\ \A i \in 1 .. n : hit[i].level \in Nat
  BY <1>2, LevelAt
<1>4. PICK r : r = Hits(hit, at)
  OBVIOUS
<1>5. r = [i \in 1 .. n |-> Hit(hit[i], at[hit[i]])]
  BY <1>3, <1>4 DEF Hits
<1>6. r = [i \in 1 .. n |-> r[i]]
  BY <1>5
<1>7. \A i \in 1 .. n : r[i]["level"] \in Nat
  <2>1. \A i \in 1 .. n : r[i]["level"] = hit[i].level
    BY <1>5 DEF Hit
  <2> QED
    BY <1>3, <2>1
<1>8. Levelled(r)
  BY <1>6, <1>7, LevelledIs
<1>9. ByFirstBar(levels, at) = Sorted(r, "first")
  BY <1>1, <1>2, <1>4 DEF ByFirstBar
<1> QED
  BY <1>8, <1>9, SortedLevelled

LEMMA SweepsLevelled ==
  ASSUME NEW w, NEW st, Levelled(CollectLevels(st))
  PROVE  Levelled(Sweeps(w, st)) /\ Levelled(SweepPools(st, Sweeps(w, st)))
<1>1. PICK hit : hit = FailHits(w, CollectLevels(st)) /\ Levelled(hit)
  BY ByFirstBarLevelled DEF FailHits
<1>2. PICK n \in Nat : DOMAIN hit = 1 .. n /\ \A i \in 1 .. n : hit[i].level \in Nat
  BY <1>1, LevelAt
<1>3. PICK s : s = Sweeps(w, st)
  OBVIOUS
<1>4. s = [k \in 1 .. n |-> [level |-> hit[k].level, side |-> hit[k].side, t |-> w[hit[k].first].t]]
  BY <1>1, <1>2, <1>3 DEF Sweeps, Swept
<1>5. \A k \in 1 .. n : s[k]["level"] \in Nat
  BY <1>2, <1>4
<1>6. s = [k \in 1 .. n |-> s[k]]
  BY <1>4
<1>7. Levelled(s)
  BY <1>5, <1>6, LevelledIs
<1>8. PICK p : p = SweepPools(st, s)
  OBVIOUS
<1>9. p = [k \in 1 .. n |-> Pool(st.bias, s[k].level, "SFP", s[k].side, 1)]
  BY <1>4, <1>8 DEF SweepPools
<1>10. ASSUME NEW k \in 1 .. n PROVE p[k]["level"] \in Nat
  <2>1. s[k].level \in Nat
    BY <1>5
  <2>2. p[k] = Pool(st.bias, s[k].level, "SFP", s[k].side, 1)
    BY <1>9
  <2> QED
    BY <2>1, <2>2, PoolHasLevel
<1>11. p = [k \in 1 .. n |-> p[k]]
  BY <1>9
<1>12. Levelled(p)
  BY <1>10, <1>11, LevelledIs
<1> QED
  BY <1>3, <1>7, <1>8, <1>12

LEMMA WicksLevelled ==
  ASSUME NEW w, NEW st, Levelled(CollectLevels(st))
  PROVE  Levelled(WickPools(w, st))
<1>1. PICK hit : hit = WickHits(w, CollectLevels(st)) /\ Levelled(hit)
  BY ByFirstBarLevelled DEF WickHits
<1>2. PICK n \in Nat : DOMAIN hit = 1 .. n /\ \A i \in 1 .. n : hit[i].level \in Nat
  BY <1>1, LevelAt
<1>3. PICK p : p = WickPools(w, st)
  OBVIOUS
<1>4. p = [k \in 1 .. n |-> Pool(st.bias, hit[k].level, "WICK_CLUSTER", hit[k].side, hit[k].touches)]
  BY <1>1, <1>2, <1>3 DEF WickPools, WickCluster
<1>5. ASSUME NEW k \in 1 .. n PROVE p[k]["level"] \in Nat
  <2>1. hit[k].level \in Nat
    BY <1>2
  <2>2. p[k] = Pool(st.bias, hit[k].level, "WICK_CLUSTER", hit[k].side, hit[k].touches)
    BY <1>4
  <2> QED
    BY <2>1, <2>2, PoolHasLevel
<1>6. p = [k \in 1 .. n |-> p[k]]
  BY <1>4
<1> QED
  BY <1>3, <1>5, <1>6, LevelledIs

(* Every pool of a hint has a level, and the magnets are built from them.  *)
LEMMA LiquidityIs ==
  ASSUME NEW f \in Frames, NEW st, st = ComputeStructure(f), NEW q, q = ComputeLiquidity(f, st)
  PROVE  \E pools : Levelled(pools) /\ q.magnets = BuildMagnets(pools)
<1>1. PICK w \in Frames : w = Prepared(f)
  BY StructureIs
<1>2. st.swings \in Seq(Swings)
  BY StructureIs
<1>3. st.range.high \in Nat /\ st.range.low \in Nat
  <2>1. PICK r : r = DetectActiveRange(w)
    OBVIOUS
  <2>2. st.range = r
    BY <1>1, <2>1 DEF ComputeStructure
  <2> QED
    BY <2>1, <2>2, RangeIs
<1>4. Levelled(CollectLevels(st))
  BY <1>2, <1>3, CollectLevelled
<1>5. PICK a : a = EqPools(st, "HIGH", "EQH") /\ Levelled(a)
  BY <1>2, EqPoolsLevelled
<1>6. PICK b : b = EqPools(st, "LOW", "EQL") /\ Levelled(b)
  BY <1>2, EqPoolsLevelled
<1>7. PICK c : c = TrendPools(st) /\ Levelled(c)
  BY <1>2, TrendPoolsLevelled
<1>8. PICK d : d = RangePools(st) /\ Levelled(d)
  BY <1>3, RangePoolsLevelled
<1>9. PICK e : e = SweepPools(st, Sweeps(w, st)) /\ Levelled(e)
  BY <1>4, SweepsLevelled
<1>10. PICK g : g = WickPools(w, st) /\ Levelled(g)
  BY <1>4, WicksLevelled
<1>11. Levelled(((((a \o b) \o c) \o d) \o e) \o g)
  <2>1. Levelled(a \o b)
    BY <1>5, <1>6, LevelledConcat
  <2>2. Levelled((a \o b) \o c)
    BY <2>1, <1>7, LevelledConcat
  <2>3. Levelled(((a \o b) \o c) \o d)
    BY <2>2, <1>8, LevelledConcat
  <2>4. Levelled((((a \o b) \o c) \o d) \o e)
    BY <2>3, <1>9, LevelledConcat
  <2> QED
    BY <2>4, <1>10, LevelledConcat
<1>12. q.magnets = BuildMagnets(((((a \o b) \o c) \o d) \o e) \o g)
  BY <1>1, <1>5, <1>6, <1>7, <1>8, <1>9, <1>10 DEF ComputeLiquidity
<1> QED
  BY <1>11, <1>12

(* Magnets are bands of price that do not overlap, for every series of     *)
(* bars: when greedy clustering by a moving average opens a band, whatever *)
(* comes after it is farther from every average before.                    *)
THEOREM MagnetsStayApart == Spec => []MagnetsOrdered
<1>1. EngineInv => MagnetsOrdered
  <2> SUFFICES ASSUME EngineInv, hint # NoHint,
                      NEW i \in DOMAIN hint.liquidity.magnets, NEW j \in DOMAIN hint.liquidity.magnets,
                      i < j
               PROVE  hint.liquidity.magnets[i].hi < hint.liquidity.magnets[j].lo
    BY DEF MagnetsOrdered, Computed
  <2>1. PICK f \in Frames, p \in Seq(EventRecords) : hint = Hint(f, p)
    BY DEF EngineInv
  <2>2. PICK st : st = ComputeStructure(f)
    OBVIOUS
  <2>3. hint.liquidity = ComputeLiquidity(f, st)
    <3>1. Hint(f, p).structure = ComputeStructure(f)
      BY HintIs
    <3>2. Hint(f, p).liquidity = ComputeLiquidity(f, Hint(f, p).structure)
      BY HintIs
    <3> QED
      BY <2>1, <2>2, <3>1, <3>2
  <2>4. PICK pools : Levelled(pools) /\ hint.liquidity.magnets = BuildMagnets(pools)
    BY <2>2, <2>3, LiquidityIs
  <2> QED
    BY <2>4, MagnetsApart
<1> QED
  BY <1>1, EngineHolds, PTL
=============================================================================
