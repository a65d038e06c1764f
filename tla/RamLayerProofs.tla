--------------------------- MODULE RamLayerProofs ---------------------------
(* Theorems about RamLayer, for every set of symbols, intervals and sizes, *)
(* every TTL and quota.                                                    *)
EXTENDS RamLayer, FiniteSetTheorems, TLAPS

Frame == [size : Sizes \cup {0}, age : Nat]

(* All the refinement needs: the layer holds frames.                       *)
Framed == store \in [Keys -> Frame]

(* Every frame is as large as it was, or gone.                             *)
OnlyLoses ==
  /\ store' \in [Keys -> Frame]
  /\ \A k \in Keys : store'[k].size \in {store[k].size, 0}

LEMMA AbsentIsAFrame == Absent \in Frame /\ Absent.size = 0
  BY DEF Absent, Frame
-----------------------------------------------------------------------------
(* delete takes away the frames of its keys and no others.                 *)
LEMMA DeletedStore ==
  ASSUME NEW s, NEW K
  PROVE  Deleted(s, K).store = [k \in Keys |-> IF k \in K THEN Absent ELSE s.store[k]]
  BY DEF Deleted

(* The quotas only take frames away.                                       *)
LEMMA QuotasStore ==
  ASSUME NEW s
  PROVE  \E K : Quotas(s).store = [k \in Keys |-> IF k \in K THEN Absent ELSE s.store[k]]
<1> DEFINE H == HotVictims(s.lru)
           t == Deleted(s, H)
           R == RamVictims(t)
<1>1. Quotas(s) = Deleted(t, R)
  BY DEF Quotas
<1>2. t.store = [k \in Keys |-> IF k \in H THEN Absent ELSE s.store[k]]
  BY DeletedStore
<1>3. Deleted(t, R).store = [k \in Keys |-> IF k \in R THEN Absent ELSE t.store[k]]
  BY DeletedStore
<1> HIDE DEF t, H, R
<1>4. Quotas(s).store = [k \in Keys |-> IF k \in H \cup R THEN Absent ELSE s.store[k]]
  BY <1>1, <1>2, <1>3
<1> QED
  BY <1>4

(* Taking frames away only loses.                                          *)
LEMMA TakenAway ==
  ASSUME Framed, NEW K, store' = [k \in Keys |-> IF k \in K THEN Absent ELSE store[k]]
  PROVE  OnlyLoses
<1>1. ASSUME NEW k \in Keys
      PROVE  store'[k] \in Frame /\ store'[k].size \in {store[k].size, 0}
  BY <1>1, AbsentIsAFrame DEF Framed
<1> QED
  BY <1>1 DEF OnlyLoses

LEMMA GetLoses == ASSUME Framed, NEW k \in Keys, Get(k) PROVE OnlyLoses
<1>1. CASE k \in Expired(Layer)
  <2>1. store' = Deleted(Layer, {k}).store
    BY <1>1 DEF Get, Becomes
  <2>2. store' = [j \in Keys |-> IF j \in {k} THEN Absent ELSE store[j]]
    BY <2>1, DeletedStore DEF Layer
  <2> QED
    BY <2>2, TakenAway
<1>2. CASE k \notin Expired(Layer)
  <2>1. store' = store
    BY <1>2 DEF Get, Becomes, Layer
  <2> QED
    BY <2>1 DEF OnlyLoses, Framed
<1> QED
  BY <1>1, <1>2

LEMMA SweepLoses == ASSUME Framed, Sweep PROVE OnlyLoses
<1> DEFINE E == Expired(Layer)
           s == Deleted(Layer, E)
<1>1. store' = Quotas(s).store
  BY DEF Sweep, Becomes
<1>2. s.store = [k \in Keys |-> IF k \in E THEN Absent ELSE store[k]]
  BY DeletedStore DEF Layer
<1> HIDE DEF s, E
<1>3. PICK K : Quotas(s).store = [k \in Keys |-> IF k \in K THEN Absent ELSE s.store[k]]
  BY QuotasStore
<1>4. store' = [k \in Keys |-> IF k \in E \cup K THEN Absent ELSE store[k]]
  BY <1>1, <1>2, <1>3
<1> QED
  BY <1>4, TakenAway

(* An entry grows older, never another frame.                              *)
LEMMA TickLoses == ASSUME Framed, Tick PROVE OnlyLoses
<1>1. ASSUME NEW k \in Keys
      PROVE  store'[k] \in Frame /\ store'[k].size = store[k].size
  <2>1. store[k] \in Frame
    BY DEF Framed
  <2>2. store'[k] \in {store[k], [store[k] EXCEPT !.age = @ + 1]}
    BY DEF Tick
  <2> QED
    BY <2>1, <2>2 DEF Frame
<1>2. store' = [k \in Keys |-> store'[k]]
  BY DEF Tick
<1> QED
  BY <1>1, <1>2 DEF OnlyLoses

(* put holds the new frame or nothing for its key, and only loses others.  *)
LEMMA PutStores ==
  ASSUME Framed, NEW k \in Keys, NEW size \in Sizes, Put(k, size)
  PROVE  /\ store' \in [Keys -> Frame]
         /\ store'[k].size \in {size, 0}
         /\ \A j \in Keys \ {k} : store'[j].size \in {store[j].size, 0}
<1> DEFINE s == Stored(k, size)
<1>1. store' = Quotas(s).store
  BY DEF Put, Becomes
<1>2. s.store = [store EXCEPT ![k] = [size |-> size, age |-> 0]]
  BY DEF Stored
<1> HIDE DEF s
<1>3. PICK K : Quotas(s).store = [j \in Keys |-> IF j \in K THEN Absent ELSE s.store[j]]
  BY QuotasStore
<1>4. store' = [j \in Keys |-> IF j \in K THEN Absent ELSE s.store[j]]
  BY <1>1, <1>3
<1>5. s.store[k] = [size |-> size, age |-> 0] /\ \A j \in Keys \ {k} : s.store[j] = store[j]
  BY <1>2 DEF Framed
<1>6. [size |-> size, age |-> 0] \in Frame
  BY DEF Frame
<1>7. ASSUME NEW j \in Keys
      PROVE  store'[j] \in Frame
  BY <1>4, <1>5, <1>6, AbsentIsAFrame DEF Framed
<1>8. store'[k].size \in {size, 0}
  BY <1>4, <1>5, AbsentIsAFrame
<1>9. ASSUME NEW j \in Keys \ {k}
      PROVE  store'[j].size \in {store[j].size, 0}
  BY <1>4, <1>5, AbsentIsAFrame
<1> QED
  BY <1>4, <1>7, <1>8, <1>9

LEMMA LayerFramed == ASSUME Framed, [Next]_vars PROVE Framed'
<1>1. ASSUME NEW k \in Keys, Get(k) PROVE Framed'
  BY <1>1, GetLoses DEF OnlyLoses, Framed
<1>2. ASSUME NEW k \in Keys, NEW size \in Sizes, Put(k, size) PROVE Framed'
  BY <1>2, PutStores DEF Framed
<1>3. CASE Sweep
  BY <1>3, SweepLoses DEF OnlyLoses, Framed
<1>4. CASE Tick
  BY <1>4, TickLoses DEF OnlyLoses, Framed
<1>5. CASE UNCHANGED vars \/ \E s \in Symbols, level \in Levels : SetPriority(s, level)
  BY <1>5 DEF SetPriority, vars, Framed
<1> QED
  BY <1>1, <1>2, <1>3, <1>4, <1>5 DEF Next
-----------------------------------------------------------------------------
(* Losing frames is a step of the lossy cache.                             *)
LEMMA LosingIsAllowed == ASSUME Framed, OnlyLoses PROVE Abstract!Next
<1> DEFINE held == [k \in Keys |-> store[k].size]
           next == [k \in Keys |-> store'[k].size]
<1>1. \A k \in Keys : store'[k] \in Frame /\ store'[k].size \in {store[k].size, 0}
  BY DEF OnlyLoses
<1>2. next \in [Keys -> Sizes \cup {0}]
  BY <1>1 DEF Frame
<1>3. \A k \in Keys : next[k] \in {held[k], 0}
  BY <1>1
<1> QED
  BY <1>2, <1>3 DEF Abstract!Next, Abstract!Lose, Abstract!Loses

LEMMA PutIsAllowed ==
  ASSUME Framed, NEW k \in Keys, NEW size \in Sizes, Put(k, size)
  PROVE  Abstract!Next
<1> DEFINE held == [j \in Keys |-> store[j].size]
           next == [j \in Keys |-> store'[j].size]
<1>1. /\ store' \in [Keys -> Frame]
      /\ store'[k].size \in {size, 0}
      /\ \A j \in Keys \ {k} : store'[j].size \in {store[j].size, 0}
  BY PutStores
<1>2. next \in [Keys -> Sizes \cup {0}]
  BY <1>1 DEF Frame
<1>3. next[k] \in {size, 0} /\ \A j \in Keys \ {k} : next[j] \in {held[j], 0}
  BY <1>1
<1>4. Abstract!Store(k, size)
  BY <1>2, <1>3 DEF Abstract!Store, Abstract!Loses
<1> QED
  BY <1>4 DEF Abstract!Next

(* RamLayer implements the lossy cache: whatever the TTLs, quotas and      *)
(* priorities, a key holds what was last put there or nothing, and a frame *)
(* that was lost never comes back (unified_store.py, RamLayer).             *)
THEOREM LayerIsLossy == Spec => Lossy
<1>1. Init => Abstract!Init
  BY DEF Init, Abstract!Init, Absent
<1>2. Init => Framed
  BY AbsentIsAFrame DEF Init, Framed
<1>3. ASSUME Framed, [Next]_vars
      PROVE  [Abstract!Next]_([k \in Keys |-> store[k].size])
  <2>1. ASSUME NEW k \in Keys, Get(k) PROVE Abstract!Next
    BY <1>3, <2>1, GetLoses, LosingIsAllowed
  <2>2. ASSUME NEW k \in Keys, NEW size \in Sizes, Put(k, size) PROVE Abstract!Next
    BY <1>3, <2>2, PutIsAllowed
  <2>3. CASE Sweep
    BY <1>3, <2>3, SweepLoses, LosingIsAllowed
  <2>4. CASE Tick
    BY <1>3, <2>4, TickLoses, LosingIsAllowed
  <2>5. CASE UNCHANGED vars \/ \E s \in Symbols, level \in Levels : SetPriority(s, level)
    BY <2>5 DEF SetPriority, vars
  <2> QED
    BY <1>3, <2>1, <2>2, <2>3, <2>4, <2>5 DEF Next
<1>4. Framed /\ [Next]_vars => Framed'
  BY LayerFramed
<1> QED
  BY <1>1, <1>2, <1>3, <1>4, PTL DEF Spec, Abstract!Spec, Lossy
-----------------------------------------------------------------------------
(* Induction.  A set of numbers with zero and each successor is all of     *)
(* them; a property of the empty set that comes back with some element of  *)
(* every other set holds of each subset of a finite set.                   *)
LEMMA NatSetInduction ==
  ASSUME NEW S, 0 \in S, \A n \in Nat : n \in S => n + 1 \in S
  PROVE  Nat \subseteq S
<1> DEFINE T == Nat \ S
           R == OpToRel(<, Nat)
<1> SUFFICES ASSUME T # {} PROVE FALSE
  OBVIOUS
<1>1. IsWellFoundedOn(R, Nat)
  BY NatLessThanWellFounded
<1>2. T \subseteq Nat
  OBVIOUS
<1>3. PICK x \in T : \A y \in T : ~ (<<y, x>> \in R)
  <2> HIDE DEF T, R
  <2> QED
    BY <1>1, <1>2, WFMin
<1>4. x \in Nat /\ x # 0
  OBVIOUS
<1>5. x - 1 \in Nat /\ x - 1 \notin S
  BY <1>4
<1>6. <<x - 1, x>> \in R
  BY <1>4, <1>5 DEF OpToRel
<1> QED
  BY <1>3, <1>5, <1>6

LEMMA SubsetInduction ==
  ASSUME NEW S, IsFiniteSet(S), NEW P, {} \in P,
         \A T \in SUBSET S : T # {} => \E x \in T : T \ {x} \in P => T \in P
  PROVE  SUBSET S \subseteq P
<1> DEFINE R == StrictSubsetOrdering(S)
           Bad == (SUBSET S) \ P
<1> SUFFICES ASSUME Bad # {} PROVE FALSE
  OBVIOUS
<1>1. IsWellFoundedOn(R, SUBSET S)
  <2>1. IsWellFoundedOn(R, FiniteSubsetsOf(S))
    BY FS_StrictSubsetOrderingWellFounded
  <2>2. FiniteSubsetsOf(S) = SUBSET S
    BY FS_FiniteSubsetsOfFinite
  <2> HIDE DEF R
  <2> QED
    BY <2>1, <2>2
<1>2. Bad \subseteq SUBSET S
  OBVIOUS
<1>3. PICK T \in Bad : \A U \in Bad : ~ (<<U, T>> \in R)
  <2> HIDE DEF Bad, R
  <2> QED
    BY <1>1, <1>2, WFMin
<1>4. T # {} /\ T \in SUBSET S
  OBVIOUS
<1>5. PICK x \in T : T \ {x} \in P => T \in P
  BY <1>4
<1>6. T \ {x} \in Bad /\ <<T \ {x}, T>> \in R
  BY <1>4, <1>5 DEF StrictSubsetOrdering
<1> QED
  BY <1>3, <1>6
-----------------------------------------------------------------------------
(* Sums.  g sums f over the subsets of K the way MapThenSumSet does, taking*)
(* out the element CHOOSE picks.                                           *)
Pick(S) == CHOOSE x \in S : TRUE

Sums(g, f, K) ==
  g = [S \in SUBSET K |-> IF S = {} THEN 0 ELSE f[Pick(S)] + g[S \ {Pick(S)}]]

LEMMA Picked == ASSUME NEW S, S # {} PROVE Pick(S) \in S
  BY DEF Pick

(* There is such a function: it is built up over the sets of each size.    *)
LEMMA SumsExist ==
  ASSUME NEW K, IsFiniteSet(K), NEW f
  PROVE  \E g : Sums(g, f, K)
<1> DEFINE Small(n) == {S \in SUBSET K : Cardinality(S) <= n}
           SumsTo(g, n) ==
             g = [S \in Small(n) |-> IF S = {} THEN 0 ELSE f[Pick(S)] + g[S \ {Pick(S)}]]
           N == {n \in Nat : \E g : SumsTo(g, n)}
<1>1. ASSUME NEW S \in SUBSET K
      PROVE  /\ IsFiniteSet(S) /\ Cardinality(S) \in Nat /\ Cardinality(S) <= Cardinality(K)
             /\ Cardinality(S) = 0 => S = {}
             /\ \A x \in S : Cardinality(S \ {x}) = Cardinality(S) - 1
  <2>1. IsFiniteSet(S) /\ Cardinality(S) <= Cardinality(K)
    BY FS_Subset
  <2> QED
    BY <2>1, FS_CardinalityType, FS_EmptySet, FS_RemoveElement
<1>2. 0 \in N
  <2> DEFINE g == [S \in Small(0) |-> 0]
  <2>1. \A S \in Small(0) : S = {}
    BY <1>1
  <2>2. SumsTo(g, 0)
    BY <2>1
  <2> QED
    BY <2>2
<1>3. ASSUME NEW n \in Nat, n \in N PROVE n + 1 \in N
  <2>1. PICK h : SumsTo(h, n)
    BY <1>3
  <2> DEFINE g == [S \in Small(n + 1) |-> IF S = {} THEN 0 ELSE f[Pick(S)] + h[S \ {Pick(S)}]]
  <2>2. ASSUME NEW S \in Small(n) PROVE S \in Small(n + 1) /\ g[S] = h[S]
    <3>1. S \in Small(n + 1)
      BY <1>1
    <3>2. h[S] = IF S = {} THEN 0 ELSE f[Pick(S)] + h[S \ {Pick(S)}]
      BY <2>1
    <3>3. g[S] = IF S = {} THEN 0 ELSE f[Pick(S)] + h[S \ {Pick(S)}]
      BY <3>1
    <3> QED
      BY <3>1, <3>2, <3>3
  <2>3. ASSUME NEW S \in Small(n + 1)
        PROVE  g[S] = IF S = {} THEN 0 ELSE f[Pick(S)] + g[S \ {Pick(S)}]
    <3>1. S # {} => S \ {Pick(S)} \in Small(n)
      BY <1>1, Picked
    <3>2. g[S] = IF S = {} THEN 0 ELSE f[Pick(S)] + h[S \ {Pick(S)}]
      OBVIOUS
    <3> HIDE DEF g, Small, SumsTo
    <3> QED
      BY <2>2, <3>1, <3>2
  <2>4. g = [S \in Small(n + 1) |-> g[S]]
    OBVIOUS
  <2> HIDE DEF g
  <2>5. SumsTo(g, n + 1)
    BY <2>3, <2>4
  <2> HIDE DEF SumsTo
  <2> QED
    BY <2>5
<1>4. Nat \subseteq N
  <2> HIDE DEF N
  <2> QED
    BY <1>2, <1>3, NatSetInduction
<1>5. Cardinality(K) \in Nat
  BY FS_CardinalityType
<1>6. PICK g : SumsTo(g, Cardinality(K))
  BY <1>4, <1>5
<1>7. Small(Cardinality(K)) = SUBSET K
  BY <1>1
<1>8. Sums(g, f, K)
  BY <1>6, <1>7 DEF Sums
<1> QED
  BY <1>8

(* It does not matter which element is taken out first.                    *)
LEMMA SumsAny ==
  ASSUME NEW K, IsFiniteSet(K), NEW f, \A k \in K : f[k] \in Nat, NEW g, Sums(g, f, K),
         NEW S \in SUBSET K
  PROVE  g[S] \in Nat /\ \A y \in S : g[S] = f[y] + g[S \ {y}]
<1> DEFINE Fine(T) == g[T] \in Nat /\ \A y \in T : g[T] = f[y] + g[T \ {y}]
           Bad == {T \in SUBSET K : ~Fine(T)}
           R == StrictSubsetOrdering(K)
<1> SUFFICES ASSUME Bad # {} PROVE FALSE
  OBVIOUS
<1>1. IsWellFoundedOn(R, SUBSET K)
  <2>1. IsWellFoundedOn(R, FiniteSubsetsOf(K))
    BY FS_StrictSubsetOrderingWellFounded
  <2>2. FiniteSubsetsOf(K) = SUBSET K
    BY FS_FiniteSubsetsOfFinite
  <2> HIDE DEF R
  <2> QED
    BY <2>1, <2>2
<1>2. Bad \subseteq SUBSET K
  OBVIOUS
<1>3. PICK T \in Bad : \A U \in Bad : ~ (<<U, T>> \in R)
  <2> HIDE DEF Bad, R
  <2> QED
    BY <1>1, <1>2, WFMin
<1>4. T \in SUBSET K /\ ~Fine(T)
  OBVIOUS
<1>5. ASSUME NEW U \in SUBSET T, U # T PROVE Fine(U)
  <2>1. <<U, T>> \in R /\ U \in SUBSET K
    BY <1>4, <1>5 DEF StrictSubsetOrdering
  <2> HIDE DEF Fine, R
  <2> QED
    BY <1>3, <2>1
<1>6. g[T] = IF T = {} THEN 0 ELSE f[Pick(T)] + g[T \ {Pick(T)}]
  BY <1>4 DEF Sums
<1>7. CASE T = {}
  BY <1>4, <1>6, <1>7
<1>8. CASE T # {}
  <2> DEFINE x == Pick(T)
  <2>1. x \in T /\ f[x] \in Nat
    BY <1>4, <1>8, Picked
  <2>2. T \ {x} \in SUBSET T /\ T \ {x} # T
    BY <2>1
  <2>3. Fine(T \ {x})
    BY <1>5, <2>2
  <2>4. g[T] = f[x] + g[T \ {x}]
    BY <1>6, <1>8
  <2> HIDE DEF x
  <2>5. g[T] \in Nat
    BY <2>1, <2>3, <2>4
  <2>6. ASSUME NEW y \in T PROVE g[T] = f[y] + g[T \ {y}]
    <3>1. CASE y = x
      BY <2>4, <3>1
    <3>2. CASE y # x
      <4>1. f[y] \in Nat /\ y \in T \ {x} /\ x \in T \ {y} /\ T \ {y} \in SUBSET T /\ T \ {y} # T
        BY <1>4, <2>1, <3>2
      <4>2. Fine(T \ {y})
        BY <1>5, <4>1
      <4>3. g[T \ {x}] = f[y] + g[(T \ {x}) \ {y}]
        BY <2>3, <4>1
      <4>4. g[T \ {y}] = f[x] + g[(T \ {y}) \ {x}]
        BY <4>1, <4>2
      <4>5. (T \ {x}) \ {y} = (T \ {y}) \ {x} /\ (T \ {x}) \ {y} \in SUBSET T /\ (T \ {x}) \ {y} # T
        BY <4>1
      <4>6. g[(T \ {x}) \ {y}] \in Nat
        BY <1>5, <4>5
      <4>7. PICK u \in Nat : u = g[(T \ {x}) \ {y}]
        BY <4>6
      <4>8. g[T \ {x}] = f[y] + u /\ g[T \ {y}] = f[x] + u
        BY <4>3, <4>4, <4>5, <4>7
      <4> QED
        BY <2>1, <2>4, <4>1, <4>8
    <3> QED
      BY <3>1, <3>2
  <2> QED
    BY <1>4, <2>5, <2>6
<1> QED
  BY <1>7, <1>8

(* Two such functions agree where both are defined.                        *)
LEMMA SumsAgree ==
  ASSUME NEW K, IsFiniteSet(K), NEW L \in SUBSET K, NEW f, NEW g, NEW h,
         Sums(g, f, K), Sums(h, f, L)
  PROVE  g[L] = h[L]
<1> DEFINE P == {S \in SUBSET L : g[S] = h[S]}
<1>1. \A S \in SUBSET L : /\ g[S] = IF S = {} THEN 0 ELSE f[Pick(S)] + g[S \ {Pick(S)}]
                          /\ h[S] = IF S = {} THEN 0 ELSE f[Pick(S)] + h[S \ {Pick(S)}]
  <2>1. ASSUME NEW S \in SUBSET L PROVE S \in SUBSET K
    OBVIOUS
  <2> QED
    BY <2>1 DEF Sums
<1>2. {} \in P
  BY <1>1
<1>3. \A T \in SUBSET L : T # {} => \E x \in T : T \ {x} \in P => T \in P
  BY <1>1, Picked
<1>4. IsFiniteSet(L)
  BY FS_Subset
<1>5. SUBSET L \subseteq P
  <2> HIDE DEF P
  <2> QED
    BY <1>2, <1>3, <1>4, SubsetInduction
<1> QED
  BY <1>5
-----------------------------------------------------------------------------
(* The keys are finitely many.                                             *)
LEMMA KeysAreFinite == IsFiniteSet(Keys)
  BY KeysFinite, FS_Product DEF Keys

(* A layer value of the right types.                                       *)
Layers == [store : [Keys -> Entries], lru : Seq(Keys), bytes : Int]

LEMMA SizesAreNat ==
  ASSUME NEW s \in Layers, NEW k \in Keys
  PROVE  s.store[k] \in Entries /\ s.store[k].size \in Nat
<1>1. s.store[k] \in Entries
  BY DEF Layers
<1>2. PICK n : n = s.store[k].size
  OBVIOUS
<1>3. n \in Sizes \cup {0}
  BY <1>1, <1>2 DEF Entries
<1>4. n \in Nat
  BY <1>3, SizesPositive
<1> QED
  BY <1>1, <1>2, <1>4

(* Bytes adds the sizes of the frames, in whatever order.                  *)
LEMMA BytesSum ==
  ASSUME NEW s \in Layers, NEW S \in SUBSET Keys
  PROVE  /\ Bytes(s, S) \in Nat /\ Bytes(s, {}) = 0
         /\ \A y \in S : Bytes(s, S) = s.store[y].size + Bytes(s, S \ {y})
<1> DEFINE f == [k \in Keys |-> s.store[k].size]
           iter(K) == CHOOSE g : g = [T \in SUBSET K |->
             IF T = {} THEN 0 ELSE s.store[Pick(T)].size + g[T \ {Pick(T)}]]
<1>1. ASSUME NEW K \in SUBSET Keys PROVE Bytes(s, K) = iter(K)[K] /\ Sums(iter(K), f, K)
  <2>1. Bytes(s, K) = iter(K)[K]
    BY Zenon DEF Bytes, MapThenSumSet, MapThenFoldSet, Pick
  <2>2. IsFiniteSet(K)
    BY KeysAreFinite, FS_Subset
  <2>3. \A T \in SUBSET K : T # {} => f[Pick(T)] = s.store[Pick(T)].size
    BY Picked
  <2>4. ASSUME NEW g
        PROVE  Sums(g, f, K) <=> g = [T \in SUBSET K |->
                 IF T = {} THEN 0 ELSE s.store[Pick(T)].size + g[T \ {Pick(T)}]]
    <3> HIDE DEF f
    <3>1. [T \in SUBSET K |-> IF T = {} THEN 0 ELSE f[Pick(T)] + g[T \ {Pick(T)}]]
            = [T \in SUBSET K |-> IF T = {} THEN 0 ELSE s.store[Pick(T)].size + g[T \ {Pick(T)}]]
      BY <2>3
    <3> QED
      BY <3>1 DEF Sums
  <2>5. \E g : Sums(g, f, K)
    <3> HIDE DEF f
    <3> QED
      BY <2>2, SumsExist
  <2>6. Sums(iter(K), f, K)
    <3> HIDE DEF f
    <3>1. PICK g : g = [T \in SUBSET K |->
                 IF T = {} THEN 0 ELSE s.store[Pick(T)].size + g[T \ {Pick(T)}]]
      BY <2>4, <2>5
    <3>2. iter(K) = [T \in SUBSET K |->
                 IF T = {} THEN 0 ELSE s.store[Pick(T)].size + iter(K)[T \ {Pick(T)}]]
      BY <3>1, Zenon
    <3> HIDE DEF iter
    <3> QED
      BY <2>4, <3>2
  <2> QED
    BY <2>1, <2>6
<1>2. ASSUME NEW k \in Keys PROVE f[k] \in Nat /\ f[k] = s.store[k].size
  BY SizesAreNat
<1> HIDE DEF f, iter
<1> DEFINE G == iter(Keys)
<1>3. ASSUME NEW K \in SUBSET Keys PROVE Bytes(s, K) = G[K]
  <2>1. Sums(G, f, Keys) /\ Sums(iter(K), f, K) /\ Bytes(s, K) = iter(K)[K]
    BY <1>1
  <2> HIDE DEF G
  <2> QED
    BY <2>1, KeysAreFinite, SumsAgree
<1>4. Sums(G, f, Keys)
  BY <1>1
<1> HIDE DEF G
<1>5. G[S] \in Nat /\ \A y \in S : G[S] = f[y] + G[S \ {y}]
  <2>1. \A k \in Keys : f[k] \in Nat
    BY <1>2
  <2> QED
    BY <1>4, <2>1, KeysAreFinite, SumsAny
<1>6. G[{}] = 0
  BY <1>4 DEF Sums
<1>7. \A y \in S : S \ {y} \in SUBSET Keys
  OBVIOUS
<1>8. Bytes(s, S) = G[S] /\ Bytes(s, {}) = G[{}]
  BY <1>3
<1>9. ASSUME NEW y \in S PROVE Bytes(s, S) = s.store[y].size + Bytes(s, S \ {y})
  <2>1. Bytes(s, S \ {y}) = G[S \ {y}]
    BY <1>3, <1>7
  <2> QED
    BY <1>2, <1>5, <1>8, <2>1
<1> QED
  BY <1>5, <1>6, <1>8, <1>9

(* Frames of the same sizes take the same bytes.                           *)
LEMMA BytesSame ==
  ASSUME NEW s \in Layers, NEW t \in Layers, NEW S \in SUBSET Keys,
         \A k \in S : s.store[k].size = t.store[k].size
  PROVE  Bytes(s, S) = Bytes(t, S)
<1> DEFINE P == {T \in SUBSET S : Bytes(s, T) = Bytes(t, T)}
<1>1. {} \in P
  BY BytesSum
<1>2. ASSUME NEW T \in SUBSET S, T # {} PROVE \E x \in T : T \ {x} \in P => T \in P
  <2>1. PICK x \in T : TRUE
    BY <1>2
  <2>2. T \in SUBSET Keys
    OBVIOUS
  <2>3. /\ Bytes(s, T) = s.store[x].size + Bytes(s, T \ {x})
        /\ Bytes(t, T) = t.store[x].size + Bytes(t, T \ {x})
    BY <2>1, <2>2, BytesSum
  <2> QED
    BY <2>3
<1>3. IsFiniteSet(S)
  BY KeysAreFinite, FS_Subset
<1>4. SUBSET S \subseteq P
  <2> HIDE DEF P
  <2> QED
    BY <1>1, <1>2, <1>3, SubsetInduction
<1> QED
  BY <1>4

(* The bytes of a set are those inside A and those outside.                *)
LEMMA BytesSplit ==
  ASSUME NEW s \in Layers, NEW S \in SUBSET Keys, NEW A
  PROVE  Bytes(s, S) = Bytes(s, S \cap A) + Bytes(s, S \ A)
<1> DEFINE P == {T \in SUBSET S : Bytes(s, T) = Bytes(s, T \cap A) + Bytes(s, T \ A)}
<1>0. {} \in SUBSET Keys /\ {} \cap A = {} /\ {} \ A = {}
  OBVIOUS
<1>1. {} \in P
  <2>1. Bytes(s, {}) = 0
    BY BytesSum
  <2> QED
    BY <1>0, <2>1
<1>2. ASSUME NEW T \in SUBSET S, T # {} PROVE \E x \in T : T \ {x} \in P => T \in P
  <2>1. PICK x \in T : TRUE
    BY <1>2
  <2> SUFFICES ASSUME T \ {x} \in P
               PROVE  Bytes(s, T) = Bytes(s, T \cap A) + Bytes(s, T \ A)
    BY <2>1
  <2>2. T \in SUBSET Keys /\ T \cap A \in SUBSET Keys /\ T \ A \in SUBSET Keys /\ x \in Keys
    OBVIOUS
  <2>3. Bytes(s, T) = s.store[x].size + Bytes(s, T \ {x})
    BY <2>2, BytesSum
  <2>4. Bytes(s, T \ {x}) = Bytes(s, (T \ {x}) \cap A) + Bytes(s, (T \ {x}) \ A)
    OBVIOUS
  <2>5. PICK u \in Nat, v \in Nat, w \in Nat :
          /\ w = s.store[x].size
          /\ u = Bytes(s, (T \ {x}) \cap A) /\ v = Bytes(s, (T \ {x}) \ A)
    <3>1. (T \ {x}) \cap A \in SUBSET Keys /\ (T \ {x}) \ A \in SUBSET Keys
      OBVIOUS
    <3>2. Bytes(s, (T \ {x}) \cap A) \in Nat /\ Bytes(s, (T \ {x}) \ A) \in Nat
      BY <3>1, BytesSum
    <3> QED
      BY <2>2, <3>2, SizesAreNat
  <2>6. CASE x \in A
    <3>1. (T \ {x}) \cap A = (T \cap A) \ {x} /\ (T \ {x}) \ A = T \ A /\ x \in T \cap A
      BY <2>6
    <3>2. Bytes(s, T \cap A) = s.store[x].size + Bytes(s, (T \cap A) \ {x})
      BY <2>2, <3>1, BytesSum
    <3>3. Bytes(s, T \cap A) = w + u /\ Bytes(s, T \ A) = v /\ Bytes(s, T) = w + (u + v)
      BY <2>3, <2>4, <2>5, <3>1, <3>2
    <3> QED
      BY <3>3
  <2>7. CASE x \notin A
    <3>1. (T \ {x}) \cap A = T \cap A /\ (T \ {x}) \ A = (T \ A) \ {x} /\ x \in T \ A
      BY <2>7
    <3>2. Bytes(s, T \ A) = s.store[x].size + Bytes(s, (T \ A) \ {x})
      BY <2>2, <3>1, BytesSum
    <3>3. Bytes(s, T \cap A) = u /\ Bytes(s, T \ A) = w + v /\ Bytes(s, T) = w + (u + v)
      BY <2>3, <2>4, <2>5, <3>1, <3>2
    <3> QED
      BY <3>3
  <2> QED
    BY <2>6, <2>7
<1>3. IsFiniteSet(S)
  BY KeysAreFinite, FS_Subset
<1>4. SUBSET S \subseteq P
  <2> HIDE DEF P
  <2> QED
    BY <1>1, <1>2, <1>3, SubsetInduction
<1> QED
  BY <1>4

(* Keys without a frame take no bytes.                                     *)
LEMMA BytesZero ==
  ASSUME NEW s \in Layers, NEW S \in SUBSET Keys, \A k \in S : s.store[k].size = 0
  PROVE  Bytes(s, S) = 0
<1> DEFINE P == {T \in SUBSET S : Bytes(s, T) = 0}
<1>1. {} \in P
  BY BytesSum
<1>2. ASSUME NEW T \in SUBSET S, T # {} PROVE \E x \in T : T \ {x} \in P => T \in P
  <2>1. PICK x \in T : TRUE
    BY <1>2
  <2>2. T \in SUBSET Keys
    OBVIOUS
  <2>3. Bytes(s, T) = s.store[x].size + Bytes(s, T \ {x})
    BY <2>1, <2>2, BytesSum
  <2> QED
    BY <2>3
<1>3. IsFiniteSet(S)
  BY KeysAreFinite, FS_Subset
<1>4. SUBSET S \subseteq P
  <2> HIDE DEF P
  <2> QED
    BY <1>1, <1>2, <1>3, SubsetInduction
<1> QED
  BY <1>4
-----------------------------------------------------------------------------
(* Taking keys out of the LRU list.  What holds of the empty list and is   *)
(* kept by each step of the fold holds of the result.                      *)
Step(rest, k, K) == IF k \in K THEN rest ELSE Append(rest, k)

LEMMA WithoutInduction ==
  ASSUME NEW q, NEW n \in Nat, DOMAIN q = 1 .. n, NEW K, NEW P, << >> \in P[0],
         \A i \in 1 .. n : \A w \in P[i - 1] : Step(w, q[i], K) \in P[i]
  PROVE  Without(q, K) \in P[n]
<1> DEFINE Folds(f, k) == f = [s \in SUBSET (1 .. k) |->
             IF s = {} THEN << >> ELSE Step(f[s \ {Max(s)}], q[Max(s)], K)]
<1>1. \E f : Folds(f, n)
  <2> DEFINE S == {k \in Nat : \E f : Folds(f, k)}
  <2>1. 0 \in S
    <3> DEFINE f == [s \in SUBSET (1 .. 0) |-> << >>]
    <3>1. \A s \in SUBSET (1 .. 0) : s = {}
      OBVIOUS
    <3>2. Folds(f, 0)
      BY <3>1
    <3> QED
      BY <3>2
  <2>2. ASSUME NEW k \in Nat, k \in S PROVE k + 1 \in S
    <3>1. PICK f : Folds(f, k)
      BY <2>2
    <3> DEFINE g == [s \in SUBSET (1 .. k + 1) |->
                 IF k + 1 \in s THEN Step(f[s \ {k + 1}], q[k + 1], K) ELSE f[s]]
    <3>2. ASSUME NEW s \in SUBSET (1 .. k + 1)
          PROVE  g[s] = IF s = {} THEN << >> ELSE Step(g[s \ {Max(s)}], q[Max(s)], K)
      <4>1. CASE k + 1 \in s
        <5>1. k + 1 \in s /\ \A y \in s : k + 1 >= y
          BY <4>1
        <5>2. Max(s) \in s /\ \A y \in s : Max(s) >= y
          BY <5>1 DEF Max
        <5>3. Max(s) = k + 1
          <6>1. Max(s) \in 1 .. k + 1 /\ Max(s) >= k + 1
            BY <5>1, <5>2
          <6> QED
            BY <6>1
        <5>4. s \ {k + 1} \in SUBSET (1 .. k + 1) /\ k + 1 \notin s \ {k + 1}
          OBVIOUS
        <5>5. g[s \ {k + 1}] = f[s \ {k + 1}]
          BY <5>4
        <5>6. g[s] = Step(f[s \ {k + 1}], q[k + 1], K)
          BY <4>1
        <5> HIDE DEF g, Folds
        <5> QED
          BY <4>1, <5>3, <5>5, <5>6
      <4>2. CASE k + 1 \notin s
        <5>1. s \in SUBSET (1 .. k) /\ s \ {Max(s)} \in SUBSET (1 .. k)
          <6>1. \A x \in s : x \in 1 .. k + 1 /\ x # k + 1
            BY <4>2
          <6>2. \A x \in s : x \in 1 .. k
            BY <6>1
          <6> QED
            BY <6>2
        <5>2. g[s] = f[s] /\ g[s \ {Max(s)}] = f[s \ {Max(s)}]
          BY <4>2
        <5>3. f[s] = IF s = {} THEN << >> ELSE Step(f[s \ {Max(s)}], q[Max(s)], K)
          BY <3>1, <5>1
        <5> HIDE DEF g, Folds
        <5> QED
          BY <5>2, <5>3
      <4> QED
        BY <4>1, <4>2
    <3>3. g = [s \in SUBSET (1 .. k + 1) |-> g[s]]
      OBVIOUS
    <3>4. Folds(g, k + 1)
      <4> HIDE DEF g
      <4> QED
        BY <3>2, <3>3
    <3> HIDE DEF g, Folds
    <3> QED
      BY <3>4
  <2> HIDE DEF S
  <2>3. Nat \subseteq S
    BY <2>1, <2>2, NatSetInduction
  <2> QED
    BY <2>3 DEF S
<1> DEFINE iter == CHOOSE f : f = [s \in SUBSET DOMAIN q |->
             IF s = {} THEN << >> ELSE Step(f[s \ {Max(s)}], q[Max(s)], K)]
<1>2. Without(q, K) = iter[DOMAIN q]
  BY Zenon DEF Without, FoldLeft, MapThenFoldSet, Step
<1>3. iter = [s \in SUBSET (1 .. n) |->
         IF s = {} THEN << >> ELSE Step(iter[s \ {Max(s)}], q[Max(s)], K)]
  BY <1>1, Zenon
<1> HIDE DEF iter
<1> DEFINE S == {k \in Nat : k <= n => iter[1 .. k] \in P[k]}
<1>4. 0 \in S
  <2>1. 1 .. 0 = {} /\ 1 .. 0 \in SUBSET (1 .. n)
    OBVIOUS
  <2> QED
    BY <1>3, <2>1
<1>5. ASSUME NEW k \in Nat, k \in S PROVE k + 1 \in S
  <2> SUFFICES ASSUME k + 1 <= n PROVE iter[1 .. k + 1] \in P[k + 1]
    OBVIOUS
  <2> DEFINE s == 1 .. k + 1
  <2>1. k + 1 \in s /\ \A y \in s : k + 1 >= y
    OBVIOUS
  <2>2. Max(s) \in s /\ \A y \in s : Max(s) >= y
    BY <2>1 DEF Max
  <2>3. Max(s) = k + 1
    BY <2>1, <2>2
  <2>4. s \ {k + 1} = 1 .. k /\ s # {} /\ s \in SUBSET (1 .. n)
    <3>1. \A x : x \in s \ {k + 1} <=> x \in 1 .. k
      OBVIOUS
    <3>2. \A x \in s : x \in 1 .. n
      OBVIOUS
    <3> HIDE DEF s
    <3> QED
      BY <2>1, <3>1, <3>2
  <2>5. iter[s] = Step(iter[1 .. k], q[k + 1], K)
    <3> HIDE DEF s
    <3> QED
      BY <1>3, <2>3, <2>4
  <2>6. iter[1 .. k] \in P[k] /\ k + 1 \in 1 .. n /\ (k + 1) - 1 = k
    BY <1>5
  <2> QED
    BY <2>5, <2>6
<1>6. Nat \subseteq S
  <2> HIDE DEF S
  <2> QED
    BY <1>4, <1>5, NatSetInduction
<1> QED
  BY <1>2, <1>6

(* A list without repetitions loses the keys of K, keeps the others once   *)
(* each, and keeps its last key last unless that is one of K.              *)
Rest(w, q, i, K) ==
  /\ w \in Seq(Keys) /\ IsInjective(w)
  /\ ToSet(w) = {q[j] : j \in 1 .. i} \ K
  /\ i > 0 /\ q[i] \notin K => Len(w) > 0 /\ w[Len(w)] = q[i]

LEMMA WithoutIs ==
  ASSUME NEW q \in Seq(Keys), IsInjective(q), NEW K
  PROVE  Rest(Without(q, K), q, Len(q), K)
<1> DEFINE n == Len(q)
           P == [i \in 0 .. n |-> {w \in Seq(Keys) : Rest(w, q, i, K)}]
<1>1. n \in Nat /\ DOMAIN q = 1 .. n /\ \A i \in 1 .. n : q[i] \in Keys
  OBVIOUS
<1>2. << >> \in P[0]
  <2>1. << >> \in Seq(Keys) /\ ToSet(<< >>) = {} /\ IsInjective(<< >>)
    BY DEF ToSet, IsInjective
  <2>2. 1 .. 0 = {} /\ ~(0 > 0)
    OBVIOUS
  <2>3. Rest(<< >>, q, 0, K)
    BY <2>1, <2>2 DEF Rest
  <2>4. 0 \in 0 .. n
    BY <1>1
  <2> QED
    BY <2>1, <2>3, <2>4
<1>3. ASSUME NEW i \in 1 .. n, NEW w \in P[i - 1] PROVE Step(w, q[i], K) \in P[i]
  <2>1. i - 1 \in 0 .. n /\ i \in 0 .. n /\ i > 0
    BY <1>1
  <2>2. w \in Seq(Keys) /\ Rest(w, q, i - 1, K)
    BY <2>1
  <2>3. ToSet(w) = {q[j] : j \in 1 .. i - 1} \ K /\ IsInjective(w)
    BY <2>2 DEF Rest
  <2>4. {q[j] : j \in 1 .. i} = {q[j] : j \in 1 .. i - 1} \cup {q[i]}
    <3>1. \A j : j \in 1 .. i <=> j \in 1 .. i - 1 \/ j = i
      BY <1>1
    <3> QED
      BY <3>1
  <2>5. CASE q[i] \in K
    <3>1. Step(w, q[i], K) = w
      BY <2>5 DEF Step
    <3>2. Rest(w, q, i, K)
      BY <2>2, <2>3, <2>4, <2>5 DEF Rest
    <3> QED
      BY <2>1, <2>2, <3>1, <3>2
  <2>6. CASE q[i] \notin K
    <3> DEFINE v == Append(w, q[i])
    <3>1. Step(w, q[i], K) = v
      BY <2>6 DEF Step
    <3>2. v \in Seq(Keys) /\ Len(v) = Len(w) + 1 /\ Len(w) \in Nat /\ v[Len(v)] = q[i]
          /\ DOMAIN v = 1 .. Len(w) + 1 /\ DOMAIN w = 1 .. Len(w)
          /\ \A j \in 1 .. Len(w) : v[j] = w[j]
      BY <1>1, <2>2
    <3> HIDE DEF v
    <3>3. ToSet(v) = ToSet(w) \cup {q[i]}
      <4>1. \A j : j \in DOMAIN v <=> j \in DOMAIN w \/ j = Len(w) + 1
        BY <3>2
      <4>2. \A j \in DOMAIN w : v[j] = w[j]
        BY <3>2
      <4>3. v[Len(w) + 1] = q[i]
        BY <3>2
      <4> QED
        BY <4>1, <4>2, <4>3, Zenon DEF ToSet
    <3>4. q[i] \notin ToSet(w)
      <4>1. ASSUME NEW j \in 1 .. i - 1 PROVE q[j] # q[i]
        <5>1. j \in DOMAIN q /\ i \in DOMAIN q /\ j # i
          BY <1>1
        <5> QED
          BY <5>1 DEF IsInjective
      <4> QED
        BY <2>3, <4>1
    <3>5. IsInjective(v)
      <4>1. ASSUME NEW a \in DOMAIN v, NEW b \in DOMAIN v, v[a] = v[b] PROVE a = b
        <5>1. a \in DOMAIN w \/ a = Len(w) + 1
          BY <3>2
        <5>2. b \in DOMAIN w \/ b = Len(w) + 1
          BY <3>2
        <5>3. \A j \in DOMAIN w : v[j] = w[j] /\ w[j] \in ToSet(w)
          BY <3>2 DEF ToSet
        <5>4. v[Len(w) + 1] = q[i]
          BY <3>2
        <5>5. \A c, d \in DOMAIN w : w[c] = w[d] => c = d
          BY <2>3 DEF IsInjective
        <5> QED
          BY <3>4, <4>1, <5>1, <5>2, <5>3, <5>4, <5>5, Zenon
      <4> QED
        BY <4>1 DEF IsInjective
    <3>6. ToSet(v) = {q[j] : j \in 1 .. i} \ K
      BY <2>3, <2>4, <2>6, <3>3
    <3>7. Rest(v, q, i, K)
      BY <3>2, <3>5, <3>6 DEF Rest
    <3> QED
      BY <2>1, <3>1, <3>2, <3>7
  <2> QED
    BY <2>5, <2>6
<1>4. Without(q, K) \in P[n]
  <2> HIDE DEF P, n
  <2> QED
    BY <1>1, <1>2, <1>3, WithoutInduction
<1>5. n \in 0 .. n
  BY <1>1
<1> QED
  BY <1>4, <1>5
-----------------------------------------------------------------------------
(* Store, LRU list and byte account of a layer value agree.                *)
Sound(s) ==
  /\ s \in Layers
  /\ IsInjective(s.lru) /\ ToSet(s.lru) = Resident(s)
  /\ s.bytes = Bytes(s, Keys)

LEMMA BytesGrow ==
  ASSUME NEW s \in Layers, NEW S \in SUBSET Keys, NEW A \in SUBSET S
  PROVE  /\ Bytes(s, A) \in Nat /\ Bytes(s, S) \in Nat /\ Bytes(s, S \ A) \in Nat
         /\ Bytes(s, S) = Bytes(s, A) + Bytes(s, S \ A)
<1>1. Bytes(s, S) = Bytes(s, S \cap A) + Bytes(s, S \ A)
  BY BytesSplit
<1>2. S \cap A = A /\ S \ A \in SUBSET Keys /\ A \in SUBSET Keys
  OBVIOUS
<1>3. Bytes(s, A) \in Nat /\ Bytes(s, S) \in Nat /\ Bytes(s, S \ A) \in Nat
  BY <1>2, BytesSum
<1> QED
  BY <1>1, <1>2, <1>3

(* delete keeps them in agreement.                                         *)
LEMMA DeletedSound ==
  ASSUME NEW s, Sound(s), NEW K \in SUBSET Keys
  PROVE  /\ Sound(Deleted(s, K)) /\ Resident(Deleted(s, K)) = Resident(s) \ K
         /\ Deleted(s, K).bytes = s.bytes - Bytes(s, K)
         /\ Bytes(s, K) \in Nat /\ s.bytes \in Nat
<1> DEFINE t == Deleted(s, K)
<1>1. /\ t.store = [k \in Keys |-> IF k \in K THEN Absent ELSE s.store[k]]
      /\ t.lru = Without(s.lru, K)
      /\ t.bytes = s.bytes - Bytes(s, K)
      /\ t = [store |-> t.store, lru |-> t.lru, bytes |-> t.bytes]
  BY DEF Deleted
<1>2. /\ s \in Layers /\ s.store \in [Keys -> Entries] /\ s.lru \in Seq(Keys)
      /\ IsInjective(s.lru) /\ ToSet(s.lru) = Resident(s) /\ s.bytes = Bytes(s, Keys)
  BY DEF Sound, Layers
<1> HIDE DEF t
<1>3. /\ Bytes(s, K) \in Nat /\ Bytes(s, Keys) \in Nat /\ Bytes(s, Keys \ K) \in Nat
      /\ Bytes(s, Keys) = Bytes(s, K) + Bytes(s, Keys \ K)
  BY <1>2, BytesGrow
<1>4. ASSUME NEW k \in Keys
      PROVE  /\ t.store[k] = IF k \in K THEN Absent ELSE s.store[k]
             /\ t.store[k] \in Entries
  <2>1. t.store[k] = IF k \in K THEN Absent ELSE s.store[k]
    BY <1>1
  <2>2. s.store[k] \in Entries /\ Absent \in Entries
    BY <1>2 DEF Absent, Entries
  <2> QED
    BY <2>1, <2>2
<1>5. t.store \in [Keys -> Entries]
  BY <1>1, <1>4
<1>6. Rest(t.lru, s.lru, Len(s.lru), K)
  BY <1>1, <1>2, WithoutIs
<1>7. t.lru \in Seq(Keys) /\ IsInjective(t.lru)
      /\ ToSet(t.lru) = {s.lru[j] : j \in 1 .. Len(s.lru)} \ K
  BY <1>6 DEF Rest
<1>8. t \in Layers
  <2>1. t.bytes \in Int
    BY <1>1, <1>2, <1>3
  <2> QED
    BY <1>1, <1>5, <1>7, <2>1 DEF Layers
<1>9. Resident(t) = Resident(s) \ K
  BY <1>4 DEF Resident
<1>10. ToSet(t.lru) = Resident(t)
  <2>1. ToSet(s.lru) = {s.lru[j] : j \in 1 .. Len(s.lru)}
    <3>1. DOMAIN s.lru = 1 .. Len(s.lru)
      BY <1>2
    <3> QED
      BY <3>1 DEF ToSet
  <2> QED
    BY <1>2, <1>7, <1>9, <2>1
<1>11. t.bytes = Bytes(t, Keys)
  <2>1. /\ Bytes(t, K) \in Nat /\ Bytes(t, Keys \ K) \in Nat
        /\ Bytes(t, Keys) = Bytes(t, K) + Bytes(t, Keys \ K)
    BY <1>8, BytesGrow
  <2>2. Bytes(t, K) = 0
    <3>1. \A k \in K : t.store[k].size = 0
      BY <1>4 DEF Absent
    <3> QED
      BY <1>8, <3>1, BytesZero
  <2>3. Bytes(t, Keys \ K) = Bytes(s, Keys \ K)
    <3>1. \A k \in Keys \ K : t.store[k].size = s.store[k].size
      BY <1>4
    <3> QED
      BY <1>2, <1>8, <3>1, BytesSame
  <2> QED
    BY <1>1, <1>2, <1>3, <2>1, <2>2, <2>3
<1>12. Sound(t)
  BY <1>7, <1>8, <1>10, <1>11 DEF Sound
<1> QED
  BY <1>1, <1>2, <1>3, <1>9, <1>12 DEF t

LEMMA LeastNatural == ASSUME NEW S \in SUBSET Nat, S # {} PROVE \E n \in S : \A m \in S : n <= m
<1> DEFINE R == OpToRel(<, Nat)
<1>1. IsWellFoundedOn(R, Nat)
  BY NatLessThanWellFounded
<1>2. PICK n \in S : \A m \in S : ~ (<<m, n>> \in R)
  <2> HIDE DEF R
  <2> QED
    BY <1>1, WFMin
<1>3. ASSUME NEW m \in S PROVE n <= m
  <2>1. m \in Nat /\ n \in Nat
    OBVIOUS
  <2>2. m < n => <<m, n>> \in R
    BY <2>1 DEF OpToRel
  <2> HIDE DEF R
  <2> QED
    BY <1>2, <2>1, <2>2
<1> QED
  BY <1>3

(* The byte quota brings the account under the limit: what is left after   *)
(* its victims is at most what is left after the oldest keys, up to the    *)
(* first one that may stay.                                                *)
LEMMA RamQuota ==
  ASSUME NEW s, Sound(s)
  PROVE  /\ RamVictims(s) \in SUBSET Resident(s)
         /\ s.bytes - Bytes(s, RamVictims(s)) <= RamLimit
<1> DEFINE q == s.lru
           older(j) == {q[h] : h \in 1 .. j - 1}
           over == {j \in DOMAIN q : s.bytes - Bytes(s, older(j)) > RamLimit}
           V == RamVictims(s)
<1>1. V = {q[i] : i \in over}
  BY DEF RamVictims
<1>2. /\ s \in Layers /\ q \in Seq(Keys) /\ ToSet(q) = Resident(s)
      /\ s.bytes = Bytes(s, Keys) /\ RamLimit \in Nat
  BY QuotasPositive DEF Sound, Layers
<1> HIDE DEF V
<1>3. V \in SUBSET Resident(s) /\ V \in SUBSET Keys
  BY <1>1, <1>2 DEF ToSet, Resident
<1>4. /\ Bytes(s, V) \in Nat /\ Bytes(s, Keys) \in Nat /\ Bytes(s, Keys \ V) \in Nat
      /\ Bytes(s, Keys) = Bytes(s, V) + Bytes(s, Keys \ V)
  BY <1>2, <1>3, BytesGrow
<1>5. CASE DOMAIN q \subseteq over
  <2>1. V = Resident(s)
    BY <1>1, <1>2, <1>5 DEF ToSet
  <2>2. \A k \in Keys \ V : s.store[k].size = 0
    BY <2>1 DEF Resident, Absent
  <2>3. Bytes(s, Keys \ V) = 0
    BY <1>2, <2>2, BytesZero
  <2>4. s.bytes - Bytes(s, V) = 0
    BY <1>2, <1>4, <2>3
  <2> QED
    BY <1>2, <1>3, <2>4 DEF V
<1>6. CASE ~(DOMAIN q \subseteq over)
  <2> DEFINE J == DOMAIN q \ over
  <2>1. J \in SUBSET Nat /\ J # {}
    <3>1. DOMAIN q \in SUBSET Nat
      BY <1>2
    <3> HIDE DEF over, q
    <3> QED
      BY <1>6, <3>1
  <2>2. PICK j \in J : \A i \in J : j <= i
    <3> HIDE DEF J
    <3> QED
      BY <2>1, LeastNatural
  <2>3. PICK O : O = older(j)
    OBVIOUS
  <2>4. O \in SUBSET V
    <3>1. ASSUME NEW h \in 1 .. j - 1 PROVE h \in over
      <4>1. h \in DOMAIN q /\ ~(j <= h)
        BY <1>2, <2>1, <2>2
      <4> QED
        BY <2>2, <4>1
    <3> HIDE DEF over
    <3> QED
      BY <1>1, <2>3, <3>1
  <2>5. s.bytes - Bytes(s, O) <= RamLimit
    <3>1. j \in DOMAIN q /\ ~(s.bytes - Bytes(s, O) > RamLimit)
      BY <2>3
    <3>2. Bytes(s, O) \in Nat
      BY <1>2, <1>3, <2>4, BytesSum
    <3> QED
      BY <1>2, <1>4, <3>1, <3>2
  <2>6. Bytes(s, O) \in Nat /\ Bytes(s, V \ O) \in Nat
        /\ Bytes(s, V) = Bytes(s, O) + Bytes(s, V \ O)
    BY <1>2, <1>3, <2>4, BytesGrow
  <2>7. s.bytes - Bytes(s, V) <= RamLimit
    BY <1>2, <1>4, <2>5, <2>6
  <2> QED
    BY <1>3, <2>7 DEF V
<1> QED
  BY <1>5, <1>6

LEMMA HotAreListed == ASSUME NEW q \in Seq(Keys) PROVE HotVictims(q) \in SUBSET ToSet(q)
  BY DEF HotVictims, ToSet

(* After the quotas the parts still agree, and the frames fit.             *)
LEMMA QuotasFit ==
  ASSUME NEW s, Sound(s)
  PROVE  Sound(Quotas(s)) /\ Quotas(s).bytes <= RamLimit
<1> DEFINE H == HotVictims(s.lru)
           t == Deleted(s, H)
           V == RamVictims(t)
<1>1. Quotas(s) = Deleted(t, V)
  BY DEF Quotas
<1>2. H \in SUBSET Keys
  <2>1. s.lru \in Seq(Keys) /\ ToSet(s.lru) = Resident(s)
    BY DEF Sound, Layers
  <2> QED
    BY <2>1, HotAreListed DEF Resident
<1> HIDE DEF H
<1>3. Sound(t)
  BY <1>2, DeletedSound
<1> HIDE DEF t
<1>4. V \in SUBSET Keys /\ t.bytes - Bytes(t, V) <= RamLimit
  BY <1>3, RamQuota DEF Resident
<1> HIDE DEF V
<1>5. Sound(Deleted(t, V)) /\ Deleted(t, V).bytes = t.bytes - Bytes(t, V)
  BY <1>3, <1>4, DeletedSound
<1> QED
  BY <1>1, <1>4, <1>5
-----------------------------------------------------------------------------
(* move_to_end leaves the key last and every key listed once.              *)
LEMMA TouchedIs ==
  ASSUME NEW q \in Seq(Keys), IsInjective(q), NEW k \in Keys
  PROVE  /\ Touched(q, k) \in Seq(Keys) /\ IsInjective(Touched(q, k))
         /\ ToSet(Touched(q, k)) = ToSet(q) \cup {k}
         /\ Len(Touched(q, k)) > 0 /\ Touched(q, k)[Len(Touched(q, k))] = k
<1> DEFINE w == Without(q, {k})
           v == Append(w, k)
<1>1. Rest(w, q, Len(q), {k})
  BY WithoutIs
<1> HIDE DEF w
<1>2. w \in Seq(Keys) /\ IsInjective(w) /\ ToSet(w) = {q[j] : j \in 1 .. Len(q)} \ {k}
  BY <1>1 DEF Rest
<1>3. ToSet(w) = ToSet(q) \ {k}
  <2>1. DOMAIN q = 1 .. Len(q)
    OBVIOUS
  <2> QED
    BY <1>2, <2>1 DEF ToSet
<1>4. /\ v \in Seq(Keys) /\ Len(v) = Len(w) + 1 /\ Len(w) \in Nat /\ v[Len(v)] = k
      /\ DOMAIN v = 1 .. Len(w) + 1 /\ DOMAIN w = 1 .. Len(w)
      /\ \A j \in 1 .. Len(w) : v[j] = w[j]
  BY <1>2
<1> HIDE DEF v
<1>5. \A j : j \in DOMAIN v <=> j \in DOMAIN w \/ j = Len(w) + 1
  BY <1>4
<1>6. \A j \in DOMAIN w : v[j] = w[j] /\ w[j] \in ToSet(w)
  BY <1>4 DEF ToSet
<1>7. v[Len(w) + 1] = k /\ k \notin ToSet(w)
  BY <1>3, <1>4
<1>8. ToSet(v) = ToSet(w) \cup {k}
  BY <1>5, <1>6, <1>7, Zenon DEF ToSet
<1>9. IsInjective(v)
  <2>1. ASSUME NEW a \in DOMAIN v, NEW b \in DOMAIN v, v[a] = v[b] PROVE a = b
    <3>1. \A c, d \in DOMAIN w : w[c] = w[d] => c = d
      BY <1>2 DEF IsInjective
    <3> QED
      BY <1>5, <1>6, <1>7, <2>1, <3>1, Zenon
  <2> QED
    BY <2>1 DEF IsInjective
<1>10. Touched(q, k) = v /\ Len(v) > 0
  <2>1. Touched(q, k) = v
    BY DEF Touched, v, w
  <2> QED
    BY <1>4, <2>1
<1> QED
  BY <1>3, <1>4, <1>8, <1>9, <1>10

(* The invariant as a statement about the layer value.                     *)
LEMMA InvIsSound ==
  RamInv <=> Sound(Layer) /\ bytes <= RamLimit /\ prio \in [Symbols -> Levels]
<1>1. Layer.store = store /\ Layer.lru = lru /\ Layer.bytes = bytes
  BY DEF Layer
<1>2. Layer \in Layers <=> store \in [Keys -> Entries] /\ lru \in Seq(Keys) /\ bytes \in Int
  BY DEF Layer, Layers
<1> QED
  BY <1>1, <1>2, Zenon DEF RamInv, TypeOK, LruIsResident, FitsInRam, Sound

LEMMA BecomesSound ==
  ASSUME NEW s, Sound(s), s.bytes <= RamLimit, Becomes(s), prio' \in [Symbols -> Levels]
  PROVE  RamInv'
<1>1. store' = s.store /\ lru' = s.lru /\ bytes' = s.bytes
  BY DEF Becomes
<1>2. /\ s.store \in [Keys -> Entries] /\ s.lru \in Seq(Keys) /\ s.bytes \in Int
      /\ s = [store |-> s.store, lru |-> s.lru, bytes |-> s.bytes]
  BY DEF Sound, Layers
<1>3. Layer' = s
  BY <1>1, <1>2 DEF Layer
<1>4. TypeOK'
  BY <1>1, <1>2 DEF TypeOK
<1>5. LruIsResident'
  BY <1>1, <1>3 DEF LruIsResident, Sound
<1>6. FitsInRam'
  BY <1>1, <1>3 DEF FitsInRam, Sound
<1> QED
  BY <1>4, <1>5, <1>6 DEF RamInv

(* The frame put stores replaces the one before it in all three.           *)
LEMMA StoredSound ==
  ASSUME Sound(Layer), NEW k \in Keys, NEW size \in Sizes
  PROVE  Sound(Stored(k, size))
<1> DEFINE e == [size |-> size, age |-> 0]
           t == Stored(k, size)
<1>1. /\ t.store = [store EXCEPT ![k] = e] /\ t.lru = Touched(lru, k)
      /\ t.bytes = bytes - store[k].size + size
      /\ t = [store |-> t.store, lru |-> t.lru, bytes |-> t.bytes]
  BY DEF Stored
<1>2. /\ Layer \in Layers /\ store \in [Keys -> Entries] /\ lru \in Seq(Keys)
      /\ IsInjective(lru) /\ ToSet(lru) = Resident(Layer) /\ bytes = Bytes(Layer, Keys)
      /\ Layer.store = store
  BY DEF Sound, Layers, Layer
<1>3. e \in Entries /\ size \in Nat /\ size # 0 /\ e.size = size /\ e # Absent
  <2>1. size \in Nat /\ size # 0
    BY SizesPositive
  <2>2. e.size # Absent.size
    BY <2>1 DEF Absent
  <2>3. e \in Entries
    BY DEF Entries
  <2> QED
    BY <2>1, <2>2, <2>3
<1> HIDE DEF t, e
<1>4. ASSUME NEW j \in Keys
      PROVE  t.store[j] \in Entries /\ t.store[j] = IF j = k THEN e ELSE store[j]
  BY <1>1, <1>2, <1>3
<1>5. t.store \in [Keys -> Entries]
  BY <1>1, <1>2, <1>4
<1>6. /\ t.lru \in Seq(Keys) /\ IsInjective(t.lru) /\ ToSet(t.lru) = ToSet(lru) \cup {k}
  <2>1. PICK q : q = lru
    OBVIOUS
  <2>2. /\ Touched(q, k) \in Seq(Keys) /\ IsInjective(Touched(q, k))
        /\ ToSet(Touched(q, k)) = ToSet(q) \cup {k}
    BY <1>2, <2>1, TouchedIs
  <2> QED
    BY <1>1, <2>1, <2>2
<1>7. store[k].size \in Nat /\ Bytes(Layer, Keys \ {k}) \in Nat
      /\ Bytes(Layer, Keys) = store[k].size + Bytes(Layer, Keys \ {k})
  <2>1. Keys \in SUBSET Keys /\ Keys \ {k} \in SUBSET Keys
    OBVIOUS
  <2> QED
    BY <1>2, <2>1, BytesSum, SizesAreNat
<1>8. t \in Layers
  <2>1. t.bytes \in Int
    BY <1>1, <1>2, <1>3, <1>7
  <2> QED
    BY <1>1, <1>5, <1>6, <2>1 DEF Layers
<1>9. t.bytes = Bytes(t, Keys)
  <2>1. Keys \in SUBSET Keys /\ Keys \ {k} \in SUBSET Keys
    OBVIOUS
  <2>2. t.store[k].size = size
    BY <1>3, <1>4
  <2>3. Bytes(t, Keys) = size + Bytes(t, Keys \ {k})
    BY <1>8, <2>1, <2>2, BytesSum
  <2>4. \A j \in Keys \ {k} : t.store[j].size = Layer.store[j].size
    BY <1>2, <1>4
  <2>5. Bytes(t, Keys \ {k}) = Bytes(Layer, Keys \ {k})
    BY <1>2, <1>8, <2>1, <2>4, BytesSame
  <2> QED
    BY <1>1, <1>2, <1>3, <1>7, <2>3, <2>5
<1>10. Resident(t) = Resident(Layer) \cup {k}
  BY <1>2, <1>3, <1>4 DEF Resident
<1>11. Sound(t)
  BY <1>2, <1>6, <1>8, <1>9, <1>10 DEF Sound
<1> QED
  BY <1>11 DEF t
-----------------------------------------------------------------------------
LEMMA InitSound == Init => RamInv
<1> SUFFICES ASSUME Init PROVE RamInv
  OBVIOUS
<1>1. /\ store = [k \in Keys |-> Absent] /\ lru = << >> /\ bytes = 0
      /\ prio = [s \in Symbols |-> Normal]
  BY DEF Init
<1>2. TypeOK
  <2>1. Absent \in Entries /\ Normal \in Levels
    BY LevelsOrdered DEF Absent, Entries
  <2> QED
    BY <1>1, <2>1 DEF TypeOK
<1>3. LruIsResident
  <2>1. ToSet(lru) = {} /\ IsInjective(lru)
    BY <1>1 DEF ToSet, IsInjective
  <2>2. Resident(Layer) = {}
    BY <1>1 DEF Resident, Layer
  <2> QED
    BY <2>1, <2>2 DEF LruIsResident
<1>4. FitsInRam
  <2>1. Layer \in Layers /\ Layer.store = store
    BY <1>2 DEF TypeOK, Layers, Layer
  <2>2. \A k \in Keys : Layer.store[k].size = 0
    BY <1>1, <2>1 DEF Absent
  <2>3. Bytes(Layer, Keys) = 0
    BY <2>1, <2>2, BytesZero
  <2> QED
    BY <1>1, <2>3, QuotasPositive DEF FitsInRam
<1> QED
  BY <1>2, <1>3, <1>4 DEF RamInv

LEMMA PutSound == ASSUME RamInv, NEW k \in Keys, NEW size \in Sizes, Put(k, size) PROVE RamInv'
<1>1. Sound(Layer) /\ prio' \in [Symbols -> Levels]
  BY InvIsSound DEF Put
<1>2. PICK s : s = Stored(k, size)
  OBVIOUS
<1>3. Sound(s)
  BY <1>1, <1>2, StoredSound
<1>4. Sound(Quotas(s)) /\ Quotas(s).bytes <= RamLimit
  BY <1>3, QuotasFit
<1>5. Becomes(Quotas(s))
  BY <1>2 DEF Put
<1> QED
  BY <1>1, <1>4, <1>5, BecomesSound

LEMMA SweepSound == ASSUME RamInv, Sweep PROVE RamInv'
<1>1. Sound(Layer) /\ prio' \in [Symbols -> Levels]
  BY InvIsSound DEF Sweep
<1>2. PICK s : s = Deleted(Layer, Expired(Layer))
  OBVIOUS
<1>3. Expired(Layer) \in SUBSET Keys
  BY DEF Expired, Resident
<1>4. Sound(s)
  BY <1>1, <1>2, <1>3, DeletedSound
<1>5. Sound(Quotas(s)) /\ Quotas(s).bytes <= RamLimit
  BY <1>4, QuotasFit
<1>6. Becomes(Quotas(s))
  BY <1>2 DEF Sweep
<1> QED
  BY <1>1, <1>5, <1>6, BecomesSound

LEMMA GetSound == ASSUME RamInv, NEW k \in Keys, Get(k) PROVE RamInv'
<1>1. Sound(Layer) /\ prio' \in [Symbols -> Levels] /\ bytes <= RamLimit
  BY InvIsSound DEF Get
<1>2. /\ Layer = [store |-> store, lru |-> lru, bytes |-> bytes]
      /\ Layer \in Layers /\ store \in [Keys -> Entries] /\ lru \in Seq(Keys) /\ bytes \in Int
      /\ IsInjective(lru) /\ ToSet(lru) = Resident(Layer) /\ bytes = Bytes(Layer, Keys)
      /\ Layer.bytes = bytes /\ Layer.store = store /\ Layer.lru = lru
  BY <1>1 DEF Sound, Layers, Layer
<1>3. CASE k \in Expired(Layer)
  <2>1. PICK s : s = Deleted(Layer, {k})
    OBVIOUS
  <2>2. {k} \in SUBSET Keys
    OBVIOUS
  <2>3. Sound(s) /\ s.bytes = Layer.bytes - Bytes(Layer, {k})
        /\ Bytes(Layer, {k}) \in Nat /\ Layer.bytes \in Nat
    BY <1>1, <2>1, <2>2, DeletedSound
  <2>4. s.bytes <= RamLimit
    <3>1. PICK a \in Nat, b \in Nat : a = Layer.bytes /\ b = Bytes(Layer, {k})
      BY <2>3
    <3>2. s.bytes = a - b /\ a <= RamLimit
      BY <1>1, <1>2, <2>3, <3>1
    <3> QED
      BY <3>2, QuotasPositive
  <2>5. Becomes(s)
    BY <1>3, <2>1 DEF Get
  <2> QED
    BY <1>1, <2>3, <2>4, <2>5, BecomesSound
<1>4. CASE k \notin Expired(Layer)
  <2>1. PICK q : q = lru
    OBVIOUS
  <2>2. PICK s : s = [store |-> store, lru |-> Touched(q, k), bytes |-> bytes]
    OBVIOUS
  <2>3. /\ Touched(q, k) \in Seq(Keys) /\ IsInjective(Touched(q, k))
        /\ ToSet(Touched(q, k)) = ToSet(q) \cup {k}
    BY <1>2, <2>1, TouchedIs
  <2>4. s \in Layers /\ s.store = store /\ s.bytes = bytes /\ s.lru = Touched(q, k)
    BY <1>2, <2>2, <2>3 DEF Layers
  <2>5. k \in Resident(Layer)
    BY <1>2 DEF Get, Resident
  <2>6. Resident(s) = Resident(Layer)
    BY <1>2, <2>4 DEF Resident
  <2>7. Bytes(s, Keys) = Bytes(Layer, Keys)
    <3>1. \A j \in Keys : s.store[j].size = Layer.store[j].size
      BY <1>2, <2>4
    <3> QED
      BY <1>2, <2>4, <3>1, BytesSame
  <2>8. Sound(s)
    BY <1>2, <2>1, <2>3, <2>4, <2>5, <2>6, <2>7 DEF Sound
  <2>9. Becomes(s)
    <3>1. [Layer EXCEPT !.lru = Touched(lru, k)] = s
      BY <1>2, <2>1, <2>2
    <3> QED
      BY <1>4, <3>1 DEF Get
  <2> QED
    BY <1>1, <2>4, <2>8, <2>9, BecomesSound
<1> QED
  BY <1>3, <1>4

LEMMA TickSound == ASSUME RamInv, Tick PROVE RamInv'
<1>1. Sound(Layer) /\ prio' \in [Symbols -> Levels] /\ bytes <= RamLimit
  BY InvIsSound DEF Tick
<1>2. /\ Layer \in Layers /\ store \in [Keys -> Entries] /\ lru \in Seq(Keys) /\ bytes \in Int
      /\ IsInjective(lru) /\ ToSet(lru) = Resident(Layer) /\ bytes = Bytes(Layer, Keys)
      /\ Layer.bytes = bytes /\ Layer.store = store /\ Layer.lru = lru
  BY <1>1 DEF Sound, Layers, Layer
<1>3. PICK s : s = [store |-> store', lru |-> lru, bytes |-> bytes]
  OBVIOUS
<1>4. ASSUME NEW k \in Keys
      PROVE  /\ store'[k] \in Entries /\ store'[k].size = store[k].size
             /\ store'[k] = Absent <=> store[k] = Absent
  <2>1. PICK e \in Entries : e = store[k]
    BY <1>2
  <2>2. PICK d : d = store'[k]
    OBVIOUS
  <2>3. d = IF e # Absent /\ e.age <= Ttl[k[2]] THEN [e EXCEPT !.age = @ + 1] ELSE e
    BY <2>1, <2>2 DEF Tick
  <2>4. CASE d = e
    BY <2>1, <2>2, <2>4
  <2>5. CASE d # e
    <3>1. d = [e EXCEPT !.age = @ + 1] /\ e # Absent
      BY <2>3, <2>5
    <3>2. d \in Entries /\ d.size = e.size /\ d.age = e.age + 1 /\ e.age \in Nat
      BY <3>1 DEF Entries
    <3>3. d # Absent
      <4>1. d.age # Absent.age
        BY <3>2 DEF Absent
      <4> QED
        BY <4>1
    <3> QED
      BY <2>1, <2>2, <3>1, <3>2, <3>3
  <2> QED
    BY <2>4, <2>5
<1>5. s.store = store' /\ s.lru = lru /\ s.bytes = bytes /\ s \in Layers
  <2>1. store' = [k \in Keys |-> store'[k]]
    BY DEF Tick
  <2>2. store' \in [Keys -> Entries]
    BY <1>4, <2>1
  <2> QED
    BY <1>2, <1>3, <2>2 DEF Layers
<1>6. Resident(s) = Resident(Layer)
  BY <1>2, <1>4, <1>5 DEF Resident
<1>7. Bytes(s, Keys) = Bytes(Layer, Keys)
  <2>1. \A j \in Keys : s.store[j].size = Layer.store[j].size
    BY <1>2, <1>4, <1>5
  <2> QED
    BY <1>2, <1>5, <2>1, BytesSame
<1>8. Sound(s)
  BY <1>2, <1>5, <1>6, <1>7 DEF Sound
<1>9. Becomes(s)
  BY <1>5 DEF Becomes, Tick
<1> QED
  BY <1>1, <1>5, <1>8, <1>9, BecomesSound

LEMMA QuietSound ==
  ASSUME RamInv, UNCHANGED <<store, lru, bytes>>, prio' \in [Symbols -> Levels]
  PROVE  RamInv'
<1>1. Sound(Layer) /\ bytes <= RamLimit
  BY InvIsSound
<1>2. PICK s : s = Layer
  OBVIOUS
<1>3. Sound(s) /\ s.bytes <= RamLimit
  BY <1>1, <1>2 DEF Layer
<1>4. Becomes(s)
  BY <1>2 DEF Becomes, Layer
<1> QED
  BY <1>3, <1>4, BecomesSound

(* Store, LRU list, byte account and limit agree after every method, for   *)
(* any keys, sizes, TTLs, quotas and priorities.                           *)
THEOREM LayerIsAccounted == Spec => []RamInv
<1>1. Init => RamInv
  BY InitSound
<1>2. RamInv /\ [Next]_vars => RamInv'
  <2> SUFFICES ASSUME RamInv, [Next]_vars PROVE RamInv'
    OBVIOUS
  <2>1. ASSUME NEW k \in Keys, Get(k) PROVE RamInv'
    BY <2>1, GetSound
  <2>2. ASSUME NEW k \in Keys, NEW size \in Sizes, Put(k, size) PROVE RamInv'
    BY <2>2, PutSound
  <2>3. ASSUME NEW s \in Symbols, NEW level \in Levels, SetPriority(s, level) PROVE RamInv'
    <3>1. prio \in [Symbols -> Levels]
      BY DEF RamInv, TypeOK
    <3>2. prio' \in [Symbols -> Levels]
      BY <2>3, <3>1 DEF SetPriority
    <3> QED
      BY <2>3, <3>2, QuietSound DEF SetPriority
  <2>4. CASE Sweep
    BY <2>4, SweepSound
  <2>5. CASE Tick
    BY <2>5, TickSound
  <2>6. CASE UNCHANGED vars
    <3>1. prio' \in [Symbols -> Levels]
      BY <2>6 DEF RamInv, TypeOK, vars
    <3> QED
      BY <2>6, <3>1, QuietSound DEF vars
  <2> QED
    BY <2>1, <2>2, <2>3, <2>4, <2>5, <2>6 DEF Next
<1> QED
  BY <1>1, <1>2, PTL DEF Spec
-----------------------------------------------------------------------------
(* There are at most as many hot symbols as keys in the list.              *)
LEMMA HotAtMostKeys ==
  ASSUME NEW q \in Seq(Keys)
  PROVE  Cardinality(HotSymbols(q)) \in Nat /\ Cardinality(HotSymbols(q)) <= Len(q)
<1> DEFINE f == [i \in 1 .. Len(q) |-> q[i][1]]
           H == HotSymbols(q)
<1>1. Len(q) \in Nat /\ DOMAIN q = 1 .. Len(q)
  OBVIOUS
<1>2. H = {q[i][1] : i \in 1 .. Len(q)}
  BY <1>1 DEF HotSymbols, ToSet
<1>3. f \in Surjection(1 .. Len(q), H)
  BY <1>2 DEF Surjection
<1>4. IsFiniteSet(1 .. Len(q)) /\ Cardinality(1 .. Len(q)) = Len(q)
  BY <1>1, FS_Interval
<1> HIDE DEF f, H
<1>5. IsFiniteSet(H) /\ Cardinality(H) <= Len(q)
  BY <1>3, <1>4, FS_Surjection
<1>6. Cardinality(H) \in Nat
  BY <1>5, FS_CardinalityType
<1> QED
  BY <1>5, <1>6 DEF H

(* The last key is not evicted for the symbol quota if no priority is      *)
(* above its own: all others come before it, and they are enough.          *)
LEMMA LastIsNoHotVictim ==
  ASSUME NEW q \in Seq(Keys), IsInjective(q), NEW k, Len(q) > 0, q[Len(q)] = k,
         prio \in [Symbols -> Levels],
         \A s \in Symbols : prio[s] <= prio[k[1]] /\ prio[s] < Alert
  PROVE  k \notin HotVictims(q)
<1> DEFINE n == Len(q)
           count == Cardinality(HotSymbols(q)) - MaxSymbolsHot
           open == {i \in DOMAIN q : prio[q[i][1]] < Alert}
           before(j) == {h \in open : h # j /\ Precedes(q, h, j)}
<1>1. n \in Nat /\ n > 0 /\ DOMAIN q = 1 .. n /\ n \in DOMAIN q /\ q[n] = k
  OBVIOUS
<1>2. ASSUME NEW i \in DOMAIN q
      PROVE  /\ prio[q[i][1]] \in Int /\ prio[k[1]] \in Int
             /\ prio[q[i][1]] < Alert /\ prio[q[i][1]] <= prio[k[1]]
  <2>1. q[i] \in Keys /\ k \in Keys
    BY <1>1
  <2>2. q[i][1] \in Symbols /\ k[1] \in Symbols
    BY <2>1 DEF Keys
  <2> QED
    BY <2>2, LevelsOrdered
<1>3. open = 1 .. n
  BY <1>1, <1>2
<1>4. before(n) = 1 .. n - 1
  <2>1. ASSUME NEW h \in 1 .. n - 1 PROVE h \in before(n)
    <3>1. h \in 1 .. n /\ h < n /\ h # n
      BY <1>1
    <3>2. PICK a \in Int, b \in Int : a = prio[q[h][1]] /\ b = prio[k[1]] /\ a <= b
      BY <1>1, <1>2, <3>1
    <3>3. a < b \/ a = b
      BY <3>2
    <3>4. Precedes(q, h, n)
      BY <1>1, <3>1, <3>2, <3>3 DEF Precedes
    <3> HIDE DEF open
    <3> QED
      BY <1>3, <3>1, <3>4
  <2>2. ASSUME NEW h \in before(n) PROVE h \in 1 .. n - 1
    <3>1. h \in 1 .. n /\ h # n
      BY <1>3
    <3> QED
      BY <1>1, <3>1
  <2> HIDE DEF before
  <2> QED
    BY <2>1, <2>2
<1>5. Cardinality(before(n)) = n - 1
  <2>1. Cardinality(1 .. n - 1) = IF 1 > n - 1 THEN 0 ELSE (n - 1) - 1 + 1
    BY <1>1, FS_Interval
  <2> HIDE DEF before
  <2> QED
    BY <1>1, <1>4, <2>1
<1>6. count \in Int /\ count <= n - 1
  <2>1. Cardinality(HotSymbols(q)) \in Nat /\ Cardinality(HotSymbols(q)) <= n
    BY HotAtMostKeys
  <2> QED
    BY <1>1, <2>1, QuotasPositive
<1>7. HotVictims(q) = {q[i] : i \in {j \in open : Cardinality(before(j)) < count}}
  BY DEF HotVictims
<1> HIDE DEF before, count, open
<1>8. SUFFICES ASSUME k \in HotVictims(q) PROVE FALSE
  OBVIOUS
<1>9. PICK i \in open : Cardinality(before(i)) < count /\ q[i] = k
  BY <1>7, <1>8
<1>10. i = n
  BY <1>1, <1>3, <1>9 DEF IsInjective
<1> QED
  BY <1>1, <1>5, <1>6, <1>9, <1>10

(* Nor for the byte quota if its frame alone is within the limit.          *)
LEMMA LastIsNoRamVictim ==
  ASSUME NEW s, Sound(s), NEW k \in Keys, Len(s.lru) > 0, s.lru[Len(s.lru)] = k,
         s.store[k].size <= RamLimit
  PROVE  k \notin RamVictims(s)
<1> DEFINE q == s.lru
           n == Len(q)
           older(j) == {q[h] : h \in 1 .. j - 1}
<1>1. /\ s \in Layers /\ q \in Seq(Keys) /\ IsInjective(q) /\ ToSet(q) = Resident(s)
      /\ s.bytes = Bytes(s, Keys)
  BY DEF Sound, Layers
<1>2. n \in Nat /\ n > 0 /\ DOMAIN q = 1 .. n /\ n \in DOMAIN q /\ q[n] = k
  BY <1>1
<1>3. PICK O : O = older(n)
  OBVIOUS
<1>4. O \in SUBSET Keys /\ k \notin O /\ Resident(s) = O \cup {k}
  <2>1. ASSUME NEW h \in 1 .. n - 1 PROVE h \in DOMAIN q /\ q[h] \in Keys /\ q[h] # k
    <3>1. h \in DOMAIN q /\ h # n
      BY <1>2
    <3> QED
      BY <1>1, <1>2, <3>1 DEF IsInjective
  <2>2. \A h : h \in DOMAIN q <=> h \in 1 .. n - 1 \/ h = n
    BY <1>2
  <2>3. ToSet(q) = {q[h] : h \in 1 .. n - 1} \cup {k}
    <3>1. ToSet(q) = {q[h] : h \in DOMAIN q}
      BY DEF ToSet
    <3> HIDE DEF n, q
    <3> QED
      BY <1>2, <2>2, <3>1
  <2> QED
    BY <1>1, <1>3, <2>1, <2>3
<1>5. Bytes(s, Keys \ O) = s.store[k].size
  <2>1. k \in Keys \ O /\ Keys \ O \in SUBSET Keys /\ (Keys \ O) \ {k} \in SUBSET Keys
    BY <1>4
  <2>2. Bytes(s, Keys \ O) = s.store[k].size + Bytes(s, (Keys \ O) \ {k})
    BY <1>1, <2>1, BytesSum
  <2>3. \A j \in (Keys \ O) \ {k} : s.store[j].size = 0
    BY <1>4 DEF Resident, Absent
  <2>4. Bytes(s, (Keys \ O) \ {k}) = 0
    BY <1>1, <2>1, <2>3, BytesZero
  <2>5. s.store[k].size \in Nat
    BY <1>1, SizesAreNat
  <2> QED
    BY <2>2, <2>4, <2>5
<1>6. /\ Bytes(s, O) \in Nat /\ Bytes(s, Keys) \in Nat /\ Bytes(s, Keys \ O) \in Nat
      /\ Bytes(s, Keys) = Bytes(s, O) + Bytes(s, Keys \ O)
  BY <1>1, <1>4, BytesGrow
<1>7. ~(s.bytes - Bytes(s, O) > RamLimit)
  <2>1. PICK a \in Nat, b \in Nat : a = Bytes(s, O) /\ b = Bytes(s, Keys \ O) /\ s.bytes = a + b
    BY <1>1, <1>6
  <2>2. b <= RamLimit
    BY <1>5, <2>1
  <2> QED
    BY <2>1, <2>2, QuotasPositive
<1>8. RamVictims(s) = {q[i] : i \in {j \in DOMAIN q : s.bytes - Bytes(s, older(j)) > RamLimit}}
  BY DEF RamVictims
<1> HIDE DEF older
<1>9. SUFFICES ASSUME k \in RamVictims(s) PROVE FALSE
  OBVIOUS
<1>10. PICK i \in DOMAIN q : s.bytes - Bytes(s, older(i)) > RamLimit /\ q[i] = k
  BY <1>8, <1>9
<1>11. i = n
  BY <1>1, <1>2, <1>10 DEF IsInjective
<1> QED
  BY <1>3, <1>7, <1>10, <1>11

LEMMA PutHolds ==
  ASSUME RamInv, NEW k \in Keys, NEW size \in Sizes, Put(k, size), size <= RamLimit,
         \A s \in Symbols : prio[s] <= prio[k[1]] /\ prio[s] < Alert
  PROVE  store'[k] = [size |-> size, age |-> 0]
<1> DEFINE e == [size |-> size, age |-> 0]
<1>1. PICK s : s = Stored(k, size)
  OBVIOUS
<1>2. Sound(Layer) /\ prio \in [Symbols -> Levels]
  BY InvIsSound
<1>3. Sound(s)
  BY <1>1, <1>2, StoredSound
<1>4. s.store = [store EXCEPT ![k] = e] /\ s.lru = Touched(lru, k)
  BY <1>1 DEF Stored
<1>5. store \in [Keys -> Entries] /\ lru \in Seq(Keys) /\ IsInjective(lru)
  BY <1>2 DEF Sound, Layers, Layer
<1>6. PICK q : q = s.lru
  OBVIOUS
<1>7. q \in Seq(Keys) /\ IsInjective(q) /\ Len(q) > 0 /\ q[Len(q)] = k
  <2>1. PICK r : r = lru
    OBVIOUS
  <2>2. /\ Touched(r, k) \in Seq(Keys) /\ IsInjective(Touched(r, k))
        /\ Len(Touched(r, k)) > 0 /\ Touched(r, k)[Len(Touched(r, k))] = k
    BY <1>5, <2>1, TouchedIs
  <2> QED
    BY <1>4, <1>6, <2>1, <2>2
<1>8. PICK H : H = HotVictims(q)
  OBVIOUS
<1>9. k \notin H /\ H \in SUBSET Keys
  <2>1. k \notin HotVictims(q)
    BY <1>2, <1>7, LastIsNoHotVictim
  <2>2. HotVictims(q) \in SUBSET ToSet(q)
    BY <1>7, HotAreListed
  <2>3. ToSet(q) \in SUBSET Keys
    BY <1>7 DEF ToSet
  <2> QED
    BY <1>8, <2>1, <2>2, <2>3
<1>10. PICK t : t = Deleted(s, H)
  OBVIOUS
<1>11. Sound(t)
  BY <1>3, <1>9, <1>10, DeletedSound
<1>12. t.store = [j \in Keys |-> IF j \in H THEN Absent ELSE s.store[j]] /\ t.lru = Without(q, H)
  BY <1>6, <1>10 DEF Deleted
<1>13. t.store[k] = e
  <2>1. s.store[k] = e
    BY <1>4, <1>5
  <2> QED
    BY <1>9, <1>12, <2>1
<1>14. Len(t.lru) > 0 /\ t.lru[Len(t.lru)] = k
  <2>1. Rest(Without(q, H), q, Len(q), H)
    BY <1>7, WithoutIs
  <2> QED
    BY <1>7, <1>9, <1>12, <2>1 DEF Rest
<1>15. PICK V : V = RamVictims(t)
  OBVIOUS
<1>16. k \notin V
  <2>1. t.store[k].size <= RamLimit
    BY <1>13
  <2> QED
    BY <1>11, <1>14, <1>15, <2>1, LastIsNoRamVictim
<1>17. Quotas(s) = Deleted(t, V)
  BY <1>6, <1>8, <1>10, <1>15 DEF Quotas
<1>18. store' = Deleted(t, V).store
  BY <1>1, <1>17 DEF Put, Becomes
<1>19. Deleted(t, V).store[k] = t.store[k]
  BY <1>16 DEF Deleted
<1> QED
  BY <1>13, <1>18, <1>19

(* What put has stored is still there when it returns, for any quotas, as  *)
(* long as it fits and no symbol has a higher priority.                    *)
THEOREM PutIsKept == Spec => PutStays
<1> DEFINE Stays == \A k \in Keys, size \in Sizes :
       /\ Put(k, size)
       /\ size <= RamLimit
       /\ \A s \in Symbols : prio[s] <= prio[k[1]] /\ prio[s] < Alert
       => store'[k] = [size |-> size, age |-> 0]
<1>1. RamInv => Stays
  BY PutHolds
<1>2. RamInv /\ [Next]_vars => [Stays]_vars
  BY <1>1
<1> HIDE DEF Stays
<1>3. Spec => [][Stays]_vars
  BY <1>2, LayerIsAccounted, PTL DEF Spec
<1> QED
  BY <1>3 DEF PutStays, Stays
=============================================================================
