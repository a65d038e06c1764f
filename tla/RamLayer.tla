------------------------------ MODULE RamLayer ------------------------------
(***************************************************************************)
(* data/unified_store.py: RamLayer, the in-memory layer of the store, with *)
(* a TTL, LRU order, a quota of symbols, a quota of bytes and priorities.  *)
(* Every method runs between two awaits, so each is one action.            *)
(***************************************************************************)
EXTENDS Integers, Sequences, FiniteSets, FiniteSetsExt, SequencesExt

CONSTANTS
  Symbols, Intervals,
  Sizes,          \* _estimate_bytes of the frames that are put
  Ttl,            \* _ttl_for: hot for 1m and 5m, warm for the others
  Levels, Normal, Alert,
  MaxSymbolsHot,  \* profile.max_symbols_hot
  RamLimit        \* profile.ram_limit_mb, in bytes

Keys == Symbols \X Intervals

ASSUME KeysFinite == IsFiniteSet(Symbols) /\ IsFiniteSet(Intervals)
ASSUME TtlIsNat == Ttl \in [Intervals -> Nat]
ASSUME SizesPositive == Sizes \subseteq Nat \ {0}
ASSUME LevelsOrdered == Levels \subseteq Int /\ Normal \in Levels /\ Alert \in Int
ASSUME QuotasPositive == MaxSymbolsHot \in Nat \ {0} /\ RamLimit \in Nat

Absent == [size |-> 0, age |-> 0]

VARIABLES
  store,   \* _store: size and age of the resident frame, Absent if none
  lru,     \* _lru, oldest first
  bytes,   \* _bytes_in_ram
  prio     \* _prio, Normal where nothing was set

vars == <<store, lru, bytes, prio>>

Entries == [size : Sizes \cup {0}, age : Nat]
Resident(s) == {k \in Keys : s.store[k] # Absent}

TypeOK ==
  /\ store \in [Keys -> Entries]
  /\ lru \in Seq(Keys)
  /\ bytes \in Int
  /\ prio \in [Symbols -> Levels]

Init ==
  /\ store = [k \in Keys |-> Absent]
  /\ lru = << >>
  /\ bytes = 0
  /\ prio = [s \in Symbols |-> Normal]
-----------------------------------------------------------------------------
(* The layer as a value, so that the methods compose.                      *)

Layer == [store |-> store, lru |-> lru, bytes |-> bytes]

Becomes(s) == store' = s.store /\ lru' = s.lru /\ bytes' = s.bytes

Bytes(s, K) == MapThenSumSet(LAMBDA k : s.store[k].size, K)

(* The order of the other keys stays.                                      *)
Without(q, K) ==
  FoldLeft(LAMBDA rest, k : IF k \in K THEN rest ELSE Append(rest, k), << >>, q)

(* delete, of each key of K.                                               *)
Deleted(s, K) ==
  [store |-> [k \in Keys |-> IF k \in K THEN Absent ELSE s.store[k]],
   lru |-> Without(s.lru, K),
   bytes |-> s.bytes - Bytes(s, K)]

(* Variant: a key that is already cached keeps its place.                  *)
Touched_Not(q, k) == IF k \in ToSet(q) THEN q ELSE Append(q, k)

(* _lru.move_to_end(key, last=True)                                        *)
Touched(q, k) == Append(Without(q, {k}), k)

Expired(s) == {k \in Resident(s) : s.store[k].age > Ttl[k[2]]}

HotSymbols(q) == {k[1] : k \in ToSet(q)}

(* i is evicted before j: lower priority first, then the least recent.     *)
Precedes(q, i, j) ==
  \/ prio[q[i][1]] < prio[q[j][1]]
  \/ prio[q[i][1]] = prio[q[j][1]] /\ i < j

(* _evict_by_priority: the first keys of that order, ALERT symbols passed  *)
(* over; as many keys as there are symbols above the quota.                *)
HotVictims(q) ==
  LET count == Cardinality(HotSymbols(q)) - MaxSymbolsHot
      open == {i \in DOMAIN q : prio[q[i][1]] < Alert}
  IN  {q[i] : i \in {j \in open :
                Cardinality({h \in open : h # j /\ Precedes(q, h, j)}) < count}}

(* The byte quota: the oldest keys, until what is left fits.               *)
RamVictims(s) ==
  {s.lru[i] : i \in {j \in DOMAIN s.lru :
     s.bytes - Bytes(s, {s.lru[h] : h \in 1 .. j - 1}) > RamLimit}}

(* _enforce_quotas                                                         *)
Quotas(s) ==
  LET t == Deleted(s, HotVictims(s.lru)) IN Deleted(t, RamVictims(t))
-----------------------------------------------------------------------------
(* Variant: the frame that is replaced stays on the account.               *)
Stored_NoRefund(k, size) ==
  [store |-> [store EXCEPT ![k] = [size |-> size, age |-> 0]],
   lru |-> Touched(lru, k),
   bytes |-> bytes + size]

(* Variant: the interval is missing from the key.                          *)
Stored_BySymbol(k, size) ==
  [store |-> [j \in Keys |->
     IF j[1] = k[1] THEN [size |-> size, age |-> 0] ELSE store[j]],
   lru |-> Touched(lru, k),
   bytes |-> bytes - store[k].size + size]

(* put before its quotas: the replaced frame leaves the account.           *)
Stored(k, size) ==
  [store |-> [store EXCEPT ![k] = [size |-> size, age |-> 0]],
   lru |-> Touched(lru, k),
   bytes |-> bytes - store[k].size + size]

Put(k, size) ==
  /\ Becomes(Quotas(Stored(k, size)))
  /\ UNCHANGED prio

(* get: an expired entry is deleted, a live one becomes the most recent.   *)
Get(k) ==
  /\ store[k] # Absent
  /\ Becomes(IF k \in Expired(Layer) THEN Deleted(Layer, {k})
             ELSE [Layer EXCEPT !.lru = Touched(lru, k)])
  /\ UNCHANGED prio

(* sweep, once per turn of the maintenance loop.                           *)
Sweep ==
  /\ Becomes(Quotas(Deleted(Layer, Expired(Layer))))
  /\ UNCHANGED prio

SetPriority(s, level) ==
  /\ prio' = [prio EXCEPT ![s] = level]
  /\ UNCHANGED <<store, lru, bytes>>

(* time.time() advances; beyond its TTL an entry just counts as expired.   *)
Tick ==
  /\ store' = [k \in Keys |->
       IF store[k] # Absent /\ store[k].age <= Ttl[k[2]]
       THEN [store[k] EXCEPT !.age = @ + 1] ELSE store[k]]
  /\ UNCHANGED <<lru, bytes, prio>>

Next ==
  \/ \E k \in Keys : Get(k) \/ \E size \in Sizes : Put(k, size)
  \/ \E s \in Symbols, level \in Levels : SetPriority(s, level)
  \/ Sweep
  \/ Tick

Spec == Init /\ [][Next]_vars
-----------------------------------------------------------------------------
(* _lru lists each resident key once and nothing else: an entry missing    *)
(* there could never be evicted, one too many is evicted for nothing.      *)
LruIsResident == ToSet(lru) = Resident(Layer) /\ IsInjective(lru)

(* However entries grow or are replaced, no operation leaves more bytes    *)
(* in RAM than the limit.  The byte account, by which the quota judges     *)
(* that, is the sum of the resident frames through every replacement,      *)
(* eviction and expiry; were it to drift, the quota would empty the layer  *)
(* or never apply.                                                         *)
FitsInRam == bytes = Bytes(Layer, Keys) /\ bytes <= RamLimit

(* Store, LRU list, byte account and limit agree after every method.       *)
RamInv == TypeOK /\ LruIsResident /\ FitsInRam

(* What put has just stored is still there when put returns, so the        *)
(* get_df or put_bars that follows merges with it, as long as it fits and  *)
(* no other symbol has a higher priority.                                  *)
PutStays ==
  [][\A k \in Keys, size \in Sizes :
       /\ Put(k, size)
       /\ size <= RamLimit
       /\ \A s \in Symbols : prio[s] <= prio[k[1]] /\ prio[s] < Alert
       => store'[k] = [size |-> size, age |-> 0]]_vars

(* RamLayer implements the cache its users count on.                       *)
Abstract == INSTANCE LossyCache WITH
  Contents <- Sizes, Absent <- 0, held <- [k \in Keys |-> store[k].size]
Lossy == Abstract!Spec
=============================================================================
