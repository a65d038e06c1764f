---------------------------- MODULE UnifiedStore ----------------------------
(***************************************************************************)
(* data/unified_store.py: UnifiedDataStore, the RAM -> Redis -> disk store *)
(* of bars.  Writers hold the asyncio lock _mtx; readers (get_df) take no  *)
(* lock and are suspended between their Redis read, their disk read and    *)
(* their write-back into RAM; the maintenance task drains the write-behind *)
(* queue without the lock.  An action is what runs between two awaits.     *)
(***************************************************************************)
EXTENDS Integers, Sequences, FiniteSets

CONSTANTS
  Keys,           \* (symbol, interval) pairs
  Times,          \* open_time values
  Values,         \* contents a bar of one open_time may have
  Batches,        \* the frames callers hand to put_bars
  Limits,         \* the limits callers hand to enforce_tail_limit
  WarmBars,       \* the bars_needed callers hand to warmup
  Readers,        \* coroutines that call get_df or warmup
  MaxPuts,        \* bound: snapshots accepted per key and process lifetime
  FlushBatchMax,  \* profile.flush_batch_max
  Tiers,          \* <<backlog, limit>> pairs of the adaptive batch limit
  Faults          \* which of AllFaults may happen

AllFaults ==
  {"save_error",       \* save_bars raises
   "tmp_vanishes",     \* the temporary snapshot file is removed by others
   "cancel_midflush",  \* shutdown while a save_bars is awaited
   "ram_drop",         \* RamLayer expires or evicts an entry
   "redis_error",      \* a Redis GET or SET fails io_retry_attempts times
   "restart"}          \* the process is started again

(* A frame of bars, keyed by open_time: what _dedup_sort leaves of it.     *)
Frames == UNION {[S -> Values] : S \in SUBSET Times}
EmptyFrame == [t \in {} |-> t]

ASSUME KeysNonempty == Keys # {}
ASSUME TimesAreInts == Times \subseteq Int /\ IsFiniteSet(Times)
ASSUME BatchesAreFrames == Batches \subseteq Frames \ {EmptyFrame}
ASSUME LimitsPositive == Limits \subseteq Nat \ {0} /\ WarmBars \subseteq Nat
ASSUME BatchPositive == FlushBatchMax \in Nat \ {0}
ASSUME TiersPositive == Tiers \subseteq Nat \X (Nat \ {0})
ASSUME FaultsKnown == Faults \subseteq AllFaults
ASSUME MaxPutsNat == MaxPuts \in Nat

Snapshots == [n : Nat, bars : Frames]
NoSnapshot == [n |-> 0, bars |-> EmptyFrame]

Writes == [key : Keys, snap : Snapshots]
NoWrite == [key |-> "none"]

Held == [op : {"put", "trim"}, key : Keys, bars : Frames]
Free == [op |-> "free"]

Fetches == [at : {"redis", "warm", "disk", "cache"}, key : Keys, bars : Frames,
            tail : Nat]
Idle == [at |-> "idle"]

VARIABLES
  ram,            \* RamLayer: the resident frame, EmptyFrame when absent
  redis,          \* the last bar under candles:{symbol}:{interval}
  disk,           \* the snapshot file
  flush_pending,  \* _flush_pending
  flush_q,        \* _flush_q
  mtx,            \* _mtx and what its holder will write
  reader,         \* where each reader is suspended and what it has read
  batch,          \* iterations left of the current _drain_flush_queue
  write,          \* the save_bars the drain is awaiting
  orphan,         \* a save_bars whose awaiting task was cancelled
  phase,          \* of the process: "up", "stopping", "down"
  accepted        \* history: snapshots accepted for each key

vars == <<ram, redis, disk, flush_pending, flush_q, mtx, reader, batch, write,
          orphan, phase, accepted>>
-----------------------------------------------------------------------------
(* Frames.                                                                 *)

KeepBars(f, S) == [t \in S |-> f[t]]

(* Variant: drop_duplicates(keep="last").                                  *)
Upsert_KeepLast(f, g) ==
  [t \in DOMAIN f \cup DOMAIN g |-> IF t \in DOMAIN g THEN g[t] ELSE f[t]]

(* _merge_bars / concat + _dedup_sort: the first of two equal open_times   *)
(* stays, so a bar once held is not replaced by a later one.               *)
Upsert(f, g) ==
  [t \in DOMAIN f \cup DOMAIN g |-> IF t \in DOMAIN f THEN f[t] ELSE g[t]]

(* iloc[-1] of a sorted frame, as a frame.                                 *)
LastBar(f) == KeepBars(f, {t \in DOMAIN f : \A u \in DOMAIN f : u <= t})

(* df.tail(n) of a sorted frame.                                           *)
TailBars(f, n) ==
  KeepBars(f, {t \in DOMAIN f : Cardinality({u \in DOMAIN f : u > t}) < n})

(* The iterations of one drain: the limit of the highest tier reached by   *)
(* the backlog, else flush_batch_max, and at most the backlog.             *)
BatchLimit(size) ==
  LET reached == {tier \in Tiers : tier[1] <= size}
  IN  IF reached = {} THEN {FlushBatchMax}
      ELSE {tier[2] : tier \in {x \in reached : \A y \in reached : y[1] <= x[1]}}

Iterations(size) == {IF limit < size THEN limit ELSE size : limit \in BatchLimit(size)}

QueuedKeys == {flush_q[i] : i \in 1 .. Len(flush_q)}
-----------------------------------------------------------------------------
TypeOK ==
  /\ ram \in [Keys -> Frames]
  /\ redis \in [Keys -> Frames]
  /\ disk \in [Keys -> Snapshots]
  /\ flush_pending \in [Keys -> Snapshots]
  /\ flush_q \in Seq(Keys)
  /\ mtx \in Held \cup {Free}
  /\ reader \in [Readers -> Fetches \cup {Idle}]
  /\ batch \in Nat
  /\ write \in Writes \cup {NoWrite}
  /\ orphan \in Writes \cup {NoWrite}
  /\ phase \in {"up", "stopping", "down"}
  /\ accepted \in [Keys -> Nat]

Volatile ==
  <<ram, flush_pending, flush_q, mtx, reader, batch, write, orphan>>

NoFrames == [k \in Keys |-> EmptyFrame]
NoSnapshots == [k \in Keys |-> NoSnapshot]
AllIdle == [r \in Readers |-> Idle]

Init ==
  /\ ram = NoFrames
  /\ redis = NoFrames
  /\ disk = NoSnapshots
  /\ flush_pending = NoSnapshots
  /\ flush_q = << >>
  /\ mtx = Free
  /\ reader = AllIdle
  /\ batch = 0
  /\ write = NoWrite
  /\ orphan = NoWrite
  /\ phase = "up"
  /\ accepted = [k \in Keys |-> 0]
-----------------------------------------------------------------------------
(* Writers.                                                                *)

(* Variant: the new bars replace the resident ones.                        *)
Merged_Replace(k, bars) == bars

Merged(k, bars) == Upsert(ram[k], bars)

(* put_bars up to its Redis await: lock, merge with RAM, store in RAM.     *)
PutBars(k, bars) ==
  /\ phase = "up"
  /\ mtx = Free
  /\ accepted[k] < MaxPuts
  /\ ram' = [ram EXCEPT ![k] = Merged(k, bars)]
  /\ mtx' = [op |-> "put", key |-> k, bars |-> Merged(k, bars)]
  /\ UNCHANGED <<redis, disk, flush_pending, flush_q, reader, batch, write,
                 orphan, phase, accepted>>

(* enforce_tail_limit up to its Redis await; a short history is left alone.*)
EnforceTailLimit(k, limit) ==
  /\ phase = "up"
  /\ mtx = Free
  /\ accepted[k] < MaxPuts
  /\ Cardinality(DOMAIN ram[k]) > limit
  /\ ram' = [ram EXCEPT ![k] = TailBars(ram[k], limit)]
  /\ mtx' = [op |-> "trim", key |-> k, bars |-> TailBars(ram[k], limit)]
  /\ UNCHANGED <<redis, disk, flush_pending, flush_q, reader, batch, write,
                 orphan, phase, accepted>>

(* Variant: a key whose previous snapshot is being written counts.         *)
AlreadyQueued_OrWriting(op, k) ==
  flush_pending[k] # NoSnapshot \/ k \in QueuedKeys \/ write.key = k

(* Each writer asks in its own way whether the key is already queued.      *)
AlreadyQueued(op, k) ==
  \/ op = "put" /\ flush_pending[k] # NoSnapshot
  \/ op = "trim" /\ k \in QueuedKeys

(* Variant: setdefault, the snapshot already waiting stays.                *)
Coalesced_KeepOld(k, snap) ==
  IF flush_pending[k] # NoSnapshot THEN flush_pending
  ELSE [flush_pending EXCEPT ![k] = snap]

Coalesced(k, snap) == [flush_pending EXCEPT ![k] = snap]

(* The rest of either writer: the Redis SET took effect or was given up,   *)
(* the snapshot is put in the write-behind queue, the lock is released.    *)
FinishWrite ==
  /\ mtx # Free
  /\ LET k == mtx.key IN
       /\ \/ redis' = [redis EXCEPT ![k] = LastBar(mtx.bars)]
          \/ "redis_error" \in Faults /\ UNCHANGED redis
       /\ accepted' = [accepted EXCEPT ![k] = @ + 1]
       /\ flush_pending' = Coalesced(k, [n |-> accepted[k] + 1, bars |-> mtx.bars])
       /\ flush_q' = IF AlreadyQueued(mtx.op, k) THEN flush_q
                     ELSE Append(flush_q, k)
  /\ mtx' = Free
  /\ UNCHANGED <<ram, disk, reader, batch, write, orphan, phase>>
-----------------------------------------------------------------------------
(* Readers.  A RAM hit changes nothing here and is not an action.          *)

GetDf(r, k) ==
  /\ phase = "up"
  /\ reader[r] = Idle
  /\ ram[k] = EmptyFrame
  /\ reader' = [reader EXCEPT
       ![r] = [at |-> "redis", key |-> k, bars |-> EmptyFrame, tail |-> 0]]
  /\ UNCHANGED <<ram, redis, disk, flush_pending, flush_q, mtx, batch, write,
                 orphan, phase, accepted>>

(* jget: the last bar, or the default when the attempts are exhausted.     *)
ReadRedis(r) ==
  /\ reader[r].at = "redis"
  /\ \E last \in {redis[reader[r].key]} \cup
                 (IF "redis_error" \in Faults THEN {EmptyFrame} ELSE {}) :
       reader' = [reader EXCEPT ![r].at = "disk", ![r].bars = last]
  /\ UNCHANGED <<ram, redis, disk, flush_pending, flush_q, mtx, batch, write,
                 orphan, phase, accepted>>

Warmup(r, k, bars_needed) ==
  /\ phase = "up"
  /\ reader[r] = Idle
  /\ reader' = [reader EXCEPT
       ![r] = [at |-> "warm", key |-> k, bars |-> EmptyFrame,
               tail |-> bars_needed]]
  /\ UNCHANGED <<ram, redis, disk, flush_pending, flush_q, mtx, batch, write,
                 orphan, phase, accepted>>

(* load_bars in the executor; get_df lets the disk win over the last bar,  *)
(* warmup keeps the tail it was asked for.                                 *)
ReadDisk(r) ==
  /\ reader[r].at \in {"disk", "warm"}
  /\ LET saved == disk[reader[r].key].bars
         tail == reader[r].tail
         out == IF reader[r].at = "disk" THEN Upsert(saved, reader[r].bars)
                ELSE IF tail > 0 THEN TailBars(saved, tail) ELSE saved
     IN  reader' = [reader EXCEPT ![r].at = "cache", ![r].bars = out]
  /\ UNCHANGED <<ram, redis, disk, flush_pending, flush_q, mtx, batch, write,
                 orphan, phase, accepted>>

(* Back on the event loop: what was read replaces what RAM holds by now.   *)
CacheResult(r) ==
  /\ reader[r].at = "cache"
  /\ ram' = IF reader[r].bars = EmptyFrame THEN ram
            ELSE [ram EXCEPT ![reader[r].key] = reader[r].bars]
  /\ reader' = [reader EXCEPT ![r] = Idle]
  /\ UNCHANGED <<redis, disk, flush_pending, flush_q, mtx, batch, write,
                 orphan, phase, accepted>>

(* TTL expiry, the hot quota or the byte quota of RamLayer.                *)
RamDrop(k) ==
  /\ "ram_drop" \in Faults
  /\ ram[k] # EmptyFrame
  /\ ram' = [ram EXCEPT ![k] = EmptyFrame]
  /\ UNCHANGED <<redis, disk, flush_pending, flush_q, mtx, reader, batch,
                 write, orphan, phase, accepted>>

RedisExpire(k) ==
  /\ redis[k] # EmptyFrame
  /\ redis' = [redis EXCEPT ![k] = EmptyFrame]
  /\ UNCHANGED <<ram, disk, flush_pending, flush_q, mtx, reader, batch, write,
                 orphan, phase, accepted>>
-----------------------------------------------------------------------------
(* The maintenance task.                                                   *)

StartDrain ==
  /\ phase = "up"
  /\ batch = 0
  /\ write = NoWrite
  /\ flush_q # << >>
  /\ batch' \in Iterations(Len(flush_q))
  /\ UNCHANGED <<ram, redis, disk, flush_pending, flush_q, mtx, reader, write,
                 orphan, phase, accepted>>

(* Variant: get instead of pop.                                            *)
Popped_Peek(k) == flush_pending

Popped(k) == [flush_pending EXCEPT ![k] = NoSnapshot]

(* One iteration up to the save_bars await.                                *)
DrainNext ==
  /\ batch > 0
  /\ write = NoWrite
  /\ LET k == Head(flush_q) IN
       /\ write' = IF flush_pending[k] = NoSnapshot THEN NoWrite
                   ELSE [key |-> k, snap |-> flush_pending[k]]
       /\ flush_pending' = Popped(k)
  /\ flush_q' = Tail(flush_q)
  /\ batch' = batch - 1
  /\ UNCHANGED <<ram, redis, disk, mtx, reader, orphan, phase, accepted>>

(* tmp.replace(p): the whole snapshot file, or nothing, is replaced.       *)
Saved(w) == [disk EXCEPT ![w.key] = w.snap]

(* save_bars returned: the file was replaced, or the temporary file had    *)
(* vanished while a target existed, which save_bars takes for success.     *)
FlushDone ==
  /\ write # NoWrite
  /\ \/ disk' = Saved(write)
     \/ /\ "tmp_vanishes" \in Faults
        /\ disk[write.key] # NoSnapshot
        /\ UNCHANGED disk
  /\ write' = NoWrite
  /\ UNCHANGED <<ram, redis, flush_pending, flush_q, mtx, reader, batch,
                 orphan, phase, accepted>>

(* Variant: appendleft forgotten.                                          *)
Requeued_Not(k) == flush_q

Requeued(k) == <<k>> \o flush_q

(* Variant: the failed save is retried by a task of its own.               *)
FlushFailed_Aside ==
  /\ "save_error" \in Faults
  /\ write # NoWrite /\ orphan = NoWrite
  /\ orphan' = write
  /\ batch' = 0
  /\ write' = NoWrite
  /\ UNCHANGED <<ram, redis, disk, flush_pending, flush_q, mtx, reader, phase,
                 accepted>>

(* save_bars raised: the popped snapshot goes back, over whatever a writer *)
(* has put there meanwhile, its key goes to the front, the drain ends.     *)
FlushFailed ==
  /\ "save_error" \in Faults
  /\ write # NoWrite
  /\ flush_pending' = [flush_pending EXCEPT ![write.key] = write.snap]
  /\ flush_q' = Requeued(write.key)
  /\ batch' = 0
  /\ write' = NoWrite
  /\ UNCHANGED <<ram, redis, disk, mtx, reader, orphan, phase, accepted>>
-----------------------------------------------------------------------------
(* The process.                                                            *)

(* Variant: the final drain is one ordinary batch.                         *)
FinalBatch_Capped ==
  IF Len(flush_q) > FlushBatchMax THEN FlushBatchMax ELSE Len(flush_q)

FinalBatch == Len(flush_q)

(* Every task is cancelled.  The maintenance task starts its final drain,  *)
(* of all that is queued; a save_bars it was awaiting runs on in the       *)
(* executor, or never starts.                                              *)
Stop ==
  /\ phase = "up"
  /\ "cancel_midflush" \in Faults \/ write = NoWrite
  /\ phase' = "stopping"
  /\ mtx' = Free
  /\ reader' = AllIdle
  /\ batch' = FinalBatch
  /\ write' = NoWrite
  /\ orphan' \in {write, NoWrite}
  /\ UNCHANGED <<ram, redis, disk, flush_pending, flush_q, accepted>>

OrphanEnds ==
  /\ orphan # NoWrite
  /\ \/ disk' = Saved(orphan)
     \/ "save_error" \in Faults /\ UNCHANGED disk
  /\ orphan' = NoWrite
  /\ UNCHANGED <<ram, redis, flush_pending, flush_q, mtx, reader, batch, write,
                 phase, accepted>>

Gone ==
  /\ phase' = "down"
  /\ ram' = NoFrames
  /\ flush_pending' = NoSnapshots
  /\ flush_q' = << >>
  /\ mtx' = Free
  /\ reader' = AllIdle
  /\ batch' = 0
  /\ write' = NoWrite
  /\ orphan' = NoWrite
  /\ accepted' = [k \in Keys |-> disk[k].n]
  /\ UNCHANGED <<redis, disk>>

(* asyncio.run has joined the executor.                                    *)
Exit ==
  /\ phase = "stopping"
  /\ batch = 0
  /\ write = NoWrite
  /\ orphan = NoWrite
  /\ Gone

Crash ==
  /\ phase # "down"
  /\ Gone

(* bootstrap: a new store, nothing read from disk.                         *)
Start ==
  /\ "restart" \in Faults
  /\ phase = "down"
  /\ phase' = "up"
  /\ UNCHANGED <<Volatile, redis, disk, accepted>>

MaintenanceStep == StartDrain \/ DrainNext \/ FlushDone \/ FlushFailed

Next ==
  \/ \E k \in Keys :
       \/ \E bars \in Batches : PutBars(k, bars)
       \/ \E limit \in Limits : EnforceTailLimit(k, limit)
       \/ RamDrop(k)
       \/ RedisExpire(k)
  \/ FinishWrite
  \/ \E r \in Readers :
       \/ \E k \in Keys : GetDf(r, k)
       \/ \E k \in Keys, n \in WarmBars : Warmup(r, k, n)
       \/ ReadRedis(r)
       \/ ReadDisk(r)
       \/ CacheResult(r)
  \/ StartDrain \/ DrainNext \/ FlushDone \/ FlushFailed
  \/ Stop \/ OrphanEnds \/ Exit \/ Crash \/ Start

Spec == Init /\ [][Next]_vars

(* asyncio runs every ready task, so the maintenance task keeps going; a   *)
(* save that may fail is tried until the disk accepts it.                  *)
FairSpec == Spec /\ WF_vars(MaintenanceStep) /\ SF_vars(FlushDone)
-----------------------------------------------------------------------------
(* Properties.                                                             *)

(* A snapshot waiting in _flush_pending always has its key in _flush_q, so *)
(* no interleaving of put_bars, enforce_tail_limit, a failed flush and the *)
(* drain leaves a snapshot nobody will ever write.                         *)
PendingIsQueued ==
  \A k \in Keys : flush_pending[k] # NoSnapshot => k \in QueuedKeys

(* The drain counts its iterations once, then awaits with the queue open   *)
(* to writers: popleft still never meets an empty queue.                   *)
DrainNeverUnderflows == batch <= Len(flush_q)

(* The snapshot on disk, the one being written and the one waiting are in  *)
(* the order they were accepted, whatever fails or overlaps; a write that  *)
(* outlived its task is older than both of the latter.                     *)
FlushOrdered ==
  \A k \in Keys :
    /\ disk[k].n <= accepted[k]
    /\ flush_pending[k] # NoSnapshot =>
         /\ disk[k].n < flush_pending[k].n
         /\ flush_pending[k].n <= accepted[k]
    /\ write # NoWrite /\ write.key = k =>
         /\ disk[k].n < write.snap.n
         /\ write.snap.n <= accepted[k]
         /\ flush_pending[k] # NoSnapshot => write.snap.n < flush_pending[k].n
    /\ orphan # NoWrite /\ orphan.key = k =>
         /\ phase = "stopping"
         /\ orphan.snap.n \in 1 .. accepted[k]
         /\ flush_pending[k] # NoSnapshot => orphan.snap.n < flush_pending[k].n
         /\ write # NoWrite /\ write.key = k => orphan.snap.n < write.snap.n

(* Cancelling every task leaves none of them half way: nobody holds _mtx    *)
(* once the process stops, and nothing is queued for the disk, being       *)
(* written or newer than the disk once it is down.                         *)
ShutdownIsComplete ==
  /\ mtx # Free => phase = "up"
  /\ phase = "down" =>
       /\ batch = 0 /\ write = NoWrite /\ orphan = NoWrite
       /\ \A k \in Keys : accepted[k] = disk[k].n

(* The write-behind queue as a whole, through failing saves and a shutdown *)
(* in the middle of one: the parts above hold together, and only together  *)
(* are they inductive.                                                     *)
FlushInv ==
  /\ TypeOK
  /\ DrainNeverUnderflows
  /\ PendingIsQueued
  /\ FlushOrdered
  /\ ShutdownIsComplete

(* While the process is up, a write-behind save never puts an older        *)
(* snapshot over a newer one on disk.                                      *)
DiskNeverRegresses ==
  [][phase = "up" => \A k \in Keys : disk[k].n <= disk'[k].n]_vars

(* The newest snapshot put_bars accepted is waiting, being written or on   *)
(* disk: write-behind coalesces, it does not forget (class docstring:      *)
(* put_bars is "write-behind Disk").                                       *)
NewestKept ==
  phase = "up" =>
    \A k \in Keys :
      \/ accepted[k] \in {flush_pending[k].n, disk[k].n}
      \/ write # NoWrite /\ write.key = k /\ write.snap.n = accepted[k]

(* A cancelled maintenance task leaves by its final drain with every       *)
(* accepted snapshot on disk ("final drain", _maintenance_loop).           *)
ExitIsDurable ==
  [][Exit => \A k \in Keys : disk[k].n = accepted[k]]_vars

(* A failed, coalesced or overtaken snapshot does not stay in the queue    *)
(* for ever: each waiting key is written unless the process ends.          *)
EventuallyFlushed ==
  \A k \in Keys :
    flush_pending[k] # NoSnapshot
      ~> \/ flush_pending[k] = NoSnapshot /\ (write # NoWrite => write.key # k)
         \/ phase # "up"

(* What a writer queues for the disk still has every bar the disk holds:   *)
(* put_bars extends the history across a restart (docs/stage1_pipeline.md: *)
(* RAM is warmed from the snapshots right after the start).                *)
HistorySurvives ==
  \A k \in Keys :
    flush_pending[k] # NoSnapshot =>
      DOMAIN disk[k].bars \subseteq DOMAIN flush_pending[k].bars

(* A bar on disk is not rewritten with other contents by a later report of *)
(* the same open_time: the first one accepted stays (_dedup_sort).         *)
BarsStable ==
  [][\A k \in Keys : \A t \in DOMAIN disk[k].bars \cap DOMAIN disk'[k].bars :
       disk'[k].bars[t] = disk[k].bars[t]]_vars

(* A get_df that missed RAM never takes away bars a put_bars has added     *)
(* meanwhile (get_df: history is kept by batches in RAM).                  *)
ReadKeepsBars ==
  [][\A r \in Readers : CacheResult(r) =>
       \A k \in Keys : DOMAIN ram[k] \subseteq DOMAIN ram'[k]]_vars

(* The store implements the abstract write-behind disk.                    *)
Abstract == INSTANCE WriteBehind WITH
  durable <- [k \in Keys |-> disk[k].n], mode <- phase
AbstractSpec == Abstract!Spec
=============================================================================
