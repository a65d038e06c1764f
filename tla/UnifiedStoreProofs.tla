------------------------- MODULE UnifiedStoreProofs -------------------------
(* Theorems about UnifiedStore, for every value of its constants.          *)
EXTENDS UnifiedStore, SequenceTheorems, TLAPS

-----------------------------------------------------------------------------
(* Frames are closed under what the store does with them.                  *)

(* The empty frame is a frame.                                             *)
LEMMA EmptyFrameType == EmptyFrame \in Frames
<1>1. EmptyFrame \in [{} -> Values]
  BY DEF EmptyFrame
<1>2. {} \in SUBSET Times
  OBVIOUS
<1> QED
  BY <1>1, <1>2 DEF Frames

(* Keeping some of a frame's bars gives a frame.                           *)
LEMMA KeepBarsType ==
  ASSUME NEW f \in Frames, NEW S \in SUBSET DOMAIN f
  PROVE  KeepBars(f, S) \in Frames
<1>1. PICK D \in SUBSET Times : f \in [D -> Values]
  BY DEF Frames
<1>2. KeepBars(f, S) \in [S -> Values]
  BY <1>1 DEF KeepBars
<1>3. S \in SUBSET Times
  BY <1>1
<1> QED
  BY <1>2, <1>3 DEF Frames

(* LastBar and TailBars, both selections, give frames.                     *)
LEMMA SelectionType ==
  ASSUME NEW f \in Frames, NEW n
  PROVE  LastBar(f) \in Frames /\ TailBars(f, n) \in Frames
<1>1. {t \in DOMAIN f : \A u \in DOMAIN f : u <= t} \in SUBSET DOMAIN f
  OBVIOUS
<1>2. {t \in DOMAIN f : Cardinality({u \in DOMAIN f : u > t}) < n} \in SUBSET DOMAIN f
  OBVIOUS
<1> QED
  BY <1>1, <1>2, KeepBarsType DEF LastBar, TailBars

(* Merging two frames gives a frame.                                       *)
LEMMA UpsertType ==
  ASSUME NEW f \in Frames, NEW g \in Frames
  PROVE  Upsert(f, g) \in Frames
<1>1. PICK D \in SUBSET Times : f \in [D -> Values]
  BY DEF Frames
<1>2. PICK E \in SUBSET Times : g \in [E -> Values]
  BY DEF Frames
<1>3. Upsert(f, g) \in [D \cup E -> Values]
  BY <1>1, <1>2 DEF Upsert
<1>4. D \cup E \in SUBSET Times
  OBVIOUS
<1> QED
  BY <1>3, <1>4 DEF Frames

(* A drain is never planned longer than the backlog it met.                *)
LEMMA IterationsBounded ==
  ASSUME NEW size \in Nat, NEW i \in Iterations(size)
  PROVE  i \in Nat /\ i <= size
<1>1. BatchLimit(size) \subseteq Nat
  BY BatchPositive, TiersPositive DEF BatchLimit
<1> QED
  BY <1>1 DEF Iterations

(* The snapshot standing for "none" is typed.                              *)
LEMMA NoSnapshotType == NoSnapshot \in Snapshots
  BY EmptyFrameType DEF NoSnapshot, Snapshots
-----------------------------------------------------------------------------
(* The types hold of the initial state.                                    *)
LEMMA TypeInit == Init => TypeOK
  BY EmptyFrameType, NoSnapshotType
  DEF Init, TypeOK, NoFrames, NoSnapshots, AllIdle

(* Every step keeps the types; popleft needs a key to pop.                 *)
LEMMA TypeStep ==
  ASSUME TypeOK, DrainNeverUnderflows, [Next]_vars
  PROVE  TypeOK'
<1> USE DEF TypeOK
<1>1. ASSUME NEW k \in Keys, NEW bars \in Batches, PutBars(k, bars)
      PROVE  TypeOK'
  <2>1. Upsert(ram[k], bars) \in Frames
    BY UpsertType, BatchesAreFrames
  <2>2. mtx' \in Held
    BY <1>1, <2>1 DEF PutBars, Held, Merged
  <2> QED
    BY <1>1, <2>1, <2>2 DEF PutBars, Merged
<1>2. ASSUME NEW k \in Keys, NEW limit \in Limits, EnforceTailLimit(k, limit)
      PROVE  TypeOK'
  <2>1. TailBars(ram[k], limit) \in Frames
    BY SelectionType
  <2>2. mtx' \in Held
    BY <1>2, <2>1 DEF EnforceTailLimit, Held
  <2> QED
    BY <1>2, <2>1, <2>2 DEF EnforceTailLimit
<1>3. ASSUME FinishWrite
      PROVE  TypeOK'
  <2>1. mtx \in Held
    BY <1>3 DEF FinishWrite, Coalesced
  <2> DEFINE k == mtx.key
             snap == [n |-> accepted[k] + 1, bars |-> mtx.bars]
  <2>2. k \in Keys /\ mtx.bars \in Frames
    BY <2>1 DEF Held
  <2>3. LastBar(mtx.bars) \in Frames
    BY <2>2, SelectionType
  <2>4. redis' \in [Keys -> Frames]
    BY <1>3, <2>2, <2>3 DEF FinishWrite, Coalesced
  <2>5. accepted' \in [Keys -> Nat]
    BY <1>3, <2>2 DEF FinishWrite, Coalesced
  <2>6. snap \in Snapshots
    BY <2>2 DEF Snapshots
  <2>7. flush_pending' = [flush_pending EXCEPT ![k] = snap]
    BY <1>3 DEF FinishWrite, Coalesced
  <2>8. flush_pending' \in [Keys -> Snapshots]
    BY <2>2, <2>6, <2>7
  <2>9. flush_q' \in Seq(Keys)
    BY <1>3, <2>2 DEF FinishWrite, Coalesced
  <2> QED
    BY <1>3, <2>4, <2>5, <2>8, <2>9 DEF FinishWrite, Coalesced
<1>4. ASSUME NEW r \in Readers, NEW k \in Keys, GetDf(r, k)
      PROVE  TypeOK'
  <2>1. [at |-> "redis", key |-> k, bars |-> EmptyFrame, tail |-> 0] \in Fetches
    BY EmptyFrameType DEF Fetches
  <2> QED
    BY <1>4, <2>1 DEF GetDf
<1>5. ASSUME NEW r \in Readers, NEW k \in Keys, NEW n \in WarmBars, Warmup(r, k, n)
      PROVE  TypeOK'
  <2>1. [at |-> "warm", key |-> k, bars |-> EmptyFrame, tail |-> n] \in Fetches
    BY EmptyFrameType, LimitsPositive DEF Fetches
  <2> QED
    BY <1>5, <2>1 DEF Warmup
<1>6. ASSUME NEW r \in Readers, ReadRedis(r)
      PROVE  TypeOK'
  <2>1. reader[r] \in Fetches
    BY <1>6 DEF ReadRedis, Idle
  <2>2. reader[r].key \in Keys
    BY <2>1 DEF Fetches
  <2>3. PICK last \in {redis[reader[r].key], EmptyFrame} :
          reader' = [reader EXCEPT ![r].at = "disk", ![r].bars = last]
    BY <1>6 DEF ReadRedis
  <2>4. last \in Frames
    BY <2>2, <2>3, EmptyFrameType
  <2>5. [reader[r] EXCEPT !.at = "disk", !.bars = last] \in Fetches
    BY <2>1, <2>4 DEF Fetches
  <2>6. reader' \in [Readers -> Fetches \cup {Idle}]
    BY <2>3, <2>5
  <2> QED
    BY <1>6, <2>6 DEF ReadRedis
<1>7. ASSUME NEW r \in Readers, ReadDisk(r)
      PROVE  TypeOK'
  <2>1. reader[r] \in Fetches
    BY <1>7 DEF ReadDisk, Idle
  <2> DEFINE saved == disk[reader[r].key].bars
             tail == reader[r].tail
             out == IF reader[r].at = "disk" THEN Upsert(saved, reader[r].bars)
                    ELSE IF tail > 0 THEN TailBars(saved, tail) ELSE saved
  <2>2. saved \in Frames
    BY <2>1 DEF Fetches, Snapshots
  <2>3. out \in Frames
    BY <2>1, <2>2, UpsertType, SelectionType DEF Fetches
  <2>4. reader' = [reader EXCEPT ![r].at = "cache", ![r].bars = out]
    BY <1>7 DEF ReadDisk
  <2> HIDE DEF out
  <2>5. [reader[r] EXCEPT !.at = "cache", !.bars = out] \in Fetches
    BY <2>1, <2>3 DEF Fetches
  <2>6. reader' \in [Readers -> Fetches \cup {Idle}]
    BY <2>4, <2>5
  <2> QED
    BY <1>7, <2>6 DEF ReadDisk
<1>8. ASSUME NEW r \in Readers, CacheResult(r)
      PROVE  TypeOK'
  <2>1. reader[r] \in Fetches
    BY <1>8 DEF CacheResult, Idle
  <2>2. reader[r].bars \in Frames
    BY <2>1 DEF Fetches
  <2> QED
    BY <1>8, <2>2 DEF CacheResult
<1>9. ASSUME NEW k \in Keys, RamDrop(k) \/ RedisExpire(k)
      PROVE  TypeOK'
  BY <1>9, EmptyFrameType DEF RamDrop, RedisExpire
<1>10. ASSUME StartDrain
       PROVE  TypeOK'
  <2>1. batch' \in Nat
    BY <1>10, IterationsBounded DEF StartDrain
  <2> QED
    BY <1>10, <2>1 DEF StartDrain
<1>11. ASSUME DrainNext
       PROVE  TypeOK'
  <2>1. Head(flush_q) \in Keys /\ flush_q' \in Seq(Keys) /\ batch' \in Nat
    BY <1>11, HeadTailProperties DEF DrainNext, DrainNeverUnderflows, Popped
  <2>2. write' \in Writes \cup {NoWrite}
    BY <1>11, <2>1 DEF DrainNext, Writes, Popped
  <2>3. flush_pending' \in [Keys -> Snapshots]
    BY <1>11, NoSnapshotType DEF DrainNext, Popped
  <2> QED
    BY <1>11, <2>1, <2>2, <2>3 DEF DrainNext, Popped
<1>12. ASSUME FlushDone \/ FlushFailed
       PROVE  TypeOK'
  <2>1. write \in Writes
    BY <1>12 DEF FlushDone, FlushFailed, Saved, Requeued
  <2>2. write.key \in Keys /\ write.snap \in Snapshots
    BY <2>1 DEF Writes
  <2>3. CASE FlushDone
    BY <2>2, <2>3 DEF FlushDone, Saved
  <2>4. CASE FlushFailed
    <3>1. <<write.key>> \in Seq(Keys)
      BY <2>2
    <3>2. flush_q' \in Seq(Keys)
      BY <2>4, <3>1, ConcatProperties DEF FlushFailed, Requeued
    <3>3. flush_pending' \in [Keys -> Snapshots]
      BY <2>2, <2>4 DEF FlushFailed, Requeued
    <3> QED
      BY <2>4, <3>2, <3>3 DEF FlushFailed, Requeued
  <2> QED
    BY <1>12, <2>3, <2>4
<1>13. ASSUME OrphanEnds
       PROVE  TypeOK'
  <2>1. orphan \in Writes
    BY <1>13 DEF OrphanEnds, Saved
  <2>2. orphan.key \in Keys /\ orphan.snap \in Snapshots
    BY <2>1 DEF Writes
  <2> QED
    BY <1>13, <2>2 DEF OrphanEnds, Saved
<1>14. ASSUME Stop
       PROVE  TypeOK'
  BY <1>14 DEF Stop, AllIdle, FinalBatch
<1>15. ASSUME Gone
       PROVE  TypeOK'
  BY <1>15, EmptyFrameType, NoSnapshotType
  DEF Gone, NoFrames, NoSnapshots, AllIdle, Snapshots
<1>16. ASSUME Start
       PROVE  TypeOK'
  BY <1>16 DEF Start, Volatile
<1>17. CASE UNCHANGED vars
  BY <1>17 DEF vars
<1> QED
  BY <1>1, <1>2, <1>3, <1>4, <1>5, <1>6, <1>7, <1>8, <1>9, <1>10, <1>11, <1>12,
     <1>13, <1>14, <1>15, <1>16, <1>17 DEF Next, Exit, Crash

(* The drain meets a key for each iteration it counted.                    *)
LEMMA UnderflowStep ==
  ASSUME TypeOK, DrainNeverUnderflows, [Next]_vars
  PROVE  DrainNeverUnderflows'
<1> USE DEF DrainNeverUnderflows, TypeOK
<1>1. ASSUME FinishWrite
      PROVE  DrainNeverUnderflows'
  <2>1. mtx.key \in Keys
    BY <1>1 DEF FinishWrite, Held, Coalesced
  <2>2. Len(flush_q') >= Len(flush_q)
    BY <1>1, <2>1 DEF FinishWrite, Coalesced
  <2> QED
    BY <1>1, <2>2 DEF FinishWrite, Coalesced
<1>2. ASSUME StartDrain
      PROVE  DrainNeverUnderflows'
  <2>1. batch' <= Len(flush_q)
    BY <1>2, IterationsBounded DEF StartDrain
  <2> QED
    BY <1>2, <2>1 DEF StartDrain
<1>3. ASSUME DrainNext
      PROVE  DrainNeverUnderflows'
  BY <1>3 DEF DrainNext, Popped
<1>4. ASSUME FlushFailed
      PROVE  DrainNeverUnderflows'
  <2>1. write.key \in Keys
    BY <1>4 DEF FlushFailed, Writes, Requeued
  <2> QED
    BY <1>4, <2>1 DEF FlushFailed, Requeued
<1>5. ASSUME Gone \/ Stop
      PROVE  DrainNeverUnderflows'
  BY <1>5 DEF Gone, Stop, FinalBatch
<1>6. ASSUME UNCHANGED <<flush_q, batch>>
      PROVE  DrainNeverUnderflows'
  BY <1>6
<1> QED
  BY <1>1, <1>2, <1>3, <1>4, <1>5, <1>6
  DEF Next, PutBars, EnforceTailLimit, RamDrop, RedisExpire, GetDf, Warmup,
      ReadRedis, ReadDisk, CacheResult, FlushDone, OrphanEnds, Exit, Crash,
      Start, Volatile, vars, Merged, Saved

(* Type correctness of UnifiedDataStore's fields and of its coroutines,    *)
(* and no popleft on an empty _flush_q.                                    *)
THEOREM TypeCorrect == Spec => [](TypeOK /\ DrainNeverUnderflows)
<1>1. Init => TypeOK /\ DrainNeverUnderflows
  BY TypeInit DEF Init, DrainNeverUnderflows
<1>2. TypeOK /\ DrainNeverUnderflows /\ [Next]_vars
        => (TypeOK /\ DrainNeverUnderflows)'
  BY TypeStep, UnderflowStep
<1> QED
  BY <1>1, <1>2, PTL DEF Spec
-----------------------------------------------------------------------------
(* The write-behind queue.  PendingIsQueued, FlushOrdered and              *)
(* ShutdownIsComplete are inductive together: a failed flush restores a    *)
(* snapshot older than the waiting one, so its order against the disk must *)
(* be known; the order of a write against a late one needs to know that    *)
(* late writes exist only during shutdown.                                 *)

(* Actions that leave the write-behind side of the store alone.            *)
Bystander ==
  UNCHANGED <<disk, flush_pending, flush_q, batch, write, orphan, phase,
              accepted>>

(* Appending keeps the queued keys and adds the appended one.              *)
LEMMA QueuedAfterAppend ==
  ASSUME NEW q \in Seq(Keys), NEW k \in Keys
  PROVE  {Append(q, k)[i] : i \in 1 .. Len(Append(q, k))}
           = {q[i] : i \in 1 .. Len(q)} \cup {k}
  BY AppendProperties

(* Popping loses at most the popped key.                                   *)
LEMMA QueuedAfterPop ==
  ASSUME NEW q \in Seq(Keys), q # << >>
  PROVE  \A k \in {q[i] : i \in 1 .. Len(q)} :
           k = Head(q) \/ k \in {Tail(q)[i] : i \in 1 .. Len(Tail(q))}
<1> SUFFICES ASSUME NEW i \in 1 .. Len(q), i # 1
             PROVE  \E j \in 1 .. Len(Tail(q)) : q[i] = Tail(q)[j]
  BY HeadTailProperties
<1>1. i - 1 \in 1 .. Len(Tail(q)) /\ Tail(q)[i - 1] = q[i]
  BY HeadTailProperties
<1> QED
  BY <1>1

(* Pushing to the front keeps the queued keys and adds the pushed one.     *)
LEMMA QueuedAfterPush ==
  ASSUME NEW q \in Seq(Keys), NEW k \in Keys
  PROVE  /\ k \in {(<<k>> \o q)[i] : i \in 1 .. Len(<<k>> \o q)}
         /\ {q[i] : i \in 1 .. Len(q)}
              \subseteq {(<<k>> \o q)[i] : i \in 1 .. Len(<<k>> \o q)}
<1> DEFINE p == <<k>> \o q
<1>1. p \in Seq(Keys) /\ Len(p) = Len(q) + 1
  BY ConcatProperties
<1>2. p[1] = k
  BY ConcatProperties
<1>3. \A i \in 1 .. Len(q) : i + 1 \in 1 .. Len(p) /\ p[i + 1] = q[i]
  BY <1>1, ConcatProperties
<1> QED
  BY <1>1, <1>2, <1>3

(* No step leaves a waiting snapshot without its key in the queue.         *)
LEMMA PendingStep ==
  ASSUME FlushInv, [Next]_vars
  PROVE  PendingIsQueued'
<1> USE DEF FlushInv, PendingIsQueued, QueuedKeys
<1>1. ASSUME FinishWrite
      PROVE  PendingIsQueued'
  <2>1. mtx.key \in Keys /\ mtx.op \in {"put", "trim"}
    BY <1>1 DEF FinishWrite, TypeOK, Held, Coalesced
  <2>2. flush_q \in Seq(Keys)
    BY DEF TypeOK
  <2>3. flush_pending \in [Keys -> Snapshots]
    BY DEF TypeOK
  <2>4. \A k \in Keys \ {mtx.key} : flush_pending'[k] = flush_pending[k]
    BY <1>1, <2>3 DEF FinishWrite, Coalesced
  <2>5. CASE AlreadyQueued(mtx.op, mtx.key)
    <3>1. flush_q' = flush_q
      BY <1>1, <2>5 DEF FinishWrite, Coalesced
    <3>2. mtx.key \in QueuedKeys
      BY <2>1, <2>5 DEF AlreadyQueued
    <3> QED
      BY <2>4, <3>1, <3>2
  <2>6. CASE ~AlreadyQueued(mtx.op, mtx.key)
    <3>1. flush_q' = Append(flush_q, mtx.key)
      BY <1>1, <2>6 DEF FinishWrite, Coalesced
    <3>2. QueuedKeys' = QueuedKeys \cup {mtx.key}
      BY <2>1, <2>2, <3>1, QueuedAfterAppend
    <3> QED
      BY <2>4, <3>2
  <2> QED
    BY <2>5, <2>6
<1>2. ASSUME DrainNext
      PROVE  PendingIsQueued'
  <2>1. flush_q \in Seq(Keys) /\ flush_q # << >>
    BY <1>2 DEF DrainNext, TypeOK, DrainNeverUnderflows, Popped
  <2>2. Head(flush_q) \in Keys
    BY <2>1, HeadTailProperties
  <2>3. \A k \in Keys :
          flush_pending'[k] = IF k = Head(flush_q) THEN NoSnapshot
                              ELSE flush_pending[k]
    BY <1>2, <2>2 DEF DrainNext, TypeOK, Popped
  <2>4. \A k \in QueuedKeys : k = Head(flush_q) \/ k \in QueuedKeys'
    BY <1>2, <2>1, QueuedAfterPop DEF DrainNext, Popped
  <2> QED
    BY <2>3, <2>4
<1>3. ASSUME FlushFailed
      PROVE  PendingIsQueued'
  <2>1. write.key \in Keys /\ flush_q \in Seq(Keys)
    BY <1>3 DEF FlushFailed, TypeOK, Writes, Requeued
  <2>2. write.key \in QueuedKeys' /\ QueuedKeys \subseteq QueuedKeys'
    BY <1>3, <2>1, QueuedAfterPush DEF FlushFailed, Requeued
  <2>3. \A k \in Keys \ {write.key} : flush_pending'[k] = flush_pending[k]
    BY <1>3 DEF FlushFailed, TypeOK, Requeued
  <2> QED
    BY <2>2, <2>3
<1>4. ASSUME Gone
      PROVE  PendingIsQueued'
  BY <1>4 DEF Gone, NoSnapshots
<1>5. ASSUME UNCHANGED <<flush_q, flush_pending>>
      PROVE  PendingIsQueued'
  BY <1>5
<1> QED
  BY <1>1, <1>2, <1>3, <1>4, <1>5
  DEF Next, PutBars, EnforceTailLimit, RamDrop, RedisExpire, GetDf, Warmup,
      ReadRedis, ReadDisk, CacheResult, StartDrain, FlushDone, OrphanEnds, Stop,
      Exit, Crash, Start, Volatile, vars, Merged, Saved, FinalBatch

(* No step leaves anything half done once the process is down.             *)
LEMMA ShutdownStep ==
  ASSUME FlushInv, [Next]_vars
  PROVE  ShutdownIsComplete'
<1> USE DEF FlushInv, ShutdownIsComplete
<1>1. ASSUME NEW k \in Keys, NEW bars, PutBars(k, bars)
      PROVE  ShutdownIsComplete'
  BY <1>1 DEF PutBars, Merged
<1>2. ASSUME NEW k \in Keys, NEW limit, EnforceTailLimit(k, limit)
      PROVE  ShutdownIsComplete'
  BY <1>2 DEF EnforceTailLimit
<1>3. ASSUME FinishWrite
      PROVE  ShutdownIsComplete'
  BY <1>3 DEF FinishWrite, Coalesced
<1>4. ASSUME Bystander, UNCHANGED mtx
      PROVE  ShutdownIsComplete'
  BY <1>4 DEF Bystander
<1>5. ASSUME StartDrain \/ DrainNext \/ FlushDone \/ FlushFailed \/ OrphanEnds
      PROVE  ShutdownIsComplete'
  BY <1>5 DEF StartDrain, DrainNext, FlushDone, FlushFailed, OrphanEnds, TypeOK, Popped, Saved, Requeued
<1>6. ASSUME Stop \/ Gone \/ Start
      PROVE  ShutdownIsComplete'
  BY <1>6 DEF Stop, Gone, Start, Volatile, FinalBatch
<1>7. CASE \E k \in Keys : RamDrop(k) \/ RedisExpire(k)
  BY <1>4, <1>7 DEF RamDrop, RedisExpire, Bystander
<1>8. CASE \E r \in Readers :
             \/ \E k \in Keys : GetDf(r, k)
             \/ \E k \in Keys, n \in WarmBars : Warmup(r, k, n)
             \/ ReadRedis(r) \/ ReadDisk(r) \/ CacheResult(r)
  BY <1>4, <1>8 DEF GetDf, Warmup, ReadRedis, ReadDisk, CacheResult, Bystander
<1> QED
  BY <1>1, <1>2, <1>3, <1>4, <1>5, <1>6, <1>7, <1>8
  DEF Next, Exit, Crash, vars, Bystander

(* FinishWrite accepts the newest snapshot of its key so far.              *)
LEMMA OrderedFinish ==
  ASSUME FlushInv, FinishWrite
  PROVE  FlushOrdered'
<1>1. mtx.key \in Keys
  BY DEF FinishWrite, FlushInv, TypeOK, Held, Coalesced
<1>2. \A k \in Keys :
        /\ accepted'[k] = IF k = mtx.key THEN accepted[k] + 1 ELSE accepted[k]
        /\ k # mtx.key => flush_pending'[k] = flush_pending[k]
        /\ k = mtx.key => flush_pending'[k].n = accepted[k] + 1
  BY <1>1 DEF FinishWrite, FlushInv, TypeOK, Coalesced
<1>3. UNCHANGED <<disk, write, orphan, phase>>
  BY DEF FinishWrite, Coalesced
<1>4. \A k \in Keys : accepted[k] \in Nat /\ disk[k].n \in Nat
  BY DEF FlushInv, TypeOK, Snapshots
<1>5. /\ write # NoWrite => write.snap.n \in Nat
      /\ orphan # NoWrite => orphan.snap.n \in Nat
  BY DEF FlushInv, TypeOK, Writes, Snapshots
<1> QED
  BY <1>1, <1>2, <1>3, <1>4, <1>5 DEF FlushInv, FlushOrdered

(* The drain moves the waiting snapshot to the disk in order.              *)
LEMMA OrderedDrain ==
  ASSUME FlushInv, DrainNext
  PROVE  FlushOrdered'
<1>1. Head(flush_q) \in Keys
  BY HeadTailProperties DEF DrainNext, FlushInv, TypeOK, DrainNeverUnderflows, Popped
<1> DEFINE h == Head(flush_q)
<1>2. \A k \in Keys : flush_pending'[k] = IF k = h THEN NoSnapshot
                                           ELSE flush_pending[k]
  BY <1>1 DEF DrainNext, FlushInv, TypeOK, Popped
<1>3. write' # NoWrite =>
        /\ flush_pending[h] # NoSnapshot
        /\ write' = [key |-> h, snap |-> flush_pending[h]]
  BY DEF DrainNext, Popped
<1>4. UNCHANGED <<disk, orphan, phase, accepted>>
  BY DEF DrainNext, Popped
<1> QED
  BY <1>1, <1>2, <1>3, <1>4 DEF FlushInv, FlushOrdered

(* A finished, failed or late write keeps the order.                       *)
LEMMA OrderedWrites ==
  ASSUME FlushInv, FlushDone \/ FlushFailed \/ OrphanEnds
  PROVE  FlushOrdered'
<1> USE DEF FlushInv, FlushOrdered
<1>1. /\ write # NoWrite => write.key \in Keys /\ write.snap.n \in Nat
      /\ orphan # NoWrite => orphan.key \in Keys /\ orphan.snap.n \in Nat
      /\ \A k \in Keys : disk[k].n \in Nat /\ flush_pending[k].n \in Nat
                         /\ accepted[k] \in Nat
  BY DEF TypeOK, Writes, Snapshots
<1>2. CASE FlushDone
  <2>1. \A k \in Keys : \/ disk'[k] = disk[k]
                        \/ k = write.key /\ disk'[k].n = write.snap.n
    BY <1>1, <1>2 DEF FlushDone, TypeOK, Saved
  <2> QED
    BY <1>1, <1>2, <2>1 DEF FlushDone, Saved
<1>3. CASE FlushFailed
  <2>1. \A k \in Keys : \/ k # write.key /\ flush_pending'[k] = flush_pending[k]
                        \/ k = write.key /\ flush_pending'[k] = write.snap
    BY <1>1, <1>3 DEF FlushFailed, TypeOK, Requeued
  <2> QED
    BY <1>1, <1>3, <2>1 DEF FlushFailed, Requeued
<1>4. CASE OrphanEnds
  <2>1. \A k \in Keys : \/ disk'[k] = disk[k]
                        \/ k = orphan.key /\ disk'[k].n = orphan.snap.n
    BY <1>1, <1>4 DEF OrphanEnds, TypeOK, Saved
  <2> QED
    BY <1>1, <1>4, <2>1 DEF OrphanEnds, Saved
<1> QED
  BY <1>2, <1>3, <1>4

(* The cancelled write is older than what waits for the final drain; a     *)
(* process that is gone has nothing in order to keep but the disk.         *)
LEMMA OrderedShutdown ==
  ASSUME FlushInv, Stop \/ Gone \/ Start
  PROVE  FlushOrdered'
<1> USE DEF FlushInv, FlushOrdered
<1>1. CASE Stop
  <2>1. \A k \in Keys : disk[k].n \in Nat
    BY DEF TypeOK, Snapshots
  <2>2. write # NoWrite => write.key \in Keys /\ write.snap.n \in Nat
    BY DEF TypeOK, Writes, Snapshots
  <2>3. ASSUME write # NoWrite
        PROVE  write.snap.n \in 1 .. accepted[write.key]
    <3>1. /\ disk[write.key].n < write.snap.n
          /\ write.snap.n <= accepted[write.key]
      BY <2>2, <2>3
    <3>2. accepted[write.key] \in Nat /\ disk[write.key].n \in Nat
      BY <2>1, <2>2, <2>3 DEF TypeOK
    <3> QED
      BY <2>2, <2>3, <3>1, <3>2
  <2> QED
    BY <1>1, <2>3 DEF Stop, FinalBatch
<1>2. CASE Gone
  <2>1. \A k \in Keys : disk[k].n \in Nat
    BY DEF TypeOK, Snapshots
  <2> QED
    BY <1>2, <2>1 DEF Gone, NoSnapshots
<1>3. CASE Start
  BY <1>3 DEF Start, Volatile, ShutdownIsComplete
<1> QED
  BY <1>1, <1>2, <1>3

(* No step breaks the order of snapshots.                                  *)
LEMMA OrderedStep ==
  ASSUME FlushInv, [Next]_vars
  PROVE  FlushOrdered'
<1>1. ASSUME UNCHANGED <<disk, flush_pending, write, orphan, phase, accepted>>
      PROVE  FlushOrdered'
  BY <1>1 DEF FlushInv, FlushOrdered
<1> QED
  BY <1>1, OrderedFinish, OrderedDrain, OrderedWrites, OrderedShutdown
  DEF Next, PutBars, EnforceTailLimit, RamDrop, RedisExpire, GetDf, Warmup,
      ReadRedis, ReadDisk, CacheResult, StartDrain, Exit, Crash, vars, Merged

(* The queue invariant holds of the initial state.                         *)
LEMMA FlushInit == Init => FlushInv
<1> SUFFICES ASSUME Init PROVE FlushInv
  OBVIOUS
<1>1. TypeOK
  BY TypeInit
<1> QED
  BY <1>1
  DEF Init, FlushInv, DrainNeverUnderflows, PendingIsQueued, FlushOrdered,
      ShutdownIsComplete, NoSnapshots, NoSnapshot

(* Every step keeps the queue invariant.                                   *)
LEMMA FlushStep == ASSUME FlushInv, [Next]_vars PROVE FlushInv'
  BY TypeStep, UnderflowStep, PendingStep, OrderedStep, ShutdownStep DEF FlushInv

(* The write-behind queue loses no key and no order, through coalescing,   *)
(* failed saves, shutdown, crash and restart.                              *)
THEOREM FlushSafe == Spec => []FlushInv
<1>1. Init => FlushInv
  BY FlushInit
<1>2. FlushInv /\ [Next]_vars => FlushInv'
  BY FlushStep
<1> QED
  BY <1>1, <1>2, PTL DEF Spec

(* PendingIsQueued, ShutdownIsComplete and FlushOrdered are invariants.    *)
COROLLARY PendingIsAlwaysQueued ==
  Spec => [](PendingIsQueued /\ FlushOrdered /\ ShutdownIsComplete)
<1>1. FlushInv => PendingIsQueued /\ FlushOrdered /\ ShutdownIsComplete
  BY DEF FlushInv
<1> QED
  BY <1>1, FlushSafe, PTL

(* How a step may change what the disk holds of a key.                     *)
LEMMA DiskStep ==
  ASSUME FlushInv, [Next]_vars, NEW k \in Keys, disk'[k] # disk[k]
  PROVE  \/ /\ FlushDone /\ write.key = k /\ disk'[k] = write.snap
            /\ disk' = [disk EXCEPT ![k] = write.snap]
         \/ /\ OrphanEnds /\ orphan.key = k /\ disk'[k] = orphan.snap
            /\ disk' = [disk EXCEPT ![k] = orphan.snap]
<1>1. FlushDone \/ OrphanEnds
  BY DEF Next, PutBars, EnforceTailLimit, RamDrop, RedisExpire, GetDf, Warmup,
         ReadRedis, ReadDisk, CacheResult, FinishWrite, StartDrain, DrainNext,
         FlushFailed, Stop, Gone, Exit, Crash, Start, vars, Merged, Coalesced, Popped, Requeued, FinalBatch
<1>2. disk \in [Keys -> Snapshots]
  BY DEF FlushInv, TypeOK
<1> QED
  BY <1>1, <1>2 DEF FlushDone, OrphanEnds, Saved

(* While the process is up, no save puts an older snapshot over a newer.   *)
THEOREM DiskOnlyAdvances == Spec => DiskNeverRegresses
<1>1. FlushInv /\ [Next]_vars
        => [phase = "up" => \A k \in Keys : disk[k].n <= disk'[k].n]_vars
  <2> SUFFICES ASSUME FlushInv, [Next]_vars, phase = "up", NEW k \in Keys
               PROVE  disk[k].n <= disk'[k].n
    OBVIOUS
  <2>1. disk[k].n \in Nat
    BY DEF FlushInv, TypeOK, Snapshots
  <2>2. orphan = NoWrite
    <3>1. orphan # NoWrite => orphan.key \in Keys
      BY DEF FlushInv, TypeOK, Writes
    <3> QED
      BY <3>1 DEF FlushInv, FlushOrdered
  <2>3. FlushDone /\ write.key = k /\ disk'[k] = write.snap
          => disk[k].n <= disk'[k].n
    <3>1. FlushDone /\ write.key = k => write.snap.n \in Nat /\ disk[k].n < write.snap.n
      BY DEF FlushDone, FlushInv, FlushOrdered, TypeOK, Writes, Snapshots, Saved
    <3> QED
      BY <2>1, <3>1
  <2> QED
    BY <2>1, <2>2, <2>3, DiskStep DEF OrphanEnds, Saved
<1> QED
  BY <1>1, FlushSafe, PTL DEF Spec, DiskNeverRegresses
-----------------------------------------------------------------------------
(* The bars themselves.  As long as RAM keeps what it was given, whatever  *)
(* the queue holds of a key is part of what RAM holds of it, and an older  *)
(* snapshot is part of a newer one.  RAM forgets when an entry is dropped, *)
(* when the process starts again, when a writer trims and when a reader    *)
(* puts back what it read before a write: the runs store_restart and       *)
(* store_race show that a restart and a reader do break what follows.      *)

RamKeeps ==
  Faults \cap {"ram_drop", "restart"} = {} /\ Limits = {} /\ Readers = {}

(* g has every bar of f, with the same contents.                           *)
Within(f, g) == DOMAIN f \subseteq DOMAIN g /\ \A t \in DOMAIN f : f[t] = g[t]

(* Of one key: the snapshot on disk, the late write, the current write and *)
(* the waiting snapshot, each within the next that exists and within RAM.  *)
Nested(k) ==
  /\ Within(disk[k].bars, ram[k])
  /\ mtx # Free /\ mtx.key = k => mtx.bars = ram[k]
  /\ flush_pending[k] # NoSnapshot =>
       /\ Within(flush_pending[k].bars, ram[k])
       /\ Within(disk[k].bars, flush_pending[k].bars)
  /\ write # NoWrite /\ write.key = k =>
       /\ Within(write.snap.bars, ram[k])
       /\ Within(disk[k].bars, write.snap.bars)
       /\ flush_pending[k] # NoSnapshot =>
            Within(write.snap.bars, flush_pending[k].bars)
  /\ orphan # NoWrite /\ orphan.key = k =>
       /\ Within(orphan.snap.bars, ram[k])
       /\ flush_pending[k] # NoSnapshot =>
            Within(orphan.snap.bars, flush_pending[k].bars)
       /\ write # NoWrite /\ write.key = k =>
            Within(orphan.snap.bars, write.snap.bars)

HistoryNested == phase # "down" => \A k \in Keys : Nested(k)

(* Within is an order, and merging extends what was merged into.           *)
LEMMA WithinOrder ==
  ASSUME NEW f, NEW g, NEW h, Within(f, g), Within(g, h)
  PROVE  Within(f, h) /\ Within(f, f)
  BY DEF Within

LEMMA MergeExtends ==
  ASSUME NEW k, NEW bars
  PROVE  Within(ram[k], Merged(k, bars))
  BY DEF Within, Merged, Upsert

(* put_bars extends RAM, and its holder is to write what RAM holds.        *)
LEMMA NestedPut ==
  ASSUME FlushInv, HistoryNested, NEW j \in Keys, NEW bars \in Batches,
         PutBars(j, bars)
  PROVE  HistoryNested'
<1> SUFFICES ASSUME NEW k \in Keys PROVE Nested(k)'
  BY DEF HistoryNested
<1>1. Nested(k)
  BY DEF HistoryNested, PutBars
<1>2. /\ mtx = Free
      /\ mtx' = [op |-> "put", key |-> j, bars |-> Merged(j, bars)]
      /\ ram' = [ram EXCEPT ![j] = Merged(j, bars)]
      /\ UNCHANGED <<disk, flush_pending, write, orphan>>
  BY DEF PutBars
<1>3. Within(ram[k], ram'[k])
  <2>1. CASE k = j
    BY <1>2, <2>1, MergeExtends DEF FlushInv, TypeOK
  <2>2. CASE k # j
    BY <1>2, <2>2 DEF FlushInv, TypeOK, Within
  <2> QED
    BY <2>1, <2>2
<1>4. mtx'.key = k => mtx'.bars = ram'[k]
  BY <1>2 DEF FlushInv, TypeOK
<1>5. ASSUME NEW f, Within(f, ram[k]) PROVE Within(f, ram'[k])
  BY <1>3, <1>5, WithinOrder
<1> QED
  BY <1>1, <1>2, <1>4, <1>5 DEF Nested

(* What the lock holder queues is all RAM holds.                           *)
LEMMA NestedFinish ==
  ASSUME FlushInv, HistoryNested, FinishWrite
  PROVE  HistoryNested'
<1> SUFFICES ASSUME NEW k \in Keys PROVE Nested(k)'
  BY DEF HistoryNested
<1>1. Nested(k)
  BY DEF HistoryNested, FinishWrite, FlushInv, ShutdownIsComplete
<1>2. /\ mtx # Free /\ mtx' = Free /\ mtx.key \in Keys
      /\ UNCHANGED <<ram, disk, write, orphan>>
  BY DEF FinishWrite, FlushInv, TypeOK, Held, Coalesced
<1>3. flush_pending'[k] = IF k = mtx.key
                          THEN [n |-> accepted[k] + 1, bars |-> mtx.bars]
                          ELSE flush_pending[k]
  BY <1>2 DEF FinishWrite, FlushInv, TypeOK, Coalesced
<1>4. CASE k = mtx.key
  <2>1. flush_pending'[k].bars = ram[k]
    BY <1>1, <1>2, <1>3, <1>4 DEF Nested
  <2>2. Within(ram[k], ram[k])
    BY DEF Within
  <2> QED
    BY <1>1, <1>2, <2>1, <2>2 DEF Nested
<1>5. CASE k # mtx.key
  BY <1>1, <1>2, <1>3, <1>5 DEF Nested
<1> QED
  BY <1>4, <1>5

(* The drain and its saves move snapshots along in their order.            *)
LEMMA NestedDrain ==
  ASSUME FlushInv, HistoryNested,
         DrainNext \/ FlushDone \/ FlushFailed \/ OrphanEnds
  PROVE  HistoryNested'
<1> SUFFICES ASSUME phase' # "down", NEW k \in Keys PROVE Nested(k)'
  BY DEF HistoryNested
<1>1. Nested(k)
  BY DEF HistoryNested, DrainNext, FlushDone, FlushFailed, OrphanEnds, Popped,
         Saved, Requeued
<1>2. UNCHANGED <<ram, mtx>>
  BY DEF DrainNext, FlushDone, FlushFailed, OrphanEnds, Popped, Saved, Requeued
<1>3. CASE DrainNext
  <2>1. Head(flush_q) \in Keys
    BY <1>3, HeadTailProperties
    DEF DrainNext, FlushInv, TypeOK, DrainNeverUnderflows, Popped
  <2>2. /\ write = NoWrite /\ UNCHANGED <<disk, orphan>>
        /\ flush_pending'[k] = IF k = Head(flush_q) THEN NoSnapshot
                               ELSE flush_pending[k]
    BY <1>3, <2>1 DEF DrainNext, FlushInv, TypeOK, Popped
  <2>3. write' # NoWrite /\ write'.key = k =>
          flush_pending[k] # NoSnapshot /\ write'.snap = flush_pending[k]
          /\ flush_pending'[k] = NoSnapshot
    BY <1>3, <2>2 DEF DrainNext, Popped
  <2> QED
    BY <1>1, <1>2, <2>2, <2>3 DEF Nested
<1>4. CASE FlushDone
  <2>1. /\ write # NoWrite /\ write.key \in Keys /\ write' = NoWrite
        /\ UNCHANGED <<flush_pending, orphan>>
    BY <1>4 DEF FlushDone, FlushInv, TypeOK, Writes, Saved
  <2>2. disk'[k] = disk[k] \/ (k = write.key /\ disk'[k] = write.snap)
    BY <1>4, <2>1 DEF FlushDone, FlushInv, TypeOK, Saved
  <2> QED
    BY <1>1, <1>2, <2>1, <2>2 DEF Nested
<1>5. CASE FlushFailed
  <2>1. /\ write # NoWrite /\ write.key \in Keys /\ write' = NoWrite
        /\ UNCHANGED <<disk, orphan>>
    BY <1>5 DEF FlushFailed, FlushInv, TypeOK, Writes, Requeued
  <2>2. flush_pending'[k] = IF k = write.key THEN write.snap ELSE flush_pending[k]
    BY <1>5, <2>1 DEF FlushFailed, FlushInv, TypeOK, Requeued
  <2> QED
    BY <1>1, <1>2, <2>1, <2>2 DEF Nested
<1>6. CASE OrphanEnds
  <2>1. /\ orphan # NoWrite /\ orphan.key \in Keys /\ orphan' = NoWrite
        /\ UNCHANGED <<flush_pending, write>>
    BY <1>6 DEF OrphanEnds, FlushInv, TypeOK, Writes, Saved
  <2>2. disk'[k] = disk[k] \/ (k = orphan.key /\ disk'[k] = orphan.snap)
    BY <1>6, <2>1 DEF OrphanEnds, FlushInv, TypeOK, Saved
  <2> QED
    BY <1>1, <1>2, <2>1, <2>2 DEF Nested
<1> QED
  BY <1>3, <1>4, <1>5, <1>6

(* Cancellation makes a late write of the current one.                     *)
LEMMA NestedStop ==
  ASSUME FlushInv, HistoryNested, Stop
  PROVE  HistoryNested'
<1> SUFFICES ASSUME NEW k \in Keys PROVE Nested(k)'
  BY DEF HistoryNested
<1>1. Nested(k)
  BY DEF HistoryNested, Stop
<1>2. /\ mtx' = Free /\ write' = NoWrite /\ orphan' \in {write, NoWrite}
      /\ UNCHANGED <<ram, disk, flush_pending>>
  BY DEF Stop
<1> QED
  BY <1>1, <1>2 DEF Nested

(* No step of a store whose RAM keeps its bars breaks the nesting.         *)
LEMMA NestedStep ==
  ASSUME RamKeeps, FlushInv, HistoryNested, [Next]_vars
  PROVE  HistoryNested'
<1>1. ASSUME UNCHANGED <<ram, disk, flush_pending, mtx, write, orphan, phase>>
      PROVE  HistoryNested'
  BY <1>1 DEF HistoryNested, Nested
<1>2. CASE Exit \/ Crash
  BY <1>2 DEF Exit, Crash, Gone, HistoryNested
<1>3. CASE \E k \in Keys : RedisExpire(k)
  BY <1>1, <1>3 DEF RedisExpire
<1>4. CASE StartDrain \/ UNCHANGED vars
  BY <1>1, <1>4 DEF StartDrain, vars
<1> QED
  BY <1>2, <1>3, <1>4, NestedPut, NestedFinish, NestedDrain, NestedStop
  DEF Next, RamKeeps, RamDrop, Start

LEMMA NestedAlways == RamKeeps => (Spec => [](FlushInv /\ HistoryNested))
<1> SUFFICES ASSUME RamKeeps
             PROVE  Spec => [](FlushInv /\ HistoryNested)
  OBVIOUS
<1>1. Init => FlushInv /\ HistoryNested
  <2> SUFFICES ASSUME Init PROVE HistoryNested
    BY FlushInit
  <2> SUFFICES ASSUME NEW k \in Keys PROVE Nested(k)
    BY DEF HistoryNested
  <2>1. /\ ram[k] = EmptyFrame /\ disk[k] = NoSnapshot /\ mtx = Free
        /\ flush_pending[k] = NoSnapshot /\ write = NoWrite /\ orphan = NoWrite
    BY DEF Init, NoFrames, NoSnapshots
  <2> QED
    BY <2>1 DEF Nested, Within, NoSnapshot
<1>2. FlushInv /\ HistoryNested /\ [Next]_vars => (FlushInv /\ HistoryNested)'
  BY FlushStep, NestedStep
<1> QED
  BY <1>1, <1>2, PTL DEF Spec

(* What put_bars queues for the disk has every bar the disk holds, through *)
(* coalescing, failed saves and a shutdown in the middle of one, for as    *)
(* long as RAM keeps its bars.                                             *)
THEOREM QueuedHistorySurvives == RamKeeps => (Spec => []HistorySurvives)
<1> SUFFICES ASSUME RamKeeps
             PROVE  Spec => []HistorySurvives
  OBVIOUS
<1>1. FlushInv /\ HistoryNested => HistorySurvives
  <2> SUFFICES ASSUME FlushInv, HistoryNested, NEW k \in Keys,
                      flush_pending[k] # NoSnapshot
               PROVE  DOMAIN disk[k].bars \subseteq DOMAIN flush_pending[k].bars
    BY DEF HistorySurvives
  <2>1. phase # "down"
    <3>1. ASSUME phase = "down" PROVE FALSE
      <4>1. accepted[k] = disk[k].n
        BY <3>1 DEF FlushInv, ShutdownIsComplete
      <4>2. /\ disk[k].n < flush_pending[k].n /\ flush_pending[k].n <= accepted[k]
        BY DEF FlushInv, FlushOrdered
      <4>3. disk[k].n \in Nat /\ flush_pending[k].n \in Nat
        BY DEF FlushInv, TypeOK, Snapshots
      <4> QED
        BY <4>1, <4>2, <4>3
    <3> QED
      BY <3>1
  <2> QED
    BY <2>1 DEF HistoryNested, Nested, Within
<1> QED
  BY <1>1, NestedAlways, PTL

(* A bar on disk is not rewritten with other contents: two snapshots of a  *)
(* key are both part of what RAM holds of it, so they agree.               *)
THEOREM DiskBarsAreStable == RamKeeps => (Spec => BarsStable)
<1> SUFFICES ASSUME RamKeeps
             PROVE  Spec => BarsStable
  OBVIOUS
<1> DEFINE Agree ==
      \A k \in Keys : \A t \in DOMAIN disk[k].bars \cap DOMAIN disk'[k].bars :
        disk'[k].bars[t] = disk[k].bars[t]
<1>1. FlushInv /\ HistoryNested /\ [Next]_vars => [Agree]_vars
  <2> SUFFICES ASSUME FlushInv, HistoryNested, [Next]_vars, NEW k \in Keys,
                      disk'[k] # disk[k],
                      NEW t \in DOMAIN disk[k].bars \cap DOMAIN disk'[k].bars
               PROVE  disk'[k].bars[t] = disk[k].bars[t]
    OBVIOUS
  <2>1. \/ write # NoWrite /\ write.key = k /\ disk'[k] = write.snap
        \/ orphan # NoWrite /\ orphan.key = k /\ disk'[k] = orphan.snap
    BY DiskStep DEF FlushDone, OrphanEnds
  <2>2. phase # "down"
    BY <2>1 DEF FlushInv, ShutdownIsComplete
  <2>3. Nested(k)
    BY <2>2 DEF HistoryNested
  <2>4. Within(disk[k].bars, ram[k]) /\ Within(disk'[k].bars, ram[k])
    BY <2>1, <2>3 DEF Nested
  <2> QED
    BY <2>4 DEF Within
<1> QED
  BY <1>1, NestedAlways, PTL DEF Spec, BarsStable
-----------------------------------------------------------------------------
(* Nothing accepted is forgotten, when saves do not fail: the newest       *)
(* snapshot passes from the waiting place to the writer to the disk.       *)

SavesSucceed == Faults \cap {"save_error", "tmp_vanishes"} = {}

(* A step keeps the newest snapshot somewhere.                             *)
LEMMA NewestStep ==
  ASSUME SavesSucceed, FlushInv, NewestKept, [Next]_vars
  PROVE  NewestKept'
<1> USE DEF NewestKept
<1>1. CASE FinishWrite
  <2>1. mtx.key \in Keys
    BY <1>1 DEF FinishWrite, FlushInv, TypeOK, Held, Coalesced
  <2>2. \A k \in Keys \ {mtx.key} : /\ accepted'[k] = accepted[k]
                                   /\ flush_pending'[k] = flush_pending[k]
    BY <1>1, <2>1 DEF FinishWrite, FlushInv, TypeOK, Coalesced
  <2>3. accepted'[mtx.key] = flush_pending'[mtx.key].n
    BY <1>1, <2>1 DEF FinishWrite, FlushInv, TypeOK, Coalesced
  <2>4. UNCHANGED <<disk, write, phase>>
    BY <1>1 DEF FinishWrite, Coalesced
  <2> QED
    BY <2>1, <2>2, <2>3, <2>4
<1>2. CASE DrainNext
  <2>1. Head(flush_q) \in Keys
    BY <1>2, HeadTailProperties
    DEF DrainNext, FlushInv, TypeOK, DrainNeverUnderflows, Popped
  <2> DEFINE h == Head(flush_q)
  <2>2. \A k \in Keys \ {h} : flush_pending'[k] = flush_pending[k]
    BY <1>2, <2>1 DEF DrainNext, FlushInv, TypeOK, Popped
  <2>3. flush_pending[h] # NoSnapshot =>
          write' = [key |-> h, snap |-> flush_pending[h]]
    BY <1>2 DEF DrainNext, Popped
  <2>4. flush_pending[h] = NoSnapshot => flush_pending'[h] = flush_pending[h]
    BY <1>2, <2>1 DEF DrainNext, FlushInv, TypeOK, Popped
  <2>5. write = NoWrite /\ UNCHANGED <<disk, phase, accepted>>
    BY <1>2 DEF DrainNext, Popped
  <2>6. write' # NoWrite \/ flush_pending[h] = NoSnapshot
    BY <2>3 DEF NoWrite
  <2> QED
    BY <2>1, <2>2, <2>3, <2>4, <2>5, <2>6
<1>3. CASE FlushDone
  <2>1. write.key \in Keys /\ disk' = [disk EXCEPT ![write.key] = write.snap]
    BY <1>3 DEF FlushDone, SavesSucceed, FlushInv, TypeOK, Writes, Saved
  <2>2. \A k \in Keys : disk'[k] = IF k = write.key THEN write.snap ELSE disk[k]
    BY <2>1 DEF FlushInv, TypeOK
  <2>3. \A k \in Keys : write.key = k => disk[k].n < write.snap.n
                                        /\ write.snap.n <= accepted[k]
    BY <1>3 DEF FlushDone, FlushInv, FlushOrdered, Saved
  <2>4. \A k \in Keys : disk[k].n \in Nat /\ accepted[k] \in Nat
    BY DEF FlushInv, TypeOK, Snapshots
  <2>5. write.snap.n \in Nat
    BY <1>3 DEF FlushDone, FlushInv, TypeOK, Writes, Snapshots, Saved
  <2>6. UNCHANGED <<flush_pending, phase, accepted>>
    BY <1>3 DEF FlushDone, Saved
  <2> QED
    BY <2>1, <2>2, <2>3, <2>4, <2>5, <2>6
<1>4. CASE FlushFailed
  BY <1>4 DEF FlushFailed, SavesSucceed, Requeued
<1>5. CASE OrphanEnds
  <2>1. orphan.key \in Keys
    BY <1>5 DEF OrphanEnds, FlushInv, TypeOK, Writes, Saved
  <2>2. phase' = "stopping"
    BY <1>5, <2>1 DEF OrphanEnds, FlushInv, FlushOrdered, Saved
  <2> QED
    BY <2>2
<1>6. CASE Stop \/ Gone
  BY <1>6 DEF Stop, Gone, FinalBatch
<1>7. CASE Start
  BY <1>7 DEF Start, Volatile, FlushInv, ShutdownIsComplete
<1>8. CASE Bystander \/ StartDrain
  BY <1>8 DEF Bystander, StartDrain
<1> QED
  BY <1>1, <1>2, <1>3, <1>4, <1>5, <1>6, <1>7, <1>8
  DEF Next, PutBars, EnforceTailLimit, RamDrop, RedisExpire, GetDf, Warmup,
      ReadRedis, ReadDisk, CacheResult, Exit, Crash, vars, Bystander, Merged

(* put_bars forgets no snapshot it accepted, unless a save fails.          *)
THEOREM NothingForgotten == SavesSucceed => (Spec => []NewestKept)
<1> SUFFICES ASSUME SavesSucceed
             PROVE  Spec => []NewestKept
  OBVIOUS
<1>1. Init => NewestKept
  BY DEF Init, NewestKept, NoSnapshots, NoSnapshot
<1>2. FlushInv /\ NewestKept /\ [Next]_vars => NewestKept'
  BY NewestStep
<1> QED
  BY <1>1, <1>2, FlushSafe, PTL DEF Spec
-----------------------------------------------------------------------------
(* A graceful shutdown.                                                    *)

(* During the final drain every queued key still has its turn, and what    *)
(* was accepted last is waiting, being written or on disk.                 *)
FinalDrain ==
  phase = "stopping" =>
    /\ orphan = NoWrite
    /\ batch = Len(flush_q)
    /\ \A k \in Keys :
         \/ accepted[k] \in {flush_pending[k].n, disk[k].n}
         \/ write # NoWrite /\ write.key = k /\ write.snap.n = accepted[k]

NothingCutShort == SavesSucceed /\ "cancel_midflush" \notin Faults

(* The final drain stays complete until it ends.                           *)
LEMMA FinalDrainStep ==
  ASSUME NothingCutShort, FlushInv, NewestKept, FinalDrain, [Next]_vars
  PROVE  FinalDrain'
<1> USE DEF FinalDrain
<1>1. CASE FinishWrite
  BY <1>1 DEF FinishWrite, FlushInv, ShutdownIsComplete, Coalesced
<1>2. CASE DrainNext
  <2>1. flush_q \in Seq(Keys) /\ flush_q # << >>
    BY <1>2 DEF DrainNext, FlushInv, TypeOK, DrainNeverUnderflows, Popped
  <2>2. Head(flush_q) \in Keys /\ Len(Tail(flush_q)) = Len(flush_q) - 1
    BY <2>1, HeadTailProperties
  <2> DEFINE h == Head(flush_q)
  <2>3. \A k \in Keys \ {h} : flush_pending'[k] = flush_pending[k]
    BY <1>2, <2>2 DEF DrainNext, FlushInv, TypeOK, Popped
  <2>4. flush_pending[h] # NoSnapshot =>
          write' = [key |-> h, snap |-> flush_pending[h]]
    BY <1>2 DEF DrainNext, Popped
  <2>5. flush_pending[h] = NoSnapshot => flush_pending'[h] = flush_pending[h]
    BY <1>2, <2>2 DEF DrainNext, FlushInv, TypeOK, Popped
  <2>6. /\ write = NoWrite /\ flush_q' = Tail(flush_q) /\ batch' = batch - 1
        /\ UNCHANGED <<disk, phase, accepted, orphan>>
    BY <1>2 DEF DrainNext, Popped
  <2>7. write' # NoWrite \/ flush_pending[h] = NoSnapshot
    BY <2>4 DEF NoWrite
  <2> QED
    BY <2>2, <2>3, <2>4, <2>5, <2>6, <2>7
<1>3. CASE FlushDone
  <2>1. write.key \in Keys /\ disk' = [disk EXCEPT ![write.key] = write.snap]
    BY <1>3 DEF FlushDone, NothingCutShort, SavesSucceed, FlushInv, TypeOK, Writes, Saved
  <2>2. \A k \in Keys : disk'[k] = IF k = write.key THEN write.snap ELSE disk[k]
    BY <2>1 DEF FlushInv, TypeOK
  <2>3. \A k \in Keys : write.key = k => disk[k].n < write.snap.n
                                        /\ write.snap.n <= accepted[k]
    BY <1>3 DEF FlushDone, FlushInv, FlushOrdered, Saved
  <2>4. /\ \A k \in Keys : disk[k].n \in Nat /\ accepted[k] \in Nat
        /\ write.snap.n \in Nat
    BY <1>3 DEF FlushDone, FlushInv, TypeOK, Writes, Snapshots, Saved
  <2>5. UNCHANGED <<flush_pending, phase, accepted, orphan, batch, flush_q>>
    BY <1>3 DEF FlushDone, Saved
  <2> QED
    BY <2>1, <2>2, <2>3, <2>4, <2>5
<1>4. CASE FlushFailed
  BY <1>4 DEF FlushFailed, NothingCutShort, SavesSucceed, Requeued
<1>5. CASE Stop
  BY <1>5 DEF Stop, NothingCutShort, NewestKept, FinalBatch
<1>6. CASE OrphanEnds \/ StartDrain \/ Gone \/ Start
  <2>1. orphan # NoWrite => orphan.key \in Keys
    BY DEF FlushInv, TypeOK, Writes
  <2> QED
    BY <1>6, <2>1
    DEF OrphanEnds, StartDrain, Gone, Start, FlushInv, FlushOrdered, Saved
<1>7. CASE Bystander
  BY <1>7 DEF Bystander
<1> QED
  BY <1>1, <1>2, <1>3, <1>4, <1>5, <1>6, <1>7
  DEF Next, PutBars, EnforceTailLimit, RamDrop, RedisExpire, GetDf, Warmup,
      ReadRedis, ReadDisk, CacheResult, Exit, Crash, vars, Bystander, Merged

(* Cancelling the maintenance task between two saves that succeed leaves   *)
(* every accepted snapshot on disk.                                        *)
THEOREM GracefulExit == NothingCutShort => (Spec => ExitIsDurable)
<1> SUFFICES ASSUME NothingCutShort
             PROVE  Spec => ExitIsDurable
  OBVIOUS
<1> DEFINE Inv == FlushInv /\ NewestKept /\ FinalDrain
<1>1. Init => Inv
  BY FlushInit DEF Init, NewestKept, FinalDrain, NoSnapshots, NoSnapshot
<1>2. Inv /\ [Next]_vars => Inv'
  BY FlushStep, NewestStep, FinalDrainStep DEF NothingCutShort
<1>3. Inv => [Exit => \A k \in Keys : disk[k].n = accepted[k]]_vars
  <2> SUFFICES ASSUME Inv, Exit, NEW k \in Keys
               PROVE  disk[k].n = accepted[k]
    OBVIOUS
  <2>1. flush_q \in Seq(Keys) /\ Len(flush_q) = 0 /\ write = NoWrite
    BY DEF Exit, FlushInv, TypeOK, FinalDrain
  <2>2. flush_pending[k] = NoSnapshot
    BY <2>1 DEF FlushInv, PendingIsQueued, QueuedKeys
  <2>3. accepted[k] = 0 => disk[k].n = 0
    BY DEF FlushInv, FlushOrdered, TypeOK, Snapshots
  <2> QED
    BY <2>1, <2>2, <2>3 DEF Exit, FinalDrain, NoSnapshot
<1> QED
  BY <1>1, <1>2, <1>3, PTL DEF Spec, ExitIsDurable
-----------------------------------------------------------------------------
(* The store implements the abstract write-behind disk: each step is a     *)
(* step of it or leaves it unchanged.                                      *)
THEOREM Implements == Spec => AbstractSpec
<1> DEFINE durable == [k \in Keys |-> disk[k].n]
<1>1. Init => Abstract!Init
  BY DEF Init, Abstract!Init, NoSnapshots, NoSnapshot
<1>2. FlushInv /\ [Next]_vars => [Abstract!Next]_(Abstract!wbVars)
  <2> SUFFICES ASSUME FlushInv, [Next]_vars
               PROVE  [Abstract!Next]_(Abstract!wbVars)
    OBVIOUS
  <2>1. CASE FinishWrite
    <3>1. mtx.key \in Keys
      BY <2>1 DEF FinishWrite, FlushInv, TypeOK, Held, Coalesced
    <3>2. phase = "up"
      BY <2>1 DEF FinishWrite, FlushInv, ShutdownIsComplete, Coalesced
    <3>3. Abstract!Accept(mtx.key)
      BY <2>1, <3>2 DEF FinishWrite, Abstract!Accept, Coalesced
    <3> QED
      BY <3>1, <3>3 DEF Abstract!Next
  <2>2. CASE FlushDone
    <3>1. write.key \in Keys /\ write.snap \in Snapshots
      BY <2>2 DEF FlushDone, FlushInv, TypeOK, Writes, Saved
    <3>2. phase # "down" /\ UNCHANGED <<accepted, phase>>
      BY <2>2 DEF FlushDone, FlushInv, ShutdownIsComplete, Saved
    <3>3. CASE UNCHANGED disk
      BY <3>2, <3>3 DEF Abstract!wbVars
    <3>4. CASE disk' = [disk EXCEPT ![write.key] = write.snap]
      <4>1. durable' = [durable EXCEPT ![write.key] = write.snap.n]
        BY <3>1, <3>4 DEF FlushInv, TypeOK
      <4>2. /\ disk[write.key].n < write.snap.n
            /\ write.snap.n <= accepted[write.key]
        BY <2>2, <3>1 DEF FlushDone, FlushInv, FlushOrdered, Saved
      <4>3. /\ disk[write.key].n \in Nat /\ write.snap.n \in Nat
            /\ accepted[write.key] \in Nat
        BY <3>1 DEF FlushInv, TypeOK, Snapshots
      <4>4. write.snap.n \in durable[write.key] + 1 .. accepted[write.key]
        BY <3>1, <4>2, <4>3
      <4> QED
        BY <3>1, <3>2, <4>1, <4>4 DEF Abstract!Persist, Abstract!Next
    <3> QED
      BY <2>2, <3>3, <3>4 DEF FlushDone, Saved
  <2>3. CASE OrphanEnds
    <3>1. orphan.key \in Keys /\ orphan.snap \in Snapshots
      BY <2>3 DEF OrphanEnds, FlushInv, TypeOK, Writes, Saved
    <3>2. phase = "stopping" /\ orphan.snap.n \in 1 .. accepted[orphan.key]
      BY <2>3, <3>1 DEF OrphanEnds, FlushInv, FlushOrdered, Saved
    <3>3. UNCHANGED <<accepted, phase>>
      BY <2>3 DEF OrphanEnds, Saved
    <3>4. CASE UNCHANGED disk
      BY <3>3, <3>4 DEF Abstract!wbVars
    <3>5. CASE disk' = [disk EXCEPT ![orphan.key] = orphan.snap]
      <4>1. durable' = [durable EXCEPT ![orphan.key] = orphan.snap.n]
        BY <3>1, <3>5 DEF FlushInv, TypeOK
      <4> QED
        BY <3>1, <3>2, <3>3, <4>1 DEF Abstract!LateWrite, Abstract!Next
    <3> QED
      BY <2>3, <3>4, <3>5 DEF OrphanEnds, Saved
  <2>4. CASE Stop
    BY <2>4 DEF Stop, Abstract!Stop, Abstract!Next, FinalBatch
  <2>5. CASE Exit \/ Crash
    BY <2>5 DEF Exit, Crash, Gone, Abstract!End, Abstract!Next
  <2>6. CASE Start
    BY <2>6 DEF Start, Abstract!Start, Abstract!Next
  <2>7. CASE UNCHANGED <<disk, phase, accepted>>
    BY <2>7 DEF Abstract!wbVars
  <2> QED
    BY <2>1, <2>2, <2>3, <2>4, <2>5, <2>6, <2>7
    DEF Next, PutBars, EnforceTailLimit, RamDrop, RedisExpire, GetDf, Warmup,
        ReadRedis, ReadDisk, CacheResult, StartDrain, DrainNext, FlushFailed,
        vars, Merged, Popped, Requeued
<1> QED
  BY <1>1, <1>2, FlushSafe, PTL DEF Spec, AbstractSpec, Abstract!Spec
=============================================================================
