----------------------------- MODULE WriteBehind -----------------------------
(***************************************************************************)
(* What UnifiedDataStore promises of its disk layer, apart from queues,    *)
(* locks and tasks.  Each key has a sequence of accepted snapshots,        *)
(* numbered from 1; the disk holds one of them.  While the process runs    *)
(* the disk only moves forward along that sequence.  While it shuts down,  *)
(* a write that was under way when its task was cancelled may still land,  *)
(* so the disk may move to any accepted snapshot.  A process that ends     *)
(* forgets the accepted snapshots the disk does not hold.                  *)
(***************************************************************************)
EXTENDS Naturals

CONSTANT Keys

VARIABLES
  accepted,   \* accepted[k]: number of the newest snapshot accepted for k
  durable,    \* durable[k]: number of the snapshot the disk holds (0: none)
  mode        \* "up", "stopping" or "down"

wbVars == <<accepted, durable, mode>>

Init ==
  /\ accepted = [k \in Keys |-> 0]
  /\ durable = [k \in Keys |-> 0]
  /\ mode = "up"

Accept(k) ==
  /\ mode = "up"
  /\ accepted' = [accepted EXCEPT ![k] = @ + 1]
  /\ UNCHANGED <<durable, mode>>

Persist(k) ==
  /\ mode # "down"
  /\ \E n \in durable[k] + 1 .. accepted[k] :
       durable' = [durable EXCEPT ![k] = n]
  /\ UNCHANGED <<accepted, mode>>

LateWrite(k) ==
  /\ mode = "stopping"
  /\ \E n \in 1 .. accepted[k] : durable' = [durable EXCEPT ![k] = n]
  /\ UNCHANGED <<accepted, mode>>

Stop ==
  /\ mode = "up"
  /\ mode' = "stopping"
  /\ UNCHANGED <<accepted, durable>>

End ==
  /\ mode # "down"
  /\ mode' = "down"
  /\ accepted' = durable
  /\ UNCHANGED durable

Start ==
  /\ mode = "down"
  /\ mode' = "up"
  /\ UNCHANGED <<accepted, durable>>

Next ==
  \/ \E k \in Keys : Accept(k) \/ Persist(k) \/ LateWrite(k)
  \/ Stop \/ End \/ Start

Spec == Init /\ [][Next]_wbVars
=============================================================================
