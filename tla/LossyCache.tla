----------------------------- MODULE LossyCache -----------------------------
(***************************************************************************)
(* What the users of RamLayer may count on: a cache that holds for a key   *)
(* the last content put there or nothing.  Any operation may lose entries, *)
(* none may alter one or bring a lost one back.                            *)
(***************************************************************************)
CONSTANTS Keys, Contents, Absent

VARIABLE held

Init == held = [k \in Keys |-> Absent]

Loses(K) == \A k \in K : held'[k] \in {held[k], Absent}

Store(k, c) ==
  /\ held' \in [Keys -> Contents \cup {Absent}]
  /\ held'[k] \in {c, Absent}
  /\ Loses(Keys \ {k})

Lose ==
  /\ held' \in [Keys -> Contents \cup {Absent}]
  /\ Loses(Keys)

Next == Lose \/ \E k \in Keys, c \in Contents : Store(k, c)

Spec == Init /\ [][Next]_held
=============================================================================
