----------------------- MODULE WarmupRequesterProofs -----------------------
(* Theorems about WarmupRequester, for every order of series, cooldown,    *)
(* poll, limit and combination of faults.                                  *)
EXTENDS WarmupRequester, SequenceTheorems, TLAPS

(* The types the argument needs: requests and their ages, the cycle.       *)
Typed ==
  /\ todo \in Seq(Pairs) /\ held \subseteq Keys
  /\ begun \in 0 .. MaxElapsed
  /\ DOMAIN asked \subseteq Keys
  /\ \A k \in DOMAIN asked : asked[k] \in Nat
  /\ spoke \in [Keys -> 0 .. Cooldown]
  /\ bars \in [Pairs -> Nat]
  /\ DOMAIN found = Pairs

(* The time recorded of a request is at most a cycle older than the        *)
(* request itself; where none is recorded the series went back to ok, or   *)
(* nothing was ever asked.                                                 *)
AgesAgree ==
  \A k \in Keys :
    IF k \in DOMAIN asked THEN \/ spoke[k] = Cooldown
                               \/ asked[k] <= spoke[k] + MaxElapsed
    ELSE spoke[k] = Cooldown

(* What is about to be sent is far enough from the last of its kind.       *)
HeldIsDue == \A k \in held : spoke[k] + MaxElapsed >= Cooldown

(* A series last seen ok has no cooldown and no request under way.         *)
OkIsClear ==
  \A p \in Pairs :
    Contract[p] <= Desired /\ found[p] = "ok"
      => \A k \in DOMAIN asked \cup held : k[1] # p

RequestInv == Typed /\ AgesAgree /\ HeldIsDue /\ OkIsClear
-----------------------------------------------------------------------------
(* A series that needs nothing is ok, and one that is ok needs nothing but *)
(* what its contract asks beyond the limit.                                *)
LEMMA WantedWhenNotOk ==
  ASSUME Typed, NEW p \in Pairs
  PROVE  /\ State(p) # "ok" => Wanted(p) # {}
         /\ State(p) = "ok" /\ Contract[p] <= Desired => Wanted(p) = {}
         /\ Wanted(p) \subseteq Types
<1>1. State(p) \in {"insufficient", "stale_tail", "ok"}
  BY DEF State
<1>2. State(p) = "ok" => bars[p] >= Desired
  BY RequesterAssumption DEF State, Typed
<1>3. Contract[p] \in Nat /\ bars[p] \in Nat /\ Desired \in Nat
  BY RequesterAssumption DEF Typed
<1>4. CASE State(p) = "ok"
  BY <1>2, <1>3, <1>4 DEF Wanted, Types
<1>5. CASE State(p) # "ok"
  BY <1>1, <1>5 DEF Wanted, Types
<1> QED
  BY <1>4, <1>5

(* The invariant holds before the first cycle.                             *)
LEMMA RequestInit == Init => RequestInv
<1> SUFFICES ASSUME Init PROVE RequestInv
  OBVIOUS
<1>1. DOMAIN asked = {}
  BY DEF Init
<1>2. Typed
  BY <1>1, RequesterAssumption, EmptySeq DEF Init, Typed
<1>3. AgesAgree /\ HeldIsDue
  BY <1>1 DEF Init, AgesAgree, HeldIsDue
<1>4. OkIsClear
  BY <1>1 DEF Init, OkIsClear
<1> QED
  BY <1>2, <1>3, <1>4 DEF RequestInv

(* One series looked at.                                                   *)
LEMMA AssessStep ==
  ASSUME RequestInv, Assess
  PROVE  RequestInv'
<1> DEFINE p == Head(todo)
<1> USE RequesterAssumption DEF RequestInv
<1>1. p \in Pairs /\ Tail(todo) \in Seq(Pairs)
  BY HeadTailProperties DEF Typed, Assess
<1>2. /\ held' = {k \in {p} \X Wanted(p) : Due(k)} /\ todo' = Tail(todo)
      /\ asked' = IF Wanted(p) = {} THEN Cleared(p) ELSE asked
      /\ spoke' = [k \in Keys |-> IF Wanted(p) = {} /\ k[1] = p THEN Cooldown ELSE spoke[k]]
      /\ found' = [found EXCEPT ![p] = State(p)]
      /\ UNCHANGED <<bars, begun>>
  BY DEF Assess
<1> HIDE DEF p
<1>3. Wanted(p) \subseteq Types
  BY <1>1, WantedWhenNotOk
<1>4. held' \subseteq Keys /\ \A k \in held' : k[1] = p /\ Wanted(p) # {} /\ Due(k)
  BY <1>1, <1>2, <1>3 DEF Keys
<1>5. /\ DOMAIN asked' = IF Wanted(p) = {} THEN {k \in DOMAIN asked : k[1] # p} ELSE DOMAIN asked
      /\ \A k \in DOMAIN asked' : k \in DOMAIN asked /\ asked'[k] = asked[k]
  BY <1>2 DEF Cleared
<1>6. Typed'
  <2>1. spoke' \in [Keys -> 0 .. Cooldown]
    BY <1>2 DEF Typed
  <2> QED
    BY <1>1, <1>2, <1>4, <1>5, <2>1 DEF Typed
<1>7. AgesAgree'
  BY <1>2, <1>5 DEF AgesAgree
<1>8. HeldIsDue'
  <2> SUFFICES ASSUME NEW k \in held' PROVE spoke'[k] + MaxElapsed >= Cooldown
    BY DEF HeldIsDue
  <2>1. k \in Keys /\ Wanted(p) # {} /\ Due(k) /\ spoke'[k] = spoke[k]
    BY <1>2, <1>4
  <2>2. spoke[k] \in 0 .. Cooldown /\ begun \in 0 .. MaxElapsed
    BY <2>1 DEF Typed
  <2>3. CASE k \in DOMAIN asked
    <3>1. asked[k] - begun >= Cooldown /\ asked[k] \in Nat
      BY <2>1, <2>3 DEF Due, Typed
    <3>2. spoke[k] = Cooldown \/ asked[k] <= spoke[k] + MaxElapsed
      BY <2>1, <2>3 DEF AgesAgree
    <3> QED
      BY <2>1, <2>2, <3>1, <3>2
  <2>4. CASE k \notin DOMAIN asked
    BY <2>1, <2>2, <2>4 DEF AgesAgree
  <2> QED
    BY <2>3, <2>4
<1>9. OkIsClear'
  <2> SUFFICES ASSUME NEW q \in Pairs, Contract[q] <= Desired, found'[q] = "ok",
                      NEW k \in DOMAIN asked' \cup held'
               PROVE  k[1] # q
    BY DEF OkIsClear
  <2>1. CASE q = p
    <3>1. State(p) = "ok"
      BY <1>1, <1>2, <2>1 DEF Typed
    <3>2. Wanted(p) = {}
      BY <1>1, <2>1, <3>1, WantedWhenNotOk
    <3> QED
      BY <1>4, <1>5, <2>1, <3>2
  <2>2. CASE q # p
    <3>1. found[q] = "ok"
      BY <1>1, <1>2, <2>2 DEF Typed
    <3> QED
      BY <1>4, <1>5, <2>2, <3>1 DEF OkIsClear
  <2> QED
    BY <2>1, <2>2
<1> QED
  BY <1>6, <1>7, <1>8, <1>9

(* One request sent.                                                       *)
LEMMA PublishStep ==
  ASSUME RequestInv, Publish
  PROVE  RequestInv'
<1> USE RequesterAssumption DEF RequestInv
<1>1. /\ asked' = [k \in DOMAIN asked \cup held |-> IF k \in held THEN begun ELSE asked[k]]
      /\ spoke' = [k \in Keys |-> IF k \in held THEN 0 ELSE spoke[k]]
      /\ held' = {} /\ UNCHANGED <<bars, todo, begun, found>>
  BY DEF Publish, Recorded
<1>2. Typed'
  BY <1>1 DEF Typed
<1>3. AgesAgree'
  BY <1>1 DEF AgesAgree, Typed
<1>4. HeldIsDue'
  BY <1>1 DEF HeldIsDue
<1>5. OkIsClear'
  BY <1>1 DEF OkIsClear
<1> QED
  BY <1>2, <1>3, <1>4, <1>5

(* Time passes.                                                            *)
LEMMA TickStep ==
  ASSUME RequestInv, Tick
  PROVE  RequestInv'
<1> USE RequesterAssumption DEF RequestInv
<1>1. /\ asked' = [k \in DOMAIN asked |-> Older(asked[k], MaxAsked)]
      /\ spoke' = [k \in Keys |-> Older(spoke[k], Cooldown)]
      /\ begun' = (IF Busy THEN begun + 1 ELSE begun) /\ (Busy => begun < MaxElapsed)
      /\ UNCHANGED <<bars, todo, held, found>>
  BY DEF Tick
<1>2. \A k \in Keys : spoke'[k] = Older(spoke[k], Cooldown) /\ spoke[k] \in 0 .. Cooldown
  BY <1>1 DEF Typed
<1>3. DOMAIN asked' = DOMAIN asked /\ \A k \in DOMAIN asked :
        asked'[k] = Older(asked[k], MaxAsked) /\ asked[k] \in Nat
  BY <1>1 DEF Typed
<1>4. Typed'
  <2>1. spoke' \in [Keys -> 0 .. Cooldown]
    BY <1>1 DEF Typed, Older
  <2>2. begun' \in 0 .. MaxElapsed
    BY <1>1 DEF Typed
  <2>3. \A k \in DOMAIN asked' : asked'[k] \in Nat
    BY <1>3 DEF Older, MaxAsked
  <2> QED
    BY <1>1, <1>3, <2>1, <2>2, <2>3 DEF Typed
<1>5. AgesAgree'
  <2> SUFFICES ASSUME NEW k \in Keys
               PROVE  IF k \in DOMAIN asked' THEN \/ spoke'[k] = Cooldown
                                                  \/ asked'[k] <= spoke'[k] + MaxElapsed
                      ELSE spoke'[k] = Cooldown
    BY DEF AgesAgree
  <2>1. CASE k \in DOMAIN asked
    <3>1. spoke[k] = Cooldown \/ asked[k] <= spoke[k] + MaxElapsed
      BY <2>1 DEF AgesAgree
    <3>2. spoke'[k] = Cooldown \/ spoke'[k] = spoke[k] + 1
      BY <1>2 DEF Older
    <3>3. spoke[k] = Cooldown => spoke'[k] = Cooldown
      BY <1>2 DEF Older
    <3>4. asked'[k] <= asked[k] + 1 \/ asked'[k] = MaxAsked
      BY <1>3, <2>1 DEF Older
    <3>5. asked[k] <= spoke[k] + MaxElapsed => asked[k] < MaxAsked \/ spoke[k] = Cooldown
      BY <1>2, <1>3, <2>1 DEF MaxAsked
    <3>6. asked[k] < MaxAsked => asked'[k] = asked[k] + 1
      BY <1>3, <2>1 DEF Older
    <3> QED
      BY <1>2, <1>3, <2>1, <3>1, <3>2, <3>3, <3>5, <3>6
  <2>2. CASE k \notin DOMAIN asked
    BY <1>2, <1>3, <2>2 DEF AgesAgree, Older
  <2> QED
    BY <2>1, <2>2
<1>6. HeldIsDue'
  BY <1>1, <1>2 DEF HeldIsDue, Typed, Older
<1>7. OkIsClear'
  BY <1>1, <1>3 DEF OkIsClear
<1> QED
  BY <1>4, <1>5, <1>6, <1>7

(* Every other step leaves the requests alone, or gives one up.            *)
LEMMA OtherStep ==
  ASSUME RequestInv, UNCHANGED <<asked, spoke, found>>, held' \in {held, {}},
         todo' \in Seq(Pairs), begun' \in 0 .. MaxElapsed, bars' \in [Pairs -> Nat]
  PROVE  RequestInv'
<1>1. Typed' /\ AgesAgree' /\ OkIsClear'
  BY DEF RequestInv, Typed, AgesAgree, OkIsClear
<1>2. HeldIsDue'
  BY DEF RequestInv, HeldIsDue
<1> QED
  BY <1>1, <1>2 DEF RequestInv

(* Every step keeps the invariant.                                         *)
LEMMA RequestStep ==
  ASSUME RequestInv, [Next]_vars
  PROVE  RequestInv'
<1>1. Order \in Seq(Pairs) /\ 0 \in 0 .. MaxElapsed
  BY RequesterAssumption
<1>2. Typed
  BY DEF RequestInv
<1>3. CASE StartCycle \/ PublishFails \/ Trade \/ UNCHANGED vars
  BY <1>1, <1>2, <1>3, OtherStep DEF StartCycle, PublishFails, Trade, vars, Typed
<1>4. ASSUME NEW p \in Pairs, NewBar(p) \/ Clobber(p) PROVE RequestInv'
  <2>1. bars' \in [Pairs -> Nat]
    <3>1. Older(bars[p], Desired) \in Nat
      BY <1>2, RequesterAssumption DEF Older, Typed
    <3>2. CASE NewBar(p)
      BY <1>2, <3>1, <3>2 DEF NewBar, Typed
    <3>3. CASE Clobber(p)
      BY <1>2, <3>3 DEF Clobber, Typed
    <3> QED
      BY <1>4, <3>2, <3>3
  <2> QED
    BY <1>2, <1>4, <2>1, OtherStep DEF NewBar, Clobber, Typed
<1>5. ASSUME NEW k \in Keys, Answer(k) \/ Lose(k) PROVE RequestInv'
  <2>1. bars' \in [Pairs -> Nat]
    BY <1>2, <1>5, RequesterAssumption DEF Answer, Lose, Typed
  <2> QED
    BY <1>2, <1>5, <2>1, OtherStep DEF Answer, Lose, Typed
<1> QED
  BY <1>3, <1>4, <1>5, AssessStep, PublishStep, TickStep DEF Next

(* The inductive invariant holds throughout.                               *)
THEOREM RequesterSafe == Spec => []RequestInv
<1> QED
  BY RequestInit, RequestStep, PTL DEF Spec

(* Two requests of one kind for one series are a cooldown apart, but for   *)
(* the length of a cycle, unless the series was ok between them            *)
(* (NeverTooOften).                                                        *)
THEOREM RequestsKeepApart == Spec => NeverTooOften
<1>1. ASSUME RequestInv, [Next]_vars, NEW k \in Keys, k \in wire' \ wire
      PROVE  spoke[k] + MaxElapsed >= Cooldown
  <2>1. wire' = wire \cup held \/ wire' \subseteq wire
    BY <1>1 DEF Next, vars, StartCycle, Assess, Publish, PublishFails, Tick, Trade, NewBar,
                Clobber, Answer, Lose
  <2>2. k \in held
    BY <1>1, <2>1
  <2> QED
    BY <1>1, <2>2 DEF RequestInv, HeldIsDue
<1>2. RequestInv /\ [Next]_vars
        => [\A k \in Keys : (k \in wire' \ wire /\ held # {})
              => spoke[k] + MaxElapsed >= Cooldown]_vars
  BY <1>1
<1> QED
  BY <1>2, RequesterSafe, PTL DEF Spec, NeverTooOften

(* A series that was ok is asked for in the very look that finds it worse  *)
(* (PromptOnce).                                                           *)
THEOREM AsksPromptly == Spec => PromptOnce
<1>1. ASSUME RequestInv, [Next]_vars, NEW p \in Pairs, Contract[p] <= Desired,
             found[p] = "ok", todo # << >>, Head(todo) = p,
             todo' = Tail(todo), found'[p] # "ok"
      PROVE  held' # {}
  <2>1. Tail(todo) # todo
    BY <1>1, HeadTailProperties DEF RequestInv, Typed
  <2>2. Assess
    BY <1>1, <2>1 DEF Next, vars, StartCycle, Publish, PublishFails, Tick, Trade, NewBar,
                      Clobber, Answer, Lose, Busy
  <2>3. State(p) # "ok"
    BY <1>1, <2>2 DEF Assess, RequestInv, Typed
  <2>4. PICK c \in Wanted(p) : TRUE
    BY <1>1, <2>3, WantedWhenNotOk DEF RequestInv
  <2>5. <<p, c>> \notin DOMAIN asked
    BY <1>1 DEF RequestInv, OkIsClear
  <2>6. Due(<<p, c>>)
    BY <2>5 DEF Due
  <2> QED
    BY <1>1, <2>2, <2>4, <2>6 DEF Assess
<1>2. RequestInv /\ [Next]_vars
        => [\A p \in Pairs : Contract[p] <= Desired => Prompt(p)]_vars
  BY <1>1 DEF Prompt
<1> QED
  BY <1>2, RequesterSafe, PTL DEF Spec, PromptOnce
=============================================================================
