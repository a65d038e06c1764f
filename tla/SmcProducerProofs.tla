------------------------- MODULE SmcProducerProofs -------------------------
(* Theorems about SmcProducer, for every universe, selector, feed, target  *)
(* and batch size, and every interleaving of the batches.                  *)
EXTENDS SmcProducer, SequenceTheorems, TLAPS

Missing == {"SMC_NONE", "SMC_NO_OHLCV", "SMC_WARMUP"}
Asset == [signal : Signals, hint : BOOLEAN, local : States]

(* The universe of the cycle, as a sequence without repetition.            *)
Listed ==
  /\ assets \in Seq(Symbols) /\ assets # <<>> /\ IsInjective(assets)
  /\ DOMAIN shown = ToSet(assets)

(* The batches hold symbols of the universe, and only while they run.      *)
BatchesListed ==
  /\ \A i \in DOMAIN work : work[i].rest \in Seq(ToSet(assets))
  /\ pc \in {"sleep", "classify"} => work = <<>>

(* What is counted of a symbol has been read of it.                        *)
CountsAreRead == \A s \in Symbols : counted[s] <= bars[s]

Typed == TypeOK /\ Listed /\ BatchesListed /\ CountsAreRead

(* The symbols classified so far in this cycle.                            *)
Classified == {assets[j] : j \in 1 .. Len(assets) - Len(todo)}

(* The classification goes through the universe in its order; what is full *)
(* has been read, with enough good bars.                                   *)
Classifying ==
  /\ pc # "classify" => hist = Unread
  /\ pc = "sleep" => ready = {}
  /\ pc = "classify" =>
       /\ todo # <<>> /\ Len(todo) <= Len(assets) /\ done = {}
       /\ \A i \in 1 .. Len(todo) : todo[i] = assets[i + Len(assets) - Len(todo)]
       /\ \A s \in Symbols : hist[s] # "none" => s \in Classified
       /\ \A s \in ready : s \in Classified /\ Allowed(hist[s]) /\ counted[s] = Target

NamesShown(p) == p.symbol \in ToSet(assets) \cup {"none"}

(* While the batches run: a pipeline that is full names no problem, and a  *)
(* symbol counted full gives no signal of a missing history.               *)
Processing ==
  pc = "process" =>
    /\ \A s \in ready : counted[s] = Target
    /\ ready = ToSet(assets) => problem = NoProblem
    /\ NamesShown(problem)
    /\ \A s \in done : /\ s \in ToSet(assets)
                       /\ counted[s] = Target => shown[s].signal \notin Missing

Live(state, p) ==
  /\ NamesShown(p)
  /\ state = "LIVE" => /\ p = NoProblem
                       /\ \A s \in ToSet(assets) : shown[s].local = "LIVE"

Agree ==
  \A s \in done : /\ s \in ToSet(assets)
                  /\ shown[s].local = "LIVE" => shown[s].signal \notin Missing

(* The publication in hand and the one last made.                          *)
Publishing ==
  /\ pc = "publish" /\ reason = "smc_screening" => Live(meta, problem) /\ Agree
  /\ pc = "sleep" /\ said.reason = "smc_screening" => Live(said.state, said.problem) /\ Agree

ProducerInv == Typed /\ Classifying /\ Processing /\ Publishing
-----------------------------------------------------------------------------
(* The elements of a piece of a sequence are elements of the sequence.     *)
LEMMA PieceOf ==
  ASSUME NEW S, NEW q \in Seq(S), NEW m \in Nat \ {0}, NEW n \in Nat, n <= Len(q)
  PROVE  SubSeq(q, m, n) \in Seq(S)
<1>1. \A i \in m .. n : q[i] \in S
  OBVIOUS
<1> QED
  BY <1>1, SubSeqProperties

(* A sequence is one of its own elements.                                  *)
LEMMA OfItsElements ==
  ASSUME NEW S, NEW q \in Seq(S)
  PROVE  q \in Seq(ToSet(q))
  BY DEF ToSet

(* The batches are cut from the universe.                                  *)
LEMMA BatchesAreListed ==
  ASSUME Listed
  PROVE  \A i \in DOMAIN Batches(Selected) :
            Batches(Selected)[i].rest \in Seq(ToSet(assets))
<1> DEFINE A == ToSet(assets)
           sel == Selected
<1>1. assets \in Seq(A)
  BY OfItsElements DEF Listed
<1>2. MaxPerCycle \in Nat \ {0} /\ BatchSize \in Nat \ {0}
  BY ProducerAssumption
<1>3. sel \in Seq(A)
  <2> DEFINE k == IF MaxPerCycle < Len(assets) THEN MaxPerCycle ELSE Len(assets)
  <2>1. k \in Nat /\ k <= Len(assets)
    BY <1>1, <1>2
  <2>2. SubSeq(assets, 1, k) \in Seq(A)
    <3> HIDE DEF k, A
    <3> QED
      BY <1>1, <2>1, PieceOf
  <2> QED
    BY <2>2 DEF Selected
<1> HIDE DEF A, sel
<1> SUFFICES ASSUME NEW i \in DOMAIN Batches(sel)
             PROVE  Batches(sel)[i].rest \in Seq(A)
  BY DEF A, sel
<1> DEFINE n == (Len(sel) + BatchSize - 1) \div BatchSize
           m == (i - 1) * BatchSize + 1
           k == IF i * BatchSize < Len(sel) THEN i * BatchSize ELSE Len(sel)
<1>4. i \in 1 .. n /\ Batches(sel)[i].rest = SubSeq(sel, m, k)
  BY DEF Batches
<1>5. i \in Nat \ {0}
  <2>1. Len(sel) + BatchSize - 1 \in Nat
    BY <1>2, <1>3
  <2>2. n \in Int
    BY <1>2, <2>1
  <2> HIDE DEF n
  <2> QED
    BY <1>4, <2>2
<1>6. m \in Nat \ {0} /\ k \in Nat /\ k <= Len(sel)
  <2>1. i - 1 \in Nat
    BY <1>5
  <2>2. (i - 1) * BatchSize \in Nat /\ i * BatchSize \in Nat
    BY <1>2, <1>5, <2>1
  <2>3. Len(sel) \in Nat
    BY <1>3
  <2> QED
    BY <2>2, <2>3
<1> HIDE DEF m, k, n
<1> QED
  BY <1>3, <1>4, <1>6, PieceOf

(* A problem is one of a symbol whose history was read, and there is none  *)
(* where every history that was read lets the engine run.                  *)
LEMMA ProblemOfRead ==
  ASSUME NEW h \in [Symbols -> {"none", "ok", "stale_tail", "insufficient"}]
  PROVE  /\ Problem(h).symbol \in {s \in Symbols : h[s] # "none"} \cup {"none"}
         /\ Problem(h).symbol \in Symbols \cup {"none"}
         /\ Problem(h).state \in {"none", "stale_tail", "insufficient"}
         /\ (\A s \in Symbols : h[s] # "none" => Allowed(h[s])) => Problem(h) = NoProblem
<1> DEFINE of(state) == {s \in Symbols : h[s] = state}
<1>1. ASSUME NEW x \in {"stale_tail", "insufficient"}, of(x) # {}
      PROVE  First[of(x)] \in of(x)
  BY <1>1, OrdersAssumption
<1>2. ~Allowed("insufficient")
  BY DEF Allowed
<1>3. CASE of("stale_tail") # {} /\ ~Allowed("stale_tail")
  <2>1. Problem(h) = [symbol |-> First[of("stale_tail")], state |-> "stale_tail"]
    BY <1>3 DEF Problem
  <2>2. First[of("stale_tail")] \in of("stale_tail")
    BY <1>1, <1>3
  <2>3. h[First[of("stale_tail")]] = "stale_tail" /\ First[of("stale_tail")] \in Symbols
    BY <2>2
  <2>4. ~ \A s \in Symbols : h[s] # "none" => Allowed(h[s])
    BY <1>3, <2>3
  <2> HIDE DEF of
  <2> QED
    BY <2>1, <2>3, <2>4
<1>4. CASE /\ ~(of("stale_tail") # {} /\ ~Allowed("stale_tail"))
           /\ of("insufficient") # {}
  <2>1. Problem(h) = [symbol |-> First[of("insufficient")], state |-> "insufficient"]
    BY <1>4 DEF Problem
  <2>2. First[of("insufficient")] \in of("insufficient")
    BY <1>1, <1>4
  <2>3. h[First[of("insufficient")]] = "insufficient" /\ First[of("insufficient")] \in Symbols
    BY <2>2
  <2>4. ~ \A s \in Symbols : h[s] # "none" => Allowed(h[s])
    BY <1>2, <2>3
  <2> HIDE DEF of
  <2> QED
    BY <2>1, <2>3, <2>4
<1>5. CASE /\ ~(of("stale_tail") # {} /\ ~Allowed("stale_tail"))
           /\ of("insufficient") = {}
  <2>1. Problem(h) = NoProblem
    BY <1>5 DEF Problem
  <2> QED
    BY <2>1 DEF NoProblem
<1> QED
  BY <1>3, <1>4, <1>5
-----------------------------------------------------------------------------
(* The invariant holds before the bootstrap is published.                  *)
LEMMA ProducerInit == Init => ProducerInv
<1> SUFFICES ASSUME Init PROVE ProducerInv
  OBVIOUS
<1>1. Configured \in Seq(Symbols) /\ Configured # <<>> /\ IsInjective(Configured)
  BY ProducerAssumption
<1>2. Listed
  BY <1>1 DEF Init, Listed
<1>3. BatchesListed
  BY DEF Init, BatchesListed
<1>4. CountsAreRead
  BY DEF Init, CountsAreRead
<1>5. \A s \in DOMAIN shown : shown[s] \in [signal : Signals, hint : BOOLEAN, local : States]
  BY DEF Init, Blank, Signals, States
<1>6. TypeOK
  <2>1. Target \in Nat
    BY ProducerAssumption
  <2>2. hist \in [Symbols -> {"none", "ok", "stale_tail", "insufficient"}]
    BY DEF Init, Unread
  <2>3. bars \in [Symbols -> 0..Target] /\ counted \in [Symbols -> 0..Target]
    BY <2>1 DEF Init
  <2>4. problem.symbol \in Symbols \cup {"none"} /\ problem.state \in {"none", "stale_tail", "insufficient"}
    BY DEF Init, NoProblem
  <2>5. meta \in States /\ said.state \in States
    BY DEF Init, States
  <2>6. assets \in Seq(Symbols) /\ todo \in Seq(Symbols)
    BY <1>1 DEF Init
  <2> QED
    BY <1>5, <2>2, <2>3, <2>4, <2>5, <2>6 DEF Init, TypeOK
<1>7. Classifying /\ Processing /\ Publishing
  BY DEF Init, Classifying, Processing, Publishing
<1> QED
  BY <1>2, <1>3, <1>4, <1>6, <1>7 DEF ProducerInv, Typed

(* The next cycle lists the new universe; nothing is counted yet.          *)
LEMMA StartCycleStep ==
  ASSUME ProducerInv, NEW fresh \in Selectors, NEW f \in Feeds, StartCycle(fresh, f)
  PROVE  ProducerInv'
<1> USE DEF StartCycle
<1>1. Listed'
  <2>1. assets' \in Seq(Symbols) /\ assets' # <<>> /\ IsInjective(assets')
    <3>1. CASE fresh = {}
      BY <3>1 DEF Refreshed, ProducerInv, Typed, Listed
    <3>2. CASE fresh # {}
      <4>1. fresh \in SUBSET Symbols
        BY ProducerAssumption
      <4>2. ListOf[fresh] \in Seq(Symbols) /\ ToSet(ListOf[fresh]) = fresh /\ IsInjective(ListOf[fresh])
        BY <4>1, OrdersAssumption
      <4>3. ListOf[fresh] # <<>>
        BY <3>2, <4>2 DEF ToSet
      <4> QED
        BY <3>2, <4>2, <4>3 DEF Refreshed
    <3> QED
      BY <3>1, <3>2
  <2>2. DOMAIN shown' = ToSet(assets')
    BY DEF Kept
  <2> QED
    BY <2>1, <2>2 DEF Listed
<1>2. \A s \in DOMAIN shown' : shown'[s] \in [signal : Signals, hint : BOOLEAN, local : States]
  <2> SUFFICES ASSUME NEW s \in DOMAIN shown'
               PROVE  shown'[s] \in [signal : Signals, hint : BOOLEAN, local : States]
    OBVIOUS
  <2>1. shown'[s] = IF s \in DOMAIN shown THEN shown[s] ELSE Blank
    BY DEF Kept
  <2>2. Blank \in [signal : Signals, hint : BOOLEAN, local : States]
    BY DEF Blank, Signals, States
  <2> QED
    BY <2>1, <2>2 DEF ProducerInv, Typed, TypeOK
<1>3. TypeOK'
  <2>1. todo' \in Seq(Symbols)
    BY <1>1 DEF Listed, ProducerInv, Typed, TypeOK
  <2>2. pc' \in {"sleep", "classify", "process", "publish"} /\ feed' \in Feeds
    OBVIOUS
  <2> QED
    BY <1>1, <1>2, <2>1, <2>2 DEF Listed, ProducerInv, Typed, TypeOK
<1>4. work = <<>> /\ work' = <<>>
  BY DEF ProducerInv, Typed, BatchesListed
<1>5. BatchesListed' /\ CountsAreRead'
  BY <1>4 DEF BatchesListed, CountsAreRead, ProducerInv, Typed
<1>6. Classifying'
  <2>1. hist' = Unread /\ ready' = {} /\ pc' # "sleep"
    BY DEF ProducerInv, Classifying
  <2>2. ASSUME pc' = "classify"
        PROVE  todo' = assets' /\ todo' # <<>> /\ done' = {}
    BY <1>1, <2>2 DEF Listed
  <2>3. ASSUME pc' = "classify", NEW i \in 1 .. Len(todo')
        PROVE  todo'[i] = assets'[i + Len(assets') - Len(todo')]
    BY <1>1, <2>2, <2>3 DEF Listed
  <2>4. \A s \in Symbols : hist'[s] = "none"
    BY <2>1 DEF Unread
  <2>5. Len(assets') \in Nat
    BY <1>1 DEF Listed
  <2> QED
    BY <2>1, <2>2, <2>3, <2>4, <2>5 DEF Classifying
<1>7. Processing' /\ Publishing'
  <2>1. pc' # "process" /\ pc' # "sleep"
    OBVIOUS
  <2>2. pc' = "publish" => reason' = "smc_idle_fxcm_status"
    OBVIOUS
  <2> QED
    BY <2>1, <2>2 DEF Processing, Publishing
<1> QED
  BY <1>1, <1>3, <1>5, <1>6, <1>7 DEF ProducerInv, Typed

(* What the classification of one symbol leaves, whatever its outcome.     *)
LEMMA AdvanceStep ==
  ASSUME ProducerInv, pc = "classify",
         NEW seen \in [Symbols -> {"none", "ok", "stale_tail", "insufficient"}],
         Advance(seen),
         UNCHANGED <<feed, assets, shown, done, meta, reason, said>>,
         bars' \in [Symbols -> 0..Target], counted' \in [Symbols -> 0..Target],
         CountsAreRead',
         ready' \subseteq readyMin', readyMin' \subseteq Symbols,
         \A s \in Symbols : seen[s] # "none" => s \in Classified \cup {Head(todo)},
         \A s \in ready' : /\ s \in Classified \cup {Head(todo)}
                           /\ Allowed(seen[s]) /\ counted'[s] = Target
  PROVE  ProducerInv'
<1>1. /\ todo \in Seq(Symbols) /\ todo # <<>> /\ Len(todo) <= Len(assets) /\ done = {}
      /\ \A i \in 1 .. Len(todo) : todo[i] = assets[i + Len(assets) - Len(todo)]
      /\ work = <<>>
  BY DEF ProducerInv, Typed, TypeOK, Classifying, BatchesListed
<1>2. assets \in Seq(Symbols) /\ assets' = assets /\ Len(assets) \in Nat
  BY DEF ProducerInv, Typed, Listed
<1>3. /\ todo' \in Seq(Symbols) /\ Len(todo') = Len(todo) - 1 /\ Len(todo) \in Nat \ {0}
      /\ \A i \in 1 .. Len(todo') : todo'[i] = todo[i + 1]
  BY <1>1, HeadTailProperties DEF Advance
<1>4. Head(todo) = assets[1 + Len(assets) - Len(todo)]
  <2>1. Head(todo) = todo[1] /\ 1 \in 1 .. Len(todo)
    BY <1>1, <1>3
  <2> QED
    BY <1>1, <2>1
<1>5. Classified' = Classified \cup {Head(todo)}
  <2> DEFINE k == Len(assets) - Len(todo)
  <2>1. Len(assets') - Len(todo') = k + 1 /\ k \in Nat /\ 1 + Len(assets) - Len(todo) = k + 1
    BY <1>1, <1>2, <1>3
  <2>2. Classified = {assets[j] : j \in 1 .. k} /\ Classified' = {assets[j] : j \in 1 .. k + 1}
    BY <1>2, <2>1 DEF Classified
  <2>3. Head(todo) = assets[k + 1]
    BY <1>4, <2>1
  <2> HIDE DEF k
  <2>4. 1 .. k + 1 = (1 .. k) \cup {k + 1}
    BY <2>1
  <2> QED
    BY <2>2, <2>3, <2>4
<1>6. Classified' \subseteq ToSet(assets)
  BY <1>1, <1>2, <1>3 DEF Classified, ToSet
<1>7. Listed'
  BY DEF ProducerInv, Typed, Listed
<1>8. \A t \in {"none", "ok", "stale_tail", "insufficient"} : Allowed(t)' <=> Allowed(t)
  BY DEF Allowed, AllowStale
<1>9. CASE Len(todo) = 1
  <2>1. /\ pc' = "process" /\ work' = Batches(Selected)
        /\ problem' = Problem(seen) /\ hist' = Unread
    BY <1>9 DEF Advance
  <2>2. BatchesListed'
    <3>1. \A i \in DOMAIN work' : work'[i].rest \in Seq(ToSet(assets'))
      BY <1>2, <2>1, BatchesAreListed DEF ProducerInv, Typed
    <3> QED
      BY <2>1, <3>1 DEF BatchesListed
  <2>3. TypeOK'
    <3>1. problem'.symbol \in Symbols \cup {"none"} /\ problem'.state \in {"none", "stale_tail", "insufficient"}
      BY <2>1, ProblemOfRead
    <3>2. hist' \in [Symbols -> {"none", "ok", "stale_tail", "insufficient"}]
      BY <2>1 DEF Unread
    <3> QED
      BY <1>2, <1>3, <2>1, <3>1, <3>2 DEF ProducerInv, Typed, TypeOK
  <2>4. Processing'
    <3>1. NamesShown(problem)'
      <4>1. problem'.symbol \in {s \in Symbols : seen[s] # "none"} \cup {"none"}
        BY <2>1, ProblemOfRead
      <4> QED
        BY <1>2, <1>5, <1>6, <4>1 DEF NamesShown
    <3>2. ready' = ToSet(assets') => problem' = NoProblem
      <4> SUFFICES ASSUME ready' = ToSet(assets) PROVE Problem(seen) = NoProblem
        BY <1>2, <2>1
      <4>1. \A s \in Symbols : seen[s] # "none" => Allowed(seen[s])
        BY <1>5, <1>6
      <4> QED
        BY <4>1, ProblemOfRead
    <3>3. done' = {}
      BY <1>1
    <3> QED
      BY <3>1, <3>2, <3>3 DEF Processing
  <2>5. Classifying' /\ Publishing'
    BY <2>1 DEF Classifying, Publishing
  <2> QED
    BY <1>7, <2>2, <2>3, <2>4, <2>5 DEF ProducerInv, Typed
<1>10. CASE Len(todo) # 1
  <2>1. hist' = seen /\ UNCHANGED <<pc, work, problem>>
    BY <1>10 DEF Advance
  <2>2. TypeOK'
    BY <1>2, <1>3, <2>1 DEF ProducerInv, Typed, TypeOK
  <2>3. BatchesListed'
    BY <1>1, <2>1 DEF BatchesListed
  <2>4. Classifying'
    <3>1. todo' # <<>> /\ Len(todo') <= Len(assets') /\ done' = {}
      <4>1. Len(todo') \in Nat /\ Len(todo') # 0
        BY <1>3, <1>10
      <4>2. todo' # <<>>
        BY <4>1
      <4>3. Len(todo') <= Len(assets)
        BY <1>1, <1>2, <1>3
      <4> QED
        BY <1>1, <1>2, <4>2, <4>3
    <3>2. ASSUME NEW i \in 1 .. Len(todo')
          PROVE  todo'[i] = assets'[i + Len(assets') - Len(todo')]
      <4>1. i + 1 \in 1 .. Len(todo) /\ (i + 1) + Len(assets) - Len(todo) = i + Len(assets') - Len(todo')
        BY <1>2, <1>3
      <4> QED
        BY <1>1, <1>2, <1>3, <4>1
    <3>3. \A s \in Symbols : hist'[s] # "none" => s \in Classified'
      BY <1>5, <2>1
    <3>4. ASSUME NEW s \in ready'
          PROVE  s \in Classified' /\ Allowed(hist[s])' /\ counted'[s] = Target
      <4>1. s \in Symbols /\ Allowed(seen[s]) /\ seen[s] \in {"none", "ok", "stale_tail", "insufficient"}
        OBVIOUS
      <4>2. Allowed(hist[s])'
        BY <2>1, <4>1 DEF Allowed, AllowStale
      <4> QED
        BY <1>5, <4>2
    <3>5. pc' = "classify"
      BY <2>1
    <3> QED
      BY <3>1, <3>2, <3>3, <3>4, <3>5 DEF Classifying
  <2>5. Processing' /\ Publishing'
    BY <2>1 DEF Processing, Publishing
  <2> QED
    BY <1>7, <2>2, <2>3, <2>4, <2>5 DEF ProducerInv, Typed
<1> QED
  BY <1>9, <1>10

(* A read that succeeds.  The symbol was not classified before, since the  *)
(* universe repeats none, so what is known of the others stays.            *)
LEMMA ClassifyStep ==
  ASSUME ProducerInv, NEW n \in 0 .. Target, NEW stale \in BOOLEAN, Classify(n, stale)
  PROVE  ProducerInv'
<1> DEFINE s == Head(todo)
           seen == [hist EXCEPT ![s] = HistoryState(s, n, stale)]
<1>1. /\ pc = "classify" /\ n >= bars[s]
      /\ bars' = [bars EXCEPT ![s] = n] /\ counted' = [counted EXCEPT ![s] = n]
      /\ readyMin' = readyMin \cup {t \in {s} : Good(s, n, stale)}
      /\ ready' = ready \cup {t \in {s} : Full(s, n, stale)}
      /\ Advance(seen)
      /\ UNCHANGED <<feed, assets, shown, done, meta, reason, said>>
  BY DEF Classify
<1>2. /\ todo \in Seq(Symbols) /\ todo # <<>> /\ Len(todo) <= Len(assets)
      /\ \A i \in 1 .. Len(todo) : todo[i] = assets[i + Len(assets) - Len(todo)]
      /\ assets \in Seq(Symbols) /\ IsInjective(assets)
  BY <1>1 DEF ProducerInv, Typed, TypeOK, Classifying, Listed
<1>3. s \in Symbols
  BY <1>2
<1>4. s \notin Classified
  <2> DEFINE k == Len(assets) - Len(todo)
  <2>1. k \in Nat /\ k + 1 \in DOMAIN assets /\ s = assets[k + 1]
    <3>1. Len(todo) \in Nat \ {0} /\ Len(assets) \in Nat /\ s = todo[1]
      BY <1>2
    <3> QED
      BY <1>2, <3>1
  <2>2. ASSUME NEW j \in 1 .. k PROVE assets[j] # s
    <3>1. j \in DOMAIN assets /\ j # k + 1
      BY <1>2, <2>1
    <3> QED
      BY <1>2, <2>1, <3>1 DEF IsInjective
  <2> QED
    BY <2>2 DEF Classified
<1>5. HistoryState(s, n, stale) \in {"ok", "stale_tail", "insufficient"}
  BY DEF HistoryState
<1>6. seen \in [Symbols -> {"none", "ok", "stale_tail", "insufficient"}]
  BY <1>3, <1>5 DEF ProducerInv, Typed, TypeOK
<1>7. bars' \in [Symbols -> 0..Target] /\ counted' \in [Symbols -> 0..Target]
  BY <1>1, <1>3 DEF ProducerInv, Typed, TypeOK
<1>8. CountsAreRead'
  <2> SUFFICES ASSUME NEW t \in Symbols PROVE counted'[t] <= bars'[t]
    BY DEF CountsAreRead
  <2>1. counted[t] <= bars[t] /\ t \in DOMAIN bars /\ t \in DOMAIN counted
    BY DEF ProducerInv, Typed, TypeOK, CountsAreRead
  <2>2. CASE t = s
    BY <1>1, <2>1, <2>2
  <2>3. CASE t # s
    BY <1>1, <2>1, <2>3
  <2> QED
    BY <2>2, <2>3
<1>9. ready' \subseteq readyMin' /\ readyMin' \subseteq Symbols
  BY <1>1, <1>3 DEF ProducerInv, Typed, TypeOK, Full
<1>10. ASSUME NEW t \in Symbols, seen[t] # "none"
       PROVE  t \in Classified \cup {s}
  BY <1>1, <1>10 DEF ProducerInv, Typed, TypeOK, Classifying
<1>11. ASSUME NEW t \in ready'
       PROVE  t \in Classified \cup {s} /\ Allowed(seen[t]) /\ counted'[t] = Target
  <2>1. CASE t = s
    <3>1. s \notin ready
      BY <1>1, <1>4 DEF ProducerInv, Classifying
    <3>2. n = Target /\ Allowed(HistoryState(s, n, stale))
      BY <1>1, <2>1, <3>1 DEF Full, Good
    <3>3. seen[s] = HistoryState(s, n, stale) /\ counted'[s] = n
      BY <1>1, <1>3 DEF ProducerInv, Typed, TypeOK
    <3> HIDE DEF s, seen
    <3> QED
      BY <2>1, <3>2, <3>3
  <2>2. CASE t # s
    <3>1. t \in ready
      BY <1>1, <2>2
    <3>2. t \in Classified /\ Allowed(hist[t]) /\ counted[t] = Target
      BY <1>1, <3>1 DEF ProducerInv, Classifying
    <3>3. t \in Symbols
      BY <3>1 DEF ProducerInv, Typed, TypeOK
    <3>4. seen[t] = hist[t] /\ counted'[t] = counted[t]
      BY <1>1, <2>2, <3>3 DEF ProducerInv, Typed, TypeOK
    <3> HIDE DEF s, seen
    <3> QED
      BY <3>2, <3>4
  <2> QED
    BY <2>1, <2>2
<1> HIDE DEF seen
<1> QED
  BY <1>1, <1>6, <1>7, <1>8, <1>9, <1>10, <1>11, AdvanceStep

(* A read that raises counts no bars and reads no history.                 *)
LEMMA ClassifyFailsStep ==
  ASSUME ProducerInv, ClassifyFails
  PROVE  ProducerInv'
<1>1. /\ pc = "classify" /\ Advance(hist)
      /\ UNCHANGED <<feed, bars, assets, shown, counted, ready, readyMin, done, meta, reason, said>>
  BY DEF ClassifyFails
<1>2. hist \in [Symbols -> {"none", "ok", "stale_tail", "insufficient"}]
  BY DEF ProducerInv, Typed, TypeOK
<1>3. bars' \in [Symbols -> 0..Target] /\ counted' \in [Symbols -> 0..Target] /\ CountsAreRead'
  BY <1>1 DEF ProducerInv, Typed, TypeOK, CountsAreRead
<1>4. ready' \subseteq readyMin' /\ readyMin' \subseteq Symbols
  BY <1>1 DEF ProducerInv, Typed, TypeOK
<1>5. /\ \A s \in Symbols : hist[s] # "none" => s \in Classified
      /\ \A s \in ready' : s \in Classified /\ Allowed(hist[s]) /\ counted'[s] = Target
  BY <1>1 DEF ProducerInv, Classifying
<1> QED
  BY <1>1, <1>2, <1>3, <1>4, <1>5, AdvanceStep

(* One symbol of a batch is updated, with a signal that says nothing of a  *)
(* missing history where its count is full.                                *)
LEMMA UpdateStep ==
  ASSUME ProducerInv, NEW i \in DOMAIN work, Working(i),
         NEW signal \in Signals, NEW computed \in BOOLEAN,
         Update(i, Head(work[i].rest), signal, computed),
         counted[Head(work[i].rest)] = Target => signal \notin Missing,
         bars' \in [Symbols -> 0..Target], CountsAreRead',
         UNCHANGED <<pc, feed, assets, todo, counted, ready, readyMin, hist, problem,
                     meta, reason, said>>
  PROVE  ProducerInv'
<1> DEFINE s == Head(work[i].rest)
<1>1. /\ shown' = [shown EXCEPT ![s].signal = signal, ![s].hint = @ \/ computed]
      /\ done' = done \cup {s}
      /\ work' = [work EXCEPT ![i] = [rest |-> Tail(@.rest), engine |-> FALSE]]
      /\ pc = "process" /\ work[i].rest # <<>>
  BY DEF Update, Working
<1>2. work[i].rest \in Seq(ToSet(assets))
  BY DEF ProducerInv, Typed, BatchesListed
<1>3. s \in ToSet(assets) /\ Tail(work[i].rest) \in Seq(ToSet(assets))
  BY <1>1, <1>2, HeadTailProperties
<1>4. s \in Symbols /\ s \in DOMAIN shown
  BY <1>3 DEF ProducerInv, Typed, Listed, ToSet
<1>5. /\ DOMAIN shown' = DOMAIN shown
      /\ \A t \in DOMAIN shown : t # s => shown'[t] = shown[t]
      /\ shown'[s] = [shown[s] EXCEPT !.signal = signal, !.hint = @ \/ computed]
  BY <1>1, <1>4
<1>6. shown'[s] \in [signal : Signals, hint : BOOLEAN, local : States] /\ shown'[s].signal = signal
  <2>1. shown[s] \in [signal : Signals, hint : BOOLEAN, local : States]
    BY <1>4 DEF ProducerInv, Typed, TypeOK
  <2>2. (shown[s].hint \/ computed) \in BOOLEAN
    OBVIOUS
  <2> DEFINE b == shown[s].hint \/ computed
  <2>3. shown'[s] = [shown[s] EXCEPT !.signal = signal, !.hint = b] /\ b \in BOOLEAN
    BY <1>5, <2>2
  <2> HIDE DEF b, s
  <2> QED
    BY <2>1, <2>3
<1>7. Listed'
  BY <1>5 DEF ProducerInv, Typed, Listed
<1>8. BatchesListed'
  <2> SUFFICES ASSUME NEW j \in DOMAIN work' PROVE work'[j].rest \in Seq(ToSet(assets'))
    BY <1>1 DEF BatchesListed
  <2>1. CASE j = i
    BY <1>1, <1>3, <2>1
  <2>2. CASE j # i
    BY <1>1, <2>2 DEF ProducerInv, Typed, BatchesListed
  <2> QED
    BY <2>1, <2>2
<1>9. TypeOK'
  <2>1. \A t \in DOMAIN shown' : shown'[t] \in [signal : Signals, hint : BOOLEAN, local : States]
    BY <1>5, <1>6 DEF ProducerInv, Typed, TypeOK
  <2>2. done' \subseteq Symbols
    BY <1>1, <1>4 DEF ProducerInv, Typed, TypeOK
  <2> QED
    BY <2>1, <2>2 DEF ProducerInv, Typed, TypeOK
<1>10. Classifying'
  BY <1>1 DEF ProducerInv, Classifying
<1>11. Processing'
  <2>1. /\ \A t \in ready' : counted'[t] = Target
        /\ ready' = ToSet(assets') => problem' = NoProblem
        /\ NamesShown(problem)'
    BY <1>1 DEF ProducerInv, Processing, NamesShown
  <2>2. ASSUME NEW t \in done'
        PROVE  t \in ToSet(assets') /\ (counted'[t] = Target => shown'[t].signal \notin Missing)
    <3>1. CASE t = s
      BY <1>3, <1>6, <3>1
    <3>2. CASE t # s
      <4>1. /\ t \in done /\ t \in ToSet(assets)
            /\ counted[t] = Target => shown[t].signal \notin Missing
        BY <1>1, <3>2 DEF ProducerInv, Processing
      <4>2. shown'[t] = shown[t]
        BY <1>5, <3>2, <4>1 DEF ProducerInv, Typed, Listed
      <4> QED
        BY <4>1, <4>2
    <3> QED
      BY <3>1, <3>2
  <2> QED
    BY <2>1, <2>2 DEF Processing
<1>12. Publishing'
  BY <1>1 DEF Publishing
<1> QED
  BY <1>7, <1>8, <1>9, <1>10, <1>11, <1>12 DEF ProducerInv, Typed

(* The batch's own read finds at least what was counted, so a full count   *)
(* lets the engine run.                                                    *)
LEMMA ReadStep ==
  ASSUME ProducerInv, NEW i \in DOMAIN work, NEW n \in 0 .. Target, Read(i, n)
  PROVE  ProducerInv'
<1> DEFINE s == Head(work[i].rest)
<1>1. /\ Working(i) /\ n >= bars[s] /\ bars' = [bars EXCEPT ![s] = n]
      /\ UNCHANGED <<pc, feed, assets, todo, counted, ready, readyMin, hist, problem,
                     meta, reason, said>>
      /\ pc = "process" /\ work[i].rest # <<>>
  BY DEF Read, Working
<1>2. s \in Symbols
  <2>1. work[i].rest \in Seq(ToSet(assets)) /\ assets \in Seq(Symbols)
    BY DEF ProducerInv, Typed, BatchesListed, Listed
  <2>2. s \in ToSet(assets)
    BY <1>1, <2>1
  <2> QED
    BY <2>1, <2>2 DEF ToSet
<1>3. Target \in Nat /\ Enough \in Nat /\ 1 <= Enough /\ Enough <= Target
  BY ProducerAssumption
<1>4. bars' \in [Symbols -> 0..Target]
  BY <1>1, <1>2 DEF ProducerInv, Typed, TypeOK
<1>5. CountsAreRead'
  <2> SUFFICES ASSUME NEW t \in Symbols PROVE counted'[t] <= bars'[t]
    BY DEF CountsAreRead
  <2>1. /\ counted[t] <= bars[t] /\ counted'[t] = counted[t] /\ t \in DOMAIN bars
        /\ counted[t] \in Nat /\ bars[t] \in Nat
    BY <1>1, <1>3 DEF ProducerInv, Typed, TypeOK, CountsAreRead
  <2>2. CASE t = s
    BY <1>1, <2>1, <2>2
  <2>3. CASE t # s
    BY <1>1, <2>1, <2>3
  <2> QED
    BY <2>2, <2>3
<1>6. counted[s] = Target => n = Target
  <2>1. counted[s] <= bars[s] /\ counted[s] \in Nat /\ bars[s] \in Nat
    BY <1>2, <1>3 DEF ProducerInv, Typed, TypeOK, CountsAreRead
  <2> HIDE DEF s
  <2> QED
    BY <1>1, <1>3, <2>1
<1>7. CASE n = 0
  <2>1. Update(i, s, "SMC_NO_OHLCV", FALSE)
    BY <1>3, <1>7 DEF Read, Update
  <2>2. counted[s] # Target
    BY <1>3, <1>6, <1>7
  <2>3. "SMC_NO_OHLCV" \in Signals /\ FALSE \in BOOLEAN
    BY DEF Signals
  <2> QED
    BY <1>1, <1>4, <1>5, <2>1, <2>2, <2>3, UpdateStep
<1>8. CASE n \in 1 .. (Enough - 1)
  <2>1. Update(i, s, "SMC_WARMUP", FALSE)
    BY <1>3, <1>8 DEF Read, Update
  <2>2. counted[s] # Target
    BY <1>3, <1>6, <1>8
  <2>3. "SMC_WARMUP" \in Signals /\ FALSE \in BOOLEAN
    BY DEF Signals
  <2> QED
    BY <1>1, <1>4, <1>5, <2>1, <2>2, <2>3, UpdateStep
<1>9. CASE n # 0 /\ n \notin 1 .. (Enough - 1)
  <2>1. work' = [work EXCEPT ![i].engine = TRUE] /\ UNCHANGED <<shown, done>>
    BY <1>9 DEF Read
  <2>2. BatchesListed'
    <3> SUFFICES ASSUME NEW j \in DOMAIN work' PROVE work'[j].rest \in Seq(ToSet(assets'))
      BY <1>1 DEF BatchesListed
    <3>1. j \in DOMAIN work /\ work[j].rest \in Seq(ToSet(assets))
      BY <2>1 DEF ProducerInv, Typed, BatchesListed
    <3>2. work'[j].rest = work[j].rest
      BY <2>1, <3>1
    <3> QED
      BY <1>1, <3>1, <3>2
  <2>3. Listed' /\ TypeOK'
    BY <1>1, <1>4, <2>1 DEF ProducerInv, Typed, Listed, TypeOK
  <2>4. Classifying'
    BY <1>1 DEF ProducerInv, Classifying
  <2>5. Processing' /\ Publishing'
    BY <1>1, <2>1 DEF ProducerInv, Processing, Publishing, NamesShown
  <2> QED
    BY <1>5, <2>2, <2>3, <2>4, <2>5 DEF ProducerInv, Typed
<1> QED
  BY <1>7, <1>8, <1>9

(* The engine's answer and the exception say nothing of a history.         *)
LEMMA ComputeStep ==
  ASSUME ProducerInv, NEW i \in DOMAIN work, NEW ok \in BOOLEAN, Compute(i, ok)
  PROVE  ProducerInv'
<1> DEFINE signal == IF ok THEN "SMC_HINT" ELSE "SMC_PENDING"
<1>1. /\ Working(i) /\ Update(i, Head(work[i].rest), signal, ok)
      /\ UNCHANGED <<pc, feed, bars, assets, todo, counted, ready, readyMin, hist, problem,
                     meta, reason, said>>
  BY DEF Compute, Answered
<1>2. signal \in Signals /\ signal \notin Missing
  BY DEF Signals, Missing
<1>3. bars' \in [Symbols -> 0..Target] /\ CountsAreRead'
  BY <1>1 DEF ProducerInv, Typed, TypeOK, CountsAreRead
<1> HIDE DEF signal
<1> QED
  BY <1>1, <1>2, <1>3, UpdateStep

LEMMA RaiseStep ==
  ASSUME ProducerInv, NEW i \in DOMAIN work, Raise(i)
  PROVE  ProducerInv'
<1>1. /\ Working(i) /\ Update(i, Head(work[i].rest), "SMC_ERROR", FALSE)
      /\ UNCHANGED <<pc, feed, bars, assets, todo, counted, ready, readyMin, hist, problem,
                     meta, reason, said>>
  BY DEF Raise
<1>2. "SMC_ERROR" \in Signals /\ "SMC_ERROR" \notin Missing /\ FALSE \in BOOLEAN
  BY DEF Signals, Missing
<1>3. bars' \in [Symbols -> 0..Target] /\ CountsAreRead'
  BY <1>1 DEF ProducerInv, Typed, TypeOK, CountsAreRead
<1> QED
  BY <1>1, <1>2, <1>3, UpdateStep

(* A symbol is shown LIVE exactly where its count is full, so a pipeline   *)
(* that is LIVE shows every symbol LIVE.                                   *)
LEMMA FinishStep ==
  ASSUME ProducerInv, Finish
  PROVE  ProducerInv'
<1>1. /\ pc = "process" /\ pc' = "publish"
      /\ shown' = WithStats(shown, counted) /\ meta' = PipelineState
      /\ UNCHANGED <<feed, bars, assets, todo, counted, ready, readyMin, hist, problem,
                     work, done, said>>
  BY DEF Finish
<1>2. /\ DOMAIN shown' = DOMAIN shown /\ DOMAIN shown = ToSet(assets)
      /\ assets \in Seq(Symbols)
  BY <1>1 DEF WithStats, ProducerInv, Typed, Listed
<1>3. ASSUME NEW s \in DOMAIN shown
      PROVE  /\ shown'[s] \in [signal : Signals, hint : BOOLEAN, local : States]
             /\ shown'[s].signal = shown[s].signal
             /\ shown'[s].local = "LIVE" <=> counted[s] = Target
  <2>1. shown[s] \in [signal : Signals, hint : BOOLEAN, local : States] /\ s \in Symbols
    BY <1>2 DEF ProducerInv, Typed, TypeOK, ToSet
  <2>2. Target \in Nat /\ MinBars[s] \in 1 .. Target /\ counted[s] \in 0 .. Target
    BY <2>1, ProducerAssumption DEF ProducerInv, Typed, TypeOK
  <2>3. Local(s, counted[s]) \in States /\ (Local(s, counted[s]) = "LIVE" <=> counted[s] = Target)
    BY <2>2 DEF Local, States
  <2>4. shown'[s] = [shown[s] EXCEPT !.local = Local(s, counted[s])]
    BY <1>1 DEF WithStats
  <2> QED
    BY <2>1, <2>3, <2>4
<1>4. meta' \in States
  BY <1>1 DEF PipelineState, States
<1>5. TypeOK' /\ Listed' /\ BatchesListed' /\ CountsAreRead'
  <2>1. TypeOK'
    BY <1>1, <1>2, <1>3, <1>4 DEF ProducerInv, Typed, TypeOK
  <2> QED
    BY <1>1, <1>2, <2>1 DEF ProducerInv, Typed, Listed, BatchesListed, CountsAreRead
<1>6. Live(meta, problem)'
  <2>1. NamesShown(problem)'
    BY <1>1 DEF ProducerInv, Processing, NamesShown
  <2>2. ASSUME meta' = "LIVE" PROVE problem' = NoProblem
    BY <1>1, <2>2 DEF PipelineState, ProducerInv, Processing
  <2>3. ASSUME meta' = "LIVE", NEW s \in ToSet(assets') PROVE shown'[s].local = "LIVE"
    <3>1. s \in ready /\ counted[s] = Target
      BY <1>1, <2>3 DEF PipelineState, ProducerInv, Processing
    <3> QED
      BY <1>1, <1>2, <1>3, <3>1
  <2> QED
    BY <2>1, <2>2, <2>3 DEF Live
<1>7. Agree'
  <2> SUFFICES ASSUME NEW s \in done, shown'[s].local = "LIVE"
               PROVE  shown'[s].signal \notin Missing
    BY <1>1 DEF Agree, ProducerInv, Processing
  <2>1. s \in DOMAIN shown
    BY <1>1, <1>2 DEF ProducerInv, Processing
  <2>2. counted[s] = Target /\ shown'[s].signal = shown[s].signal
    BY <1>3, <2>1
  <2> QED
    BY <1>1, <2>2 DEF ProducerInv, Processing
<1>8. Classifying' /\ Processing' /\ Publishing'
  BY <1>1, <1>6, <1>7 DEF ProducerInv, Classifying, Processing, Publishing
<1> QED
  BY <1>5, <1>8 DEF ProducerInv, Typed

(* The publication says what was in hand.                                  *)
LEMMA PublishStep ==
  ASSUME ProducerInv, Publish
  PROVE  ProducerInv'
<1>1. /\ pc = "publish" /\ pc' = "sleep"
      /\ said' = [reason |-> reason, state |-> meta, problem |-> problem]
      /\ work' = <<>> /\ counted' = [s \in Symbols |-> 0] /\ ready' = {} /\ readyMin' = {}
      /\ UNCHANGED <<feed, bars, assets, shown, todo, hist, problem, done, meta, reason>>
  BY DEF Publish
<1>2. Target \in Nat
  BY ProducerAssumption
<1>3. TypeOK'
  <2>1. counted' \in [Symbols -> 0..Target]
    BY <1>1, <1>2
  <2>2. said'.state \in States
    BY <1>1 DEF ProducerInv, Typed, TypeOK
  <2> QED
    BY <1>1, <2>1, <2>2 DEF ProducerInv, Typed, TypeOK
<1>4. Listed' /\ BatchesListed'
  BY <1>1 DEF ProducerInv, Typed, Listed, BatchesListed
<1>5. CountsAreRead'
  <2> SUFFICES ASSUME NEW t \in Symbols PROVE 0 <= bars[t]
    BY <1>1 DEF CountsAreRead
  <2> QED
    BY <1>2 DEF ProducerInv, Typed, TypeOK
<1>6. Classifying'
  BY <1>1 DEF ProducerInv, Classifying
<1>7. Processing' /\ Publishing'
  <2>1. said'.reason = reason /\ said'.state = meta /\ said'.problem = problem
    BY <1>1
  <2>2. ASSUME reason = "smc_screening" PROVE Live(said.state, said.problem)' /\ Agree'
    <3>1. Live(meta, problem) /\ Agree
      BY <1>1, <2>2 DEF ProducerInv, Publishing
    <3> QED
      BY <1>1, <2>1, <3>1 DEF Live, NamesShown, Agree
  <2> QED
    BY <1>1, <2>1, <2>2 DEF Processing, Publishing
<1> QED
  BY <1>3, <1>4, <1>5, <1>6, <1>7 DEF ProducerInv, Typed

LEMMA ProducerStep == ProducerInv /\ [Next]_vars => ProducerInv'
<1> SUFFICES ASSUME ProducerInv, [Next]_vars PROVE ProducerInv'
  OBVIOUS
<1>1. CASE \E fresh \in Selectors, f \in Feeds : StartCycle(fresh, f)
  BY <1>1, StartCycleStep
<1>2. CASE \E n \in 0..Target : \E stale \in BOOLEAN : Classify(n, stale)
  BY <1>2, ClassifyStep
<1>3. CASE ClassifyFails
  BY <1>3, ClassifyFailsStep
<1>4. ASSUME NEW i \in DOMAIN work,
             \/ \E n \in 0..Target : Read(i, n)
             \/ \E ok \in BOOLEAN : Compute(i, ok)
             \/ Raise(i)
      PROVE  ProducerInv'
  BY <1>4, ReadStep, ComputeStep, RaiseStep
<1>5. CASE Finish
  BY <1>5, FinishStep
<1>6. CASE Publish
  BY <1>6, PublishStep
<1>7. CASE UNCHANGED vars
  BY <1>7 DEF vars, ProducerInv, Typed, TypeOK, Listed, BatchesListed, CountsAreRead,
     Classifying, Classified, Allowed, AllowStale, Processing, NamesShown, Publishing, Live, Agree
<1> QED
  BY <1>1, <1>2, <1>3, <1>4, <1>5, <1>6, <1>7 DEF Next
-----------------------------------------------------------------------------
(* The invariant, whatever the feed, the selector, the store and the       *)
(* engine do, and in whatever order the batches run.                       *)
THEOREM ProducerSafe == Spec => []ProducerInv
<1> QED
  BY ProducerInit, ProducerStep, PTL DEF Spec

(* What the state manager holds is the universe of the cycle, no symbol    *)
(* twice and none that has left (smc_producer.py, 593-606).                *)
THEOREM UniverseListed == Spec => []ShownInv
<1>1. ProducerInv => ShownInv
  BY DEF ProducerInv, Typed, Listed, ShownInv, UniverseShown
<1> QED
  BY <1>1, ProducerSafe, PTL

(* A screening that is LIVE shows every symbol LIVE and names no problem   *)
(* (smc_producer.py, 725-796 and 845-888).                                 *)
THEOREM LiveIsLive == Spec => []LiveMeansLive
<1>1. ProducerInv => LiveMeansLive
  BY DEF ProducerInv, Typed, Listed, Publishing, Live, NamesShown, LiveMeansLive
<1> QED
  BY <1>1, ProducerSafe, PTL

(* A processed symbol that is shown LIVE does not say that history is      *)
(* missing (smc_producer.py, 394-489 and 852).                             *)
THEOREM SignalsAgree == Spec => []SignalAgrees
<1>1. ProducerInv => SignalAgrees
  BY DEF ProducerInv, Publishing, Agree, Missing, SignalAgrees
<1> QED
  BY <1>1, ProducerSafe, PTL

(* While a symbol stays in the universe its hint is shown on: refresh,     *)
(* update_asset and the statistics only ever keep or add it                *)
(* (smc_state_manager.py, 44-67).                                          *)
THEOREM HintsAreKept == Spec => HintStays
<1> DEFINE Keeps == \A s \in DOMAIN shown \cap DOMAIN shown' : shown[s].hint => shown'[s].hint
<1>1. ASSUME ProducerInv, Next PROVE Keeps
  <2> SUFFICES ASSUME NEW s \in DOMAIN shown, s \in DOMAIN shown', shown[s].hint
               PROVE  shown'[s].hint
    OBVIOUS
  <2>1. ASSUME NEW fresh \in Selectors, NEW f \in Feeds, StartCycle(fresh, f)
        PROVE  shown'[s].hint
    BY <2>1 DEF StartCycle, Kept
  <2>2. ASSUME NEW i, NEW t, NEW signal, NEW computed, Update(i, t, signal, computed)
        PROVE  shown'[s].hint
    <3>1. shown' = [shown EXCEPT ![t].signal = signal, ![t].hint = @ \/ computed]
      BY <2>2 DEF Update
    <3>2. CASE t # s
      <4>1. shown'[s] = shown[s]
        BY <3>1, <3>2
      <4> QED
        BY <4>1
    <3>3. CASE t = s
      <4> DEFINE b == shown[s].hint \/ computed
      <4>1. shown[s] \in [signal : Signals, hint : BOOLEAN, local : States]
        BY <1>1 DEF ProducerInv, Typed, TypeOK
      <4>2. shown'[s] = [shown[s] EXCEPT !.signal = signal, !.hint = b]
        BY <3>1, <3>3
      <4>3. b
        OBVIOUS
      <4>4. shown'[s].hint = b
        <5> HIDE DEF b
        <5> QED
          BY <4>1, <4>2
      <4> QED
        BY <4>3, <4>4
    <3> QED
      BY <3>2, <3>3
  <2>3. ASSUME NEW i \in DOMAIN work, NEW n \in 0..Target, Read(i, n) PROVE shown'[s].hint
    <3>1. CASE n = 0 \/ n \in 1 .. (Enough - 1)
      <4>1. \E signal \in Signals : Update(i, Head(work[i].rest), signal, FALSE)
        BY <2>3, <3>1, ProducerAssumption DEF Read, Update, Signals
      <4> QED
        BY <2>2, <4>1
    <3>2. CASE n # 0 /\ n \notin 1 .. (Enough - 1)
      <4>1. shown' = shown
        BY <2>3, <3>2 DEF Read
      <4> QED
        BY <4>1
    <3> QED
      BY <3>1, <3>2
  <2>4. ASSUME NEW i \in DOMAIN work, NEW ok \in BOOLEAN, Compute(i, ok) PROVE shown'[s].hint
    BY <2>2, <2>4 DEF Compute, Answered
  <2>5. ASSUME NEW i \in DOMAIN work, Raise(i) PROVE shown'[s].hint
    BY <2>2, <2>5 DEF Raise
  <2>6. CASE Finish
    <3>1. shown'[s] = [shown[s] EXCEPT !.local = Local(s, counted[s])]
      BY <2>6 DEF Finish, WithStats
    <3>2. shown[s] \in [signal : Signals, hint : BOOLEAN, local : States]
      BY <1>1 DEF ProducerInv, Typed, TypeOK
    <3>3. shown'[s].hint = shown[s].hint
      BY <3>1, <3>2
    <3> QED
      BY <3>3
  <2>7. CASE \/ \E n \in 0..Target : \E stale \in BOOLEAN : Classify(n, stale)
             \/ ClassifyFails \/ Publish
    <3>1. shown' = shown
      BY <2>7 DEF Classify, ClassifyFails, Publish
    <3> QED
      BY <3>1
  <2> QED
    BY <1>1, <2>1, <2>3, <2>4, <2>5, <2>6, <2>7 DEF Next
<1>2. ASSUME ProducerInv, [Next]_vars PROVE [Keeps]_vars
  BY <1>1, <1>2
<1> QED
  BY <1>2, ProducerInit, ProducerStep, PTL DEF Spec, HintStays
=============================================================================
