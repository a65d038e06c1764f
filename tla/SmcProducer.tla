---------------------------- MODULE SmcProducer ----------------------------
(***************************************************************************)
(* The SMC producer (app/smc_producer.py) with the state manager it writes *)
(* (app/smc_state_manager.py).  Every cycle it refreshes its universe,     *)
(* asks the feed state whether to compute at all, classifies the history   *)
(* of each symbol, runs the engine over batches of symbols that interleave *)
(* at their awaits, and publishes what it has for every symbol.            *)
(*                                                                         *)
(* The feed and the selector are read at one point of a cycle, so they are *)
(* chosen there.  bars is what the store has shown of a symbol: a read     *)
(* finds that or more, since nothing in this process shortens a history    *)
(* (but see UnifiedStore, HistorySurvives).                                *)
(***************************************************************************)
EXTENDS Naturals, Sequences, FiniteSets, SequencesExt

CONSTANTS
    Symbols,
    ListOf,       \* the order in which list(set) yields a set of symbols
    First,        \* the first of a set of symbols by name, as sorted() has it
    Configured,   \* assets at the start, a sequence
    Selectors,    \* what get_fast_symbols may return
    Feeds,        \* feed states the listener may report
    MinBars,      \* contract_min_bars, at least 1 and at most Target
    Target,       \* SMC_RUNTIME_PARAMS["limit"]
    Enough,       \* max(5, lookback // 2)
    MaxPerCycle, BatchSize

ASSUME ProducerAssumption ==
    /\ Target \in Nat /\ Enough \in 1..Target
    /\ MinBars \in [Symbols -> 1..Target]
    /\ {MaxPerCycle, BatchSize} \subseteq Nat \ {0}
    /\ Configured \in Seq(Symbols) /\ Configured # <<>> /\ IsInjective(Configured)
    /\ Selectors \subseteq SUBSET Symbols

ASSUME OrdersAssumption ==
    /\ \A S \in SUBSET Symbols :
        ListOf[S] \in Seq(Symbols) /\ ToSet(ListOf[S]) = S /\ IsInjective(ListOf[S])
    /\ \A S \in (SUBSET Symbols) \ {{}} : First[S] \in S

VARIABLES
    pc,           \* the await the loop is at
    feed,         \* the feed state this cycle was gated by
    bars,         \* the most bars a read has found, by symbol
    assets,       \* assets_current
    shown,        \* SmcStateManager.state
    todo,         \* symbols still to classify
    counted,      \* bars_by_symbol
    ready, readyMin,   \* symbols with Target, with MinBars good bars
    hist,         \* history_by_symbol: the history_state of each symbol, none if not read
    problem,      \* s2_meta_last: its s2_active_symbol and s2_active_state
    work,         \* the batches: symbols left, and whether the engine runs
    done,         \* symbols processed in this cycle (history)
    meta,         \* pipeline_meta_last: its pipeline_state
    reason,       \* cycle_reason of the publication in hand
    said          \* reason, pipeline_state and problem last published
vars == <<pc, feed, bars, assets, shown, todo, counted, ready, readyMin, hist,
          problem, work, done, meta, reason, said>>

---------------------------------------------------------------------------
Blank == [signal |-> "SMC_NONE", hint |-> FALSE, local |-> "none"]

\* _should_run_smc_cycle_by_fxcm_status
ShouldRun(f) ==
    CASE f.market = "closed" -> f.price = "ok" /\ f.recent
      [] f.market = "open"   -> f.price \in {"", "ok"}
      [] OTHER               -> TRUE

\* A stale tail is no obstacle while the market gives no bars.
AllowStale(f) == f.market # "open" \/ f.ohlcv \in {"delayed", "down"}

\* classify_history, of n bars of which the last is stale or not
HistoryState(s, n, stale) ==
    CASE n < MinBars[s] -> "insufficient"
      [] n >= MinBars[s] /\ stale -> "stale_tail"
      [] OTHER -> "ok"

\* _history_ok_for_compute
Allowed(state) == state = "ok" \/ (state = "stale_tail" /\ AllowStale(feed))

Good(s, n, stale) == Allowed(HistoryState(s, n, stale))

\* The problem the metadata name: a stale tail before a short history, and of
\* those the first by name.
Unread == [s \in Symbols |-> "none"]
NoProblem == [symbol |-> "none", state |-> "none"]
Problem(h) ==
    LET of(state) == {s \in Symbols : h[s] = state}
        active(state) == [symbol |-> First[of(state)], state |-> state]
    IN  CASE of("stale_tail") # {} /\ ~Allowed("stale_tail") -> active("stale_tail")
          [] of("insufficient") # {}
             /\ (of("stale_tail") = {} \/ Allowed("stale_tail")) -> active("insufficient")
          [] OTHER -> NoProblem

Full(s, n, stale) == n = Target /\ Good(s, n, stale)

\* Mutant: one bar short counts as LIVE
Local_Early(s, n) == CASE n < MinBars[s] -> "COLD" [] n + 1 < Target -> "WARMUP"
                       [] OTHER -> "LIVE"

Local(s, n) == CASE n < MinBars[s] -> "COLD"
                 [] n < Target     -> "WARMUP"
                 [] OTHER          -> "LIVE"

\* Mutant: the pipeline is LIVE as soon as every symbol has its minimum
PipelineState_Min ==
    CASE readyMin = {} -> "COLD" [] readyMin = ToSet(assets) -> "LIVE" [] OTHER -> "WARMUP"

\* _build_pipeline_meta
PipelineState ==
    CASE readyMin = {}                 -> "COLD"
      [] ready = ToSet(assets)         -> "LIVE"
      [] OTHER                         -> "WARMUP"

\* _apply_local_pipeline_stats; a symbol whose read failed counts 0 bars.
WithStats(sh, n) == [s \in DOMAIN sh |-> [sh[s] EXCEPT !.local = Local(s, n[s])]]

\* The universe of the next cycle; an empty or failed selector changes nothing.
Refreshed(fresh) ==
    IF fresh = {} THEN assets ELSE ListOf[fresh]

\* Mutant: every symbol of the selector is initialised anew
Kept_Reset(universe) == [s \in universe |-> Blank]

\* Mutant: a removed symbol keeps its state
Kept_Stays(universe) == [s \in universe \cup DOMAIN shown |->
    IF s \in DOMAIN shown THEN shown[s] ELSE Blank]

\* init_asset for the symbols that came, pop for those that left
Kept(universe) == [s \in universe |-> IF s \in DOMAIN shown THEN shown[s] ELSE Blank]

\* _select_symbols_for_cycle
Selected == SubSeq(assets, 1, IF MaxPerCycle < Len(assets) THEN MaxPerCycle ELSE Len(assets))

\* Mutant: the last batch is lost
Batches_Short(sel) ==
    [i \in 1..((Len(sel) - 1) \div BatchSize) |->
        [rest |-> SubSeq(sel, (i - 1) * BatchSize + 1, i * BatchSize), engine |-> FALSE]]

\* The selected symbols cut into batches of BatchSize.
Batches(sel) ==
    [i \in 1..((Len(sel) + BatchSize - 1) \div BatchSize) |->
        [rest |-> SubSeq(sel, (i - 1) * BatchSize + 1,
                         IF i * BatchSize < Len(sel) THEN i * BatchSize ELSE Len(sel)),
         engine |-> FALSE]]

Init ==
    /\ pc = "publish" /\ reason = "smc_bootstrap"
    /\ feed \in Feeds
    /\ bars \in [Symbols -> 0..Target]
    /\ assets = Configured
    /\ shown = [s \in ToSet(Configured) |-> [Blank EXCEPT !.local = "COLD"]]
    /\ todo = <<>> /\ counted = [s \in Symbols |-> 0]
    /\ ready = {} /\ readyMin = {} /\ work = <<>> /\ done = {}
    /\ hist = Unread /\ problem = NoProblem
    /\ meta = "COLD"
    /\ said = [reason |-> "none", state |-> "none", problem |-> NoProblem]

\* From the top of the loop to its first read of a history or, when the feed
\* gives no reason to compute, to the publication of an idle cycle.
StartCycle(fresh, f) ==
    /\ pc = "sleep"
    /\ assets' = Refreshed(fresh)
    /\ shown' = Kept(ToSet(assets'))
    /\ feed' = f
    /\ done' = {}
    /\ IF ShouldRun(f)
       THEN /\ pc' = "classify" /\ todo' = assets'
            /\ UNCHANGED reason
       ELSE /\ pc' = "publish" /\ reason' = "smc_idle_fxcm_status"
            /\ UNCHANGED todo
    /\ UNCHANGED <<bars, counted, ready, readyMin, hist, problem, work, meta, said>>

\* After the last symbol the histories are summed up and the batches started
\* without another await.
Advance(seen) ==
    /\ todo' = Tail(todo)
    /\ IF Len(todo) = 1
       THEN /\ pc' = "process" /\ work' = Batches(Selected)
            /\ problem' = Problem(seen) /\ hist' = Unread
       ELSE hist' = seen /\ UNCHANGED <<pc, work, problem>>

\* The store answers with n bars whose tail is stale or not.
Classify(n, stale) ==
    /\ pc = "classify"
    /\ LET s == Head(todo) IN
       /\ n >= bars[s]
       /\ bars' = [bars EXCEPT ![s] = n]
       /\ counted' = [counted EXCEPT ![s] = n]
       /\ readyMin' = readyMin \cup {t \in {s} : Good(s, n, stale)}
       /\ ready' = ready \cup {t \in {s} : Full(s, n, stale)}
       /\ Advance([hist EXCEPT ![s] = HistoryState(s, n, stale)])
    /\ UNCHANGED <<feed, assets, shown, done, meta, reason, said>>

\* The read raises: the symbol counts as having no bars, and has no history.
ClassifyFails ==
    /\ pc = "classify"
    /\ Advance(hist)
    /\ UNCHANGED <<feed, bars, assets, shown, counted, ready, readyMin, done,
                   meta, reason, said>>

\* update_asset merges into what the symbol shows; an old hint stays.
Update(i, s, signal, computed) ==
    /\ shown' = [shown EXCEPT ![s].signal = signal, ![s].hint = @ \/ computed]
    /\ done' = done \cup {s}
    /\ work' = [work EXCEPT ![i] = [rest |-> Tail(@.rest), engine |-> FALSE]]

Working(i) == pc = "process" /\ i \in DOMAIN work /\ work[i].rest # <<>>

\* process_smc_batch after its own read of the history
Read(i, n) ==
    /\ Working(i) /\ ~work[i].engine
    /\ LET s == Head(work[i].rest) IN
       /\ n >= bars[s]
       /\ bars' = [bars EXCEPT ![s] = n]
       /\ CASE n = 0      -> Update(i, s, "SMC_NO_OHLCV", FALSE)
            [] n \in 1..(Enough - 1) -> Update(i, s, "SMC_WARMUP", FALSE)
            [] OTHER      -> /\ work' = [work EXCEPT ![i].engine = TRUE]
                             /\ UNCHANGED <<shown, done>>
    /\ UNCHANGED <<pc, feed, assets, todo, counted, ready, readyMin, hist, problem,
                   meta, reason, said>>

\* What the batch makes of the engine's answer, a hint or None
Answered(i, s, ok) == Update(i, s, IF ok THEN "SMC_HINT" ELSE "SMC_PENDING", ok)

\* The engine's answer; it gives None where its input or its run fails.
Compute(i, ok) ==
    /\ Working(i) /\ work[i].engine
    /\ Answered(i, Head(work[i].rest), ok)
    /\ UNCHANGED <<pc, feed, bars, assets, todo, counted, ready, readyMin, hist,
                   problem, meta, reason, said>>

\* Anything that raises for one symbol, at either await.
Raise(i) ==
    /\ Working(i)
    /\ Update(i, Head(work[i].rest), "SMC_ERROR", FALSE)
    /\ UNCHANGED <<pc, feed, bars, assets, todo, counted, ready, readyMin, hist,
                   problem, meta, reason, said>>

\* gather returns: statistics, metadata, and the publication of the cycle
Finish ==
    /\ pc = "process" /\ \A i \in DOMAIN work : work[i].rest = <<>>
    /\ shown' = WithStats(shown, counted)
    /\ meta' = PipelineState
    /\ pc' = "publish" /\ reason' = "smc_screening"
    /\ UNCHANGED <<feed, bars, assets, todo, counted, ready, readyMin, hist, problem,
                   work, done, said>>

\* pipeline_meta_last comes after "pipeline_state": "IDLE" in the literal of
\* an idle cycle and replaces it.
Publish ==
    /\ pc = "publish"
    /\ said' = [reason |-> reason, state |-> meta, problem |-> problem]
    /\ pc' = "sleep"
    \* The counters of the cycle are not read again.
    /\ work' = <<>> /\ counted' = [s \in Symbols |-> 0] /\ ready' = {} /\ readyMin' = {}
    /\ UNCHANGED <<feed, bars, assets, shown, todo, hist, problem, done, meta, reason>>

Next ==
    \/ \E fresh \in Selectors, f \in Feeds : StartCycle(fresh, f)
    \/ \E n \in 0..Target : \E stale \in BOOLEAN : Classify(n, stale)
    \/ ClassifyFails
    \/ \E i \in DOMAIN work :
        \/ \E n \in 0..Target : Read(i, n)
        \/ \E ok \in BOOLEAN : Compute(i, ok)
        \/ Raise(i)
    \/ Finish
    \/ Publish

Spec == Init /\ [][Next]_vars

\* asyncio resumes every task whose await has returned.
FairSpec == Spec /\ WF_vars(Next)

---------------------------------------------------------------------------
Signals == {"SMC_NONE", "SMC_NO_OHLCV", "SMC_WARMUP", "SMC_PENDING", "SMC_HINT", "SMC_ERROR"}
States == {"none", "COLD", "WARMUP", "LIVE"}

\* Every variable has its type; whatever has the target has the minimum.
TypeOK ==
    /\ pc \in {"sleep", "classify", "process", "publish"}
    /\ feed \in Feeds
    /\ bars \in [Symbols -> 0..Target] /\ counted \in [Symbols -> 0..Target]
    /\ assets \in Seq(Symbols)
    /\ \A s \in DOMAIN shown :
        shown[s] \in [signal : Signals, hint : BOOLEAN, local : States]
    /\ todo \in Seq(Symbols)
    /\ ready \subseteq readyMin /\ readyMin \subseteq Symbols
    /\ hist \in [Symbols -> {"none", "ok", "stale_tail", "insufficient"}]
    /\ problem.symbol \in Symbols \cup {"none"}
    /\ problem.state \in {"none", "stale_tail", "insufficient"}
    /\ done \subseteq Symbols
    /\ meta \in States
    /\ said.state \in States

\* What is published lists the universe of the cycle, no symbol twice and
\* none that has left, although the error path can create an asset again.
UniverseShown == DOMAIN shown = ToSet(assets) /\ IsInjective(assets)

\* Types, with the universe and what is published of it.
ShownInv == TypeOK /\ UniverseShown

\* A screening that calls the pipeline LIVE shows every symbol of it LIVE and
\* names no problem, and a problem it names is one of a symbol it shows,
\* although the three come from different counts (pipeline meta, S2 meta,
\* local stats).
LiveMeansLive ==
    (pc = "sleep" /\ said.reason = "smc_screening") =>
        /\ said.problem.symbol \in DOMAIN shown \cup {"none"}
        /\ said.state = "LIVE" =>
              /\ said.problem = NoProblem
              /\ \A s \in DOMAIN shown : shown[s].local = "LIVE"

\* A processed symbol that is shown LIVE does not say that history is missing:
\* the count and the batch read the store at different times.
SignalAgrees ==
    (pc = "sleep" /\ said.reason = "smc_screening")
        => \A s \in done : shown[s].local = "LIVE"
                => shown[s].signal \notin {"SMC_NONE", "SMC_NO_OHLCV", "SMC_WARMUP"}

\* While a symbol stays in the universe a hint once computed is shown on,
\* whatever fails afterwards.
HintStays ==
    [][\A s \in DOMAIN shown \cap DOMAIN shown' : shown[s].hint => shown'[s].hint]_vars

\* A symbol within the selection of a feed that lets the engine run is
\* processed again and again, whatever fails for it or for the others.
Screened ==
    \A s \in Symbols :
        <>[](ShouldRun(feed) /\ s \in ToSet(Selected)) => []<>(s \in done)

===========================================================================
