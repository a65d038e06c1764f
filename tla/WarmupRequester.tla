-------------------------- MODULE WarmupRequester --------------------------
(***************************************************************************)
(* The history requester (app/fxcm_warmup_requester.py) with the history   *)
(* states it acts on (app/fxcm_history_state.py).  Every Poll it looks at  *)
(* the tail of each series in the store and asks the connector, over a     *)
(* Redis channel, to warm up a short history or to back-fill a stale one,  *)
(* at most once per Cooldown for each kind of request.                     *)
(*                                                                         *)
(* Time passes in ticks.  Times are kept as ages, which stop growing where *)
(* the code can no longer tell them apart.  now_ms is read once, when a    *)
(* cycle begins; begun is what has passed since.                           *)
(***************************************************************************)
EXTENDS Naturals, Sequences, FiniteSets, SequencesExt

CONSTANTS
    Order,        \* sorted(allowed_pairs), a sequence of series
    OneMinute,    \* the series with tf 1m
    Desired,      \* SMC_RUNTIME_PARAMS["limit"]: the bars asked of get_df
    Contract,     \* min_history_bars_by_symbol in bars of the series, 0 if none
    StaleAfter,   \* stale_k * tf_ms
    Poll, Cooldown,
    MaxElapsed,   \* bound: a cycle lasts at most this long
    Faults        \* of "publish", "lost", "clobber"

Pairs == ToSet(Order)
Types == {"fxcm_warmup", "fxcm_backfill"}
Keys == Pairs \X Types

ASSUME RequesterAssumption ==
    /\ {Desired, Poll, Cooldown} \subseteq Nat \ {0}
    /\ {StaleAfter, MaxElapsed} \subseteq Nat
    /\ Order \in Seq(Pairs) /\ IsInjective(Order) /\ OneMinute \subseteq Pairs
    /\ Contract \in [Pairs -> Nat]

VARIABLES
    bars, late,   \* what the store has of each series: bars, age of the last
    open,         \* the ingestor lets bars in
    asked,        \* _last_request_ms: age of the last request by key
    todo,         \* the series this cycle has still to look at
    held,         \* the request in the awaited redis.publish
    begun,        \* time since now_ms was read
    pause,        \* time slept since the cycle ended
    wire,         \* requests on their way to the connector
    spoke,        \* time since a request was really sent (history)
    found         \* what the last look at a series found (history)
vars == <<bars, late, open, asked, todo, held, begun, pause, wire, spoke, found>>

MaxLate == StaleAfter + MaxElapsed + 1
MaxAsked == Cooldown + MaxElapsed
Older(n, max) == IF n < max THEN n + 1 ELSE max

---------------------------------------------------------------------------
\* classify_history, on the at most Desired bars that get_df(limit) returns.
Age(p) == IF late[p] > begun THEN late[p] - begun ELSE 0
State(p) == CASE bars[p] < Desired   -> "insufficient"
              [] Age(p) > StaleAfter -> "stale_tail"
              [] OTHER               -> "ok"

\* The kind of request a series calls for, if any.
Wanted(p) ==
    CASE State(p) = "insufficient" -> {"fxcm_warmup"}
      [] State(p) = "stale_tail" ->
            IF p \in OneMinute THEN {"fxcm_warmup"} ELSE {"fxcm_backfill"}
      [] OTHER -> IF bars[p] < Contract[p] THEN {"fxcm_warmup"} ELSE {}

\* Mutant: the comparison with the cooldown is one tick short
Due_Early(k) == k \in DOMAIN asked => asked[k] + 1 - begun >= Cooldown

\* Mutant: an incomplete history waits for ever once it was asked for
Due_Once(k) == k \notin DOMAIN asked

\* _rate_limit_ok
Due(k) == k \in DOMAIN asked => asked[k] - begun >= Cooldown

\* Mutant: only the warm-up cooldown is lifted
Cleared_Warmup(p) == [k \in {j \in DOMAIN asked : j # <<p, "fxcm_warmup">>} |-> asked[k]]

\* _clear_active_issue
Cleared(p) == [k \in {j \in DOMAIN asked : j[1] # p} |-> asked[k]]

\* _last_request_ms[key] = now_ms, of the request just sent
Recorded == [k \in DOMAIN asked \cup held |->
                IF k \in held THEN begun ELSE asked[k]]

Busy == todo # <<>> \/ held # {}

Init ==
    /\ bars \in [Pairs -> 0..Desired]
    /\ late \in [Pairs -> 0..MaxLate]
    /\ open \in BOOLEAN
    /\ asked = <<>>
    /\ todo = <<>> /\ held = {} /\ begun = 0 /\ pause = Poll
    /\ wire = {}
    /\ spoke = [k \in Keys |-> Cooldown]
    /\ found = [p \in Pairs |-> "unseen"]

StartCycle ==
    /\ ~Busy /\ pause = Poll
    /\ todo' = Order /\ begun' = 0 /\ pause' = 0
    /\ UNCHANGED <<bars, late, open, asked, held, wire, spoke, found>>

\* One series up to the await of redis.publish: the answer of get_df and
\* everything decided from it.
Assess ==
    /\ todo # <<>> /\ held = {}
    /\ LET p == Head(todo) IN
       /\ held' = {k \in {p} \X Wanted(p) : Due(k)}
       /\ asked' = IF Wanted(p) = {} THEN Cleared(p) ELSE asked
       /\ spoke' = [k \in Keys |-> IF Wanted(p) = {} /\ k[1] = p
                                   THEN Cooldown ELSE spoke[k]]
       /\ found' = [found EXCEPT ![p] = State(p)]
    /\ todo' = Tail(todo)
    /\ UNCHANGED <<bars, late, open, begun, pause, wire>>

Publish ==
    /\ held # {}
    /\ wire' = wire \cup held
    /\ asked' = Recorded
    /\ spoke' = [k \in Keys |-> IF k \in held THEN 0 ELSE spoke[k]]
    /\ held' = {}
    /\ UNCHANGED <<bars, late, open, todo, begun, pause, found>>

\* redis.publish raises: logged, and nothing is recorded.
PublishFails ==
    /\ "publish" \in Faults /\ held # {}
    /\ held' = {}
    /\ UNCHANGED <<bars, late, open, asked, todo, begun, pause, wire, spoke, found>>

---------------------------------------------------------------------------
\* The connector, the market and the store, as the requester sees them.
Tick ==
    /\ Busy => begun < MaxElapsed
    /\ begun' = IF Busy THEN begun + 1 ELSE begun
    /\ pause' = IF Busy THEN pause ELSE Older(pause, Poll)
    /\ late' = [p \in Pairs |-> Older(late[p], MaxLate)]
    /\ asked' = [k \in DOMAIN asked |-> Older(asked[k], MaxAsked)]
    /\ spoke' = [k \in Keys |-> Older(spoke[k], Cooldown)]
    /\ UNCHANGED <<bars, open, todo, held, wire, found>>

NewBar(p) ==
    /\ open
    /\ bars' = [bars EXCEPT ![p] = Older(@, Desired)]
    /\ late' = [late EXCEPT ![p] = 0]
    /\ UNCHANGED <<open, asked, todo, held, begun, pause, wire, spoke, found>>

\* The answer, in full; the ingestor drops it while the market is closed.
Answer(k) ==
    /\ k \in wire
    /\ wire' = wire \ {k}
    /\ bars' = IF open THEN [bars EXCEPT ![k[1]] = Desired] ELSE bars
    /\ late' = IF open THEN [late EXCEPT ![k[1]] = 0] ELSE late
    /\ UNCHANGED <<open, asked, todo, held, begun, pause, spoke, found>>

\* PUBLISH reaches nobody while the connector is not subscribed.
Lose(k) ==
    /\ "lost" \in Faults /\ k \in wire
    /\ wire' = wire \ {k}
    /\ UNCHANGED <<bars, late, open, asked, todo, held, begun, pause, spoke, found>>

\* The store replaces a long history by a short one: put_bars merges with RAM
\* only, which may be cold (see UnifiedStore, HistorySurvives).
Clobber(p) ==
    /\ "clobber" \in Faults
    /\ bars[p] > 1
    /\ bars' = [bars EXCEPT ![p] = 1]
    /\ UNCHANGED <<late, open, asked, todo, held, begun, pause, wire, spoke, found>>

Trade ==
    /\ open' = ~open
    /\ UNCHANGED <<bars, late, asked, todo, held, begun, pause, wire, spoke, found>>

Next ==
    \/ StartCycle \/ Assess \/ Publish \/ PublishFails
    \/ Tick \/ Trade
    \/ \E p \in Pairs : NewBar(p) \/ Clobber(p)
    \/ \E k \in Keys : Answer(k) \/ Lose(k)

Spec == Init /\ [][Next]_vars

\* The loop and time go on; a request published or answered again and again
\* gets through now and then.
FairSpec ==
    /\ Spec
    /\ WF_vars(StartCycle) /\ WF_vars(Assess) /\ WF_vars(Publish \/ PublishFails)
    /\ WF_vars(Tick)
    /\ \A p \in Pairs :
        /\ SF_vars(Publish /\ p \in {k[1] : k \in held})
        /\ SF_vars(\E c \in Types : Answer(<<p, c>>))

---------------------------------------------------------------------------
\* Two requests of one kind for one series are a cooldown apart, less the
\* time a cycle may take, because the time recorded is that of the cycle's
\* start; only a return to ok in between lifts this (cooldown_sec,
\* _rate_limit_ok).
NeverTooOften ==
    [][\A k \in Keys : (k \in wire' \ wire /\ held # {})
            => spoke[k] + MaxElapsed >= Cooldown]_vars

\* p was last seen ok, and a look that finds it short or stale asks at once.
Prompt(p) ==
    (found[p] = "ok" /\ todo # <<>> /\ Head(todo) = p
        /\ todo' = Tail(todo) /\ found'[p] # "ok") => held' # {}

\* A series without a contract beyond Desired is asked for in the very
\* cycle that finds it worse than it was: returning to ok cleared every
\* cooldown it had (_clear_active_issue).
PromptOnce == [][\A p \in Pairs : Contract[p] <= Desired => Prompt(p)]_vars

\* Once the market stays open every series has, again and again, the bars
\* the engine needs, although requests are lost, fail to be published, and
\* the store may forget what it had.
HistoryArrives ==
    \A p \in Pairs : (<>[]open) => []<>(bars[p] >= Desired)

===========================================================================
