----------------------------- MODULE SmcEngine ------------------------------
(***************************************************************************)
(* The SMC engine of one symbol (SmcCoreEngine.process_snapshot): each     *)
(* cycle it reads the last Limit bars of the store and computes structure, *)
(* liquidity and zones from them.  Of all it computes only the event       *)
(* history outlives the cycle, in memory, until the process restarts.      *)
(*                                                                         *)
(* Bars come in order.  The bounded upsets are what the feed and the host  *)
(* add: a missing bar that is filled in later, a bar that arrives before   *)
(* the engine has looked at the one before it, and a restart.              *)
(***************************************************************************)
EXTENDS SmcZones

CONSTANTS
    Limit,        \* rows read from the store: config "limit"
    Shapes,       \* the [o, h, l, c] a bar may have
    Warmups,      \* sequences of shapes the store may hold at the start
    Epoch,        \* the minute the first bar opens
    BarMinutes,   \* the length of a bar
    MaxBars,      \* bound: bars that arrive after the warm-up
    MaxUpsets     \* bound: missing bars, missed cycles and restarts

ASSUME SmcEngineAssumption ==
    /\ {Limit, BarMinutes} \subseteq Nat \ {0}
    /\ {Epoch, MaxBars, MaxUpsets} \subseteq Nat
    /\ \A s \in Shapes : /\ s \in [o : Nat \ {0}, h : Nat \ {0}, l : Nat \ {0}, c : Nat \ {0}]
                         /\ s.l <= Smaller(s.o, s.c) /\ Larger(s.o, s.c) <= s.h
    /\ Warmups \subseteq Seq(Shapes) \ {<<>>}

VARIABLES
    bars,      \* what get_df(limit = Limit) returns: the newest bars, by time
    history,   \* EVENT_HISTORY of the symbol
    hint,      \* the last SmcHint, with the bars it was computed from
    arrived,   \* bars that have arrived since the start
    upsets     \* upsets so far

vars == <<bars, history, hint, arrived, upsets>>

----------------------------------------------------------------------------

Bar(shape, t) == [o |-> shape.o, h |-> shape.h, l |-> shape.l, c |-> shape.c, t |-> t]

NoHint == [bars |-> <<>>]

\* process_snapshot: the three parts in order; the zones see the new history
Hint(frame, past) ==
    LET st == ComputeStructure(frame)
        liquidity == ComputeLiquidity(frame, st)
        kept == UpdateHistory(past, st.events, st.end)
    IN  [bars |-> frame, structure |-> st, liquidity |-> liquidity, history |-> kept,
         zones |-> ComputeZones(frame, st, kept, liquidity)]

Seen == hint.bars = bars

Upset == upsets < MaxUpsets /\ upsets' = upsets + 1

----------------------------------------------------------------------------

Init ==
    /\ \E w \in Warmups :
           bars = LastN([i \in DOMAIN w |-> Bar(w[i], Epoch + i * BarMinutes)], Limit)
    /\ history = <<>>
    /\ hint = NoHint
    /\ arrived = 0
    /\ upsets = 0

Arrive(new) ==
    /\ arrived < MaxBars
    /\ arrived' = arrived + 1
    /\ bars' = LastN(Sorted(Append(bars, new), "t"), Limit)
    /\ UNCHANGED <<history, hint>>

\* The next bar, after a cycle
NewBar(shape) ==
    /\ Seen
    /\ Arrive(Bar(shape, Last(bars).t + BarMinutes))
    /\ UNCHANGED upsets

\* The next bar, before the engine has seen the last one
MissedCycle(shape) ==
    /\ ~Seen
    /\ Upset
    /\ Arrive(Bar(shape, Last(bars).t + BarMinutes))

\* A bar goes missing and the one after it arrives
SkippedBar(shape) ==
    /\ Upset
    /\ Arrive(Bar(shape, Last(bars).t + 2 * BarMinutes))

\* A missing bar is filled in
LateBar(shape) ==
    \E i \in 1 .. Len(bars) - 1 :
        /\ bars[i + 1].t > bars[i].t + BarMinutes
        /\ Arrive(Bar(shape, bars[i].t + BarMinutes))
        /\ UNCHANGED upsets

ProcessSnapshot ==
    LET new == Hint(bars, history)
    IN  /\ hint' = new
        /\ history' = new.history
        /\ UNCHANGED <<bars, arrived, upsets>>

\* The history was in memory only; the store reads its bars back
Restart ==
    /\ hint # NoHint
    /\ Upset
    /\ history' = <<>>
    /\ hint' = NoHint
    /\ UNCHANGED <<bars, arrived>>

Next ==
    \/ \E shape \in Shapes : \/ NewBar(shape)
                             \/ MissedCycle(shape)
                             \/ SkippedBar(shape)
                             \/ LateBar(shape)
    \/ ProcessSnapshot
    \/ Restart

Spec == Init /\ [][Next]_vars

----------------------------------------------------------------------------
(* Properties.                                                             *)

Computed == hint # NoHint
Events == hint.structure.events
Zones == hint.zones.zones
Times(frame) == {frame[i].t : i \in DOMAIN frame}

\* No repainting.  While bars arrive in order a swing that was reported stays
\* until the window leaves it behind, and none is added among the bars that
\* already had MinSwingBars bars on both sides.
SwingsOf(h) == {[t |-> s.t, kind |-> s.kind] : s \in Range(h.structure.swings)}
Inner(frame) ==
    LET w == Prepared(frame) IN {w[i].t : i \in (SwingSpan + 1) .. (Len(w) - SwingSpan)}
Extends(new, old) == \A t \in Times(new) : t \in Times(old) \/ t > Last(old).t
SwingsHold ==
    [][Computed /\ hint' # NoHint /\ Extends(hint'.bars, hint.bars)
       => /\ \A s \in SwingsOf(hint) : s.t \in Inner(hint'.bars) => s \in SwingsOf(hint')
          /\ \A s \in SwingsOf(hint') : s.t \in Inner(hint.bars) => s \in SwingsOf(hint)]_vars

\* BOS and CHOCH tell a story: the first event of a window continues, and an
\* event is a CHOCH exactly when it breaks against the event before it.
ChochTurns ==
    Computed => \A i \in DOMAIN Events :
        Events[i].type = "CHOCH" <=> i > 1 /\ Events[i].dir # Events[i - 1].dir

\* The history forgets an event only because it is too old, or because
\* HistoryEntries others are at least as new; and it is in order of time
\* without duplicates.
Superseded(e, h) == Cardinality({k \in DOMAIN h : h[k].t >= e.t}) >= HistoryEntries
HistoryRemembers ==
    [][hint' # NoHint /\ hint' # hint
       => /\ \A e \in Range(history) \cup Range(hint'.structure.events) :
                 \/ \E k \in DOMAIN history' : EventKey(history'[k]) = EventKey(e)
                 \/ e.t < hint'.structure.end - HistoryMinutes
                 \/ Superseded(e, history')
          /\ \A i, j \in DOMAIN history' :
                 i < j => /\ history'[i].t <= history'[j].t
                          /\ EventKey(history'[i]) # EventKey(history'[j])]_vars

\* An OTE zone lies inside its leg, and its side, taken from the leg's prices,
\* is the side of the leg's label, taken from other swings.
OteWithLeg ==
    Computed => \A z \in Range(hint.structure.ote) :
        /\ z.dir = ImpulseSide(z.leg)
        /\ 100 * Smaller(z.leg.from.price, z.leg.to.price) <= z.lo
        /\ z.lo < z.hi
        /\ z.hi <= 100 * Larger(z.leg.from.price, z.leg.to.price)

\* Magnets are bands of price in ascending order that do not overlap, although
\* each is gathered greedily around a moving average.
MagnetsOrdered ==
    Computed => LET ms == hint.liquidity.magnets
                IN  \A i, j \in DOMAIN ms : i < j => ms[i].hi < ms[j].lo

\* A cycle over bars the engine has seen changes nothing.
CyclesSettle == [][Computed /\ Seen /\ hint' # NoHint => UNCHANGED <<history, hint>>]_vars

=============================================================================
