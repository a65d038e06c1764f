---------------------------- MODULE SmcStructure ----------------------------
(***************************************************************************)
(* The market structure of a window of bars (smc_structure): swings, legs, *)
(* trend, break events, active range and OTE zones, and the history that   *)
(* keeps the events after the window has moved on.  Everything here is a   *)
(* function of its arguments; SmcEngine owns the state.                    *)
(*                                                                         *)
(* A bar is [o, h, l, c, t], t its opening minute since the epoch.  Prices *)
(* are integers in units small enough for every average taken by the code  *)
(* to be exact.  A setting that is a fraction is a pair <<num, den>>, and  *)
(* an ATR is held in units of 1 / AtrUnit of a price.                      *)
(***************************************************************************)
EXTENDS Integers, Sequences, FiniteSets, FiniteSetsExt, SequencesExt

CONSTANTS
    MaxLookback,      \* max_lookback_bars
    MinSwingBars,     \* min_swing_bars
    MinRangeBars,     \* min_range_bars
    EqTolerance,      \* eq_tolerance_pct, a fraction
    AtrPeriod,        \* ATR_PERIOD_M1
    BosMinAtr,        \* bos_min_move_atr_m1, a fraction
    BosMinPct,        \* bos_min_move_pct_m1, a fraction
    LegMinAtr,        \* leg_min_amplitude_atr_m1, a fraction
    OteMin, OteMax,   \* ote_min and ote_max, in hundredths
    OteTrendOnly,     \* ote_trend_only_m1
    OtePerSide,       \* ote_max_active_per_side_m1
    HistoryMinutes,   \* structure_event_history_max_minutes
    HistoryEntries    \* structure_event_history_max_entries

ASSUME SmcStructureAssumption ==
    /\ {MaxLookback, MinRangeBars, AtrPeriod, HistoryEntries} \subseteq Nat \ {0}
    /\ {MinSwingBars, OtePerSide, HistoryMinutes} \subseteq Nat
    /\ OteMin \in 0 .. 100 /\ OteMax \in 0 .. 100
    /\ OteTrendOnly \in BOOLEAN
    /\ \A f \in {EqTolerance, BosMinAtr, BosMinPct, LegMinAtr} :
           f[1] \in Nat /\ f[2] \in Nat \ {0}

----------------------------------------------------------------------------
(* Helpers.                                                                *)

Abs(x) == IF x < 0 THEN -x ELSE x
Larger(x, y) == IF x >= y THEN x ELSE y
Smaller(x, y) == IF x <= y THEN x ELSE y
LastN(s, n) == SubSeq(s, Larger(1, Len(s) - n + 1), Len(s))

\* A stable sort by an integer key, list.sort(key=...), as an insertion sort
SortedBy(s, Key(_)) ==
    LET place(sorted, x) ==
            InsertAt(sorted, 1 + Cardinality({j \in DOMAIN sorted : Key(sorted[j]) <= Key(x)}), x)
    IN  FoldLeft(place, <<>>, s)

Sorted(s, field) == SortedBy(s, LAMBDA x : x[field])

Indices(s) == [i \in DOMAIN s |-> i]

\* The items of s at the indices of I
Chosen(s, I) == FoldLeft(LAMBDA out, i : IF i \in I THEN Append(out, s[i]) ELSE out, <<>>, Indices(s))

OfKind(swings, kind) == Chosen(swings, {i \in DOMAIN swings : swings[i].kind = kind})

----------------------------------------------------------------------------
(* The window and its ATR.                                                 *)

Prepared(bars) == Sorted(LastN(bars, MaxLookback), "t")

AtrUnit == 2 * AtrPeriod

TrueRange(w, i) ==
    LET b == w[i]
    IN  IF i = 1 THEN b.h - b.l
        ELSE Larger(b.h - b.l, Larger(Abs(b.h - w[i - 1].c), Abs(b.l - w[i - 1].c)))

\* No ATR before AtrPeriod bars have been seen
HasAtr(i) == i >= AtrPeriod
AtrAt(w, i) == 2 * MapThenSumSet(LAMBDA k : TrueRange(w, k), (i - AtrPeriod + 1) .. i)

AtrLast(w) == IF HasAtr(Len(w)) THEN AtrAt(w, Len(w)) ELSE 0
AtrMedian(w) ==
    IF ~HasAtr(Len(w)) THEN 0
    ELSE LET all == SortedBy([k \in 1 .. Len(w) - AtrPeriod + 1 |-> AtrAt(w, k + AtrPeriod - 1)],
                             LAMBDA x : x)
             n == Len(all)
         IN  (all[(n + 1) \div 2] + all[(n + 2) \div 2]) \div 2

\* x is at least the fraction f of an ATR given in units of 1 / AtrUnit
AtLeastAtr(x, f, atr) == x * AtrUnit * f[2] >= f[1] * atr
AtLeast(x, f, y) == x * f[2] >= f[1] * y

----------------------------------------------------------------------------
(* Swings: a bar whose high (low) no bar within the window exceeds.        *)

SwingSpan == Larger(1, MinSwingBars)
Neighbours(w, i) == {j \in DOMAIN w : Abs(j - i) <= SwingSpan}

HasNeighbours_Left(w, i) == i > SwingSpan
HasNeighbours(w, i) == i > SwingSpan /\ i <= Len(w) - SwingSpan

SwingsAt(w, i) ==
    LET highest == \A j \in Neighbours(w, i) : w[j].h <= w[i].h
        lowest == \A j \in Neighbours(w, i) : w[j].l >= w[i].l
        swing(kind, price) == <<[idx |-> i, t |-> w[i].t, price |-> price, kind |-> kind]>>
    IN  IF ~HasNeighbours(w, i) THEN <<>>
        ELSE (IF highest THEN swing("HIGH", w[i].h) ELSE <<>>)
             \o (IF lowest THEN swing("LOW", w[i].l) ELSE <<>>)

DetectSwings(w) == FoldLeft(LAMBDA found, i : found \o SwingsAt(w, i), <<>>, Indices(w))

----------------------------------------------------------------------------
(* Legs between consecutive swings, labelled against the last earlier      *)
(* swing of the same kind, and the trend they add up to.                   *)

Leg(s, i) ==
    LET to == s[i + 1]
        same == {j \in 1 .. i : s[j].kind = to.kind}
        ref == s[Max(same)].price
        rises == to.price > ref
    IN  IF same = {} THEN [from |-> s[i], to |-> to, label |-> "UNDEFINED", ref |-> 0]
        ELSE [from |-> s[i], to |-> to, ref |-> ref,
              label |-> IF to.kind = "HIGH" THEN (IF rises THEN "HH" ELSE "LH")
                                            ELSE (IF rises THEN "HL" ELSE "LL")]

BuildLegs(s) == [i \in 1 .. Len(s) - 1 |-> Leg(s, i)]

LastLabel(legs, kind) ==
    LET of == SelectSeq(legs, LAMBDA g : g.to.kind = kind)
    IN  IF of = <<>> THEN "none" ELSE Last(of).label

InferTrend(legs) ==
    LET highs == LastLabel(legs, "HIGH")
        lows == LastLabel(legs, "LOW")
    IN  CASE highs = "HH" /\ lows = "HL" -> "UP"
          [] highs = "LH" /\ lows = "LL" -> "DOWN"
          [] legs = <<>> -> "UNKNOWN"
          [] OTHER -> "RANGE"

LegSignature(leg) == <<leg.from.idx, leg.to.idx, leg.label>>

----------------------------------------------------------------------------
(* Break events: BOS with the structural bias, CHOCH against it.           *)

PassesBreakThreshold(w, leg) ==
    LET i == leg.to.idx
        move == Abs(w[i].c - leg.ref)
    IN  /\ HasAtr(i) => AtLeastAtr(move, BosMinAtr, AtrAt(w, i))
        /\ AtLeast(move, BosMinPct, Abs(w[i].c))

\* The direction a leg breaks in under a bias; "none" when it breaks nothing
BreakDirection(leg, bias) ==
    CASE leg.label = "HH" \/ (leg.label = "HL" /\ bias = "LONG") -> "LONG"
      [] leg.label = "LL" \/ (leg.label = "LH" /\ bias = "SHORT") -> "SHORT"
      [] OTHER -> "none"

BreakType_Latched(bias, dir) == IF bias = dir THEN "BOS" ELSE "CHOCH"
BreakType(bias, dir) == IF bias \in {"none", dir} THEN "BOS" ELSE "CHOCH"

ApplyLeg(w, acc, leg) ==
    LET dir == BreakDirection(leg, acc.bias)
    IN  IF leg.label = "UNDEFINED" \/ ~PassesBreakThreshold(w, leg) \/ dir = "none" THEN acc
        ELSE [bias |-> dir,
              events |-> Append(acc.events,
                  [type |-> BreakType(acc.bias, dir), dir |-> dir, price |-> leg.to.price,
                   t |-> leg.to.t, leg |-> LegSignature(leg)])]

DetectEvents(w, legs) ==
    FoldLeft(LAMBDA acc, leg : ApplyLeg(w, acc, leg), [bias |-> "none", events |-> <<>>], legs).events

\* <<bias, time of the last CHOCH>>; the time is 0 when there was none
DeriveBias(trend, events) ==
    LET turns == SelectSeq(events, LAMBDA e : e.type = "CHOCH")
    IN  CASE turns # <<>> -> [side |-> Last(turns).dir, choch |-> Last(turns).t]
          [] turns = <<>> /\ trend = "UP" -> [side |-> "LONG", choch |-> 0]
          [] turns = <<>> /\ trend = "DOWN" -> [side |-> "SHORT", choch |-> 0]
          [] OTHER -> [side |-> "NEUTRAL", choch |-> 0]

RoleOf(bias, dir) ==
    IF bias = "NEUTRAL" THEN "NEUTRAL" ELSE IF bias = dir THEN "PRIMARY" ELSE "COUNTERTREND"

----------------------------------------------------------------------------
(* The range of the last bars, and where the last close sits in it.        *)

NoRange == [high |-> 0, low |-> 0, start |-> 0, end |-> 0, state |-> "NONE"]

DetectActiveRange(w) ==
    IF Len(w) < MinRangeBars THEN NoRange
    ELSE LET last == LastN(w, MinRangeBars)
             high == Max({last[i].h : i \in DOMAIN last})
             low == Min({last[i].l : i \in DOMAIN last})
             above == 2 * Last(w).c - (high + low)     \* twice the distance from the middle
             band == EqTolerance[1] * 2 * (high - low)
         IN  [high |-> high, low |-> low, start |-> last[1].t, end |-> Last(last).t,
              state |-> CASE high # low /\ above * EqTolerance[2] >= band -> "DEV_UP"
                          [] high # low /\ above * EqTolerance[2] <= -band -> "DEV_DOWN"
                          [] OTHER -> "INSIDE"]

----------------------------------------------------------------------------
(* OTE zones: the retracement band of the latest impulse legs, in          *)
(* hundredths of a price.                                                  *)

LegsAfter(legs, t) ==
    LET later == {i \in DOMAIN legs : legs[i].to.t >= t}
    IN  IF later = {} THEN <<>> ELSE SubSeq(legs, Min(later), Len(legs))

\* The directions the filter lets through; {} lets everything through
AllowedSides(trend, bias) ==
    CASE trend = "UP" -> {"LONG", bias} \ {"NEUTRAL"}
      [] trend = "DOWN" -> {"SHORT", bias} \ {"NEUTRAL"}
      [] trend \notin {"UP", "DOWN"} /\ bias # "NEUTRAL" -> {"LONG", "SHORT"}
      [] OTHER -> {}

ImpulseSide(leg) == CASE leg.label = "HH" -> "LONG" [] leg.label = "LL" -> "SHORT" [] OTHER -> "none"

PassesAmplitude(w, leg) ==
    LET move == Abs(leg.to.price - leg.from.price)
    IN  /\ HasAtr(leg.to.idx) => AtLeastAtr(move, LegMinAtr, AtrAt(w, leg.to.idx))
        /\ AtLeast(move, BosMinPct, Abs(leg.to.price))

\* The price that gives back a percentage of a leg
Retraced_FromStart(leg, percent) ==
    100 * leg.from.price - (leg.to.price - leg.from.price) * percent
Retraced(leg, percent) == 100 * leg.to.price - (leg.to.price - leg.from.price) * percent

OteZone(leg, bias) ==
    LET dir == IF leg.to.price > leg.from.price THEN "LONG" ELSE "SHORT"
        edges == {Retraced(leg, OteMin), Retraced(leg, OteMax)}
    IN  [leg |-> leg, dir |-> dir, role |-> RoleOf(bias, dir), lo |-> Min(edges), hi |-> Max(edges)]

BuildOteZones(w, legs, trend, bias) ==
    LET allowed == AllowedSides(trend, bias.side)
        usable(leg) == /\ ImpulseSide(leg) # "none"
                       /\ OteTrendOnly /\ allowed # {} => ImpulseSide(leg) \in allowed
                       /\ PassesAmplitude(w, leg)
                       /\ leg.to.price # leg.from.price
        later == LegsAfter(legs, bias.choch)
        legsIn == Chosen(later, {i \in DOMAIN later : usable(later[i])})
        zones == [i \in DOMAIN legsIn |-> OteZone(legsIn[i], bias.side)]
        newest(dir) == LastN(Chosen(zones, {i \in DOMAIN zones : zones[i].dir = dir}),
                             Larger(1, OtePerSide))
    IN  IF OteMin >= OteMax THEN <<>> ELSE newest("LONG") \o newest("SHORT")

----------------------------------------------------------------------------
(* The event history of one symbol: upsert, drop the old, sort, keep the   *)
(* newest.                                                                 *)

EventKey(e) == <<e.type, e.dir, e.t, e.price>>

PutEvent_Append(h, e) == Append(h, e)
PutEvent(h, e) ==
    LET same == {i \in DOMAIN h : EventKey(h[i]) = EventKey(e)}
    IN  IF same = {} THEN Append(h, e) ELSE [h EXCEPT ![Min(same)] = e]

Young(h, now) ==
    Chosen(h, {i \in DOMAIN h : HistoryMinutes = 0 \/ h[i].t >= now - HistoryMinutes})

Prune_Unsorted(h, now) == LastN(Young(h, now), HistoryEntries)
Prune(h, now) == LastN(Sorted(Young(h, now), "t"), HistoryEntries)

UpdateHistory(h, events, now) == Prune(FoldLeft(PutEvent, h, events), now)

----------------------------------------------------------------------------
(* compute_structure_state: everything above, in the code's order.         *)

ComputeStructure(bars) ==
    LET w == Prepared(bars)
        swings == DetectSwings(w)
        legs == BuildLegs(swings)
        trend == InferTrend(legs)
        events == DetectEvents(w, legs)
        bias == DeriveBias(trend, events)
    IN  [swings |-> swings, legs |-> legs, trend |-> trend, events |-> events,
         bias |-> bias.side, choch |-> bias.choch, range |-> DetectActiveRange(w),
         ote |-> BuildOteZones(w, legs, trend, bias),
         atrLast |-> AtrLast(w), atrMedian |-> AtrMedian(w), end |-> Last(w).t]
=============================================================================
