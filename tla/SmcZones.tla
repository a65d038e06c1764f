------------------------------ MODULE SmcZones ------------------------------
(***************************************************************************)
(* Zones over structure and liquidity (smc_zones): order blocks, breakers  *)
(* and the filter that keeps the active ones.                              *)
(*                                                                         *)
(* A zone is [type, lo, hi, origin, dir, role, bar, at]: origin is its     *)
(* origin_time in minutes, bar the position of the candle it was cut from, *)
(* at the time of the event that made it.  Strength, confidence and the    *)
(* identifiers are left out.                                               *)
(***************************************************************************)
EXTENDS SmcLiquidity

CONSTANTS
    ObLegMinAtr,          \* ob_leg_min_atr_mul, a fraction
    ObLegMaxBars,         \* ob_leg_max_bars
    ObPreludeBars,        \* ob_prelude_max_bars
    ObBodyDomination,     \* ob_body_domination_pct, a fraction
    ObBodyMin,            \* ob_body_min_pct, a fraction
    ObMaxDistanceAtr,     \* ob_max_active_distance_atr, a fraction
    BreakerMaxObAge,      \* breaker_max_ob_age_minutes
    BreakerMaxDelay,      \* breaker_max_sweep_delay_minutes
    BreakerTolerance,     \* breaker_level_tolerance_pct, a fraction
    BreakerMinBody,       \* breaker_min_body_pct, a fraction
    BreakerMinDisplacement \* breaker_min_displacement_atr, a fraction

ASSUME SmcZonesAssumption ==
    /\ {ObLegMaxBars, ObPreludeBars, BreakerMaxObAge, BreakerMaxDelay} \subseteq Nat
    /\ \A f \in {ObLegMinAtr, ObBodyDomination, ObBodyMin, ObMaxDistanceAtr,
                 BreakerTolerance, BreakerMinBody, BreakerMinDisplacement} :
           f[1] \in Nat /\ f[2] \in Nat \ {0}

----------------------------------------------------------------------------
(* Order blocks: the last candle against an impulse leg that broke         *)
(* structure.                                                              *)

LegDirection(leg) ==
    CASE leg.label \in {"HH", "HL"} -> "LONG"
      [] leg.label \in {"LH", "LL"} -> "SHORT"
      [] OTHER -> "none"

\* atr_last or atr_median or 0
ZoneAtr(st) == IF st.atrLast # 0 THEN st.atrLast ELSE st.atrMedian

Span(leg) == leg.to.idx - leg.from.idx
Amplitude(leg) == Abs(leg.to.price - leg.from.price)

Qualifies(leg, atr) ==
    /\ LegDirection(leg) # "none"
    /\ Span(leg) > 0 /\ Span(leg) + 1 <= ObLegMaxBars
    /\ atr > 0 => AtLeastAtr(Amplitude(leg), ObLegMinAtr, atr)
    /\ Amplitude(leg) > 0

\* The last candle against the leg in its prelude, else the most extreme one
Candidate(bars, leg) ==
    LET prelude == Larger(1, leg.from.idx - ObPreludeBars) .. leg.from.idx
        long == LegDirection(leg) = "LONG"
        against == {i \in prelude : IF long THEN bars[i].c < bars[i].o ELSE bars[i].c > bars[i].o}
        extreme == {i \in prelude : \A j \in prelude :
                       IF long THEN bars[i].l <= bars[j].l ELSE bars[i].h >= bars[j].h}
    IN  IF against # {} THEN Max(against) ELSE Min(extreme)

\* Events of the history are matched by the positions their leg had in the
\* window they were found in
BreakEvents(history, leg) ==
    SelectSeq(history, LAMBDA e : e.dir = LegDirection(leg) /\ e.leg = LegSignature(leg))

BodyHigh(bar) == Larger(bar.o, bar.c)
BodyLow(bar) == Smaller(bar.o, bar.c)
Body(bar) == BodyHigh(bar) - BodyLow(bar)

SolidBody(bar, leg) ==
    /\ AtLeast(Body(bar), ObBodyMin, Amplitude(leg))
    /\ bar.h # bar.l /\ AtLeast(Body(bar), ObBodyDomination, bar.h - bar.l)

\* pd.Timestamp(open_time): the milliseconds of a bar read as nanoseconds
AsNanoseconds(minutes) == minutes \div 1000000

OrderBlock(bars, st, event, leg) ==
    LET i == Candidate(bars, leg)
    IN  [type |-> "ORDER_BLOCK", lo |-> BodyLow(bars[i]), hi |-> BodyHigh(bars[i]),
         origin |-> AsNanoseconds(bars[i].t), dir |-> LegDirection(leg),
         role |-> RoleOf(st.bias, LegDirection(leg)), bar |-> i, at |-> event.t]

KnownEvents(st, history) == IF history # <<>> THEN history ELSE st.events

\* The legs that pass every test of the loop
BlockLegs(bars, st, history) ==
    SelectSeq(st.legs, LAMBDA leg : /\ Qualifies(leg, ZoneAtr(st))
                                    /\ BreakEvents(KnownEvents(st, history), leg) # <<>>
                                    /\ SolidBody(bars[Candidate(bars, leg)], leg))

DetectOrderBlocks(bars, st, history) ==
    LET known == KnownEvents(st, history)
        legs == BlockLegs(bars, st, history)
    IN  [k \in DOMAIN legs |-> OrderBlock(bars, st, BreakEvents(known, legs[k])[1], legs[k])]

----------------------------------------------------------------------------
(* Breakers: a primary order block, a sweep of its far side, and a break   *)
(* against it.                                                             *)

Opposite(dir) == IF dir = "LONG" THEN "SHORT" ELSE "LONG"
SweptSide(ob) == IF ob.dir = "SHORT" THEN "HIGH" ELSE "LOW"
SweptLevel(ob) == IF ob.dir = "SHORT" THEN ob.hi ELSE ob.lo

\* The larger of a share of the price and 15 % of the zone
NearZone(ob, level) ==
    LET off == Abs(level - SweptLevel(ob))
    IN  \/ off * BreakerTolerance[2] <= BreakerTolerance[1] * ob.hi
        \/ off * 100 <= 15 * (ob.hi - ob.lo)

\* The loop over the sweeps in order of time: the first that matches, unless
\* one of the right side is too late before it
MatchingSweeps(ob, sweeps) ==
    SelectSeq(SortedBy(sweeps, LAMBDA s : s.t),
              LAMBDA s : /\ s.side = SweptSide(ob)
                         /\ s.t >= ob.origin
                         /\ s.t - ob.origin <= BreakerMaxDelay
                         /\ NearZone(ob, s.level))

\* The first break the other way at or after the sweep
BreaksAfter(events, dir, t) == SelectSeq(events, LAMBDA e : e.dir = dir /\ e.t >= t)

InTime(event, sweep, ob) ==
    /\ event.t - sweep.t <= BreakerMaxDelay
    /\ event.t - ob.origin <= BreakerMaxObAge

Displaced(event, sweep, atr) ==
    atr > 0 /\ AtLeastAtr(Abs(event.price - sweep.level), BreakerMinDisplacement, atr)

NearestRow(bars, t) ==
    CHOOSE i \in DOMAIN bars : \A j \in DOMAIN bars :
        LET off(k) == Abs(bars[k].t - t)
        IN  off(i) < off(j) \/ (off(i) = off(j) /\ i <= j)

BreakerZone(bars, st, ob, event) ==
    LET i == NearestRow(bars, event.t)
        bar == bars[i]
        solid == bar.h # bar.l /\ AtLeast(Body(bar), BreakerMinBody, bar.h - bar.l)
    IN  [type |-> "BREAKER", lo |-> IF solid THEN BodyLow(bar) ELSE bar.l,
         hi |-> IF solid THEN BodyHigh(bar) ELSE bar.h, origin |-> bar.t,
         dir |-> Opposite(ob.dir), role |-> RoleOf(st.bias, Opposite(ob.dir)),
         bar |-> i, at |-> event.t]

\* The breaker of one order block, as a sequence of at most one zone
BreakerOf(ob, bars, st, events, sweeps) ==
    LET swept == MatchingSweeps(ob, sweeps)
        breaks == BreaksAfter(events, Opposite(ob.dir), swept[1].t)
    IN  IF \/ ob.role # "PRIMARY"
           \/ swept = <<>>
           \/ breaks = <<>>
           \/ ~InTime(breaks[1], swept[1], ob)
           \/ ~Displaced(breaks[1], swept[1], ZoneAtr(st))
        THEN <<>>
        ELSE <<BreakerZone(bars, st, ob, breaks[1])>>

DetectBreakers(bars, st, history, obs, sweeps) ==
    LET events == SortedBy(st.events \o history, LAMBDA e : e.t)
    IN  FlattenSeq([k \in DOMAIN obs |-> BreakerOf(obs[k], bars, st, events, sweeps)])

----------------------------------------------------------------------------
(* compute_zones_state.  The gap detector looks for the bars in the        *)
(* structure's metadata, which never holds them: it adds no zone.  The     *)
(* filter by time needs an index of dates, which the frame does not have.  *)

TooFar(zone, price, atr) ==
    Abs(zone.lo + zone.hi - 2 * price) * AtrUnit * ObMaxDistanceAtr[2]
        > 2 * ObMaxDistanceAtr[1] * atr

ActiveZones(zones, bars, st) ==
    SelectSeq(zones, LAMBDA z : ~(st.atrLast > 0 /\ TooFar(z, Last(bars).c, st.atrLast)))

ComputeZones(bars, st, history, liquidity) ==
    LET obs == DetectOrderBlocks(bars, st, history)
        zones == obs \o DetectBreakers(bars, st, history, obs, liquidity.sweeps)
    IN  [zones |-> zones, active |-> ActiveZones(zones, bars, st)]
=============================================================================
