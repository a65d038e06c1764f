---------------------------- MODULE SmcLiquidity ----------------------------
(***************************************************************************)
(* Liquidity over a computed structure (smc_liquidity): pools of equal     *)
(* highs and lows, trend and range pools, swing failures and wick clusters,*)
(* the magnets the pools merge into and the AMD phase.  Pools of the       *)
(* previous day's levels are left out: no caller puts them in a snapshot.  *)
(*                                                                         *)
(* A pool is [level, type, side, role, touches].                           *)
(***************************************************************************)
EXTENDS SmcStructure

----------------------------------------------------------------------------
(* Tolerances.  eq_tolerance_pct is used as a ratio by every rule below.   *)

LargerFraction(f, g) == IF f[1] * g[2] >= g[1] * f[2] THEN f ELSE g

Tolerance == LargerFraction(EqTolerance, <<1, 1000>>)
BreakPct == LargerFraction(<<Tolerance[1], 4 * Tolerance[2]>>, <<2, 1000>>)

\* A price lies within the tolerance of the average of n prices with this sum
WithinTolerance(price, sum, n) ==
    Tolerance[2] * Abs(price * n - sum) <= Tolerance[1] * Abs(sum)

Total(items, field) == FoldLeft(LAMBDA sum, x : sum + x[field], 0, items)

\* Greedy clustering by a field: each item joins the first cluster whose average is near
Join(clusters, x, field) ==
    LET near == {k \in DOMAIN clusters :
                    WithinTolerance(x[field], Total(clusters[k], field), Len(clusters[k]))}
    IN  IF near = {} THEN Append(clusters, <<x>>)
        ELSE [clusters EXCEPT ![Min(near)] = Append(@, x)]

Cluster(items, field) == FoldLeft(LAMBDA clusters, x : Join(clusters, x, field), <<>>, items)

----------------------------------------------------------------------------
(* Roles.                                                                  *)

SideOf(type, side) ==
    CASE type \in {"EQL", "TLQ", "SESSION_LOW"} -> "LOW"
      [] type \in {"EQH", "SLQ", "SESSION_HIGH"} -> "HIGH"
      [] OTHER -> side

RoleForBias(bias, type, side) ==
    CASE bias = "NEUTRAL" -> "NEUTRAL"
      [] bias = "LONG" -> IF SideOf(type, side) = "LOW" THEN "PRIMARY" ELSE "COUNTERTREND"
      [] bias = "SHORT" -> IF SideOf(type, side) = "HIGH" THEN "PRIMARY" ELSE "COUNTERTREND"

Pool(bias, level, type, side, touches) ==
    [level |-> level, type |-> type, side |-> side, touches |-> touches,
     role |-> RoleForBias(bias, type, side)]

----------------------------------------------------------------------------
(* Pools of the structure.                                                 *)

\* The clusters that were touched at least twice
Touched(clusters) == Chosen(clusters, {k \in DOMAIN clusters : Len(clusters[k]) >= 2})

ClustersToPools(st, clusters, kind, type) ==
    [k \in DOMAIN clusters |->
        Pool(st.bias, Total(clusters[k], "price") \div Len(clusters[k]), type, kind, Len(clusters[k]))]

EqPools(st, kind, type) ==
    ClustersToPools(st, Touched(Cluster(OfKind(st.swings, kind), "price")), kind, type)

TrendPools(st) ==
    LET of(kind) == OfKind(st.swings, kind)
    IN  CASE st.bias = "LONG" /\ of("LOW") # <<>> ->
                 <<Pool(st.bias, Last(of("LOW")).price, "TLQ", "LOW", 1)>>
          [] st.bias = "SHORT" /\ of("HIGH") # <<>> ->
                 <<Pool(st.bias, Last(of("HIGH")).price, "SLQ", "HIGH", 1)>>
          [] OTHER -> <<>>

RangePools(st) ==
    IF st.range = NoRange THEN <<>>
    ELSE <<Pool(st.bias, st.range.low, "RANGE_EXTREME", "LOW", 1),
           Pool(st.bias, st.range.high, "RANGE_EXTREME", "HIGH", 1)>>

----------------------------------------------------------------------------
(* Swing failures (a bar that breaks a level and closes back) and wick     *)
(* clusters.  Every bar of the window is looked at, the ones before the    *)
(* level formed included.                                                  *)

\* Each item where it is met first
Firsts(s) == Chosen(s, {i \in DOMAIN s : \A j \in 1 .. i - 1 : s[j] # s[i]})

CollectLevels(st) ==
    LET level(price, side, source) == [level |-> price, side |-> side, source |-> source]
        swings == [i \in DOMAIN st.swings |->
                      level(st.swings[i].price, st.swings[i].kind, "swing")]
        ends == IF st.range = NoRange THEN <<>>
                ELSE <<level(st.range.high, "HIGH", "range"), level(st.range.low, "LOW", "range")>>
    IN  Firsts(swings \o ends)

\* price_tol in units of 1 / (1000 * BreakPct[2]): the larger of the level's
\* share and MIN_BREAK_PCT
PriceTolerance(level) == Larger(1000 * level * BreakPct[1], 2 * BreakPct[2])
Over(distance, level) == distance * 1000 * BreakPct[2] >= PriceTolerance(level)
Near(distance, level) == distance * 1000 * BreakPct[2] <= PriceTolerance(level)

Fails(bar, lv) ==
    IF lv.side = "HIGH" THEN Over(bar.h - lv.level, lv.level) /\ bar.c < lv.level
                        ELSE Over(lv.level - bar.l, lv.level) /\ bar.c > lv.level

Wick(bar, side) ==
    IF side = "HIGH" THEN bar.h - Larger(bar.o, bar.c) ELSE Smaller(bar.o, bar.c) - bar.l

\* WICK_RATIO is 2.5; a bar without a body needs no wick worth the name
Wicks(bar, lv) ==
    /\ 2 * Wick(bar, lv.side) >= 5 * Abs(bar.c - bar.o)
    /\ Wick(bar, lv.side) > 0
    /\ Near(Abs(lv.level - (IF lv.side = "HIGH" THEN bar.h ELSE bar.l)), lv.level)

\* The first bar that fails at each level, and the bars that leave a wick there
FailBars(w, lv) == {i \in DOMAIN w : Fails(w[i], lv)}
FirstFail(w, lv) == {i \in FailBars(w, lv) : \A j \in FailBars(w, lv) : i <= j}
WickBars(w, lv) == {i \in DOMAIN w : Wicks(w[i], lv)} \ FirstFail(w, lv)

Hit(lv, at) == [level |-> lv.level, side |-> lv.side, first |-> Min(at), touches |-> Cardinality(at)]
Hits(levels, bars) == [i \in DOMAIN levels |-> Hit(levels[i], bars[levels[i]])]

\* Levels with such bars, in the order of the first of them
ByFirstBar(levels, bars) ==
    Sorted(Hits(Chosen(levels, {i \in DOMAIN levels : bars[levels[i]] # {}}), bars), "first")

FailHits(w, levels) == ByFirstBar(levels, [lv \in Range(levels) |-> FailBars(w, lv)])
WickHits(w, levels) == ByFirstBar(levels, [lv \in Range(levels) |-> WickBars(w, lv)])

Swept(w, hits) ==
    [k \in DOMAIN hits |-> [level |-> hits[k].level, side |-> hits[k].side, t |-> w[hits[k].first].t]]
Sweeps(w, st) == Swept(w, FailHits(w, CollectLevels(st)))

WickCluster(st, hits) ==
    [k \in DOMAIN hits |-> Pool(st.bias, hits[k].level, "WICK_CLUSTER", hits[k].side, hits[k].touches)]
WickPools(w, st) == WickCluster(st, WickHits(w, CollectLevels(st)))

SweepPools(st, sweeps) ==
    [k \in DOMAIN sweeps |-> Pool(st.bias, sweeps[k].level, "SFP", sweeps[k].side, 1)]

----------------------------------------------------------------------------
(* Magnets: pools taken by level and merged with the cluster they are near.*)

MagnetTypes == <<"RANGE_EXTREME", "SESSION_HIGH", "SESSION_LOW", "TLQ", "SLQ", "EQH", "EQL">>

MagnetType(pools) ==
    LET types == {pools[i].type : i \in DOMAIN pools}
        ranked == {r \in DOMAIN MagnetTypes : MagnetTypes[r] \in types}
    IN  IF ranked = {} THEN pools[1].type ELSE MagnetTypes[Min(ranked)]

MagnetRole(pools) ==
    LET roles == {pools[i].role : i \in DOMAIN pools}
    IN  CASE "PRIMARY" \in roles -> "PRIMARY"
          [] roles = {"COUNTERTREND"} -> "COUNTERTREND"
          [] OTHER -> "NEUTRAL"

Magnet(pools) ==
    LET levels == {pools[i].level : i \in DOMAIN pools}
    IN  [lo |-> Min(levels), hi |-> Max(levels), type |-> MagnetType(pools),
         role |-> MagnetRole(pools), pools |-> Len(pools)]

Magnets(clusters) == [k \in DOMAIN clusters |-> Magnet(clusters[k])]

BuildMagnets_Unsorted(pools) == Magnets(Cluster(pools, "level"))
BuildMagnets(pools) == Magnets(Cluster(Sorted(pools, "level"), "level"))

----------------------------------------------------------------------------
(* The AMD phase, in the fixed order of its three checks.                  *)

TrendBreak(st) ==
    LET side == CASE st.bias # "NEUTRAL" -> st.bias
                  [] st.bias = "NEUTRAL" /\ st.trend = "UP" -> "LONG"
                  [] OTHER -> "SHORT"
    IN  \E i \in DOMAIN st.events : st.events[i].type = "BOS" /\ st.events[i].dir = side

TrendPoolsDominate(st, pools) ==
    LET type == IF st.bias = "LONG" THEN "TLQ" ELSE "SLQ"
    IN  /\ st.bias # "NEUTRAL"
        /\ \E i \in DOMAIN pools : pools[i].type = type /\ pools[i].role = "PRIMARY"

\* _LOW_ATR_RATIO is 1.25
CalmAtr(st, w) ==
    /\ HasAtr(Len(w))
    /\ st.atrMedian = 0 \/ 4 * st.atrLast <= 5 * st.atrMedian

RecentBreak(st) == \E i \in DOMAIN LastN(st.events, 3) : LastN(st.events, 3)[i].type = "BOS"

AmdPhase(st, w, pools, swept) ==
    CASE st.range.state \in {"DEV_UP", "DEV_DOWN"} /\ swept -> "MANIPULATION"
      [] /\ st.range = NoRange
         /\ st.trend \in {"UP", "DOWN"}
         /\ TrendBreak(st)
         /\ TrendPoolsDominate(st, pools) -> "DISTRIBUTION"
      [] st.range.state = "INSIDE" /\ CalmAtr(st, w) /\ ~RecentBreak(st) -> "ACCUMULATION"
      [] OTHER -> "NEUTRAL"

----------------------------------------------------------------------------
(* compute_liquidity_state.                                                *)

ComputeLiquidity(bars, st) ==
    LET w == Prepared(bars)
        sweeps == Sweeps(w, st)
        wicks == WickPools(w, st)
        pools == EqPools(st, "HIGH", "EQH") \o EqPools(st, "LOW", "EQL") \o TrendPools(st)
                 \o RangePools(st) \o SweepPools(st, sweeps) \o wicks
    IN  [pools |-> pools, magnets |-> BuildMagnets(pools), sweeps |-> sweeps,
         phase |-> AmdPhase(st, w, pools, sweeps # <<>> \/ wicks # <<>>)]
=============================================================================
