-------------------------------- MODULE Scoring --------------------------------
(***************************************************************************)
(* score_snapshot(): five weighted components of a snapshot, each a blend  *)
(* of sub-scores of its measures, in which a measure that is not known     *)
(* counts UNKNOWN_RATIO.  Pure; the verdicts of MCScreening are scored by  *)
(* it.                                                                     *)
(*                                                                         *)
(* A measure is {} when it is not known and a set of one integer when it   *)
(* is: dollars in thousands, shares of one and the Herfindahl index in     *)
(* parts of One, percentages, counts and hours as they are.  Sub-scores    *)
(* and ratios are parts of One, points parts of One of a point.  Floats    *)
(* are rounded down; logarithms to whole doublings.                        *)
(***************************************************************************)
EXTENDS Integers, FiniteSets

One == 10000
UNKNOWN_RATIO == 3500

Measure ==
    {"liquidity_usd", "slippage_bps", "spread_bps", "market_cap_usd", "top1_holder_pct",
     "top10_holder_pct", "unique_holders", "holder_growth_24h_pct", "whale_concentration",
     "volume_24h", "volume_1h", "tx_count_24h", "buy_ratio_24h", "days_to_major_unlock",
     "price_change_24h_pct", "price_vs_7d_base_pct", "drawdown_from_ath_pct",
     "token_age_hours"}

\* A snapshot: its measures, the verdict on its source, {} or one, and its flags.
Scored == [known : [Measure -> SUBSET Int], contract_verified : SUBSET BOOLEAN,
           contract_flags : SUBSET STRING, tokenomics_flags : SUBSET STRING]

\* The settings the sub-scores are anchored at.
Anchors ==
    [min_liquidity_usd : Nat \ {0}, min_liquidity_usd_live : Nat \ {0},
     max_slippage_bps : Nat, max_spread_bps : Nat,
     max_top1_holder_pct : Nat, max_top10_holder_pct : Nat,
     min_unique_holders : {n \in Nat : 0 < n /\ n <= 5000}, min_volume_24h_usd : Nat \ {0},
     max_single_window_volume_share : {n \in Nat : n > One \div 24},
     min_tx_count_24h : {n \in Nat : 0 < n /\ n <= 2500},
     max_price_change_24h_pct : {n \in Nat : n > 15},
     max_price_vs_7d_base_pct : Nat \ {0}, max_token_age_hours_for_early : Nat]

-----------------------------------------------------------------------------
(***************************************************************************)
(* Scales.                                                                 *)
(***************************************************************************)
clamp(v) == IF v < 0 THEN 0 ELSE IF v > One THEN One ELSE v

Distance(a, b) == IF a < b THEN b - a ELSE a - b

\* Between a bad and a good anchor, in either direction.
linear_score(measure, bad, good) ==
    IF bad < good THEN {clamp(((v - bad) * One) \div (good - bad)) : v \in measure}
    ELSE IF good < bad THEN {clamp(((bad - v) * One) \div (bad - good)) : v \in measure}
    ELSE {}

\* How many doublings v is above base.
Doublings(v, base) == Cardinality({k \in 1..30 : base <= v \div 2^k})

log_score(measure, bad, good) ==
    IF Doublings(good, bad) = 0 THEN {}
    ELSE {clamp((Doublings(v, bad) * One) \div Doublings(good, bad)) : v \in {x \in measure : x > 0}}

\* What a sub-score counts, known or not.
Value(sub) == IF sub = {} THEN UNKNOWN_RATIO ELSE CHOOSE v \in sub : TRUE

\* _blend of sub-scores that carry their weights, which add up to 100.
blend(sum) == clamp(sum \div 100)

-----------------------------------------------------------------------------
(***************************************************************************)
(* The components.                                                         *)
(***************************************************************************)
\* How much of the market capitalisation the pool holds, in thousandths.
Backing(s) == {(l * 1000) \div m : l \in {x \in s.known["liquidity_usd"] : x # 0},
                                   m \in {x \in s.known["market_cap_usd"] : x > 0}}

score_liquidity(s, c) ==
    blend(40 * Value(log_score(s.known["liquidity_usd"], c.min_liquidity_usd,
                                 c.min_liquidity_usd_live * 10))
          + 25 * Value(linear_score(s.known["slippage_bps"], c.max_slippage_bps, 10))
          + 15 * Value(linear_score(s.known["spread_bps"], c.max_spread_bps, 5))
          + 20 * Value(linear_score(Backing(s), 10, 200)))

\* Steady growth is best: neither stagnation nor an explosion.
growth(g) == IF g <= 20 THEN clamp((g * One) \div 20)
                        ELSE clamp(One - ((g - 20) * One) \div 180)

score_holders(s, c) ==
    blend(25 * Value(linear_score(s.known["top1_holder_pct"], c.max_top1_holder_pct, 1))
          + 30 * Value(linear_score(s.known["top10_holder_pct"], c.max_top10_holder_pct, 10))
          + 20 * Value(log_score(s.known["unique_holders"], c.min_unique_holders, 10000))
          + 15 * Value({growth(g) : g \in s.known["holder_growth_24h_pct"]})
          + 10 * Value(linear_score(s.known["whale_concentration"], 2500, 100)))

\* The last hour's share of the day's volume against a 24th.
consistency(s, c) ==
    {clamp(One - (Distance((h * One) \div d, One \div 24) * One)
                 \div (c.max_single_window_volume_share - One \div 24)) :
        d \in {x \in s.known["volume_24h"] : x > 0}, h \in s.known["volume_1h"]}

\* The average trade, in dollars: volume made of few trades is suspect.
granularity(s) ==
    {IF (d * 1000) \div n > 200
     THEN clamp(One - (((d * 1000) \div n - 200) * One) \div 5000)
     ELSE One : d \in {x \in s.known["volume_24h"] : x # 0},
                n \in {x \in s.known["tx_count_24h"] : x > 0}}

score_volume(s, c) ==
    blend(30 * Value(log_score(s.known["volume_24h"], c.min_volume_24h_usd,
                                 c.min_volume_24h_usd * 20))
          + 30 * Value(consistency(s, c))
          + 15 * Value(log_score(s.known["tx_count_24h"], c.min_tx_count_24h, 5000))
          + 15 * Value(granularity(s))
          + 10 * Value({clamp(One - (Distance(b, 5000) * One) \div 2500) :
                        b \in s.known["buy_ratio_24h"]}))

\* The penalties of the contract's flags.
Penalties(flags) ==
    LET Of(flag, p) == IF flag \in flags THEN p ELSE 0
    IN  Of("OWNER_CAN_MINT", 5000) + Of("MINT_FUNCTION", 2000) + Of("BLACKLIST", 3500)
        + Of("PAUSABLE", 1500) + Of("UPGRADEABLE_PROXY", 2000) + Of("MUTABLE_FEES", 1500)
        + Of("MUTABLE_LIMITS", 1000) + Of("OWNER_PRIVILEGE_ACTIVE", 1000)
        + Of("SUSPICIOUSLY_SMALL_BYTECODE", 3000)

score_tokenomics(s, c) ==
    clamp(One
          - (IF TRUE \in s.contract_verified THEN 0
             ELSE IF FALSE \in s.contract_verified THEN 6000 ELSE 3000)
          - Penalties(s.contract_flags)
          - 2000 * Cardinality(s.tokenomics_flags)
          - (IF s.known["days_to_major_unlock"] = {} THEN 1000
             ELSE IF \E d \in s.known["days_to_major_unlock"] : d < 30 THEN 2000 ELSE 0))

\* The day's move: base-building up to 15 per cent, then a chase.
move(ch, c) ==
    IF ch < -25 THEN 2000
    ELSE IF ch <= 15 THEN One - (Distance(ch, 5) * One) \div 40
    ELSE clamp(One - ((ch - 15) * One) \div (c.max_price_change_24h_pct - 15))

age(hours, c) ==
    IF hours < 24 THEN 0
    ELSE IF hours <= c.max_token_age_hours_for_early THEN clamp((hours * One) \div (14 * 24))
    ELSE One \div 2

score_momentum(s, c) ==
    blend(40 * Value({move(ch, c) : ch \in s.known["price_change_24h_pct"]})
          + 20 * Value({clamp(One - (Distance(b, 0) * One) \div c.max_price_vs_7d_base_pct) :
                        b \in s.known["price_vs_7d_base_pct"]})
          + 20 * Value({clamp((d * One) \div 50) : d \in s.known["drawdown_from_ath_pct"]})
          + 20 * Value({age(h, c) : h \in s.known["token_age_hours"]}))

\* The total, of at most 100 points.
score_snapshot(s, c) ==
    30 * score_liquidity(s, c) + 25 * score_holders(s, c) + 20 * score_volume(s, c)
    + 15 * score_tokenomics(s, c) + 10 * score_momentum(s, c)
================================================================================
