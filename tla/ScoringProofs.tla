------------------------------ MODULE ScoringProofs ------------------------------
(***************************************************************************)
(* Proofs about Scoring, for every snapshot and every setting.             *)
(***************************************************************************)
EXTENDS Scoring, FiniteSetTheorems, TLAPS

-----------------------------------------------------------------------------
(***************************************************************************)
(* Scales.                                                                 *)
(***************************************************************************)
LEMMA ClampBounds ==
    ASSUME NEW v \in Int
    PROVE  clamp(v) \in 0..One
  BY DEF clamp, One

\* A quotient by a positive number is an integer.
LEMMA QuotientIsInt ==
    ASSUME NEW a \in Int, NEW b \in Int, b > 0
    PROVE  a \div b \in Int
  OBVIOUS

LEMMA InShare ==
    ASSUME NEW v \in 0..One
    PROVE  v \in Int /\ 0 <= v /\ v <= One
  BY DEF One

LEMMA ValueBounds ==
    ASSUME NEW sub \in SUBSET (0..One)
    PROVE  Value(sub) \in 0..One
  <1>1. CASE sub = {}  BY <1>1 DEF Value, UNKNOWN_RATIO, One
  <1>2. CASE sub # {}
    <2>1. (CHOOSE v \in sub : TRUE) \in sub  BY <1>2
    <2> QED  BY <1>2, <2>1 DEF Value
  <1> QED  BY <1>1, <1>2

\* A share of One scaled by an integer is an integer.
LEMMA ScaledIsInt ==
    ASSUME NEW a \in Int
    PROVE  a * One \in Int
  BY DEF One

LEMMA DistanceIsNat ==
    ASSUME NEW a \in Int, NEW b \in Int
    PROVE  Distance(a, b) \in Nat
  BY DEF Distance

LEMMA LinearBounds ==
    ASSUME NEW m \in SUBSET Int, NEW bad \in Int, NEW good \in Int
    PROVE  linear_score(m, bad, good) \in SUBSET (0..One)
  <1>1. ASSUME bad < good, NEW v \in m  PROVE clamp(((v - bad) * One) \div (good - bad)) \in 0..One
    <2>1. (v - bad) * One \in Int  BY ScaledIsInt
    <2>2. good - bad \in Int /\ good - bad > 0  BY <1>1
    <2> QED  BY <2>1, <2>2, QuotientIsInt, ClampBounds
  <1>2. ASSUME good < bad, NEW v \in m  PROVE clamp(((bad - v) * One) \div (bad - good)) \in 0..One
    <2>1. (bad - v) * One \in Int  BY ScaledIsInt
    <2>2. bad - good \in Int /\ bad - good > 0  BY <1>2
    <2> QED  BY <2>1, <2>2, QuotientIsInt, ClampBounds
  <1> QED  BY <1>1, <1>2 DEF linear_score

LEMMA DoublingsIsNat ==
    ASSUME NEW v, NEW base
    PROVE  Doublings(v, base) \in Nat
  <1>0. 1 \in Int /\ 30 \in Int  OBVIOUS
  <1>1. IsFiniteSet(1..30)  BY <1>0, FS_Interval, Zenon
  <1>2. IsFiniteSet({k \in 1..30 : base <= v \div 2^k})  BY <1>1, FS_Subset
  <1> QED  BY <1>2, FS_CardinalityType DEF Doublings

LEMMA LogBounds ==
    ASSUME NEW m, NEW bad, NEW good
    PROVE  log_score(m, bad, good) \in SUBSET (0..One)
  <1>1. ASSUME Doublings(good, bad) # 0, NEW v
        PROVE  clamp((Doublings(v, bad) * One) \div Doublings(good, bad)) \in 0..One
    <2>3. Doublings(v, bad) \in Int  BY DoublingsIsNat
    <2>1. Doublings(v, bad) * One \in Int  BY <2>3, ScaledIsInt
    <2>2. Doublings(good, bad) \in Int /\ Doublings(good, bad) > 0  BY <1>1, DoublingsIsNat
    <2> QED  BY <2>1, <2>2, QuotientIsInt, ClampBounds
  <1> QED  BY <1>1 DEF log_score

-----------------------------------------------------------------------------
(***************************************************************************)
(* The components stay within their weights.                               *)
(***************************************************************************)
Fits(r) == r \in 0..One

\* Five shares of One, of weights that add up to 100, blend to a share of One.
LEMMA BlendBounds ==
    ASSUME NEW v \in Int
    PROVE  Fits(blend(v))
  BY QuotientIsInt, ClampBounds DEF blend, Fits

LEMMA KnownType ==
    ASSUME NEW s \in Scored, NEW m \in Measure
    PROVE  s.known[m] \in SUBSET Int
  BY DEF Scored

LEMMA LiquidityFits ==
    ASSUME NEW s \in Scored, NEW c \in Anchors
    PROVE  Fits(score_liquidity(s, c))
  <1> DEFINE a == Value(log_score(s.known["liquidity_usd"], c.min_liquidity_usd,
                                  c.min_liquidity_usd_live * 10))
             b == Value(linear_score(s.known["slippage_bps"], c.max_slippage_bps, 10))
             d == Value(linear_score(s.known["spread_bps"], c.max_spread_bps, 5))
             e == Value(linear_score(Backing(s), 10, 200))
  <1>1. a \in 0..One  BY LogBounds, ValueBounds
  <1>2. b \in 0..One
    BY KnownType, LinearBounds, ValueBounds DEF Anchors, Measure
  <1>3. d \in 0..One
    BY KnownType, LinearBounds, ValueBounds DEF Anchors, Measure
  <1>4. e \in 0..One
    <2>1. Backing(s) \in SUBSET Int
      <3>1. s.known["liquidity_usd"] \in SUBSET Int /\ s.known["market_cap_usd"] \in SUBSET Int
        BY KnownType DEF Measure
      <3> QED  BY <3>1, QuotientIsInt DEF Backing
    <2> QED  BY <2>1, LinearBounds, ValueBounds
  <1>5. score_liquidity(s, c) = blend(40 * a + 25 * b + 15 * d + 20 * e)
    BY DEF score_liquidity
  <1> HIDE DEF a, b, d, e
  <1>6. 40 * a + 25 * b + 15 * d + 20 * e \in Int  BY <1>1, <1>2, <1>3, <1>4 DEF One
  <1> QED  BY <1>5, <1>6, BlendBounds

LEMMA HoldersFits ==
    ASSUME NEW s \in Scored, NEW c \in Anchors
    PROVE  Fits(score_holders(s, c))
  <1> DEFINE a == Value(linear_score(s.known["top1_holder_pct"], c.max_top1_holder_pct, 1))
             b == Value(linear_score(s.known["top10_holder_pct"], c.max_top10_holder_pct, 10))
             d == Value(log_score(s.known["unique_holders"], c.min_unique_holders, 10000))
             e == Value({growth(g) : g \in s.known["holder_growth_24h_pct"]})
             f == Value(linear_score(s.known["whale_concentration"], 2500, 100))
  <1>1. a \in 0..One /\ b \in 0..One /\ f \in 0..One
    BY KnownType, LinearBounds, ValueBounds DEF Anchors, Measure
  <1>2. d \in 0..One  BY LogBounds, ValueBounds
  <1>3. e \in 0..One
    <2>1. ASSUME NEW g \in Int  PROVE growth(g) \in 0..One
      <3>1. (g * One) \div 20 \in Int  BY ScaledIsInt, QuotientIsInt
      <3>2. ((g - 20) * One) \div 180 \in Int  BY ScaledIsInt, QuotientIsInt
      <3>3. One - ((g - 20) * One) \div 180 \in Int  BY <3>2 DEF One
      <3> QED  BY <3>1, <3>3, ClampBounds DEF growth
    <2>2. s.known["holder_growth_24h_pct"] \in SUBSET Int  BY KnownType DEF Measure
    <2> QED  BY <2>1, <2>2, ValueBounds
  <1>4. score_holders(s, c) = blend(25 * a + 30 * b + 20 * d + 15 * e + 10 * f)
    BY DEF score_holders
  <1> HIDE DEF a, b, d, e, f
  <1>5. 25 * a + 30 * b + 20 * d + 15 * e + 10 * f \in Int  BY <1>1, <1>2, <1>3 DEF One
  <1> QED  BY <1>4, <1>5, BlendBounds

LEMMA VolumeFits ==
    ASSUME NEW s \in Scored, NEW c \in Anchors
    PROVE  Fits(score_volume(s, c))
  <1> DEFINE a == Value(log_score(s.known["volume_24h"], c.min_volume_24h_usd,
                                  c.min_volume_24h_usd * 20))
             b == Value(consistency(s, c))
             d == Value(log_score(s.known["tx_count_24h"], c.min_tx_count_24h, 5000))
             e == Value(granularity(s))
             f == Value({clamp(One - (Distance(x, 5000) * One) \div 2500) :
                           x \in s.known["buy_ratio_24h"]})
  <1>1. a \in 0..One /\ d \in 0..One  BY LogBounds, ValueBounds
  <1>0. /\ s.known["volume_24h"] \in SUBSET Int /\ s.known["volume_1h"] \in SUBSET Int
        /\ s.known["tx_count_24h"] \in SUBSET Int /\ s.known["buy_ratio_24h"] \in SUBSET Int
    BY KnownType DEF Measure
  <1>2. b \in 0..One
    <2> DEFINE w == c.max_single_window_volume_share - One \div 24
               off(h, x) == Distance((h * One) \div x, One \div 24)
    <2>1. w \in Int /\ w > 0  BY DEF Anchors, One
    <2>2. ASSUME NEW h \in Int, NEW x \in Int, x > 0
          PROVE  clamp(One - (off(h, x) * One) \div w) \in 0..One
      <3>1. (h * One) \div x \in Int /\ One \div 24 \in Int
        BY <2>2, ScaledIsInt, QuotientIsInt DEF One
      <3>2. off(h, x) \in Int  BY <3>1, DistanceIsNat
      <3> HIDE DEF off, w
      <3>3. (off(h, x) * One) \div w \in Int  BY <2>1, <3>2, ScaledIsInt, QuotientIsInt
      <3>4. One - (off(h, x) * One) \div w \in Int  BY <3>3 DEF One
      <3> QED  BY <3>4, ClampBounds
    <2>3. consistency(s, c) \in SUBSET (0..One)  BY <1>0, <2>2 DEF consistency
    <2> QED  BY <2>3, ValueBounds
  <1>3. e \in 0..One
    <2>1. ASSUME NEW x \in Int, NEW n \in Int, n > 0
          PROVE  (IF (x * 1000) \div n > 200
                  THEN clamp(One - (((x * 1000) \div n - 200) * One) \div 5000)
                  ELSE One) \in 0..One
      <3>1. (x * 1000) \div n \in Int  BY <2>1, QuotientIsInt
      <3>2. (((x * 1000) \div n - 200) * One) \div 5000 \in Int
        BY <3>1, ScaledIsInt, QuotientIsInt
      <3>3. One - (((x * 1000) \div n - 200) * One) \div 5000 \in Int  BY <3>2 DEF One
      <3>4. One \in 0..One  BY DEF One
      <3> QED  BY <3>3, <3>4, ClampBounds
    <2>2. granularity(s) \in SUBSET (0..One)  BY <1>0, <2>1 DEF granularity
    <2> QED  BY <2>2, ValueBounds
  <1>4. f \in 0..One
    <2>1. ASSUME NEW x \in Int  PROVE clamp(One - (Distance(x, 5000) * One) \div 2500) \in 0..One
      <3>1. Distance(x, 5000) \in Int  BY DistanceIsNat
      <3>2. (Distance(x, 5000) * One) \div 2500 \in Int  BY <3>1, ScaledIsInt, QuotientIsInt
      <3>3. One - (Distance(x, 5000) * One) \div 2500 \in Int  BY <3>2 DEF One
      <3> QED  BY <3>3, ClampBounds
    <2> QED  BY <1>0, <2>1, ValueBounds
  <1>5. score_volume(s, c) = blend(30 * a + 30 * b + 15 * d + 15 * e + 10 * f)
    BY DEF score_volume
  <1> HIDE DEF a, b, d, e, f
  <1>6. 30 * a + 30 * b + 15 * d + 15 * e + 10 * f \in Int
    BY <1>1, <1>2, <1>3, <1>4 DEF One
  <1> QED  BY <1>5, <1>6, BlendBounds

LEMMA TokenomicsFits ==
    ASSUME NEW s \in Scored, NEW c, IsFiniteSet(s.tokenomics_flags)
    PROVE  Fits(score_tokenomics(s, c))
  <1> DEFINE v == IF TRUE \in s.contract_verified THEN 0
                  ELSE IF FALSE \in s.contract_verified THEN 6000 ELSE 3000
             p == Penalties(s.contract_flags)
             t == Cardinality(s.tokenomics_flags)
             u == IF s.known["days_to_major_unlock"] = {} THEN 1000
                  ELSE IF \E d \in s.known["days_to_major_unlock"] : d < 30 THEN 2000 ELSE 0
  <1>1. v \in Int /\ u \in Int  OBVIOUS
  <1>2. t \in Int  BY FS_CardinalityType
  <1>3. p \in Int  BY DEF Penalties
  <1>4. score_tokenomics(s, c) = clamp(One - v - p - 2000 * t - u)  BY DEF score_tokenomics
  <1> HIDE DEF v, p, t, u
  <1>5. One - v - p - 2000 * t - u \in Int  BY <1>1, <1>2, <1>3 DEF One
  <1> QED  BY <1>4, <1>5, ClampBounds DEF Fits

LEMMA MoveBounds ==
    ASSUME NEW ch \in Int, NEW c \in Anchors
    PROVE  move(ch, c) \in 0..One
  <1>1. CASE ch < -25  BY <1>1 DEF move, One
  <1>2. CASE -25 <= ch /\ ch <= 15
    <2>1. Distance(ch, 5) \in 0..30  BY <1>2 DEF Distance
    <2> DEFINE q == (Distance(ch, 5) * One) \div 40
    <2>2. q \in 0..7500  BY <2>1 DEF One
    <2>3. move(ch, c) = One - q  BY <1>2 DEF move
    <2> HIDE DEF q
    <2>4. One - q \in 0..One  BY <2>2 DEF One
    <2> QED  BY <2>3, <2>4
  <1>3. CASE 15 < ch
    <2>1. c.max_price_change_24h_pct - 15 \in Int /\ c.max_price_change_24h_pct - 15 > 0
      BY DEF Anchors
    <2>2. ((ch - 15) * One) \div (c.max_price_change_24h_pct - 15) \in Int
      BY <2>1, ScaledIsInt, QuotientIsInt
    <2>3. One - ((ch - 15) * One) \div (c.max_price_change_24h_pct - 15) \in Int
      BY <2>2 DEF One
    <2>4. move(ch, c) = clamp(One - ((ch - 15) * One) \div (c.max_price_change_24h_pct - 15))
      BY <1>3 DEF move
    <2> QED  BY <2>3, <2>4, ClampBounds
  <1> QED  BY <1>1, <1>2, <1>3

LEMMA MomentumFits ==
    ASSUME NEW s \in Scored, NEW c \in Anchors
    PROVE  Fits(score_momentum(s, c))
  <1> DEFINE a == Value({move(ch, c) : ch \in s.known["price_change_24h_pct"]})
             b == Value({clamp(One - (Distance(x, 0) * One) \div c.max_price_vs_7d_base_pct) :
                           x \in s.known["price_vs_7d_base_pct"]})
             d == Value({clamp((x * One) \div 50) : x \in s.known["drawdown_from_ath_pct"]})
             e == Value({age(h, c) : h \in s.known["token_age_hours"]})
  <1>0. /\ s.known["price_change_24h_pct"] \in SUBSET Int
        /\ s.known["price_vs_7d_base_pct"] \in SUBSET Int
        /\ s.known["drawdown_from_ath_pct"] \in SUBSET Int
        /\ s.known["token_age_hours"] \in SUBSET Int
    BY KnownType DEF Measure
  <1>1. a \in 0..One  BY <1>0, MoveBounds, ValueBounds
  <1>2. b \in 0..One
    <2>1. c.max_price_vs_7d_base_pct \in Int /\ c.max_price_vs_7d_base_pct > 0  BY DEF Anchors
    <2>2. ASSUME NEW x \in Int
          PROVE  clamp(One - (Distance(x, 0) * One) \div c.max_price_vs_7d_base_pct) \in 0..One
      <3>1. Distance(x, 0) * One \in Int  BY DistanceIsNat, ScaledIsInt
      <3>2. (Distance(x, 0) * One) \div c.max_price_vs_7d_base_pct \in Int
        BY <2>1, <3>1, QuotientIsInt
      <3>3. One - (Distance(x, 0) * One) \div c.max_price_vs_7d_base_pct \in Int  BY <3>2 DEF One
      <3> QED  BY <3>3, ClampBounds
    <2> QED  BY <1>0, <2>2, ValueBounds
  <1>3. d \in 0..One
    <2>1. ASSUME NEW x \in Int  PROVE clamp((x * One) \div 50) \in 0..One
      BY ScaledIsInt, QuotientIsInt, ClampBounds
    <2> QED  BY <1>0, <2>1, ValueBounds
  <1>4. e \in 0..One
    <2>1. ASSUME NEW h \in Int  PROVE age(h, c) \in 0..One
      <3>1. clamp((h * One) \div (14 * 24)) \in 0..One
        BY ScaledIsInt, QuotientIsInt, ClampBounds
      <3>2. 0 \in 0..One /\ One \div 2 \in 0..One  BY DEF One
      <3> QED  BY <3>1, <3>2 DEF age
    <2> QED  BY <1>0, <2>1, ValueBounds
  <1>5. score_momentum(s, c) = blend(40 * a + 20 * b + 20 * d + 20 * e)  BY DEF score_momentum
  <1> HIDE DEF a, b, d, e
  <1>6. 40 * a + 20 * b + 20 * d + 20 * e \in Int  BY <1>1, <1>2, <1>3, <1>4 DEF One
  <1> QED  BY <1>5, <1>6, BlendBounds

-----------------------------------------------------------------------------
(***************************************************************************)
(* The theorems.                                                           *)
(***************************************************************************)
\* Whatever is known of a token, its score is between nothing and 100 points, and no
\* component is worth more than its weight.  (score_snapshot)
THEOREM ScoreIsBounded ==
    ASSUME NEW s \in Scored, NEW c \in Anchors, IsFiniteSet(s.tokenomics_flags)
    PROVE  score_snapshot(s, c) \in 0..(100 * One)
  <1>1. /\ score_liquidity(s, c) \in 0..One /\ score_holders(s, c) \in 0..One
        /\ score_volume(s, c) \in 0..One /\ score_tokenomics(s, c) \in 0..One
        /\ score_momentum(s, c) \in 0..One
    BY LiquidityFits, HoldersFits, VolumeFits, TokenomicsFits, MomentumFits DEF Fits
  <1> DEFINE a == score_liquidity(s, c)
             b == score_holders(s, c)
             d == score_volume(s, c)
             e == score_tokenomics(s, c)
             f == score_momentum(s, c)
             p == 30 * a + 25 * b + 20 * d + 15 * e + 10 * f
  <1>2. score_snapshot(s, c) = p  BY DEF score_snapshot
  <1>3. /\ a \in Int /\ 0 <= a /\ a <= One /\ b \in Int /\ 0 <= b /\ b <= One
        /\ d \in Int /\ 0 <= d /\ d <= One /\ e \in Int /\ 0 <= e /\ e <= One
        /\ f \in Int /\ 0 <= f /\ f <= One
    BY <1>1, InShare
  <1>4. One \in Int  BY DEF One
  <1> HIDE DEF a, b, d, e, f
  <1>5. p \in Int /\ 0 <= p /\ p <= 100 * One  BY <1>3, <1>4, SMT
  <1> HIDE DEF p
  <1> QED  BY <1>2, <1>4, <1>5, SMT

\* A token of which nothing is known scores 38.75 points, whatever the settings: silence
\* alone is far from the 60 points of an alert.
THEOREM SilenceIsNotFree ==
    ASSUME NEW s \in Scored, NEW c \in Anchors,
           \A m \in Measure : s.known[m] = {},
           s.contract_verified = {}, s.contract_flags = {}, s.tokenomics_flags = {}
    PROVE  score_snapshot(s, c) = 387500
  <1>1. Value({}) = UNKNOWN_RATIO  BY DEF Value
  <1>2. /\ \A bad, good : linear_score({}, bad, good) = {}
        /\ \A bad, good : log_score({}, bad, good) = {}
    BY DEF linear_score, log_score
  <1>3. blend(350000) = UNKNOWN_RATIO  BY DEF blend, clamp, UNKNOWN_RATIO, One
  <1>4. score_liquidity(s, c) = UNKNOWN_RATIO
    <2>1. Backing(s) = {} /\ s.known["liquidity_usd"] = {} /\ s.known["slippage_bps"] = {}
          /\ s.known["spread_bps"] = {}
      BY DEF Backing, Measure
    <2>2. score_liquidity(s, c) = blend(40 * UNKNOWN_RATIO + 25 * UNKNOWN_RATIO
                                        + 15 * UNKNOWN_RATIO + 20 * UNKNOWN_RATIO)
      BY <1>1, <1>2, <2>1 DEF score_liquidity
    <2>3. 40 * UNKNOWN_RATIO + 25 * UNKNOWN_RATIO + 15 * UNKNOWN_RATIO
          + 20 * UNKNOWN_RATIO = 350000
      BY DEF UNKNOWN_RATIO
    <2> QED  BY <1>3, <2>2, <2>3
  <1>5. score_holders(s, c) = UNKNOWN_RATIO
    <2> DEFINE a == Value(linear_score(s.known["top1_holder_pct"], c.max_top1_holder_pct, 1))
               b == Value(linear_score(s.known["top10_holder_pct"], c.max_top10_holder_pct, 10))
               d == Value(log_score(s.known["unique_holders"], c.min_unique_holders, 10000))
               e == Value({growth(g) : g \in s.known["holder_growth_24h_pct"]})
               f == Value(linear_score(s.known["whale_concentration"], 2500, 100))
    <2>1. /\ s.known["top1_holder_pct"] = {} /\ s.known["top10_holder_pct"] = {}
          /\ s.known["unique_holders"] = {} /\ s.known["holder_growth_24h_pct"] = {}
          /\ s.known["whale_concentration"] = {}
      BY DEF Measure
    <2>2. a = UNKNOWN_RATIO /\ b = UNKNOWN_RATIO /\ d = UNKNOWN_RATIO /\ f = UNKNOWN_RATIO
      <3>1. linear_score({}, c.max_top1_holder_pct, 1) = {}  BY <1>2
      <3>2. linear_score({}, c.max_top10_holder_pct, 10) = {}  BY <1>2
      <3>3. log_score({}, c.min_unique_holders, 10000) = {}  BY <1>2
      <3>4. linear_score({}, 2500, 100) = {}  BY <1>2
      <3> QED  BY <1>1, <2>1, <3>1, <3>2, <3>3, <3>4
    <2>3. e = UNKNOWN_RATIO
      <3>1. {growth(g) : g \in s.known["holder_growth_24h_pct"]} = {}  BY <2>1
      <3> QED  BY <1>1, <3>1
    <2>4. score_holders(s, c) = blend(25 * a + 30 * b + 20 * d + 15 * e + 10 * f)
      BY DEF score_holders
    <2> HIDE DEF a, b, d, e, f
    <2>5. 25 * a + 30 * b + 20 * d + 15 * e + 10 * f = 350000
      BY <2>2, <2>3 DEF UNKNOWN_RATIO
    <2> QED  BY <1>3, <2>4, <2>5
  <1>6. score_volume(s, c) = UNKNOWN_RATIO
    <2>1. /\ s.known["volume_24h"] = {} /\ s.known["tx_count_24h"] = {}
          /\ s.known["buy_ratio_24h"] = {}
      BY DEF Measure
    <2>2. /\ consistency(s, c) = {} /\ granularity(s) = {}
          /\ {clamp(One - (Distance(b, 5000) * One) \div 2500) : b \in {}} = {}
      BY <2>1 DEF consistency, granularity
    <2>3. score_volume(s, c) = blend(30 * UNKNOWN_RATIO + 30 * UNKNOWN_RATIO
                          + 15 * UNKNOWN_RATIO + 15 * UNKNOWN_RATIO + 10 * UNKNOWN_RATIO)
      BY <1>1, <1>2, <2>1, <2>2 DEF score_volume
    <2>4. 30 * UNKNOWN_RATIO + 30 * UNKNOWN_RATIO + 15 * UNKNOWN_RATIO
          + 15 * UNKNOWN_RATIO + 10 * UNKNOWN_RATIO = 350000
      BY DEF UNKNOWN_RATIO
    <2> QED  BY <1>3, <2>3, <2>4
  <1>7. score_tokenomics(s, c) = 6000
    <2>1. Penalties({}) = 0  BY DEF Penalties
    <2>2. Cardinality({}) = 0  BY FS_EmptySet
    <2>3. s.known["days_to_major_unlock"] = {}  BY DEF Measure
    <2>4. score_tokenomics(s, c) = clamp(One - 3000 - 0 - 2000 * 0 - 1000)
      BY <2>1, <2>2, <2>3 DEF score_tokenomics
    <2> QED  BY <2>4 DEF clamp, One
  <1>8. score_momentum(s, c) = UNKNOWN_RATIO
    <2>1. /\ s.known["price_change_24h_pct"] = {} /\ s.known["price_vs_7d_base_pct"] = {}
          /\ s.known["drawdown_from_ath_pct"] = {} /\ s.known["token_age_hours"] = {}
      BY DEF Measure
    <2>2. score_momentum(s, c) = blend(40 * UNKNOWN_RATIO + 20 * UNKNOWN_RATIO
                                       + 20 * UNKNOWN_RATIO + 20 * UNKNOWN_RATIO)
      BY <1>1, <2>1 DEF score_momentum
    <2>3. 40 * UNKNOWN_RATIO + 20 * UNKNOWN_RATIO + 20 * UNKNOWN_RATIO
          + 20 * UNKNOWN_RATIO = 350000
      BY DEF UNKNOWN_RATIO
    <2> QED  BY <1>3, <2>2, <2>3
  <1> QED  BY <1>4, <1>5, <1>6, <1>7, <1>8 DEF score_snapshot, UNKNOWN_RATIO

\* A measure that is known to be at its worst counts less than one that is not known:
\* a source that fails to say how bad a token is lifts its score.  scoring.py:11-13 says
\* "Silence is mildly bad, not neutral, and never good".
THEOREM SilenceBeatsBad ==
    ASSUME NEW m \in SUBSET Int, NEW bad \in Int, NEW good \in Int,
           m # {}, good < bad, \A v \in m : v >= bad
    PROVE  Value(linear_score(m, bad, good)) < Value(linear_score({}, bad, good))
  <1>1. \A v \in m : clamp(((bad - v) * One) \div (bad - good)) = 0
    <2> TAKE v \in m
    <2>1. (bad - v) * One \in Int /\ (bad - v) * One <= 0  BY DEF One
    <2>2. bad - good \in Int /\ bad - good > 0  OBVIOUS
    <2>3. ASSUME NEW a \in Int, NEW b \in Int, a <= 0, b > 0
          PROVE  clamp(a \div b) = 0
      <3> DEFINE q == a \div b
      <3>1. q \in Int /\ b * q <= a  BY <2>3
      <3> HIDE DEF q
      <3>2. q <= 0  BY <3>1, <2>3
      <3>3. clamp(q) = 0  BY <3>1, <3>2 DEF clamp, One
      <3> QED  BY <3>3 DEF q
    <2> QED  BY <2>1, <2>2, <2>3
  <1>2. linear_score(m, bad, good) = {0}
    <2>1. linear_score(m, bad, good) = {clamp(((bad - v) * One) \div (bad - good)) : v \in m}
      BY DEF linear_score
    <2>2. {clamp(((bad - v) * One) \div (bad - good)) : v \in m} = {0}  BY <1>1, Zenon
    <2> QED  BY <2>1, <2>2
  <1>3. linear_score({}, bad, good) = {}  BY DEF linear_score
  <1>4. Value({0}) = 0  BY DEF Value
  <1>5. Value({}) = 3500  BY DEF Value, UNKNOWN_RATIO
  <1> QED  BY <1>2, <1>3, <1>4, <1>5

\* Whenever a move of more than 20 per cent is tolerated, a token that rose by 16 per cent
\* is rated above one that rose by 15: score_momentum, which scoring.py:199 says
\* "Explicitly punishes parabolic moves", starts its chase penalty from full marks.
THEOREM ChaseStartsFromTheTop ==
    ASSUME NEW c \in Anchors, c.max_price_change_24h_pct > 20
    PROVE  move(15, c) < move(16, c)
  <1> DEFINE d == c.max_price_change_24h_pct - 15
  <1>1. d \in Int /\ d > 5  BY DEF Anchors
  <1>2. move(15, c) = 7500
    <2>1. Distance(15, 5) = 10  BY DEF Distance
    <2> QED  BY <2>1 DEF move, One
  <1>3. move(16, c) = clamp(One - One \div d)
    <2>1. (16 - 15) * One = One  BY DEF One
    <2> QED  BY <2>1 DEF move
  <1> HIDE DEF d
  <1> DEFINE q == One \div d
  <1>4. q \in Int /\ d * q <= One /\ One < d * q + d  BY <1>1 DEF One
  <1>5. move(16, c) = clamp(One - q)  BY <1>3
  <1> HIDE DEF q
  <1>6. q < 2000
    <2>1. SUFFICES ASSUME q >= 2000  PROVE FALSE  BY <1>4
    <2> DEFINE p == d * q
    <2>2. p \in Int /\ p >= 6 * q /\ p <= 10000  BY <1>1, <2>1, <1>4 DEF One
    <2> HIDE DEF p
    <2> QED  BY <1>4, <2>1, <2>2
  <1>7. clamp(One - q) > 7500  BY <1>4, <1>6 DEF clamp, One
  <1> QED  BY <1>2, <1>5, <1>7

\* Penalties add up: no flag hides or softens another.
LEMMA PenaltiesAddUp ==
    ASSUME NEW F, NEW G, F \subseteq G
    PROVE  Penalties(F) \in Int /\ Penalties(G) \in Int /\ Penalties(F) <= Penalties(G)
  <1> DEFINE of(S, flag, p) == IF flag \in S THEN p ELSE 0
  <1>1. ASSUME NEW p \in Nat, NEW flag
        PROVE  of(F, flag, p) \in Nat /\ of(G, flag, p) \in Nat /\ of(F, flag, p) <= of(G, flag, p)
    OBVIOUS
  <1> HIDE DEF of
  <1>2. \A S : Penalties(S) =
            of(S, "OWNER_CAN_MINT", 5000) + of(S, "MINT_FUNCTION", 2000) + of(S, "BLACKLIST", 3500)
            + of(S, "PAUSABLE", 1500) + of(S, "UPGRADEABLE_PROXY", 2000) + of(S, "MUTABLE_FEES", 1500)
            + of(S, "MUTABLE_LIMITS", 1000) + of(S, "OWNER_PRIVILEGE_ACTIVE", 1000)
            + of(S, "SUSPICIOUSLY_SMALL_BYTECODE", 3000)
    BY DEF Penalties, of
  <1> QED  BY <1>1, <1>2

\* More red flags on a contract or a tokenomics sheet never make a token more attractive,
\* whatever else is known of it and whatever the settings: a scan that finds more can
\* only take points.  (score_tokenomics)
THEOREM FlagsNeverHelp ==
    ASSUME NEW s \in Scored, NEW t \in Scored, NEW c \in Anchors,
           t.known = s.known, t.contract_verified = s.contract_verified,
           s.contract_flags \subseteq t.contract_flags,
           s.tokenomics_flags \subseteq t.tokenomics_flags, IsFiniteSet(t.tokenomics_flags)
    PROVE  score_snapshot(t, c) <= score_snapshot(s, c)
  <1>1. IsFiniteSet(s.tokenomics_flags)
        /\ Cardinality(s.tokenomics_flags) <= Cardinality(t.tokenomics_flags)
    BY FS_Subset
  <1>2. score_tokenomics(t, c) <= score_tokenomics(s, c)
    <2> DEFINE v == IF TRUE \in s.contract_verified THEN 0
                    ELSE IF FALSE \in s.contract_verified THEN 6000 ELSE 3000
               u == IF s.known["days_to_major_unlock"] = {} THEN 1000
                    ELSE IF \E d \in s.known["days_to_major_unlock"] : d < 30 THEN 2000 ELSE 0
               p == Penalties(s.contract_flags)
               q == Penalties(t.contract_flags)
               m == Cardinality(s.tokenomics_flags)
               n == Cardinality(t.tokenomics_flags)
    <2>1. v \in Int /\ u \in Int  OBVIOUS
    <2>2. m \in Int /\ n \in Int /\ m <= n  BY <1>1, FS_CardinalityType
    <2>3. p \in Int /\ q \in Int /\ p <= q  BY PenaltiesAddUp
    <2>4. /\ score_tokenomics(s, c) = clamp(One - v - p - 2000 * m - u)
          /\ score_tokenomics(t, c) = clamp(One - v - q - 2000 * n - u)
      BY DEF score_tokenomics
    <2> HIDE DEF v, u, p, q, m, n
    <2>5. \A a, b \in Int : a <= b => clamp(a) <= clamp(b)  BY DEF clamp, One
    <2>6. /\ One - v - q - 2000 * n - u \in Int /\ One - v - p - 2000 * m - u \in Int
          /\ One - v - q - 2000 * n - u <= One - v - p - 2000 * m - u
      BY <2>1, <2>2, <2>3 DEF One
    <2> QED  BY <2>4, <2>5, <2>6
  <1>3. /\ score_liquidity(t, c) = score_liquidity(s, c)
        /\ score_holders(t, c) = score_holders(s, c)
        /\ score_volume(t, c) = score_volume(s, c)
        /\ score_momentum(t, c) = score_momentum(s, c)
    <2>1. Backing(t) = Backing(s) /\ consistency(t, c) = consistency(s, c)
          /\ granularity(t) = granularity(s)
      BY DEF Backing, consistency, granularity
    <2> QED  BY <2>1 DEF score_liquidity, score_holders, score_volume, score_momentum
  <1>4. /\ score_liquidity(s, c) \in 0..One /\ score_holders(s, c) \in 0..One
        /\ score_volume(s, c) \in 0..One /\ score_tokenomics(s, c) \in 0..One
        /\ score_momentum(s, c) \in 0..One /\ score_tokenomics(t, c) \in 0..One
    BY <1>1, LiquidityFits, HoldersFits, VolumeFits, TokenomicsFits, MomentumFits DEF Fits
  <1> DEFINE a == score_liquidity(s, c)
             b == score_holders(s, c)
             d == score_volume(s, c)
             e == score_tokenomics(s, c)
             g == score_tokenomics(t, c)
             f == score_momentum(s, c)
  <1>5. /\ score_snapshot(s, c) = 30 * a + 25 * b + 20 * d + 15 * e + 10 * f
        /\ score_snapshot(t, c) = 30 * a + 25 * b + 20 * d + 15 * g + 10 * f
    BY <1>3 DEF score_snapshot
  <1>6. a \in Int /\ b \in Int /\ d \in Int /\ e \in Int /\ f \in Int /\ g \in Int /\ g <= e
    BY <1>2, <1>4, InShare
  <1> HIDE DEF a, b, d, e, f, g
  <1> QED  BY <1>5, <1>6
================================================================================
