------------------------------ MODULE MCScreening ------------------------------
(***************************************************************************)
(* Model-checking instances of Screening.  The verdicts are one per bucket *)
(* of the gates, and two clean ones whose qualifying scores lie further    *)
(* apart than the stability rule allows.  The scores are those of Scoring, *)
(* at the default settings, of the healthy snapshot of tests/conftest.py   *)
(* and of variants of it.                                                  *)
(***************************************************************************)
EXTENDS Screening, TLC

S == INSTANCE Scoring

Defaults == [min_liquidity_usd |-> 150, min_liquidity_usd_live |-> 400,
             max_slippage_bps |-> 150, max_spread_bps |-> 80, max_top1_holder_pct |-> 12,
             max_top10_holder_pct |-> 40, min_unique_holders |-> 300,
             min_volume_24h_usd |-> 100, max_single_window_volume_share |-> 3500,
             min_tx_count_24h |-> 200, max_price_change_24h_pct |-> 60,
             max_price_vs_7d_base_pct |-> 120, max_token_age_hours_for_early |-> 1080]

\* A snapshot of the measures m knows; every other measure is not known.
Known(m) == [known |-> [x \in S!Measure |-> IF x \in DOMAIN m THEN {m[x]} ELSE {}],
             contract_verified |-> {TRUE}, contract_flags |-> {}, tokenomics_flags |-> {}]

Good == [liquidity_usd |-> 1500, market_cap_usd |-> 9000, slippage_bps |-> 30,
         spread_bps |-> 20, top1_holder_pct |-> 4, top10_holder_pct |-> 18,
         unique_holders |-> 6500, holder_growth_24h_pct |-> 12, whale_concentration |-> 150,
         volume_24h |-> 2200, volume_1h |-> 95, tx_count_24h |-> 4100,
         buy_ratio_24h |-> 5100, days_to_major_unlock |-> 90,
         price_change_24h_pct |-> 4, price_vs_7d_base_pct |-> 8,
         drawdown_from_ath_pct |-> 22, token_age_hours |-> 288]

\* Deep, widely held and tightly quoted.
Prime == [liquidity_usd |-> 4000, market_cap_usd |-> 9000, slippage_bps |-> 10,
          spread_bps |-> 5, top1_holder_pct |-> 1, top10_holder_pct |-> 12,
          unique_holders |-> 9700, holder_growth_24h_pct |-> 20] @@ Good

\* Fewer hold the token than its HARD gate asks for, and it still scores above 90.
Narrow == [unique_holders |-> 290] @@ Prime

\* How many hold the token could not be read: a DATA gate.
Uncounted == [x \in DOMAIN Good \ {"unique_holders"} |-> Good[x]]

Points(m) == S!score_snapshot(Known(m), Defaults) \div S!One

Of(hard, data, review, m) ==
    [hard |-> hard, data |-> data, review |-> review, score |-> Points(m)]

Verdicts == {Of(TRUE, FALSE, FALSE, Narrow), Of(FALSE, TRUE, FALSE, Uncounted),
             Of(FALSE, FALSE, TRUE, Good), Of(FALSE, FALSE, FALSE, Good),
             Of(FALSE, FALSE, FALSE, Prime)}

Symmetry == Permutations(Worker)
===============================================================================
