------------------------------- MODULE Decision -------------------------------
(***************************************************************************)
(* decide(): what the verdict of the gates, the score, the token's own     *)
(* history and the global controls make of one snapshot.  Pure; Screening  *)
(* calls it under the write lock.                                          *)
(*                                                                         *)
(* A verdict records what the gates and the scoring said of a snapshot: a  *)
(* HARD gate failed, a DATA gate failed, something only a person may wave  *)
(* through is open (a LIVE_ONLY gate, no OKX instrument), and the score.   *)
(* A context records what decide() is told about everything else.          *)
(***************************************************************************)
EXTENDS Naturals, Sequences, FiniteSets, Functions

CONSTANTS
    AlertMin,       \* SCORE_ALERT_MIN
    PaperMin,       \* SCORE_PAPER_BUY_MIN
    LiveMin,        \* SCORE_LIVE_BUY_MIN
    Required,       \* STABILITY_REQUIRED_SNAPSHOTS
    MaxStdev,       \* STABILITY_MAX_SCORE_STDEV
    RunMode,        \* RUN_MODE
    Verdict         \* what the gates and the score can say of a snapshot

ASSUME DecisionAssumption ==
    /\ {AlertMin, PaperMin, LiveMin, Required, MaxStdev} \subseteq Nat
    /\ RunMode \in {"ALERT_ONLY", "PAPER", "LIVE"}
    /\ Verdict \subseteq [hard : BOOLEAN, data : BOOLEAN, review : BOOLEAN, score : Nat]

State == {"REJECT", "WATCH", "ALERT", "PAPER_BUY", "LIVE_BUY"}
Buy == {"PAPER_BUY", "LIVE_BUY"}

\* Sample standard deviation at most MaxStdev; fewer than two scores have none.
\* n(n-1) times the variance is the sum of (x - y)^2 over the pairs of scores.
Steady(scores) ==
    LET n == Len(scores)
        Apart(p) == IF scores[p[1]] < scores[p[2]] THEN scores[p[2]] - scores[p[1]]
                                                   ELSE scores[p[1]] - scores[p[2]]
        Pairs == {p \in (1..n) \X (1..n) : p[1] < p[2]}
        Spread == FoldFunction(+, 0, [p \in Pairs |-> Apart(p) * Apart(p)])
    IN  n >= 2 => Spread <= MaxStdev * MaxStdev * n * (n - 1)

is_stable(ctx) == ctx.passes >= Required /\ Steady(ctx.scores)

\* Rules 4 to 7: a clean snapshot goes no further than an alert.
Held(v, ctx) ==
    \/ v.score < PaperMin
    \/ ~is_stable(ctx)
    \/ v.review
    \/ ctx.halted
    \/ ~ctx.exposure_ok
    \/ RunMode = "ALERT_ONLY"

decide(v, ctx) ==
    IF v.hard THEN "REJECT"
    ELSE IF v.data THEN "WATCH"
    ELSE IF v.score < AlertMin THEN "REJECT"
    ELSE IF Held(v, ctx) THEN "ALERT"
    ELSE IF RunMode = "PAPER" \/ v.score < LiveMin THEN "PAPER_BUY"
    ELSE "LIVE_BUY"
===============================================================================
