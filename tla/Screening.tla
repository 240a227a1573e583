------------------------------- MODULE Screening -------------------------------
(***************************************************************************)
(* process_token from the history it reads to the decision and the alert   *)
(* it commits, when several cycles screen the same tokens.                 *)
(*                                                                         *)
(* The history of a token is read in a session of its own that is closed   *)
(* before the network awaits of collect(); the decision made from it is    *)
(* stored in a second session, which holds SQLite's write lock from its    *)
(* first INSERT to its commit, the awaits of dispatch() and of the order   *)
(* included.  OrderExecution models what the order does in there.          *)
(***************************************************************************)
EXTENDS Decision

CONSTANTS
    Worker,           \* cycles that may run at the same time
    Token,            \* rows of the token table
    AlertMinState,    \* ALERT_MIN_STATE
    Depth,            \* evaluations recent_evaluations() returns
    ScoreDepth,       \* scores of them that decide() sees
    LastHour,         \* bound: hours 0..LastHour
    MaxEvals          \* bound: evaluations per token

ASSUME ScreeningAssumption ==
    {Depth, ScoreDepth, LastHour, MaxEvals} \subseteq Nat

VARIABLES
    pc,         \* where each worker is
    history,    \* what it read of its token's history
    snapshot,   \* what it then measured
    row,        \* the evaluation its open transaction has flushed
    note,       \* the alert row it has flushed
    evals,      \* per token: committed evaluations, oldest first
    alerts,     \* committed alert rows
    sent,       \* dedupe keys of the messages that left in the last step
    hour        \* the clock, in hours

local == <<pc, history, snapshot, row, note>>
stored == <<evals, alerts>>
vars == <<local, stored, sent, hour>>

Steps == {"idle", "collect", "screened", "decided", "told"}

History == [token : Token, since : 0..MaxEvals, passes : 0..Depth, scores : Seq(Nat)]
Snapshot == [verdict : Verdict, hour : 0..LastHour, halted : BOOLEAN]

\* An evaluation row; `since` is history: how many evaluations of the token were
\* stored when the worker read them.
Evaluation == [token : Token, state : State, verdict : Verdict, hour : 0..LastHour,
               since : 0..MaxEvals]

\* One alert per token per state per hour, of the snapshot's capture.
Key == [token : Token, state : State, hour : 0..LastHour]

\* An alert row; `nth` is the evaluation of the token it belongs to.
Alert == [key : Key, nth : 1..MaxEvals]

\* A worker whose transaction has written holds the lock.
Writing == {w \in Worker : pc[w] \in {"decided", "told"}}

Goto(w, step) == pc' = [pc EXCEPT ![w] = step]

(***************************************************************************)
(* What is read of a token's history.                                      *)
(***************************************************************************)
LeastOf(a, b) == IF a < b THEN a ELSE b

Clean(e) ==
    /\ ~e.verdict.hard
    /\ ~e.verdict.data
    /\ e.state \in {"PAPER_BUY", "LIVE_BUY", "ALERT"}

\* Variant with a bug: clean evaluations are counted across a failed one.
count_clean_evaluations(evs) ==
    Cardinality({k \in 1..LeastOf(Depth, Len(evs)) : Clean(evs[Len(evs) - k + 1])})

\* How many of the newest evaluations are clean, unbroken, among Depth of them.
count_consecutive_passes(evs) ==
    Cardinality({k \in 1..LeastOf(Depth, Len(evs)) :
                    \A i \in 1..k : Clean(evs[Len(evs) - i + 1])})

\* The scores among the newest evaluations, newest first.
recent_scores(evs) ==
    [i \in 1..LeastOf(LeastOf(Depth, ScoreDepth), Len(evs)) |->
        evs[Len(evs) - i + 1].verdict.score]

(***************************************************************************)
(* Alerts.                                                                 *)
(***************************************************************************)
STATE_ORDER == [s \in State |->
    CASE s = "REJECT" -> 0 [] s = "WATCH" -> 1 [] s = "ALERT" -> 2
      [] s = "PAPER_BUY" -> 3 [] s = "LIVE_BUY" -> 4]

\* An unknown ALERT_MIN_STATE counts as ALERT.
should_alert(s) ==
    STATE_ORDER[s] >= IF AlertMinState \in State THEN STATE_ORDER[AlertMinState] ELSE 2

\* Variant with a bug: the state is left out of the key.
dedupe_key_of_hour(e) == [token |-> e.token, state |-> "ALERT", hour |-> e.hour]

dedupe_key(e) == [token |-> e.token, state |-> e.state, hour |-> e.hour]

\* The row that suppresses another message, as the transaction sees it.
Suppressed(k) == \E a \in alerts : a.key = k

-----------------------------------------------------------------------------
Init ==
    /\ pc = [w \in Worker |-> "idle"]
    /\ history = [w \in Worker |-> {}]
    /\ snapshot = [w \in Worker |-> {}]
    /\ row = [w \in Worker |-> {}]
    /\ note = [w \in Worker |-> {}]
    /\ evals = [t \in Token |-> <<>>]
    /\ alerts = {}
    /\ sent = {}
    /\ hour = 0

NextHour ==
    /\ hour < LastHour
    /\ hour' = hour + 1
    /\ sent' = {}
    /\ UNCHANGED <<local, stored>>

\* The first session of process_token: the evaluations of the token.
ReadHistory(w, t) ==
    /\ pc[w] = "idle"
    /\ Goto(w, "collect")
    /\ sent' = {}
    /\ history' = [history EXCEPT ![w] =
           {[token |-> t, since |-> Len(evals[t]),
             passes |-> count_consecutive_passes(evals[t]),
             scores |-> recent_scores(evals[t])]}]
    /\ UNCHANGED <<snapshot, row, note, stored, hour>>

\* collect() has returned: normalize, the gates, the score and the switches.
Screen(w, v, halted) ==
    /\ pc[w] = "collect"
    /\ Goto(w, "screened")
    /\ sent' = {}
    /\ snapshot' = [snapshot EXCEPT ![w] =
           {[verdict |-> v, hour |-> hour, halted |-> halted]}]
    /\ UNCHANGED <<history, row, note, stored, hour>>

\* The evaluation that the second session of process_token stores.
Judged(h, s, exposure_ok) ==
    LET ctx == [passes |-> h.passes + 1, scores |-> Append(h.scores, s.verdict.score),
                halted |-> s.halted, exposure_ok |-> exposure_ok]
    IN  [token |-> h.token, state |-> decide(s.verdict, ctx), verdict |-> s.verdict,
         hour |-> s.hour, since |-> h.since]

\* Variant with a bug: two transactions write at once.
DecideWithoutLock(w, exposure_ok) ==
    /\ pc[w] = "screened"
    /\ \A h \in history[w] : Len(evals[h.token]) < MaxEvals
    /\ Goto(w, "decided")
    /\ sent' = {}
    /\ row' = [row EXCEPT ![w] =
           {Judged(h, s, exposure_ok) : h \in history[w], s \in snapshot[w]}]
    /\ UNCHANGED <<history, snapshot, note, stored, hour>>

\* The token and the snapshot are written, which takes the lock, the exposure is
\* read, the decision is made and its evaluation flushed.
Decide(w, exposure_ok) ==
    /\ pc[w] = "screened"
    /\ Writing = {}
    /\ \A h \in history[w] : Len(evals[h.token]) < MaxEvals
    /\ Goto(w, "decided")
    /\ sent' = {}
    /\ row' = [row EXCEPT ![w] =
           {Judged(h, s, exposure_ok) : h \in history[w], s \in snapshot[w]}]
    /\ UNCHANGED <<history, snapshot, note, stored, hour>>

\* dispatch: unless a row suppresses it, the sinks are tried, some or none of
\* them delivers, and the row is flushed either way.
dispatch(w, delivered) ==
    /\ pc[w] = "decided"
    /\ Goto(w, "told")
    /\ LET due == {e \in row[w] : should_alert(e.state) /\ ~Suppressed(dedupe_key(e))}
       IN  /\ note' = [note EXCEPT ![w] =
                  {[key |-> dedupe_key(e), nth |-> Len(evals[e.token]) + 1] : e \in due}]
           /\ sent' = IF delivered THEN {dedupe_key(e) : e \in due} ELSE {}
    /\ UNCHANGED <<history, snapshot, row, stored, hour>>

Forget(w) ==
    /\ Goto(w, "idle")
    /\ sent' = {}
    /\ history' = [history EXCEPT ![w] = {}]
    /\ snapshot' = [snapshot EXCEPT ![w] = {}]
    /\ row' = [row EXCEPT ![w] = {}]
    /\ note' = [note EXCEPT ![w] = {}]

\* The order, if there is one, is through and the session commits.
Commit(w) ==
    /\ pc[w] = "told"
    /\ Forget(w)
    /\ \E e \in row[w] : evals' = [evals EXCEPT ![e.token] = Append(@, e)]
    /\ alerts' = alerts \cup note[w]
    /\ UNCHANGED hour

\* Something raises: the session rolls back, run_cycle logs the token as ERROR.
\* Before the lock is taken this is collect() failing; while it is waited for, it
\* is the busy timeout.
Fail(w) ==
    /\ pc[w] # "idle"
    /\ Forget(w)
    /\ UNCHANGED <<stored, hour>>

process_token(w) ==
    \/ \E t \in Token : ReadHistory(w, t)
    \/ \E v \in Verdict, halted \in BOOLEAN : Screen(w, v, halted)
    \/ \E exposure_ok \in BOOLEAN : Decide(w, exposure_ok)
    \/ \E delivered \in BOOLEAN : dispatch(w, delivered)
    \/ Commit(w)
    \/ Fail(w)

Next == NextHour \/ \E w \in Worker : process_token(w)

Spec == Init /\ [][Next]_vars

-----------------------------------------------------------------------------
TypeOK ==
    /\ pc \in [Worker -> Steps]
    /\ history \in [Worker -> SUBSET History]
    /\ snapshot \in [Worker -> SUBSET Snapshot]
    /\ row \in [Worker -> SUBSET Evaluation]
    /\ note \in [Worker -> SUBSET Alert]
    /\ evals \in [Token -> Seq(Evaluation)]
    /\ \A t \in Token : Len(evals[t]) <= MaxEvals
    /\ alerts \subseteq Alert
    /\ sent \subseteq Key
    /\ hour \in 0..LastHour

\* A buy is earned: before its own clean snapshot, the Required - 1 newest
\* evaluations its worker had read were clean, and their scores were steady.
\* (decide's rule 5, count_consecutive_passes and is_stable.)
Earned(e, evs) ==
    e.state \in Buy =>
        /\ Clean(e)
        /\ e.since + 1 >= Required
        /\ \A j \in (e.since - Required + 2)..e.since : Clean(evs[j])
        /\ Steady(Append(recent_scores(SubSeq(evs, 1, e.since)), e.verdict.score))

BuyIsEarned ==
    \A t \in Token : \A i \in DOMAIN evals[t] :
        evals[t][i].since < i /\ Earned(evals[t][i], evals[t])

\* No evaluation that calls for an alert is stored without an alert row of its
\* token, state and hour.  (dispatch runs before the order and in its transaction.)
CallsAreRecorded ==
    \A t \in Token : \A i \in DOMAIN evals[t] :
        should_alert(evals[t][i].state) =>
            \E a \in alerts :
                a.key = [token |-> t, state |-> evals[t][i].state, hour |-> evals[t][i].hour]

\* One alert row per token per state per hour.  No UNIQUE constraint says so: the
\* look-up and the insert rest on the write lock.
OneAlertPerKey == \A a, b \in alerts : a.key = b.key => a = b

\* A message leaves though one of its key has left, or was tried, for an alert row
\* that is stored or that an open transaction, this one or another, has flushed.
Repeats == \E k \in sent' : \E a \in alerts \cup UNION {note[w] : w \in Worker} : a.key = k

\* A call is heard once: its message leaves again only if the transaction of the
\* first was rolled back.  The rows other transactions have open count, though
\* dispatch's look-up does not see them.
HeardOnce == [][~Repeats]_vars

\* Only a stored streak counts, in the order it was stored: between the clean
\* evaluations a buy counts and the buy itself there is no other evaluation.
\* "Stability: how many consecutive passing snapshots before a buy is allowed."
BuyIsFresh ==
    \A t \in Token : \A i \in DOMAIN evals[t] :
        evals[t][i].state \in Buy =>
            \A j \in (i - Required + 1)..i : j \in DOMAIN evals[t] /\ Clean(evals[t][j])
===============================================================================
