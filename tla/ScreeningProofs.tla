---------------------------- MODULE ScreeningProofs ----------------------------
(***************************************************************************)
(* What a stored decision and a stored alert mean, for any workers, tokens,*)
(* thresholds, history depths and bounds.  The argument for the streak:    *)
(* stored evaluations only grow at the end, so what a worker counted stays *)
(* true of the prefix it read.  The argument for the alerts: between the   *)
(* look-up in dispatch and the commit no other worker writes.              *)
(***************************************************************************)
EXTENDS Screening, FiniteSetTheorems, TLAPS

LEMMA Numbers ==
    /\ Required \in Nat /\ Depth \in Nat /\ ScoreDepth \in Nat
    /\ LastHour \in Nat /\ MaxEvals \in Nat
  BY DecisionAssumption, ScreeningAssumption

LEMMA VerdictFields ==
    ASSUME NEW v \in Verdict
    PROVE  v.hard \in BOOLEAN /\ v.data \in BOOLEAN /\ v.review \in BOOLEAN /\ v.score \in Nat
  BY DecisionAssumption

\* What it takes to be a buy.
LEMMA BuyNeedsStability ==
    ASSUME NEW v \in Verdict, NEW ctx, decide(v, ctx) \in Buy
    PROVE  ~v.hard /\ ~v.data /\ ctx.passes >= Required /\ Steady(ctx.scores)
  BY VerdictFields DEF decide, Buy, Held, is_stable

LEMMA DecisionIsState ==
    ASSUME NEW v, NEW ctx
    PROVE  decide(v, ctx) \in State
  BY DEF decide, State

\* The streak is a number of evaluations at the end, all of them clean.
LEMMA StreakIsClean ==
    ASSUME NEW evs \in Seq(Evaluation), NEW m \in Nat, m <= count_consecutive_passes(evs)
    PROVE  m <= Len(evs) /\ \A j \in (Len(evs) - m + 1)..Len(evs) : Clean(evs[j])
  <1> DEFINE top == LeastOf(Depth, Len(evs))
             S == {k \in 1..top : \A i \in 1..k : Clean(evs[Len(evs) - i + 1])}
  <1>1. Len(evs) \in Nat /\ top \in Nat /\ top <= Len(evs)
    BY Numbers DEF LeastOf
  <1>2. CASE m = 0
    BY <1>1, <1>2
  <1>3. CASE m # 0
    <2>1. m \in S
      <3> HIDE DEF top
      <3>1. SUFFICES ASSUME m \notin S PROVE FALSE
        OBVIOUS
      <3>2. ASSUME NEW k \in S, k >= m PROVE m \in S
        <4>1. k \in 1..top /\ \A i \in 1..k : Clean(evs[Len(evs) - i + 1])
          OBVIOUS
        <4>2. m \in 1..top /\ 1..m \subseteq 1..k
          BY <1>1, <1>3, <3>2, <4>1
        <4> QED BY <4>1, <4>2
      <3>3. ASSUME NEW k \in S PROVE k \in 1..(m - 1)
        <4>1. k \in 1..top /\ ~(k >= m)
          BY <3>1, <3>2
        <4> QED BY <1>1, <4>1
      <3>4. IsFiniteSet(1..(m - 1)) /\ Cardinality(1..(m - 1)) = m - 1
        BY <1>3, FS_Interval
      <3>5. Cardinality(S) <= m - 1
        BY <3>3, <3>4, FS_Subset
      <3>6. IsFiniteSet(S) /\ Cardinality(S) \in Nat
        BY <3>3, <3>4, FS_Subset, FS_CardinalityType
      <3>7. m <= Cardinality(S)
        BY DEF top, count_consecutive_passes
      <3> QED BY <3>5, <3>6, <3>7
    <2>2. m \in 1..top /\ \A i \in 1..m : Clean(evs[Len(evs) - i + 1])
      BY <2>1
    <2>3. ASSUME NEW j \in (Len(evs) - m + 1)..Len(evs) PROVE Clean(evs[j])
      <3> DEFINE i == Len(evs) - j + 1
      <3>1. i \in 1..m /\ Len(evs) - i + 1 = j
        BY <1>1, <2>2
      <3> QED BY <2>2, <3>1
    <2> QED BY <1>1, <2>2, <2>3
  <1> QED BY <1>2, <1>3

LEMMA StreakType ==
    ASSUME NEW evs \in Seq(Evaluation)
    PROVE  count_consecutive_passes(evs) \in 0..Depth
  <1> DEFINE top == LeastOf(Depth, Len(evs))
             S == {k \in 1..top : \A i \in 1..k : Clean(evs[Len(evs) - i + 1])}
  <1>1. top \in Nat /\ top <= Depth
    BY Numbers DEF LeastOf
  <1>2. IsFiniteSet(1..top) /\ Cardinality(1..top) = top
    BY <1>1, FS_Interval
  <1>3. S \subseteq 1..top
    OBVIOUS
  <1> HIDE DEF top, S
  <1>4. IsFiniteSet(S) /\ Cardinality(S) <= top
    BY <1>2, <1>3, FS_Subset
  <1>5. Cardinality(S) \in Nat
    BY <1>4, FS_CardinalityType
  <1>6. Cardinality(S) \in 0..Depth
    BY <1>1, <1>4, <1>5, Numbers
  <1> QED BY <1>6 DEF S, top, count_consecutive_passes

LEMMA ScoresType ==
    ASSUME NEW evs \in Seq(Evaluation)
    PROVE  recent_scores(evs) \in Seq(Nat)
  <1> DEFINE n == LeastOf(LeastOf(Depth, ScoreDepth), Len(evs))
  <1>1. n \in Nat /\ n <= Len(evs)
    BY Numbers DEF LeastOf
  <1>2. ASSUME NEW i \in 1..n PROVE evs[Len(evs) - i + 1].verdict.score \in Nat
    <2>1. Len(evs) - i + 1 \in 1..Len(evs)
      BY <1>1
    <2>2. evs[Len(evs) - i + 1] \in Evaluation
      BY <2>1
    <2>3. evs[Len(evs) - i + 1].verdict \in Verdict
      BY <2>2 DEF Evaluation
    <2> QED BY <2>3, VerdictFields
  <1> HIDE DEF n
  <1> DEFINE f == [i \in 1..n |-> evs[Len(evs) - i + 1].verdict.score]
  <1>3. f \in [1..n -> Nat]
    BY <1>2, Zenon
  <1>4. f \in Seq(Nat)
    <2> HIDE DEF f
    <2> QED BY <1>1, <1>3
  <1> QED BY <1>4 DEF n, recent_scores

\* Appending leaves the prefixes alone.
LEMMA PrefixKept ==
    ASSUME NEW evs \in Seq(Evaluation), NEW e \in Evaluation,
           NEW n \in Nat, n <= Len(evs)
    PROVE  /\ SubSeq(Append(evs, e), 1, n) = SubSeq(evs, 1, n)
           /\ \A j \in 1..n : Append(evs, e)[j] = evs[j]
           /\ Append(evs, e) \in Seq(Evaluation)
           /\ Len(Append(evs, e)) = Len(evs) + 1
           /\ Append(evs, e)[Len(evs) + 1] = e
  OBVIOUS

LEMMA WholePrefix ==
    ASSUME NEW evs \in Seq(Evaluation)
    PROVE  SubSeq(evs, 1, Len(evs)) = evs
  OBVIOUS

\* An earned evaluation stays earned when its token's evaluations grow.
LEMMA EarnedKept ==
    ASSUME NEW evs \in Seq(Evaluation), NEW e \in Evaluation, NEW new \in Evaluation,
           e.since <= Len(evs), Earned(e, evs)
    PROVE  Earned(e, Append(evs, new))
  <1>1. e.since \in Nat
    BY Numbers DEF Evaluation
  <1>2. CASE e.state \in Buy
    <2>1. \A j \in (e.since - Required + 2)..e.since : j \in 1..e.since
      BY <1>1, <1>2, Numbers DEF Earned
    <2> DEFINE longer == Append(evs, new)
    <2>2. SubSeq(longer, 1, e.since) = SubSeq(evs, 1, e.since)
          /\ \A j \in 1..e.since : longer[j] = evs[j]
      BY <1>1, PrefixKept
    <2> HIDE DEF longer
    <2>3. \A j \in (e.since - Required + 2)..e.since : Clean(longer[j])
      BY <1>2, <2>1, <2>2 DEF Earned
    <2>4. Earned(e, longer)
      BY <1>2, <2>2, <2>3 DEF Earned
    <2> QED BY <2>4 DEF longer
  <1>3. CASE e.state \notin Buy
    BY <1>3 DEF Earned
  <1> QED BY <1>2, <1>3

\* What decide() calls a buy is earned with respect to the history it was given.
LEMMA JudgedIsEarned ==
    ASSUME NEW evs \in Seq(Evaluation), NEW h \in History, NEW s \in Snapshot,
           NEW x \in BOOLEAN, h.since <= Len(evs),
           h.passes = count_consecutive_passes(SubSeq(evs, 1, h.since)),
           h.scores = recent_scores(SubSeq(evs, 1, h.since))
    PROVE  Judged(h, s, x) \in Evaluation /\ Earned(Judged(h, s, x), evs)
  <1> DEFINE e == Judged(h, s, x)
             ctx == [passes |-> h.passes + 1, scores |-> Append(h.scores, s.verdict.score),
                     halted |-> s.halted, exposure_ok |-> x]
             read == SubSeq(evs, 1, h.since)
  <1>1. h.since \in Nat /\ h.passes \in Nat /\ s.verdict \in Verdict
    BY Numbers DEF History, Snapshot
  <1>2. e = [token |-> h.token, state |-> decide(s.verdict, ctx), verdict |-> s.verdict,
             hour |-> s.hour, since |-> h.since]
    BY DEF Judged
  <1>3. e \in Evaluation
    BY <1>2, DecisionIsState DEF Evaluation, History, Snapshot
  <1>4. ASSUME e.state \in Buy PROVE Earned(e, evs)
    <2>1. ~s.verdict.hard /\ ~s.verdict.data /\ ctx.passes >= Required /\ Steady(ctx.scores)
      <3> HIDE DEF ctx
      <3> QED BY <1>1, <1>2, <1>4, BuyNeedsStability
    <2>2. Clean(e)
      BY <1>2, <1>4, <2>1 DEF Clean, Buy
    <2>3. read \in Seq(Evaluation) /\ Len(read) = h.since
          /\ \A j \in 1..h.since : read[j] = evs[j]
      BY <1>1
    <2>4. h.passes + 1 >= Required /\ Steady(Append(recent_scores(read), s.verdict.score))
      BY <2>1
    <2>5. h.since + 1 >= Required
          /\ \A j \in (h.since - Required + 2)..h.since : Clean(evs[j])
      <3>1. CASE Required = 0
        BY <1>1, <3>1
      <3>2. CASE Required # 0
        <4> DEFINE m == Required - 1
        <4>1. m \in Nat /\ m <= count_consecutive_passes(read)
          BY <1>1, <2>4, <3>2, Numbers
        <4> HIDE DEF read
        <4>2. m <= h.since /\ \A j \in (h.since - m + 1)..h.since : Clean(read[j])
          BY <2>3, <4>1, StreakIsClean
        <4>3. ASSUME NEW j \in (h.since - Required + 2)..h.since PROVE Clean(evs[j])
          <5>1. j \in (h.since - m + 1)..h.since /\ j \in 1..h.since
            BY <1>1, <4>1, <4>2, Numbers
          <5> QED BY <2>3, <4>2, <5>1
        <4> QED BY <1>1, <4>2, <4>3, Numbers
      <3> QED BY <3>1, <3>2
    <2>6. e.since = h.since /\ e.verdict = s.verdict
      BY <1>2
    <2> HIDE DEF e
    <2> QED BY <2>2, <2>4, <2>5, <2>6 DEF Earned
  <1>5. ASSUME e.state \notin Buy PROVE Earned(e, evs)
    BY <1>5 DEF Earned
  <1> QED BY <1>3, <1>4, <1>5

-----------------------------------------------------------------------------
(***************************************************************************)
(* The inductive invariant.                                                *)
(***************************************************************************)
\* What a worker holds at each step; at most one of everything.
Shape ==
    /\ \A w \in Worker :
        /\ pc[w] = "idle" => history[w] = {} /\ snapshot[w] = {}
        /\ pc[w] \in {"idle", "collect"} => snapshot[w] = {}
        /\ pc[w] \in {"idle", "collect", "screened"} => row[w] = {} /\ note[w] = {}
        /\ pc[w] = "decided" => note[w] = {}
        /\ \A h, g \in history[w] : h = g
        /\ \A s, r \in snapshot[w] : s = r
        /\ \A e, f \in row[w] : e = f
        /\ \A a, b \in note[w] : a = b
    /\ \A v, w \in Writing : v = w

\* The history a worker read is that of a prefix of what is stored now.
HistoryKept ==
    \A w \in Worker : \A h \in history[w] :
        LET read == SubSeq(evals[h.token], 1, h.since)
        IN  /\ h.since <= Len(evals[h.token])
            /\ h.passes = count_consecutive_passes(read)
            /\ h.scores = recent_scores(read)

\* A flushed evaluation can be stored as it is.
RowKept ==
    \A w \in Worker : \A e \in row[w] :
        /\ e.since <= Len(evals[e.token])
        /\ Len(evals[e.token]) < MaxEvals
        /\ Earned(e, evals[e.token])

\* A flushed alert is new, and no call for an alert goes without one.
NoteKept ==
    \A w \in Worker :
        /\ \A a \in note[w], b \in alerts : a.key # b.key
        /\ pc[w] = "told" =>
              \A e \in row[w] : should_alert(e.state) =>
                  \E a \in alerts \cup note[w] : a.key = dedupe_key(e)

\* Evaluations are filed under their token.
Filed == \A t \in Token : \A i \in DOMAIN evals[t] : evals[t][i].token = t

Inv ==
    /\ TypeOK /\ Shape /\ HistoryKept /\ RowKept /\ NoteKept /\ Filed
    /\ BuyIsEarned /\ CallsAreRecorded /\ OneAlertPerKey

LEMMA InvInit == Init => Inv
  BY Numbers DEF Init, Inv, TypeOK, Steps, local, stored, Shape, Writing, HistoryKept, RowKept,
        NoteKept, Filed, BuyIsEarned, CallsAreRecorded, OneAlertPerKey

\* Steps that write nothing to the database.
LEMMA StoredKept ==
    ASSUME Inv, UNCHANGED stored
    PROVE  Filed' /\ BuyIsEarned' /\ CallsAreRecorded' /\ OneAlertPerKey'
  BY DEF Inv, stored, Filed, BuyIsEarned, CallsAreRecorded, OneAlertPerKey

LEMMA InvNextHour == Inv /\ NextHour => Inv'
  <1> SUFFICES ASSUME Inv, NextHour PROVE Inv'
    OBVIOUS
  <1>1. UNCHANGED <<pc, history, snapshot, row, note, evals, alerts>> /\ sent' = {}
        /\ hour' = hour + 1 /\ hour < LastHour /\ UNCHANGED stored
    BY DEF NextHour, local, stored
  <1>2. TypeOK'
    BY <1>1, Numbers DEF Inv, TypeOK
  <1>3. Shape' /\ HistoryKept' /\ RowKept' /\ NoteKept'
    BY <1>1 DEF Inv, Shape, Writing, HistoryKept, RowKept, NoteKept
  <1> QED BY <1>1, <1>2, <1>3, StoredKept DEF Inv

LEMMA InvReadHistory ==
    ASSUME NEW w \in Worker, NEW t \in Token, Inv, ReadHistory(w, t)
    PROVE  Inv'
  <1> DEFINE h == [token |-> t, since |-> Len(evals[t]),
                   passes |-> count_consecutive_passes(evals[t]),
                   scores |-> recent_scores(evals[t])]
  <1>1. /\ pc[w] = "idle" /\ pc' = [pc EXCEPT ![w] = "collect"] /\ sent' = {}
        /\ history' = [history EXCEPT ![w] = {h}]
        /\ UNCHANGED <<snapshot, row, note, evals, alerts, hour>> /\ UNCHANGED stored
    BY DEF ReadHistory, Goto, stored
  <1>2. evals[t] \in Seq(Evaluation) /\ Len(evals[t]) \in 0..MaxEvals
    BY Numbers DEF Inv, TypeOK
  <1>3. h \in History
    BY <1>2, StreakType, ScoresType DEF History
  <1>4. /\ h.token = t /\ h.since = Len(evals[t])
        /\ h.passes = count_consecutive_passes(SubSeq(evals[t], 1, h.since))
        /\ h.scores = recent_scores(SubSeq(evals[t], 1, h.since))
    BY <1>2, WholePrefix
  <1> HIDE DEF h
  <1>5. TypeOK'
    BY <1>1, <1>3 DEF Inv, TypeOK, Steps
  <1>6. Shape'
    BY <1>1 DEF Inv, TypeOK, Shape, Writing
  <1>7. HistoryKept'
    BY <1>1, <1>2, <1>4 DEF Inv, TypeOK, HistoryKept
  <1>8. RowKept' /\ NoteKept'
    BY <1>1 DEF Inv, TypeOK, RowKept, NoteKept
  <1> QED BY <1>1, <1>5, <1>6, <1>7, <1>8, StoredKept DEF Inv

LEMMA InvScreen ==
    ASSUME NEW w \in Worker, NEW v \in Verdict, NEW halted \in BOOLEAN, Inv, Screen(w, v, halted)
    PROVE  Inv'
  <1> DEFINE s == [verdict |-> v, hour |-> hour, halted |-> halted]
  <1>1. /\ pc[w] = "collect" /\ pc' = [pc EXCEPT ![w] = "screened"] /\ sent' = {}
        /\ snapshot' = [snapshot EXCEPT ![w] = {s}]
        /\ UNCHANGED <<history, row, note, evals, alerts, hour>> /\ UNCHANGED stored
    BY DEF Screen, Goto, stored
  <1>2. s \in Snapshot
    BY DEF Inv, TypeOK, Snapshot
  <1> HIDE DEF s
  <1>3. TypeOK'
    BY <1>1, <1>2 DEF Inv, TypeOK, Steps
  <1>4. Shape'
    BY <1>1 DEF Inv, TypeOK, Shape, Writing
  <1>5. HistoryKept' /\ RowKept' /\ NoteKept'
    BY <1>1 DEF Inv, TypeOK, HistoryKept, RowKept, NoteKept
  <1> QED BY <1>1, <1>3, <1>4, <1>5, StoredKept DEF Inv

LEMMA InvDecide ==
    ASSUME NEW w \in Worker, NEW x \in BOOLEAN, Inv, Decide(w, x)
    PROVE  Inv'
  <1> DEFINE new == {Judged(h, s, x) : h \in history[w], s \in snapshot[w]}
  <1>1. /\ pc[w] = "screened" /\ pc' = [pc EXCEPT ![w] = "decided"] /\ sent' = {}
        /\ Writing = {} /\ \A h \in history[w] : Len(evals[h.token]) < MaxEvals
        /\ row' = [row EXCEPT ![w] = new]
        /\ UNCHANGED <<history, snapshot, note, evals, alerts, hour>> /\ UNCHANGED stored
    BY DEF Decide, Goto, stored
  <1>2. ASSUME NEW h \in history[w], NEW s \in snapshot[w]
        PROVE  /\ Judged(h, s, x) \in Evaluation
               /\ Judged(h, s, x).since <= Len(evals[Judged(h, s, x).token])
               /\ Len(evals[Judged(h, s, x).token]) < MaxEvals
               /\ Earned(Judged(h, s, x), evals[Judged(h, s, x).token])
    <2>1. h \in History /\ s \in Snapshot
      BY DEF Inv, TypeOK
    <2>2. h.token \in Token /\ evals[h.token] \in Seq(Evaluation)
      BY <2>1 DEF Inv, TypeOK, History
    <2>3. Judged(h, s, x).token = h.token /\ Judged(h, s, x).since = h.since
      BY DEF Judged
    <2>4. /\ h.since <= Len(evals[h.token])
          /\ h.passes = count_consecutive_passes(SubSeq(evals[h.token], 1, h.since))
          /\ h.scores = recent_scores(SubSeq(evals[h.token], 1, h.since))
      BY DEF Inv, HistoryKept
    <2>5. Judged(h, s, x) \in Evaluation /\ Earned(Judged(h, s, x), evals[h.token])
      BY <2>1, <2>2, <2>4, JudgedIsEarned
    <2> QED BY <1>1, <2>3, <2>4, <2>5
  <1>3. /\ new \subseteq Evaluation
        /\ \A e \in new : /\ e.since <= Len(evals[e.token])
                          /\ Len(evals[e.token]) < MaxEvals
                          /\ Earned(e, evals[e.token])
    BY <1>2
  <1>4. \A e, f \in new : e = f
    BY DEF Inv, Shape
  <1> HIDE DEF new
  <1>5. TypeOK'
    BY <1>1, <1>3 DEF Inv, TypeOK, Steps
  <1>6. Shape'
    <2>1. \A u \in Writing' : u = w
      BY <1>1 DEF Inv, TypeOK, Writing
    <2> QED BY <1>1, <1>4, <2>1 DEF Inv, TypeOK, Shape
  <1>7. HistoryKept' /\ NoteKept'
    BY <1>1 DEF Inv, TypeOK, HistoryKept, NoteKept
  <1>8. RowKept'
    BY <1>1, <1>3 DEF Inv, TypeOK, RowKept
  <1> QED BY <1>1, <1>5, <1>6, <1>7, <1>8, StoredKept DEF Inv

LEMMA InvDispatch ==
    ASSUME NEW w \in Worker, NEW delivered \in BOOLEAN, Inv, dispatch(w, delivered)
    PROVE  Inv'
  <1> DEFINE due == {e \in row[w] : should_alert(e.state) /\ ~Suppressed(dedupe_key(e))}
             new == {[key |-> dedupe_key(e), nth |-> Len(evals[e.token]) + 1] : e \in due}
  <1>1. /\ pc[w] = "decided" /\ pc' = [pc EXCEPT ![w] = "told"]
        /\ note' = [note EXCEPT ![w] = new]
        /\ sent' = IF delivered THEN {dedupe_key(e) : e \in due} ELSE {}
        /\ UNCHANGED <<history, snapshot, row, evals, alerts, hour>> /\ UNCHANGED stored
    BY DEF dispatch, Goto, stored
  <1>2. ASSUME NEW e \in row[w]
        PROVE  /\ dedupe_key(e) \in Key
               /\ [key |-> dedupe_key(e), nth |-> Len(evals[e.token]) + 1] \in Alert
    <2>1. e \in Evaluation /\ e.token \in Token /\ Len(evals[e.token]) < MaxEvals
      BY DEF Inv, TypeOK, RowKept, Evaluation
    <2>2. Len(evals[e.token]) \in Nat
      BY <2>1 DEF Inv, TypeOK
    <2>3. dedupe_key(e) \in Key
      BY <2>1 DEF Evaluation, Key, dedupe_key
    <2>4. Len(evals[e.token]) + 1 \in 1..MaxEvals
      BY <2>1, <2>2, Numbers
    <2> QED BY <2>3, <2>4 DEF Alert
  <1>3. new \subseteq Alert /\ {dedupe_key(e) : e \in due} \subseteq Key
    BY <1>2
  <1>4. /\ \A a, b \in new : a = b
        /\ \A a \in new, b \in alerts : a.key # b.key
        /\ \A e \in due : \A b \in alerts : dedupe_key(e) # b.key
    BY DEF Inv, Shape, Suppressed
  <1>5. ASSUME NEW e \in row[w], should_alert(e.state)
        PROVE  \E a \in alerts \cup new : a.key = dedupe_key(e)
    <2>1. CASE Suppressed(dedupe_key(e))
      BY <2>1 DEF Suppressed
    <2>2. CASE ~Suppressed(dedupe_key(e))
      <3> DEFINE a == [key |-> dedupe_key(e), nth |-> Len(evals[e.token]) + 1]
      <3>1. e \in due
        BY <1>5, <2>2
      <3>2. a \in new /\ a.key = dedupe_key(e)
        BY <3>1
      <3> HIDE DEF a, new
      <3> QED BY <3>2
    <2> QED BY <2>1, <2>2
  <1> HIDE DEF new
  <1>7. TypeOK'
    BY <1>1, <1>3 DEF Inv, TypeOK, Steps
  <1>8. Shape'
    BY <1>1, <1>4 DEF Inv, TypeOK, Shape, Writing
  <1>9. HistoryKept' /\ RowKept'
    BY <1>1 DEF Inv, TypeOK, HistoryKept, RowKept
  <1>10. NoteKept'
    BY <1>1, <1>4, <1>5 DEF Inv, TypeOK, NoteKept
  <1> QED BY <1>1, <1>7, <1>8, <1>9, <1>10, StoredKept DEF Inv

\* What forgetting does to a worker's share of the invariant.
LEMMA ForgetKeepsShape ==
    ASSUME NEW w \in Worker, Inv, Forget(w)
    PROVE  /\ Shape' /\ sent' = {}
           /\ pc' \in [Worker -> Steps] /\ history' \in [Worker -> SUBSET History]
           /\ snapshot' \in [Worker -> SUBSET Snapshot]
           /\ row' \in [Worker -> SUBSET Evaluation] /\ note' \in [Worker -> SUBSET Alert]
           /\ pc'[w] = "idle" /\ history'[w] = {} /\ row'[w] = {} /\ note'[w] = {}
           /\ \A u \in Worker : u # w =>
                  /\ pc'[u] = pc[u] /\ history'[u] = history[u]
                  /\ row'[u] = row[u] /\ note'[u] = note[u]
  <1>1. /\ pc' = [pc EXCEPT ![w] = "idle"] /\ history' = [history EXCEPT ![w] = {}]
        /\ snapshot' = [snapshot EXCEPT ![w] = {}]
        /\ row' = [row EXCEPT ![w] = {}] /\ note' = [note EXCEPT ![w] = {}] /\ sent' = {}
    BY DEF Forget, Goto
  <1>2. Shape'
    BY <1>1 DEF Inv, TypeOK, Shape, Writing
  <1>3. /\ pc \in [Worker -> Steps] /\ history \in [Worker -> SUBSET History]
        /\ snapshot \in [Worker -> SUBSET Snapshot]
        /\ row \in [Worker -> SUBSET Evaluation] /\ note \in [Worker -> SUBSET Alert]
        /\ "idle" \in Steps
    BY DEF Inv, TypeOK, Steps
  <1>4. /\ pc'[w] = "idle" /\ history'[w] = {} /\ row'[w] = {} /\ note'[w] = {}
        /\ \A u \in Worker : u # w =>
               /\ pc'[u] = pc[u] /\ history'[u] = history[u]
               /\ row'[u] = row[u] /\ note'[u] = note[u]
    BY <1>1, <1>3
  <1>5. /\ pc' \in [Worker -> Steps] /\ history' \in [Worker -> SUBSET History]
        /\ snapshot' \in [Worker -> SUBSET Snapshot]
        /\ row' \in [Worker -> SUBSET Evaluation] /\ note' \in [Worker -> SUBSET Alert]
    BY <1>1, <1>3
  <1> QED BY <1>1, <1>2, <1>4, <1>5

LEMMA InvFail ==
    ASSUME NEW w \in Worker, Inv, Fail(w)
    PROVE  Inv'
  <1>1. Forget(w) /\ UNCHANGED <<evals, alerts, hour>> /\ UNCHANGED stored
    BY DEF Fail, stored
  <1>2. TypeOK' /\ Shape'
    BY <1>1, ForgetKeepsShape DEF Inv, TypeOK
  <1>3. /\ sent' = {}
        /\ \A u \in Worker : /\ history'[u] \subseteq history[u]
                           /\ row'[u] \subseteq row[u] /\ note'[u] \subseteq note[u]
                           /\ (pc'[u] = "told" => (pc[u] = "told" /\ note'[u] = note[u]))
    BY <1>1, ForgetKeepsShape
  <1>4. HistoryKept'
    BY <1>1, <1>3 DEF Inv, HistoryKept
  <1>5. RowKept'
    BY <1>1, <1>3 DEF Inv, RowKept
  <1>6. NoteKept'
    BY <1>1, <1>3 DEF Inv, NoteKept
  <1> QED BY <1>1, <1>2, <1>4, <1>5, <1>6, StoredKept DEF Inv

LEMMA InvCommit ==
    ASSUME NEW w \in Worker, Inv, Commit(w)
    PROVE  Inv'
  <1>1. PICK e \in row[w] : evals' = [evals EXCEPT ![e.token] = Append(@, e)]
    BY DEF Commit
  <1>2. /\ pc[w] = "told" /\ Forget(w) /\ alerts' = alerts \cup note[w] /\ UNCHANGED hour
    BY DEF Commit
  <1>3. /\ e \in Evaluation /\ e.token \in Token /\ e.since <= Len(evals[e.token])
        /\ Len(evals[e.token]) < MaxEvals /\ Earned(e, evals[e.token])
    BY DEF Inv, TypeOK, RowKept, Evaluation
  <1> DEFINE old == evals[e.token]
             new == Append(old, e)
  <1>4. old \in Seq(Evaluation) /\ Len(old) \in Nat
    BY <1>3 DEF Inv, TypeOK
  <1>5. /\ new \in Seq(Evaluation) /\ Len(new) = Len(old) + 1 /\ new[Len(old) + 1] = e
        /\ \A j \in 1..Len(old) : new[j] = old[j]
        /\ \A n \in 0..Len(old) : SubSeq(new, 1, n) = SubSeq(old, 1, n)
    BY <1>3, <1>4, PrefixKept
  <1>6. /\ evals' \in [Token -> Seq(Evaluation)]
        /\ evals'[e.token] = new
        /\ \A t \in Token : t # e.token => evals'[t] = evals[t]
    BY <1>1, <1>3, <1>5 DEF Inv, TypeOK
  <1>7. ASSUME NEW f \in Evaluation, f.since <= Len(old), Earned(f, old) PROVE Earned(f, new)
    BY <1>3, <1>4, <1>7, EarnedKept
  <1> HIDE DEF new, old
  <1>8. \A v \in Worker : v # w => row[v] = {} /\ note[v] = {}
    <2> SUFFICES ASSUME NEW v \in Worker, v # w PROVE row[v] = {} /\ note[v] = {}
      OBVIOUS
    <2>1. w \in Writing /\ v \notin Writing
      BY <1>2 DEF Inv, Shape, Writing
    <2>2. pc[v] \in {"idle", "collect", "screened"}
      BY <2>1 DEF Inv, TypeOK, Steps, Writing
    <2> QED BY <2>2 DEF Inv, Shape
  <1>9. TypeOK'
    <2>1. ASSUME NEW t \in Token PROVE Len(evals'[t]) <= MaxEvals
      <3>1. CASE t = e.token
        <4>1. Len(old) + 1 <= MaxEvals
          BY <1>3, <1>4, Numbers DEF old
        <4> QED BY <1>5, <1>6, <3>1, <4>1
      <3>2. CASE t # e.token
        BY <1>6, <3>2 DEF Inv, TypeOK
      <3> QED BY <3>1, <3>2
    <2>2. alerts' \subseteq Alert
      BY <1>2 DEF Inv, TypeOK
    <2> QED BY <1>2, <1>6, <2>1, <2>2, ForgetKeepsShape DEF Inv, TypeOK
  <1>10. HistoryKept'
    <2> SUFFICES ASSUME NEW u \in Worker, NEW h \in history'[u]
                 PROVE  /\ h.since <= Len(evals'[h.token])
                        /\ SubSeq(evals'[h.token], 1, h.since) = SubSeq(evals[h.token], 1, h.since)
                        /\ h \in history[u]
      BY DEF Inv, HistoryKept
    <2>1. h \in history[u] /\ h \in History
      <3>1. h \in history[u]
        BY <1>2, ForgetKeepsShape
      <3> QED BY <3>1 DEF Inv, TypeOK
    <2>2. h.since \in Nat /\ h.token \in Token /\ h.since <= Len(evals[h.token])
      BY <2>1, Numbers DEF Inv, HistoryKept, History
    <2>3. CASE h.token = e.token
      BY <1>4, <1>5, <1>6, <2>1, <2>2, <2>3 DEF old
    <2>4. CASE h.token # e.token
      BY <1>6, <2>1, <2>2, <2>4
    <2> QED BY <2>3, <2>4
  <1>11. RowKept' /\ NoteKept'
    <2>1. ASSUME NEW u \in Worker PROVE row'[u] = {} /\ note'[u] = {}
      <3>1. CASE u = w
        BY <1>2, <3>1, ForgetKeepsShape
      <3>2. CASE u # w
        BY <1>2, <1>8, <3>2, ForgetKeepsShape
      <3> QED BY <3>1, <3>2
    <2>2. sent' = {}
      BY <1>2, ForgetKeepsShape
    <2> QED BY <2>1, <2>2 DEF RowKept, NoteKept
  \* Every stored evaluation is an old one or the new one.
  <1>12. ASSUME NEW t \in Token, NEW i \in DOMAIN evals'[t]
         PROVE  \/ i \in DOMAIN evals[t] /\ evals'[t][i] = evals[t][i]
                \/ t = e.token /\ i = Len(old) + 1 /\ evals'[t][i] = e
    <2>1. CASE t = e.token
      <3>1. i \in 1..(Len(old) + 1)
        BY <1>4, <1>5, <1>6, <2>1
      <3> QED BY <1>4, <1>5, <1>6, <2>1, <3>1 DEF old
    <2>2. CASE t # e.token
      BY <1>6, <2>2
    <2> QED BY <2>1, <2>2
  <1>13. Filed'
    BY <1>12 DEF Inv, Filed
  <1>14. BuyIsEarned'
    <2> SUFFICES ASSUME NEW t \in Token, NEW i \in DOMAIN evals'[t]
                 PROVE  evals'[t][i].since < i /\ Earned(evals'[t][i], evals'[t])
      BY DEF BuyIsEarned
    <2>1. CASE i \in DOMAIN evals[t] /\ evals'[t][i] = evals[t][i]
      <3>1. evals[t][i].since < i /\ Earned(evals[t][i], evals[t])
        BY <2>1 DEF Inv, BuyIsEarned
      <3>2. CASE t = e.token
        <4>1. i \in 1..Len(old) /\ old[i] \in Evaluation /\ old[i].since \in Nat
          <5>1. i \in 1..Len(old)
            BY <1>4, <2>1, <3>2 DEF old
          <5>2. old[i] \in Evaluation
            BY <1>4, <5>1
          <5> QED BY <5>1, <5>2, Numbers DEF Evaluation
        <4>2. old[i].since <= Len(old) /\ Earned(old[i], old)
          BY <1>4, <3>1, <3>2, <4>1 DEF old
        <4> QED BY <1>6, <1>7, <2>1, <3>1, <3>2, <4>1, <4>2 DEF old
      <3>3. CASE t # e.token
        BY <1>6, <2>1, <3>1, <3>3
      <3> QED BY <3>2, <3>3
    <2>2. CASE t = e.token /\ i = Len(old) + 1 /\ evals'[t][i] = e
      <3>1. e.since \in Nat /\ e.since <= Len(old) /\ Earned(e, old)
        BY <1>3, Numbers DEF old, Evaluation
      <3> QED BY <1>3, <1>4, <1>6, <1>7, <2>2, <3>1
    <2> QED BY <1>12, <2>1, <2>2
  <1>15. CallsAreRecorded'
    <2> SUFFICES ASSUME NEW t \in Token, NEW i \in DOMAIN evals'[t],
                        should_alert(evals'[t][i].state)
                 PROVE  \E a \in alerts' : a.key = [token |-> t, state |-> evals'[t][i].state,
                                                   hour |-> evals'[t][i].hour]
      BY DEF CallsAreRecorded
    <2>1. CASE i \in DOMAIN evals[t] /\ evals'[t][i] = evals[t][i]
      BY <1>2, <2>1 DEF Inv, CallsAreRecorded
    <2>2. CASE t = e.token /\ i = Len(old) + 1 /\ evals'[t][i] = e
      <3>1. \E a \in alerts \cup note[w] : a.key = dedupe_key(e)
        BY <1>2, <2>2 DEF Inv, NoteKept
      <3> QED BY <1>2, <2>2, <3>1 DEF dedupe_key
    <2> QED BY <1>12, <2>1, <2>2
  <1>16. OneAlertPerKey'
    BY <1>2 DEF Inv, OneAlertPerKey, NoteKept, Shape
  <1> QED BY <1>2, <1>9, <1>10, <1>11, <1>13, <1>14, <1>15, <1>16, ForgetKeepsShape DEF Inv

LEMMA InvNext == Inv /\ [Next]_vars => Inv'
  <1> SUFFICES ASSUME Inv, [Next]_vars PROVE Inv'
    OBVIOUS
  <1>1. CASE NextHour
    BY <1>1, InvNextHour
  <1>2. ASSUME NEW w \in Worker, process_token(w) PROVE Inv'
    BY <1>2, InvReadHistory, InvScreen, InvDecide, InvDispatch, InvCommit, InvFail
       DEF process_token
  <1>3. CASE UNCHANGED vars
    <2>1. UNCHANGED <<pc, history, snapshot, row, note, evals, alerts, sent, hour>>
          /\ UNCHANGED stored
      BY <1>3 DEF vars, local, stored
    <2>2. TypeOK' /\ Shape' /\ HistoryKept' /\ RowKept' /\ NoteKept'
      BY <2>1 DEF Inv, TypeOK, Shape, Writing, HistoryKept, RowKept, NoteKept
    <2> QED BY <2>1, <2>2, StoredKept DEF Inv
  <1> QED BY <1>1, <1>2, <1>3 DEF Next

LEMMA Invariance == Spec => []Inv
  BY InvInit, InvNext, PTL DEF Spec

-----------------------------------------------------------------------------
\* Screening is type correct for any workers, tokens, thresholds and depths.
THEOREM TypeCorrect == Spec => []TypeOK
  <1>1. Inv => TypeOK
    BY DEF Inv
  <1> QED BY Invariance, <1>1, PTL

\* Whatever other cycles do meanwhile, a stored buy was backed by the clean and
\* steady streak its worker had read.
THEOREM BuysAreEarned == Spec => []BuyIsEarned
  <1>1. Inv => BuyIsEarned
    BY DEF Inv
  <1> QED BY Invariance, <1>1, PTL

\* The write lock alone keeps the alert rows unique per token, state and hour.
THEOREM AlertsAreUnique == Spec => []OneAlertPerKey
  <1>1. Inv => OneAlertPerKey
    BY DEF Inv
  <1> QED BY Invariance, <1>1, PTL

\* No decision that calls for an alert is stored without the alert's row.
THEOREM CallsRecorded == Spec => []CallsAreRecorded
  <1>1. Inv => CallsAreRecorded
    BY DEF Inv
  <1> QED BY Invariance, <1>1, PTL

\* The look-up of dispatch reads committed rows only; while its transaction is open
\* no other has a row flushed.
LEMMA DispatchIsHeardOnce ==
    ASSUME NEW w \in Worker, NEW delivered \in BOOLEAN, Inv, dispatch(w, delivered)
    PROVE  ~Repeats
  <1>1. pc[w] = "decided" /\ w \in Writing
    BY DEF dispatch, Writing
  <1>2. ASSUME NEW v \in Worker PROVE note[v] = {}
    <2>1. CASE v = w
      BY <1>1, <2>1 DEF Inv, Shape
    <2>2. CASE v # w
      <3>1. v \notin Writing
        BY <1>1, <2>2 DEF Inv, Shape
      <3>2. pc[v] \in {"idle", "collect", "screened"}
        BY <3>1 DEF Inv, TypeOK, Steps, Writing
      <3> QED BY <3>2 DEF Inv, Shape
    <2> QED BY <2>1, <2>2
  <1>3. ASSUME NEW k \in sent' PROVE ~Suppressed(k)
    BY DEF dispatch
  <1> QED BY <1>2, <1>3 DEF Repeats, Suppressed

LEMMA StepIsHeardOnce == Inv /\ Next => ~Repeats
  <1> SUFFICES ASSUME Inv, Next PROVE ~Repeats
    OBVIOUS
  <1>1. CASE NextHour
    BY <1>1 DEF NextHour, Repeats
  <1>2. ASSUME NEW w \in Worker, process_token(w) PROVE ~Repeats
    <2>1. CASE \E delivered \in BOOLEAN : dispatch(w, delivered)
      BY <2>1, DispatchIsHeardOnce
    <2>2. CASE ~\E delivered \in BOOLEAN : dispatch(w, delivered)
      <3>1. sent' = {}
        BY <1>2, <2>2 DEF process_token, ReadHistory, Screen, Decide, Commit, Fail, Forget
      <3> QED BY <3>1 DEF Repeats
    <2> QED BY <2>1, <2>2
  <1> QED BY <1>1, <1>2 DEF Next

\* However cycles overlap, a call's message leaves again only if the transaction of
\* the first was rolled back: the write lock covers the look-up, the sending and
\* the insert.
THEOREM CallsAreHeardOnce == Spec => HeardOnce
  <1>1. Inv /\ [Next]_vars => [~Repeats]_vars
    BY StepIsHeardOnce
  <1> QED BY <1>1, Invariance, PTL DEF Spec, HeardOnce

-----------------------------------------------------------------------------
(***************************************************************************)
(* Without a second cycle nothing is stored behind a worker's back.        *)
(***************************************************************************)
Alone == \A v, w \in Worker : v = w

NothingUnseen ==
    /\ \A w \in Worker : \A h \in history[w] : h.since = Len(evals[h.token])
    /\ \A w \in Worker : \A e \in row[w] : e.since = Len(evals[e.token])
    /\ \A t \in Token : \A i \in DOMAIN evals[t] : evals[t][i].since = i - 1

LEMMA UnseenInit == Init => NothingUnseen
  BY DEF Init, NothingUnseen

LEMMA UnseenCommit ==
    ASSUME Alone, Inv, NothingUnseen, NEW w \in Worker, Commit(w)
    PROVE  NothingUnseen'
  <1>1. PICK e \in row[w] : evals' = [evals EXCEPT ![e.token] = Append(@, e)]
    BY DEF Commit
  <1>2. e \in Evaluation /\ e.token \in Token /\ e.since = Len(evals[e.token])
    BY DEF Inv, TypeOK, Evaluation, NothingUnseen
  <1>3. history'[w] = {} /\ row'[w] = {}
    BY ForgetKeepsShape DEF Commit
  <1>4. \A u \in Worker : history'[u] = {} /\ row'[u] = {}
    BY <1>3 DEF Alone
  <1> DEFINE old == evals[e.token]
  <1>5. old \in Seq(Evaluation) /\ Len(old) \in Nat
    BY <1>2 DEF Inv, TypeOK
  <1>6. /\ evals'[e.token] = Append(old, e)
        /\ \A t \in Token : t # e.token => evals'[t] = evals[t]
    BY <1>1, <1>2 DEF Inv, TypeOK
  <1>7. ASSUME NEW t \in Token, NEW i \in DOMAIN evals'[t] PROVE evals'[t][i].since = i - 1
    <2>1. CASE t # e.token
      BY <1>6, <2>1 DEF NothingUnseen
    <2>2. CASE t = e.token
      <3>1. i \in 1..(Len(old) + 1)
        BY <1>2, <1>5, <1>6, <2>2
      <3>2. CASE i = Len(old) + 1
        BY <1>2, <1>5, <1>6, <2>2, <3>2
      <3>3. CASE i # Len(old) + 1
        <4>1. i \in DOMAIN old /\ Append(old, e)[i] = old[i]
          BY <1>2, <1>5, <3>1, <3>3
        <4> QED BY <1>6, <2>2, <4>1 DEF NothingUnseen
      <3> QED BY <3>2, <3>3
    <2> QED BY <2>1, <2>2
  <1> QED BY <1>4, <1>7 DEF NothingUnseen

LEMMA UnseenNext == Alone /\ Inv /\ NothingUnseen /\ [Next]_vars => NothingUnseen'
  <1> SUFFICES ASSUME Alone, Inv, NothingUnseen, [Next]_vars PROVE NothingUnseen'
    OBVIOUS
  <1>1. CASE NextHour
    BY <1>1 DEF NextHour, local, stored, NothingUnseen
  <1>2. CASE UNCHANGED vars
    BY <1>2 DEF vars, local, stored, NothingUnseen
  <1>3. ASSUME NEW w \in Worker, process_token(w) PROVE NothingUnseen'
    <2>1. ASSUME NEW t \in Token, ReadHistory(w, t) PROVE NothingUnseen'
      BY <2>1 DEF ReadHistory, stored, NothingUnseen, Inv, TypeOK
    <2>2. ASSUME NEW v \in Verdict, NEW halted \in BOOLEAN, Screen(w, v, halted)
          PROVE  NothingUnseen'
      BY <2>2 DEF Screen, stored, NothingUnseen
    <2>3. ASSUME NEW x \in BOOLEAN, Decide(w, x) PROVE NothingUnseen'
      <3>1. UNCHANGED <<history, evals>>
            /\ row' = [row EXCEPT ![w] =
                          {Judged(h, s, x) : h \in history[w], s \in snapshot[w]}]
        BY <2>3 DEF Decide, stored
      <3>2. \A h, s : Judged(h, s, x).token = h.token /\ Judged(h, s, x).since = h.since
        BY DEF Judged
      <3> QED BY <3>1, <3>2 DEF NothingUnseen, Inv, TypeOK
    <2>4. ASSUME NEW d \in BOOLEAN, dispatch(w, d) PROVE NothingUnseen'
      BY <2>4 DEF dispatch, stored, NothingUnseen
    <2>5. CASE Commit(w)
      BY <2>5, UnseenCommit
    <2>6. CASE Fail(w)
      <3>1. \A u \in Worker : history'[u] \subseteq history[u] /\ row'[u] \subseteq row[u]
        BY <2>6, ForgetKeepsShape DEF Fail
      <3>2. UNCHANGED evals
        BY <2>6 DEF Fail, stored
      <3> QED BY <3>1, <3>2 DEF NothingUnseen
    <2> QED BY <1>3, <2>1, <2>2, <2>3, <2>4, <2>5, <2>6 DEF process_token
  <1> QED BY <1>1, <1>2, <1>3 DEF Next

LEMMA UnseenMakesFresh == Inv /\ NothingUnseen => BuyIsFresh
  <1> SUFFICES ASSUME Inv, NothingUnseen, NEW t \in Token, NEW i \in DOMAIN evals[t],
                      evals[t][i].state \in Buy, NEW j \in (i - Required + 1)..i
               PROVE  j \in DOMAIN evals[t] /\ Clean(evals[t][j])
    BY DEF BuyIsFresh
  <1> DEFINE e == evals[t][i]
  <1>1. i \in Nat /\ j \in Int /\ Required \in Nat /\ DOMAIN evals[t] = 1..Len(evals[t])
        /\ Len(evals[t]) \in Nat
    BY Numbers DEF Inv, TypeOK
  <1>2. e.since = i - 1 /\ Earned(e, evals[t])
    BY DEF Inv, NothingUnseen, BuyIsEarned
  <1>3. Clean(e) /\ i >= Required
        /\ \A k \in (i - 1 - Required + 2)..(i - 1) : Clean(evals[t][k])
    BY <1>1, <1>2 DEF Earned
  <1>4. j \in DOMAIN evals[t]
    BY <1>1, <1>3
  <1>5. CASE j = i
    BY <1>3, <1>4, <1>5
  <1>6. CASE j # i
    <2>1. j \in (i - 1 - Required + 2)..(i - 1)
      BY <1>1, <1>6
    <2> QED BY <1>3, <1>4, <2>1
  <1> QED BY <1>5, <1>6

\* If cycles do not overlap, a buy stands at the end of an unbroken run of Required
\* clean evaluations, itself included; with overlapping cycles it need not.
THEOREM FreshWhenAlone == Alone => (Spec => []BuyIsFresh)
  <1> SUFFICES ASSUME Alone PROVE Spec => []BuyIsFresh
    OBVIOUS
  <1>1. Inv /\ NothingUnseen /\ [Next]_vars => NothingUnseen'
    BY UnseenNext
  <1> QED BY <1>1, Invariance, UnseenInit, UnseenMakesFresh, PTL DEF Spec
===============================================================================
