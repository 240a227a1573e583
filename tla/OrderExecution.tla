---------------------------- MODULE OrderExecution ----------------------------
(***************************************************************************)
(* The order path of the screener: what run_cycle, process_token,          *)
(* simulate_buy and execute_live_buy do to the order ledger and to the     *)
(* exchange, when several cycles run at once (the scheduler's job, POST    *)
(* /run-cycle, the UI button, scripts/run_once.py), while an operator      *)
(* works the kill switch, the exchange loses answers and cycles die.       *)
(*                                                                         *)
(* A worker is one running cycle.  The ledger is the order_record table.   *)
(* SQLite has one writer: process_token takes the write lock with its      *)
(* first INSERT and keeps it, across every await, until it commits or      *)
(* rolls back.  The lock is therefore not a variable: a worker holds it    *)
(* while its pc is in TxSteps.                                             *)
(***************************************************************************)
EXTENDS Naturals, FiniteSets

CONSTANTS
    Worker,           \* the cycles that may run at the same time
    Token,            \* rows of the token table
    NoToken,          \* what a worker that screens nothing works on
    OrderId,          \* client order ids (uuid4, never reused)
    RunMode,          \* RUN_MODE of the process
    PositionUsd,      \* POSITION_USD, the clip
    MaxTokenUsd,      \* MAX_EXPOSURE_PER_TOKEN_USD
    MaxDailyUsd,      \* MAX_EXPOSURE_DAILY_USD
    MaxPositions,     \* MAX_OPEN_POSITIONS
    MaxOrders,        \* MAX_ORDERS_PER_DAY
    MaxAttempts,      \* HTTP_MAX_RETRIES + 1
    LastDay,          \* bound: the model's calendar is 0..LastDay
    Faults            \* which faults the environment injects

ASSUME FaultsAssumption == Faults \subseteq {"abort", "no_answer", "unreadable"}
ASSUME ModeAssumption == RunMode \in {"LIVE", "PAPER"}
ASSUME TokenAssumption == NoToken \notin Token
ASSUME FiniteAssumption == IsFiniteSet(OrderId) /\ IsFiniteSet(Worker)
ASSUME LimitAssumption ==
    /\ PositionUsd \in Nat \ {0}
    /\ MaxTokenUsd \in Nat
    /\ MaxDailyUsd \in Nat
    /\ MaxPositions \in Nat
    /\ MaxOrders \in Nat
    /\ MaxAttempts \in Nat \ {0}
    /\ LastDay \in Nat

VARIABLES
    pc,         \* where each worker is
    token,      \* the token it screens
    route,      \* what decide() returned: no order, a paper order, a live order
    pending,    \* the order row its open transaction has flushed, if any
    tries,      \* requests left before the HTTP client gives up on the POST
    excused,    \* per worker: signals it could not have seen at its last check
    ledger,     \* committed order rows
    exchange,   \* orders the exchange accepted, as they were sent
    switches,   \* the signals that currently forbid trading
    today       \* the UTC day

vars == <<pc, token, route, pending, tries, excused, ledger, exchange, switches, today>>

(***************************************************************************)
(* Rows of the ledger.                                                     *)
(***************************************************************************)
Mode == {"LIVE", "PAPER"}
Status == {"created", "live", "filled", "unfilled", "rejected"}
Row == [id : OrderId, token : Token, mode : Mode, day : 0..LastDay,
        usd : 1..PositionUsd, status : Status]

\* Statuses that count as committed capital, and as an open position.  The
\* statuses only refresh_order could write are not reached by this path.
COMMITTED == {"created", "live", "filled"}
OPEN == {"live", "filled"}

\* SUM(requested_usd) over a set of rows: one pair per row and dollar.
Dollars(rows) == {p \in rows \X (1..PositionUsd) : p[2] <= p[1].usd}
TotalUsd(rows) == Cardinality(Dollars(rows))

OfMode(rows, m) == {r \in rows : r.mode = m}
TokenRows(rows, m, t) ==
    {r \in OfMode(rows, m) : r.token = t /\ r.status \in COMMITTED}
DayRows(rows, m, d) == {r \in OfMode(rows, m) : r.day >= d}
DayCommitted(rows, m, d) == {r \in DayRows(rows, m, d) : r.status \in COMMITTED}
OpenTokens(rows, m) == {r.token : r \in {x \in OfMode(rows, m) : x.status \in OPEN}}

\* Variants with a bug, used only to show that the properties notice it: the
\* cap compared without the new clip, and an off-by-one in the position count.
check_exposure_without_clip(rows, m, t, d) ==
    /\ TotalUsd(TokenRows(rows, m, t)) <= MaxTokenUsd
    /\ TotalUsd(DayCommitted(rows, m, d)) <= MaxDailyUsd
    /\ Cardinality(OpenTokens(rows, m)) < MaxPositions
    /\ Cardinality(DayRows(rows, m, d)) < MaxOrders

\* exposure_for + check_exposure for one more clip on token t, today.
check_exposure(rows, m, t, d) ==
    /\ TotalUsd(TokenRows(rows, m, t)) + PositionUsd <= MaxTokenUsd
    /\ TotalUsd(DayCommitted(rows, m, d)) + PositionUsd <= MaxDailyUsd
    /\ Cardinality(OpenTokens(rows, m)) < MaxPositions
    /\ Cardinality(DayRows(rows, m, d)) < MaxOrders

(***************************************************************************)
(* Transactions.                                                           *)
(***************************************************************************)
TxSteps == {"decided", "preflight", "sizing", "recheck", "post", "commit"}
Steps == {"idle", "cycle", "collect", "screened"} \cup TxSteps

Writing == {w \in Worker : pc[w] \in TxSteps}

\* What a worker's open transaction reads: committed rows and its own.
Visible(w) == ledger \cup pending[w]

\* Every row that is committed or may still be.
AllRows == ledger \cup UNION {pending[w] : w \in Worker}

UsedIds == {r.id : r \in AllRows \cup exchange}
FreshIds == OrderId \ UsedIds

Goto(w, step) == pc' = [pc EXCEPT ![w] = step]

(***************************************************************************)
(* The signals that forbid trading: the kill switch is engaged by any of   *)
(* the environment, the sentinel file and the kv_state row; safe mode is   *)
(* the second kv_state row.  A read of a kv_state row that raises yields   *)
(* None, which both readers take for "not set".                            *)
(***************************************************************************)
Signal == {"env", "file", "row", "safe"}
Stored == {"row", "safe"}

Unreadable == IF "unreadable" \in Faults THEN SUBSET Stored ELSE {{}}

\* is_killed() or safe_mode_status() says stop, when the reads of `lost` fail.
Halted(lost) == switches \ lost # {}

-----------------------------------------------------------------------------
Init ==
    /\ pc = [w \in Worker |-> "idle"]
    /\ token = [w \in Worker |-> NoToken]
    /\ route = [w \in Worker |-> "none"]
    /\ pending = [w \in Worker |-> {}]
    /\ tries = [w \in Worker |-> 0]
    /\ excused = [w \in Worker |-> {}]
    /\ ledger = {}
    /\ exchange = {}
    /\ switches \in SUBSET {"env"}
    /\ today = 0

(***************************************************************************)
(* The switches, thrown while workers run.  A worker that is past its last *)
(* check is excused from a signal raised after that check.                 *)
(***************************************************************************)
Raise(s) ==
    /\ switches' = switches \cup {s}
    /\ excused' = IF s \in switches THEN excused
                  ELSE [w \in Worker |-> IF pc[w] = "post" THEN excused[w] \cup {s}
                                         ELSE excused[w]]

Lower(s) == switches' = switches \ {s} /\ UNCHANGED excused

\* touch KILL_SWITCH, and rm KILL_SWITCH.
TouchFile == "file" \notin switches /\ Raise("file")
RemoveFile == "file" \in switches /\ Lower("file")

\* engage() and release() write a kv_state row: they need the write lock.
engage == Writing = {} /\ "row" \notin switches /\ Raise("row")
release == Writing = {} /\ "row" \in switches /\ Lower("row")

\* Safe mode's expires_at passes.
SafeModeExpires == "safe" \in switches /\ Lower("safe")

Switch ==
    /\ TouchFile \/ RemoveFile \/ engage \/ release \/ SafeModeExpires
    /\ UNCHANGED <<pc, token, route, pending, tries, ledger, exchange, today>>

NextDay ==
    /\ today < LastDay
    /\ today' = today + 1
    /\ UNCHANGED <<pc, token, route, pending, tries, excused, ledger, exchange, switches>>

(***************************************************************************)
(* run_cycle.                                                              *)
(***************************************************************************)
\* evaluate_safe_mode: a violent or unreadable reference price raises safe
\* mode, a calm one clears it.  Either is a write; without the lock it raises
\* and the cycle does not start.
evaluate_safe_mode ==
    /\ Writing = {}
    /\ \/ Raise("safe")
       \/ Lower("safe")

StartCycle(w) ==
    /\ pc[w] = "idle"
    /\ Goto(w, "cycle")
    /\ IF RunMode = "LIVE" THEN evaluate_safe_mode ELSE UNCHANGED <<switches, excused>>
    /\ UNCHANGED <<token, route, pending, tries, ledger, exchange, today>>

EndCycle(w) ==
    /\ pc[w] = "cycle"
    /\ Goto(w, "idle")
    /\ UNCHANGED <<token, route, pending, tries, excused, ledger, exchange, switches, today>>

\* The next token of the cycle.  Bound: only while every worker that is
\* screening could still be given an order id of its own.
StartToken(w, t) ==
    /\ pc[w] = "cycle"
    /\ Cardinality(FreshIds) > Cardinality({v \in Worker : token[v] # NoToken})
    /\ Goto(w, "collect")
    /\ token' = [token EXCEPT ![w] = t]
    /\ UNCHANGED <<route, pending, tries, excused, ledger, exchange, switches, today>>

(***************************************************************************)
(* process_token.                                                          *)
(***************************************************************************)
\* collect, normalize, gates, score, then one read of the switches.  A token
\* that does not qualify, and any token while a switch is seen, gets no order.
Screen(w) ==
    /\ pc[w] = "collect"
    /\ Goto(w, "screened")
    /\ \E lost \in Unreadable, verdict \in {"none", "paper", "live"} :
           /\ verdict = "live" => RunMode = "LIVE"
           /\ route' = [route EXCEPT ![w] = IF Halted(lost) THEN "none" ELSE verdict]
    /\ UNCHANGED <<token, pending, tries, excused, ledger, exchange, switches, today>>

\* Variant with a bug: a database without a single writer.
OpenTxWithoutLock(w) ==
    /\ pc[w] = "screened"
    /\ LET fits == check_exposure(Visible(w), RunMode, token[w], today)
           chosen == IF fits THEN route[w] ELSE "none"
       IN /\ route' = [route EXCEPT ![w] = chosen]
          /\ Goto(w, IF chosen = "none" THEN "commit" ELSE "decided")
    /\ UNCHANGED <<token, pending, tries, excused, ledger, exchange, switches, today>>

\* The write lock is taken with the first INSERT; the exposure that decide()
\* sees is read under it.
OpenTx(w) ==
    /\ pc[w] = "screened"
    /\ Writing = {}
    /\ LET fits == check_exposure(Visible(w), RunMode, token[w], today)
           chosen == IF fits THEN route[w] ELSE "none"
       IN /\ route' = [route EXCEPT ![w] = chosen]
          /\ Goto(w, IF chosen = "none" THEN "commit" ELSE "decided")
    /\ UNCHANGED <<token, pending, tries, excused, ledger, exchange, switches, today>>

\* A worker leaves its transaction, or gives its token up.
Leave(w, step) ==
    /\ Goto(w, step)
    /\ token' = [token EXCEPT ![w] = NoToken]
    /\ route' = [route EXCEPT ![w] = "none"]
    /\ pending' = [pending EXCEPT ![w] = {}]
    /\ tries' = [tries EXCEPT ![w] = 0]
    /\ excused' = [excused EXCEPT ![w] = {}]
    /\ UNCHANGED <<exchange, switches, today>>

\* Variant with a bug: the insert is tried again for ever.
LockRetry(w) ==
    /\ pc[w] = "screened"
    /\ Writing # {}
    /\ UNCHANGED vars

\* "database is locked" after the busy timeout: this token is an ERROR.
LockTimeout(w) ==
    /\ pc[w] = "screened"
    /\ Writing # {}
    /\ Leave(w, "cycle")
    /\ UNCHANGED ledger

Commit(w) ==
    /\ pc[w] = "commit"
    /\ Leave(w, "cycle")
    /\ ledger' = ledger \cup pending[w]

\* An exception rolls the transaction back and the cycle goes on; a
\* cancellation or a crash rolls it back and ends the cycle.
Abort(w) ==
    /\ "abort" \in Faults
    /\ token[w] # NoToken
    /\ Leave(w, "cycle") \/ Leave(w, "idle")
    /\ UNCHANGED ledger

(***************************************************************************)
(* simulate_buy: the same checks on the paper book, no second look at the  *)
(* switches, and a fill model instead of a network call.                   *)
(***************************************************************************)
NewRow(w, m, status) ==
    {[id |-> o, token |-> token[w], mode |-> m, day |-> today,
      usd |-> u, status |-> status] : o \in FreshIds, u \in 1..PositionUsd}

\* Variant with a bug: the paper order is checked against the live book.
simulate_buy_by_live_book(w) ==
    /\ pc[w] = "decided"
    /\ route[w] = "paper"
    /\ Goto(w, "commit")
    /\ \/ pending' = pending
       \/ /\ check_exposure(Visible(w), "LIVE", token[w], today)
          /\ \E status \in {"filled", "unfilled"} : \E r \in NewRow(w, "PAPER", status) :
                 pending' = [pending EXCEPT ![w] = {r}]
    /\ UNCHANGED <<token, route, tries, excused, ledger, exchange, switches, today>>

simulate_buy(w) ==
    /\ pc[w] = "decided"
    /\ route[w] = "paper"
    /\ Goto(w, "commit")
    /\ \/ pending' = pending      \* blocked by exposure, or no plan
       \/ /\ check_exposure(Visible(w), "PAPER", token[w], today)
          /\ \E status \in {"filled", "unfilled"} : \E r \in NewRow(w, "PAPER", status) :
                 pending' = [pending EXCEPT ![w] = {r}]
    /\ UNCHANGED <<token, route, tries, excused, ledger, exchange, switches, today>>

(***************************************************************************)
(* execute_live_buy.                                                       *)
(***************************************************************************)
Proceed(w, allowed, step) ==
    /\ Goto(w, IF allowed THEN step ELSE "commit")
    /\ UNCHANGED <<token, route, tries, ledger, exchange, switches, today>>

\* Guards 1-3: run mode, kill switch, safe mode.
GlobalSwitches(w) ==
    /\ pc[w] = "decided"
    /\ route[w] = "live"
    /\ \E lost \in Unreadable : Proceed(w, ~Halted(lost), "preflight")
    /\ UNCHANGED <<pending, excused>>

\* Guards 4-7: credentials, balance, identity, instrument, book, conditions.
\* All of it is network; any of it may refuse.
Preflight(w) ==
    /\ pc[w] = "preflight"
    /\ \E ok \in BOOLEAN : Proceed(w, ok, "sizing")
    /\ UNCHANGED <<pending, excused>>

\* Guards 8-9: exposure, and a limit plan that builds.
SizeOrder(w) ==
    /\ pc[w] = "sizing"
    /\ \E plan \in BOOLEAN :
           Proceed(w, plan /\ check_exposure(Visible(w), "LIVE", token[w], today), "recheck")
    /\ UNCHANGED <<pending, excused>>

\* Variant with a bug: the final check is gone.
SendWithoutRecheck(w) ==
    /\ pc[w] = "recheck"
    /\ Goto(w, "post")
    /\ \E r \in NewRow(w, "LIVE", "created") : pending' = [pending EXCEPT ![w] = {r}]
    /\ tries' = [tries EXCEPT ![w] = MaxAttempts]
    /\ UNCHANGED <<token, route, excused, ledger, exchange, switches, today>>

\* The switches once more; if they are clear the row is flushed and the
\* request is on its way.
Recheck(w) ==
    /\ pc[w] = "recheck"
    /\ \E lost \in Unreadable :
        \/ /\ Halted(lost)
           /\ Goto(w, "commit")
           /\ UNCHANGED <<pending, tries, excused>>
        \/ /\ ~Halted(lost)
           /\ Goto(w, "post")
           /\ \E r \in NewRow(w, "LIVE", "created") : pending' = [pending EXCEPT ![w] = {r}]
           /\ tries' = [tries EXCEPT ![w] = MaxAttempts]
           /\ excused' = [excused EXCEPT ![w] = lost]
    /\ UNCHANGED <<token, route, ledger, exchange, switches, today>>

\* The outcome is written into the row of the still open transaction.
Record(w, status) ==
    /\ Goto(w, "commit")
    /\ pending' = [pending EXCEPT ![w] = {[r EXCEPT !.status = status] : r \in pending[w]}]
    /\ tries' = [tries EXCEPT ![w] = 0]
    /\ excused' = [excused EXCEPT ![w] = {}]
    /\ UNCHANGED <<token, route, ledger, switches, today>>

\* Variant with a bug: the accepted order's row keeps a rejected status.
AcceptedAsRejected(w) ==
    /\ pc[w] = "post"
    /\ pending[w] \cap exchange = {}
    /\ exchange' = exchange \cup pending[w]
    /\ Record(w, "rejected")

\* The exchange takes an order once per client order id; a repeat is an error.
Accepted(w) ==
    /\ pc[w] = "post"
    /\ pending[w] \cap exchange = {}
    /\ exchange' = exchange \cup pending[w]
    /\ Record(w, "live")

\* An answer with a non-zero code: post-only would cross, no funds, or the
\* client order id was seen before.
Refused(w) ==
    /\ pc[w] = "post"
    /\ UNCHANGED exchange
    /\ Record(w, "rejected")

\* Variants with a bug: silence is taken for success, and attempts that are
\* never compared with the limit.
NoAnswerMeansLive(w) ==
    /\ "no_answer" \in Faults
    /\ pc[w] = "post"
    /\ exchange' = exchange \/ exchange' = exchange \cup pending[w]
    /\ Record(w, "live")

NoAnswerUncounted(w) ==
    /\ "no_answer" \in Faults
    /\ pc[w] = "post"
    /\ exchange' = exchange \/ exchange' = exchange \cup pending[w]
    /\ tries' = [tries EXCEPT ![w] = @ - 1]
    /\ UNCHANGED <<pc, token, route, pending, excused, ledger, switches, today>>

\* Timeout, dropped connection or 5xx, whether or not the exchange got the
\* order.  The client repeats the request until its attempts are used up,
\* then raises ClientError, which is recorded as a rejection.
NoAnswer(w) ==
    /\ "no_answer" \in Faults
    /\ pc[w] = "post"
    /\ exchange' = exchange \/ exchange' = exchange \cup pending[w]
    /\ \/ /\ tries[w] > 1
          /\ tries' = [tries EXCEPT ![w] = @ - 1]
          /\ UNCHANGED <<pc, token, route, pending, excused, ledger, switches, today>>
       \/ /\ tries[w] = 1
          /\ Record(w, "rejected")

-----------------------------------------------------------------------------
Progress(w) ==
    \/ Screen(w) \/ OpenTx(w) \/ LockTimeout(w) \/ Commit(w)
    \/ simulate_buy(w) \/ GlobalSwitches(w) \/ Preflight(w) \/ SizeOrder(w) \/ Recheck(w)
    \/ Accepted(w) \/ Refused(w) \/ NoAnswer(w)

Next ==
    \/ Switch
    \/ NextDay
    \/ \E w \in Worker :
        \/ StartCycle(w) \/ EndCycle(w) \/ Abort(w) \/ Progress(w)
        \/ \E t \in Token : StartToken(w, t)

Spec == Init /\ [][Next]_vars

\* A coroutine whose awaits return is run to its end; nobody has to start a
\* cycle, throw a switch, or fail.
FairSpec == Spec /\ \A w \in Worker : WF_vars(Progress(w))
-----------------------------------------------------------------------------
(***************************************************************************)
(* Properties.                                                             *)
(***************************************************************************)
\* Types of the variables.
TypeOK ==
    /\ pc \in [Worker -> Steps]
    /\ token \in [Worker -> Token \cup {NoToken}]
    /\ route \in [Worker -> {"none", "paper", "live"}]
    /\ pending \in [Worker -> SUBSET Row]
    /\ tries \in [Worker -> 0..MaxAttempts]
    /\ excused \in [Worker -> SUBSET Signal]
    /\ ledger \subseteq Row
    /\ exchange \subseteq Row
    /\ switches \subseteq Signal
    /\ today \in 0..LastDay

TodayRows(rows, m, d) == {r \in OfMode(rows, m) : r.day = d}
WithinCaps(rows) == \A m \in Mode :
    /\ \A t \in Token : TotalUsd(TokenRows(rows, m, t)) <= MaxTokenUsd
    /\ \A d \in 0..LastDay :
        /\ TotalUsd({r \in TodayRows(rows, m, d) : r.status \in COMMITTED}) <= MaxDailyUsd
        /\ Cardinality(TodayRows(rows, m, d)) <= MaxOrders
    /\ Cardinality(OpenTokens(rows, m)) <= MaxPositions

\* Concurrent cycles do not double-count: the rows committed and the rows still
\* in flight, together, respect every cap on every day and in each book, even
\* when the day changes between the exposure check and the insert
\* (portfolio.py, order_safety.py; the hazard scheduler.py:4 names).
BookWithinCaps == WithinCaps(AllRows)

\* The exposure that was checked is still free when the row is written: no
\* other cycle took it while this one was on the network (live.py:119-139).
ExposureNotStale == \A w \in Worker :
    pc[w] = "recheck" => check_exposure(Visible(w), "LIVE", token[w], today)

\* While a signal forbids trading, a worker can be sending only if the signal
\* was raised after the worker's last check, or its read of it failed
\* (live.py:132-137, SECURITY_CHECKLIST.md:71).
HaltStopsNewOrders == \A w \in Worker :
    pc[w] = "post" => switches \subseteq excused[w]

\* A row says "live" only if the exchange took exactly that order, however the
\* request was repeated and whatever answers were lost (live.py:141-158).
LiveRowsAreReal == \A r \in AllRows :
    r.status = "live" => [r EXCEPT !.status = "created"] \in exchange

\* The whole path, with its cycles, lock, retries and rollbacks, is one account:
\* whatever overlaps, the rows in flight are at most one reservation, made for
\* its day against a book that can carry it whatever the exchange answers, and
\* a committed row is never changed or lost (portfolio.py, order_safety.py,
\* db.py:109-122).
Account == INSTANCE BudgetLedger
               WITH book <- ledger, held <- UNION {pending[w] : w \in Worker}, day <- today
ImplementsAccount == Account!Spec

\* The exchange holds nothing that a committed row disowns.  True while every
\* answer arrives, rollbacks and failing reads included; a lost answer breaks it,
\* since live.py:149 writes "rejected" for an order the exchange may have taken.
DisownedNothing ==
    \A x \in exchange, r \in ledger : r.id = x.id => r.status = "live"

\* A token whose screening began is finished or given up: nobody waits for the
\* write lock for ever (db.py:54-56, ingest.py:598).
ScreeningEnds == \A w \in Worker : token[w] # NoToken ~> token[w] = NoToken

\* live.py:139 and SECURITY_CHECKLIST.md:72: the intent is on record before
\* the request leaves, so that a crash mid-flight can be audited.
IntentIsDurable == \A x \in exchange : \E r \in AllRows : r.id = x.id

\* killswitch.py:3: "it fails closed - if checking it raises, it reports engaged".
FailsClosed == \A w \in Worker :
    pc[w] = "post" => "row" \notin switches
=============================================================================
