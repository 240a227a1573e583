---------------------------- MODULE OutcomeLabels ----------------------------
(***************************************************************************)
(* Forward-return labelling.  A screening cycle captures snapshots, stores *)
(* them, and at its end label_snapshots gives every stored snapshot whose  *)
(* window has closed one label per horizon.  What a label says must be     *)
(* what the window finally held, and every closed window must get one.     *)
(*                                                                         *)
(* Cycles run side by side: max_instances=1 bounds only the scheduler's    *)
(* job.  Times are in units of the shortest horizon's resolution; a        *)
(* horizon is named by its length.                                         *)
(***************************************************************************)
EXTENDS Integers, FiniteSets, FiniteSetsExt

CONSTANTS
    Cycle,          \* the cycles that may run at the same time
    Token,          \* rows of the token table
    Horizon,        \* HORIZONS, each named by its length
    Reading(_),     \* the <<price, liquidity>> pairs a snapshot of that time may hold
    MaxCandidates,  \* max_snapshots of label_snapshots
    MaxSnapshots,   \* bound: snapshots ever captured
    MaxFailures,    \* bound: labelling runs that fail
    LastTime        \* bound: the clock

Missing == -1       \* a NULL column

ASSUME HorizonAssumption ==
    Horizon # {} /\ IsFiniteSet(Horizon) /\ Horizon \subseteq Nat \ {0}
ASSUME ReadingAssumption ==
    \A t \in 0..LastTime : Reading(t) \subseteq (Nat \cup {Missing}) \X (Nat \cup {Missing})
ASSUME BoundAssumption ==
    /\ MaxCandidates \in Nat \ {0}
    /\ MaxSnapshots \in Nat
    /\ MaxFailures \in Nat
    /\ LastTime \in Nat

VARIABLES
    now,         \* utcnow()
    phase,       \* of each cycle: idle, screen, label, write
    snapshots,   \* stored rows of token_snapshot
    captured,    \* the snapshot each cycle has measured but not stored, if any
    taken,       \* how many snapshots were ever captured: the next row id
    computed,    \* the labels each cycle has yet to commit
    labels,      \* rows of snapshot_outcome
    labelledAt,  \* when label_snapshots last ran
    failures     \* labelling runs that failed

vars == <<now, phase, snapshots, captured, taken, computed, labels, labelledAt, failures>>

Snapshot == [id : 1..MaxSnapshots, token : Token, at : 0..LastTime,
             reading : UNION {Reading(t) : t \in 0..LastTime}]

Price(s) == s.reading[1]
Liquidity(s) == s.reading[2]

(***************************************************************************)
(* One label.                                                              *)
(***************************************************************************)
\* Variant with a bug: the coverage that was once a literal True.
CompleteAlways(base, h, following) == TRUE

\* Watched to the end: something was seen in the last quarter of the window.
Complete(base, h, following) == \E s \in following : 4 * (s.at - base.at) >= 3 * h

Priced(following) == {s \in following : Price(s) > 0}

\* The label of a window: peak, trough, first crossing of twice the base price,
\* deepest drain of the pool.  Without a base price or a single observation
\* nothing is said about returns.
measure(base, h, following) ==
    LET seen == Priced(following)
        prices == {Price(s) : s \in seen}
        doubled == {s \in seen : Price(s) >= 2 * Price(base)}
        pools == {Liquidity(s) : s \in following} \ {Missing}
        defined == Price(base) > 0 /\ seen # {}
    IN [observations |-> Cardinality(seen),
        complete |-> Complete(base, h, following),
        peak |-> IF defined THEN Max(prices) ELSE Missing,
        trough |-> IF defined THEN Min(prices) ELSE Missing,
        doubledAfter |-> IF defined /\ doubled # {}
                         THEN Min({s.at - base.at : s \in doubled}) ELSE Missing,
        pulled |-> /\ defined /\ Liquidity(base) > 0 /\ pools # {}
                   /\ 10 * Min(pools) <= Liquidity(base)]

\* The snapshots of one token inside a window.
Window(base, h, among) ==
    {s \in among : s.token = base.token /\ base.at < s.at /\ s.at <= base.at + h}

(***************************************************************************)
(* label_snapshots.                                                        *)
(***************************************************************************)
done(s) == {l.horizon : l \in {x \in labels : x.base = s}}

\* Variant with a bug: a snapshot that counts as done with its first label.
pending_horizons_once(s) == {h \in Horizon : now - s.at >= h /\ done(s) = {}}

\* Horizons whose window has elapsed and that have no label yet.
pending_horizons(s) == {h \in Horizon : now - s.at >= h} \ done(s)

\* ORDER BY captured_at DESC LIMIT max_snapshots, among those old enough for
\* the shortest horizon.  Ties are broken either way.
Candidates ==
    LET old == {s \in snapshots : \E h \in Horizon : s.at + h <= now}
    IN {C \in SUBSET old :
            /\ Cardinality(C) <= MaxCandidates
            /\ Cardinality(C) = MaxCandidates \/ C = old
            /\ \A s \in C, t \in old \ C : s.at >= t.at}

\* Variant with a bug: the query bounded by the earliest base and the longest
\* horizon being labelled.
SeriesFromEarliest(items, t) ==
    LET mine == {i \in items : i[1].token = t}
    IN {s \in snapshots :
            /\ s.token = t
            /\ \E i \in mine : s.at >= i[1].at
            /\ \A i \in mine : \E j \in mine : s.at <= i[1].at + j[2]}

\* One query per token, from the earliest base to the latest window's end.
Series(items, t) ==
    LET mine == {i \in items : i[1].token = t}
    IN {s \in snapshots :
            /\ s.token = t
            /\ \E i \in mine : s.at >= i[1].at
            /\ \E i \in mine : s.at <= i[1].at + i[2]}

\* The readings of the moment: one cycle's transaction reads, while others may
\* have measured a snapshot that they have not stored.  `unstored` is history.
Measured == UNION {captured[c] : c \in Cycle}

LabelOf(items, i) ==
    [base |-> i[1], horizon |-> i[2],
     says |-> measure(i[1], i[2], Window(i[1], i[2], Series(items, i[1].token))),
     unstored |-> Window(i[1], i[2], Measured \ snapshots)]

\* All of label_snapshots' queries come before the first write (autoflush=False).
\* They are one step here: a commit between two of them could only show more of
\* a window to the later one.
label_snapshots(c) ==
    /\ phase[c] = "label"
    /\ phase' = [phase EXCEPT ![c] = "write"]
    /\ labelledAt' = now
    /\ \E C \in Candidates :
        LET items == {i \in C \X Horizon : i[2] \in pending_horizons(i[1])}
        IN computed' = [computed EXCEPT ![c] = {LabelOf(items, i) : i \in items}]
    /\ UNCHANGED <<now, snapshots, captured, taken, labels, failures>>

\* uq_outcome_snapshot_horizon: some other cycle stored one of these labels first.
Duplicate(c) ==
    \E l \in labels, n \in computed[c] : l.base = n.base /\ l.horizon = n.horizon

EndCycle(c) ==
    /\ phase' = [phase EXCEPT ![c] = "idle"]
    /\ computed' = [computed EXCEPT ![c] = {}]

\* The session flushes and commits; an IntegrityError rolls all of it back.
CommitLabels(c) ==
    /\ phase[c] = "write"
    /\ EndCycle(c)
    /\ labels' = IF Duplicate(c) THEN labels ELSE labels \cup computed[c]
    /\ UNCHANGED <<now, snapshots, captured, taken, labelledAt, failures>>

\* Any other exception in the labelling is logged and costs the cycle nothing.
LabellingFails(c) ==
    /\ phase[c] \in {"label", "write"}
    /\ failures < MaxFailures
    /\ EndCycle(c)
    /\ failures' = failures + 1
    /\ UNCHANGED <<now, snapshots, captured, taken, labels, labelledAt>>

-----------------------------------------------------------------------------
Init ==
    /\ now = 0
    /\ phase = [c \in Cycle |-> "idle"]
    /\ snapshots = {}
    /\ captured = [c \in Cycle |-> {}]
    /\ taken = 0
    /\ computed = [c \in Cycle |-> {}]
    /\ labels = {}
    /\ labelledAt = Missing
    /\ failures = 0

Tick ==
    /\ now < LastTime
    /\ now' = now + 1
    /\ UNCHANGED <<phase, snapshots, captured, taken, computed, labels, labelledAt, failures>>

\* The scheduler's job, POST /run-cycle, the panel's button, run_once: a cycle
\* starts whatever the others are doing.
StartCycle(c) ==
    /\ phase[c] = "idle"
    /\ phase' = [phase EXCEPT ![c] = "screen"]
    /\ UNCHANGED <<now, snapshots, captured, taken, computed, labels, labelledAt, failures>>

\* The snapshot that cycle c takes of token t now.
Taken(t, reading) == [id |-> taken + 1, token |-> t, at |-> now, reading |-> reading]

\* Variant with a bug: a cycle screens tokens side by side.
CaptureTwo(c, t, reading) ==
    /\ phase[c] = "screen"
    /\ taken < MaxSnapshots
    /\ now > labelledAt
    /\ taken' = taken + 1
    /\ captured' = [captured EXCEPT ![c] = @ \cup {Taken(t, reading)}]
    /\ UNCHANGED <<now, phase, snapshots, computed, labels, labelledAt, failures>>

\* normalize() stamps the snapshot; the cycle then waits for the write lock, and
\* stores it in a transaction whose awaits keep it from the others' eyes.  The
\* clock is finer than its ticks here: it has moved since a cycle last labelled.
Capture(c, t, reading) ==
    /\ phase[c] = "screen"
    /\ captured[c] = {}
    /\ taken < MaxSnapshots
    /\ now > labelledAt
    /\ taken' = taken + 1
    /\ captured' = [captured EXCEPT ![c] = {Taken(t, reading)}]
    /\ UNCHANGED <<now, phase, snapshots, computed, labels, labelledAt, failures>>

\* persist_snapshot and the commit; or the transaction is rolled back.
persist_snapshot(c) ==
    /\ captured[c] # {}
    /\ snapshots' = snapshots \cup captured[c]
    /\ captured' = [captured EXCEPT ![c] = {}]
    /\ UNCHANGED <<now, phase, taken, computed, labels, labelledAt, failures>>

Rollback(c) ==
    /\ captured[c] # {}
    /\ captured' = [captured EXCEPT ![c] = {}]
    /\ UNCHANGED <<now, phase, snapshots, taken, computed, labels, labelledAt, failures>>

\* A cycle labels after its own screening, never before.
EndScreening(c) ==
    /\ phase[c] = "screen"
    /\ captured[c] = {}
    /\ phase' = [phase EXCEPT ![c] = "label"]
    /\ UNCHANGED <<now, snapshots, captured, taken, computed, labels, labelledAt, failures>>

\* The process of a cycle dies and is started again.
Crash(c) ==
    /\ phase[c] # "idle"
    /\ failures < MaxFailures
    /\ EndCycle(c)
    /\ captured' = [captured EXCEPT ![c] = {}]
    /\ failures' = failures + 1
    /\ UNCHANGED <<now, snapshots, taken, labels, labelledAt>>

\* What a cycle that has begun goes on to do.
Onward(c) ==
    \/ persist_snapshot(c) \/ Rollback(c)
    \/ EndScreening(c) \/ label_snapshots(c) \/ CommitLabels(c)

run_cycle(c) ==
    \/ StartCycle(c) \/ Onward(c) \/ LabellingFails(c) \/ Crash(c)
    \/ \E t \in Token, reading \in Reading(now) : Capture(c, t, reading)

Next == Tick \/ \E c \in Cycle : run_cycle(c)

Spec == Init /\ [][Next]_vars

\* The scheduler starts a cycle at every interval, and a cycle whose awaits
\* return is run to its end.
FairSpec ==
    /\ Spec
    /\ WF_vars(Tick)
    /\ WF_vars(\E c \in Cycle : StartCycle(c))
    /\ \A c \in Cycle : WF_vars(Onward(c))
-----------------------------------------------------------------------------
\* Types; process_token stores a snapshot before its cycle measures the next one.
TypeOK ==
    /\ now \in 0..LastTime
    /\ phase \in [Cycle -> {"idle", "screen", "label", "write"}]
    /\ snapshots \subseteq Snapshot
    /\ captured \in [Cycle -> SUBSET Snapshot]
    /\ \A c \in Cycle : \A s, t \in captured[c] : s = t
    /\ taken \in 0..MaxSnapshots
    /\ DOMAIN computed = Cycle
    /\ \A l \in labels \cup UNION {computed[c] : c \in Cycle} :
           l.base \in snapshots /\ l.horizon \in Horizon
    /\ labelledAt \in (0..LastTime) \cup {Missing}
    /\ failures \in 0..MaxFailures

\* A label that is settled says what its window finally held.
Settled(l, among) == l.says = measure(l.base, l.horizon, Window(l.base, l.horizon, among))

\* However the candidates were batched, whoever stored what after it was computed:
\* a label says what its window finally held, but for readings that another cycle
\* had measured and not yet stored.  (outcomes.py:137 and :190 name two ways to
\* get this wrong; the exception is the third.)
MissesOnlyUnstored == \A l \in labels : Settled(l, snapshots \ l.unstored)

\* What outcomes.py:140 takes for granted of a closed window: no label means "so
\* far".  True while one cycle runs at a time.
LabelsAreSettled == \A l \in labels : Settled(l, snapshots)

\* A window that was seen in its first half only is never passed off as
\* watched to the end (outcomes.py:72, window_complete).
CensoredIsMarked == \A l \in labels :
    l.says.complete => \E s \in snapshots :
        /\ s.token = l.base.token
        /\ s.at <= l.base.at + l.horizon
        /\ 2 * (s.at - l.base.at) > l.horizon

\* A snapshot pushed out of the batch: as many as a batch holds are old enough
\* to be candidates and no older than it.
Crowded(s) == MaxCandidates <=
    Cardinality({x \in snapshots \ {s} : x.at >= s.at /\ \E h \in Horizon : x.at + h <= now})

\* A closed window that has no label, though nothing crowds its snapshot out.
Overdue(n) == \E s \in snapshots, h \in Horizon :
    /\ s.id = n /\ now - s.at >= h
    /\ h \notin done(s)
    /\ ~Crowded(s)

\* Every closed window gets its label, through failed labellings, restarts and
\* labellings that another cycle's made void, unless newer snapshots crowd its own
\* out of the newest-first batch: the only way "catches up over several cycles"
\* (outcomes.py:152) does not come true.
LabelledUnlessCrowded == \A n \in 1..MaxSnapshots : []<>~Overdue(n)
=============================================================================
