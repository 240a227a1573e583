-------------------------- MODULE OutcomeLabelsProofs --------------------------
(***************************************************************************)
(* What a label says, for any cycles side by side and any tokens,          *)
(* horizons, readings, batch size and clock.  The argument: a label is     *)
(* computed when its window has ended and the clock moves before the next  *)
(* snapshot is measured; so the window gains only what was in flight then. *)
(***************************************************************************)
EXTENDS OutcomeLabels, FiniteSetTheorems, TLAPS

\* The labels that are stored and those on their way.
Rows == labels \cup UNION {computed[c] : c \in Cycle}

\* The windows of all of them had ended by the last labelling.
WindowsClosed ==
    /\ labelledAt <= now
    /\ \A l \in Rows : l.base.at + l.horizon <= labelledAt

\* Whatever is in flight and lies in the window of a label was in flight when the
\* label was computed.
InFlight == \A l \in Rows : Window(l.base, l.horizon, Measured) \subseteq l.unstored \cup snapshots

\* A cycle has stored or lost its snapshots before it labels.
Emptied == \A c \in Cycle : phase[c] # "screen" => captured[c] = {}

RowsMissOnlyUnstored == \A l \in Rows : Settled(l, snapshots \ l.unstored)

Inv == TypeOK /\ WindowsClosed /\ InFlight /\ Emptied /\ RowsMissOnlyUnstored

USE HorizonAssumption, BoundAssumption

LEMMA TimesAreInts ==
    /\ \A s \in Snapshot : s.at \in Int
    /\ \A h \in Horizon : h \in Int /\ h > 0
  <1>1. ASSUME NEW s \in Snapshot PROVE s.at \in Int
    <2>1. s.at \in 0..LastTime
      BY DEF Snapshot
    <2> QED BY <2>1
  <1>2. ASSUME NEW h \in Horizon PROVE h \in Int /\ h > 0
    <2>1. h \in Nat \ {0}
      OBVIOUS
    <2> QED BY <2>1
  <1> QED BY <1>1, <1>2

LEMMA ClockIsInt == TypeOK => now \in Int /\ labelledAt \in Int
  BY DEF TypeOK, Missing

\* The query that is shared by all windows of a token holds each window whole.
LEMMA SeriesHoldsWindow ==
    ASSUME NEW items \in SUBSET (Snapshot \X Horizon), NEW i \in items,
           snapshots \subseteq Snapshot
    PROVE  Window(i[1], i[2], Series(items, i[1].token)) = Window(i[1], i[2], snapshots)
  <1>1. i[1] \in Snapshot /\ i[2] \in Horizon
    OBVIOUS
  <1>2. i[1].at \in Int /\ i[2] \in Int /\ \A s \in snapshots : s.at \in Int
    BY <1>1, TimesAreInts
  <1>3. ASSUME NEW s \in Window(i[1], i[2], snapshots)
        PROVE  s \in Series(items, i[1].token)
    BY <1>2, <1>3 DEF Window, Series
  <1>4. Series(items, i[1].token) \subseteq snapshots
    BY DEF Series
  <1> QED BY <1>3, <1>4 DEF Window

\* Two sets with the same members in a window hold the same window.
LEMMA WindowKept ==
    ASSUME NEW S, NEW T, NEW b, NEW h,
           S \subseteq T, Window(b, h, T) \subseteq S
    PROVE  Window(b, h, T) = Window(b, h, S)
  BY DEF Window

\* What a labelling writes of its batch.
Computed(l) ==
    /\ l.base \in snapshots /\ l.horizon \in Horizon
    /\ l.base.at + l.horizon <= now
    /\ l.unstored = Window(l.base, l.horizon, Measured \ snapshots)
    /\ Settled(l, snapshots \ l.unstored)

LEMMA ComputedOf ==
    ASSUME TypeOK, WindowsClosed, NEW C \in Candidates,
           NEW items, items = {j \in C \X Horizon : j[2] \in pending_horizons(j[1])},
           NEW l \in {LabelOf(items, j) : j \in items}
    PROVE  Computed(l)
  <1>0. PICK i \in items : l = LabelOf(items, i)
    OBVIOUS
  <1>1. i \in C \X Horizon /\ i[2] \in pending_horizons(i[1]) /\ C \subseteq snapshots
    BY DEF Candidates
  <1>2. i[1] \in snapshots /\ i[2] \in Horizon /\ now - i[1].at >= i[2]
    BY <1>1 DEF pending_horizons
  <1>3. /\ l.base = i[1] /\ l.horizon = i[2]
        /\ l.says = measure(i[1], i[2], Window(i[1], i[2], Series(items, i[1].token)))
        /\ l.unstored = Window(i[1], i[2], Measured \ snapshots)
    BY <1>0 DEF LabelOf
  <1>4. i[1].at + i[2] <= now
    <2>1. i[1] \in Snapshot
      BY <1>2 DEF TypeOK
    <2>2. i[1].at \in Int /\ i[2] \in Int /\ now \in Int
      BY <1>2, <2>1, TimesAreInts, ClockIsInt
    <2> QED BY <1>2, <2>2
  <1>5. items \in SUBSET (Snapshot \X Horizon) /\ snapshots \subseteq Snapshot
    BY <1>1 DEF TypeOK
  <1>6. Window(i[1], i[2], Series(items, i[1].token)) = Window(i[1], i[2], snapshots)
    BY <1>5, SeriesHoldsWindow
  <1>7. snapshots \ l.unstored = snapshots
    BY <1>3 DEF Window
  <1> QED BY <1>2, <1>3, <1>4, <1>6, <1>7 DEF Settled, Computed

LEMMA InvInit == Init => Inv
  BY DEF Init, Inv, TypeOK, WindowsClosed, InFlight, Emptied, RowsMissOnlyUnstored, Rows, Missing

\* Steps that store no snapshot, measure none and compute no label.
LEMMA NothingNew ==
    ASSUME Inv, UNCHANGED <<snapshots, labelledAt>>, Rows' \subseteq Rows, Measured' \subseteq Measured,
           TypeOK', Emptied', now' >= now
    PROVE  Inv'
  <1>1. now \in Int /\ labelledAt \in Int /\ now' \in Int
    BY ClockIsInt DEF Inv, TypeOK
  <1>2. WindowsClosed'
    BY <1>1 DEF Inv, WindowsClosed
  <1>3. InFlight'
    BY DEF Inv, InFlight, Window
  <1>4. RowsMissOnlyUnstored'
    BY DEF Inv, RowsMissOnlyUnstored, Settled
  <1> QED BY <1>2, <1>3, <1>4 DEF Inv

LEMMA InvNext == Inv /\ [Next]_vars => Inv'
  <1> SUFFICES ASSUME Inv, [Next]_vars PROVE Inv'
    OBVIOUS
  <1> USE DEF Inv
  <1>0. now \in Int /\ labelledAt \in Int
    BY ClockIsInt
  <1>1. CASE Tick
    <2>1. TypeOK' /\ Emptied' /\ now' >= now
      BY <1>0, <1>1 DEF Tick, TypeOK, Emptied
    <2>2. Rows' = Rows /\ Measured' = Measured
      BY <1>1 DEF Tick, Rows, Measured
    <2> QED BY <1>1, <2>1, <2>2, NothingNew DEF Tick
  <1>2. CASE UNCHANGED vars
    <2>1. TypeOK' /\ Emptied' /\ now' >= now /\ Rows' = Rows /\ Measured' = Measured
      BY <1>0, <1>2 DEF vars, TypeOK, Emptied, Rows, Measured
    <2> QED BY <1>2, <2>1, NothingNew DEF vars
  <1>3. ASSUME NEW c \in Cycle, StartCycle(c) \/ EndScreening(c) PROVE Inv'
    <2>1. TypeOK' /\ Emptied' /\ now' >= now
      BY <1>0, <1>3 DEF StartCycle, EndScreening, TypeOK, Emptied
    <2>2. Rows' = Rows /\ Measured' = Measured
      BY <1>3 DEF StartCycle, EndScreening, Rows, Measured
    <2> QED BY <1>3, <2>1, <2>2, NothingNew DEF StartCycle, EndScreening
  <1>4. ASSUME NEW c \in Cycle, LabellingFails(c) \/ Crash(c) PROVE Inv'
    <2>1. /\ computed' = [computed EXCEPT ![c] = {}] /\ UNCHANGED <<now, snapshots, labels, labelledAt>>
          /\ \A d \in Cycle : captured'[d] \subseteq captured[d]
      BY <1>4 DEF LabellingFails, Crash, EndCycle, TypeOK
    <2>2. TypeOK' /\ Emptied' /\ now' >= now
      BY <1>0, <1>4 DEF LabellingFails, Crash, EndCycle, TypeOK, Emptied
    <2>3. Rows' \subseteq Rows /\ Measured' \subseteq Measured
      BY <2>1 DEF Rows, Measured, TypeOK
    <2> QED BY <2>1, <2>2, <2>3, NothingNew
  <1>5. ASSUME NEW c \in Cycle, Rollback(c) PROVE Inv'
    <2>1. TypeOK' /\ Emptied' /\ now' >= now
      BY <1>0, <1>5 DEF Rollback, TypeOK, Emptied
    <2>2. Rows' = Rows /\ Measured' \subseteq Measured
      BY <1>5 DEF Rollback, Rows, Measured, TypeOK
    <2> QED BY <1>5, <2>1, <2>2, NothingNew DEF Rollback
  <1>6. ASSUME NEW c \in Cycle, CommitLabels(c) PROVE Inv'
    <2>1. /\ UNCHANGED <<now, snapshots, captured, taken, labelledAt, failures>>
          /\ computed' = [computed EXCEPT ![c] = {}]
          /\ phase' = [phase EXCEPT ![c] = "idle"]
          /\ labels' \subseteq labels \cup computed[c]
          /\ phase[c] = "write"
      BY <1>6 DEF CommitLabels, EndCycle
    <2>2. Rows' \subseteq Rows
      BY <2>1 DEF Rows, TypeOK
    <2>3. TypeOK'
      BY <2>1, <2>2 DEF TypeOK, Rows
    <2>4. Emptied' /\ now' >= now /\ Measured' = Measured
      BY <1>0, <2>1 DEF Emptied, Measured, TypeOK
    <2> QED BY <2>1, <2>2, <2>3, <2>4, NothingNew
  <1>7. ASSUME NEW c \in Cycle, NEW t \in Token, NEW reading \in Reading(now), Capture(c, t, reading)
        PROVE  Inv'
    <2> DEFINE s == Taken(t, reading)
    <2>1. /\ captured' = [captured EXCEPT ![c] = {s}] /\ phase[c] = "screen" /\ now > labelledAt
          /\ taken < MaxSnapshots /\ taken' = taken + 1
          /\ UNCHANGED <<now, phase, snapshots, computed, labels, labelledAt, failures>>
      BY <1>7 DEF Capture
    <2>2. taken' \in 1..MaxSnapshots /\ now \in 0..LastTime
      BY <2>1 DEF TypeOK
    <2>3. s \in Snapshot /\ s.at = now
      BY <2>1, <2>2 DEF Snapshot, Taken
    <2> HIDE DEF s
    <2>4. TypeOK' /\ Emptied'
      BY <2>1, <2>2, <2>3 DEF TypeOK, Emptied
    <2>5. Rows' = Rows /\ Measured' \subseteq Measured \cup {s}
      BY <2>1 DEF Rows, Measured, TypeOK
    <2>6. WindowsClosed' /\ RowsMissOnlyUnstored'
      BY <2>1, <2>5 DEF WindowsClosed, RowsMissOnlyUnstored, Settled
    <2>7. ASSUME NEW l \in Rows PROVE ~(s.at <= l.base.at + l.horizon)
      <3>1. l.base \in Snapshot /\ l.horizon \in Horizon
        BY DEF TypeOK, Rows
      <3>2. l.base.at \in Int /\ l.horizon \in Int /\ l.base.at + l.horizon <= labelledAt
        BY <3>1, TimesAreInts DEF WindowsClosed
      <3> QED BY <1>0, <2>1, <2>3, <3>2
    <2>8. InFlight'
      BY <2>1, <2>5, <2>7 DEF InFlight, Window
    <2> QED BY <2>4, <2>6, <2>8
  <1>8. ASSUME NEW c \in Cycle, persist_snapshot(c) PROVE Inv'
    <2>1. /\ snapshots' = snapshots \cup captured[c] /\ captured' = [captured EXCEPT ![c] = {}]
          /\ UNCHANGED <<now, phase, taken, computed, labels, labelledAt, failures>>
      BY <1>8 DEF persist_snapshot
    <2>2. TypeOK' /\ Emptied' /\ WindowsClosed'
      BY <2>1 DEF TypeOK, Emptied, WindowsClosed, Rows
    <2>3. Rows' = Rows /\ Measured' \subseteq Measured /\ captured[c] \subseteq Measured
      BY <2>1 DEF Rows, Measured, TypeOK
    <2>4. InFlight'
      BY <2>1, <2>3 DEF InFlight, Window
    <2>5. ASSUME NEW l \in Rows
          PROVE  Window(l.base, l.horizon, snapshots' \ l.unstored)
                   = Window(l.base, l.horizon, snapshots \ l.unstored)
      <3>1. Window(l.base, l.horizon, snapshots' \ l.unstored) \subseteq snapshots \ l.unstored
        BY <2>1, <2>3 DEF InFlight, Window
      <3> QED BY <2>1, <3>1, WindowKept
    <2>6. RowsMissOnlyUnstored'
      BY <2>3, <2>5 DEF RowsMissOnlyUnstored, Settled
    <2> QED BY <2>2, <2>4, <2>6
  <1>9. ASSUME NEW c \in Cycle, label_snapshots(c) PROVE Inv'
    <2>1. PICK C \in Candidates :
            computed' = [computed EXCEPT ![c] =
                {LabelOf({i \in C \X Horizon : i[2] \in pending_horizons(i[1])}, j) :
                    j \in {i \in C \X Horizon : i[2] \in pending_horizons(i[1])}}]
      BY <1>9 DEF label_snapshots
    <2> DEFINE items == {i \in C \X Horizon : i[2] \in pending_horizons(i[1])}
               new == {LabelOf(items, i) : i \in items}
    <2>2. /\ phase[c] = "label" /\ labelledAt' = now /\ phase' = [phase EXCEPT ![c] = "write"]
          /\ computed' = [computed EXCEPT ![c] = new]
          /\ UNCHANGED <<now, snapshots, captured, taken, labels, failures>>
      BY <1>9, <2>1 DEF label_snapshots
    <2>3. ASSUME NEW l \in new
          PROVE  /\ l.base \in snapshots /\ l.horizon \in Horizon
                 /\ l.base.at + l.horizon <= now
                 /\ l.unstored = Window(l.base, l.horizon, Measured \ snapshots)
                 /\ Settled(l, snapshots \ l.unstored)
      <3>1. Computed(l)
        BY ComputedOf
      <3> QED BY <3>1 DEF Computed
    <2> HIDE DEF items, new
    <2>4. Rows' \subseteq Rows \cup new /\ Measured' = Measured
      BY <2>2 DEF Rows, Measured, TypeOK
    <2>5. TypeOK'
      <3>1. \A l \in Rows \cup new : l.base \in snapshots /\ l.horizon \in Horizon
        BY <2>3 DEF TypeOK, Rows
      <3> QED BY <2>2, <2>4, <3>1 DEF TypeOK, Rows
    <2>6. Emptied'
      BY <2>2 DEF Emptied, TypeOK
    <2>7. WindowsClosed'
      <3>1. ASSUME NEW l \in Rows PROVE l.base.at + l.horizon <= now
        <4>1. l.base \in Snapshot /\ l.horizon \in Horizon
          BY DEF TypeOK, Rows
        <4>2. l.base.at \in Int /\ l.horizon \in Int /\ l.base.at + l.horizon <= labelledAt
          BY <4>1, TimesAreInts DEF WindowsClosed
        <4> QED BY <1>0, <4>2 DEF WindowsClosed
      <3>2. \A l \in Rows' : l.base.at + l.horizon <= now
        BY <2>3, <2>4, <3>1
      <3>3. labelledAt' = now /\ now' = now /\ now <= now
        BY <1>0, <2>2
      <3> QED BY <3>2, <3>3 DEF WindowsClosed
    <2>8. InFlight'
      <3>1. \A l \in new : Window(l.base, l.horizon, Measured) \subseteq l.unstored \cup snapshots
        BY <2>3 DEF Window
      <3> QED BY <2>2, <2>4, <3>1 DEF InFlight
    <2>9. RowsMissOnlyUnstored'
      BY <2>2, <2>3, <2>4 DEF RowsMissOnlyUnstored, Settled
    <2> QED BY <2>5, <2>6, <2>7, <2>8, <2>9
  <1> QED
    BY <1>1, <1>2, <1>3, <1>4, <1>5, <1>6, <1>7, <1>8, <1>9 DEF Next, run_cycle, Onward

LEMMA SpecInv == Spec => []Inv
  BY InvInit, InvNext, PTL DEF Spec

\* Types, for any instance of the constants.
THEOREM TypeCorrect == Spec => []TypeOK
  BY SpecInv, PTL DEF Inv

\* Whatever cycles run beside it: a label says what its window finally holds, but
\* for readings that some cycle had measured and not stored when it was computed.
\* No batch, no failed or repeated labelling and no later snapshot adds to that.
THEOREM LabelsMissOnlyUnstored == Spec => []MissesOnlyUnstored
  <1>1. Inv => MissesOnlyUnstored
    BY DEF Inv, RowsMissOnlyUnstored, MissesOnlyUnstored, Rows
  <1> QED BY <1>1, SpecInv, PTL

\* One cycle at a time, which the code does not see to.
OneCycle == \A c, d \in Cycle : c = d

NothingUnstored == \A l \in Rows : l.unstored = {}

\* If no second cycle runs beside the scheduler's, no label means "so far": it
\* says what its window finally holds (outcomes.py:140).  With a second one only
\* LabelsMissOnlyUnstored is true.
THEOREM SettledWithOneCycle == OneCycle => (Spec => []LabelsAreSettled)
  <1> SUFFICES ASSUME OneCycle PROVE Spec => []LabelsAreSettled
    OBVIOUS
  <1>1. Init => NothingUnstored
    BY DEF Init, NothingUnstored, Rows
  <1>2. Inv /\ NothingUnstored /\ [Next]_vars => NothingUnstored'
    <2> SUFFICES ASSUME Inv, NothingUnstored, [Next]_vars PROVE NothingUnstored'
      OBVIOUS
    <2>1. ASSUME NEW c \in Cycle, label_snapshots(c) PROVE NothingUnstored'
      <3>1. PICK C \in Candidates :
              computed' = [computed EXCEPT ![c] =
                  {LabelOf({i \in C \X Horizon : i[2] \in pending_horizons(i[1])}, j) :
                      j \in {i \in C \X Horizon : i[2] \in pending_horizons(i[1])}}]
        BY <2>1 DEF label_snapshots
      <3> DEFINE items == {i \in C \X Horizon : i[2] \in pending_horizons(i[1])}
      <3>2. Measured = {}
        BY <2>1 DEF label_snapshots, Inv, Emptied, OneCycle, Measured
      <3>3. \A i \in items : LabelOf(items, i).unstored = {}
        BY <3>2 DEF LabelOf, Window
      <3> DEFINE new == {LabelOf(items, i) : i \in items}
      <3>4. \A l \in new : l.unstored = {}
        BY <3>3
      <3>5. computed' = [computed EXCEPT ![c] = new] /\ labels' = labels
        BY <2>1, <3>1 DEF label_snapshots
      <3> HIDE DEF new
      <3>6. Rows' \subseteq Rows \cup new
        BY <3>5 DEF Rows, Inv, TypeOK
      <3> QED BY <3>4, <3>6 DEF NothingUnstored
    <2>2. ASSUME NEW c \in Cycle, ~label_snapshots(c), run_cycle(c) PROVE Rows' \subseteq Rows
      <3>1. computed' = computed /\ labels' = labels => Rows' = Rows
        BY DEF Rows
      <3>2. computed' = [computed EXCEPT ![c] = {}] /\ labels' \subseteq labels \cup computed[c]
              => Rows' \subseteq Rows
        BY DEF Rows, Inv, TypeOK
      <3> QED
        BY <2>2, <3>1, <3>2
        DEF run_cycle, Onward, StartCycle, persist_snapshot, Rollback, EndScreening, CommitLabels,
            LabellingFails, Crash, Capture, EndCycle
    <2>3. CASE Tick \/ UNCHANGED vars
      BY <2>3 DEF Tick, vars, Rows, NothingUnstored
    <2> QED BY <2>1, <2>2, <2>3 DEF Next, NothingUnstored
  <1>3. Inv /\ NothingUnstored => LabelsAreSettled
    <2> SUFFICES ASSUME Inv, NothingUnstored, NEW l \in labels PROVE Settled(l, snapshots)
      BY DEF LabelsAreSettled
    <2>1. l \in Rows
      BY DEF Rows
    <2>2. snapshots \ l.unstored = snapshots
      BY <2>1 DEF NothingUnstored
    <2>3. Settled(l, snapshots \ l.unstored)
      BY <2>1 DEF Inv, RowsMissOnlyUnstored
    <2> QED BY <2>2, <2>3
  <1> QED BY <1>1, <1>2, <1>3, SpecInv, PTL DEF Spec

\* No label claims a window was watched to its end when nothing was seen in
\* the second half of it.
THEOREM CensoringIsMarked == Spec => []CensoredIsMarked
  <1>1. Inv => CensoredIsMarked
    <2> SUFFICES ASSUME Inv, NEW l \in labels, l.says.complete
                 PROVE  \E s \in snapshots : /\ s.token = l.base.token
                                             /\ s.at <= l.base.at + l.horizon
                                             /\ 2 * (s.at - l.base.at) > l.horizon
      BY DEF CensoredIsMarked
    <2>1. Complete(l.base, l.horizon, Window(l.base, l.horizon, snapshots \ l.unstored))
      <3>1. l.says = measure(l.base, l.horizon, Window(l.base, l.horizon, snapshots \ l.unstored))
        BY DEF Inv, RowsMissOnlyUnstored, Rows, Settled
      <3>2. measure(l.base, l.horizon, Window(l.base, l.horizon, snapshots \ l.unstored)).complete
              = Complete(l.base, l.horizon, Window(l.base, l.horizon, snapshots \ l.unstored))
        BY DEF measure
      <3> QED BY <3>1, <3>2
    <2>2. PICK s \in Window(l.base, l.horizon, snapshots \ l.unstored) : 4 * (s.at - l.base.at) >= 3 * l.horizon
      BY <2>1 DEF Complete
    <2>3. s \in snapshots /\ s.token = l.base.token /\ s.at <= l.base.at + l.horizon
      BY DEF Window
    <2>4. s.at \in Int /\ l.base.at \in Int /\ l.horizon \in Int /\ l.horizon > 0
      BY <2>3, TimesAreInts DEF Inv, TypeOK
    <2> QED BY <2>2, <2>3, <2>4
  <1> QED BY <1>1, SpecInv, PTL

(***************************************************************************)
(* Who gets a label.                                                       *)
(***************************************************************************)
\* A batch that leaves an old snapshot out is full, of snapshots no older.
LEMMA LeftOutIsCrowded ==
    ASSUME TypeOK, IsFiniteSet(snapshots), NEW C \in Candidates, NEW s \in snapshots \ C,
           NEW h \in Horizon, s.at + h <= now
    PROVE  Crowded(s)
  <1> DEFINE old == {x \in snapshots : \E k \in Horizon : x.at + k <= now}
             rivals == {x \in snapshots \ {s} : x.at >= s.at /\ \E k \in Horizon : x.at + k <= now}
  <1>1. /\ C \subseteq old
        /\ Cardinality(C) = MaxCandidates \/ C = old
        /\ \A c \in C, t \in old \ C : c.at >= t.at
    BY DEF Candidates
  <1>2. s \in old \ C
    OBVIOUS
  <1>3. Cardinality(C) = MaxCandidates
    BY <1>1, <1>2
  <1>4. C \subseteq rivals
    BY <1>1, <1>2
  <1>5. IsFiniteSet(rivals)
    BY FS_Subset
  <1>6. Cardinality(C) <= Cardinality(rivals)
    BY <1>4, <1>5, FS_Subset
  <1> QED BY <1>3, <1>6 DEF Crowded

\* What a labelling owes to every window that is closed when it looks.
LabelsWhatIsClosed == \A c \in Cycle :
    label_snapshots(c) =>
        \A s \in snapshots, h \in Horizon : now - s.at >= h =>
            \/ \E l \in labels \cup computed'[c] : l.base = s /\ l.horizon = h
            \/ Crowded(s)

FewStored == IsFiniteSet(snapshots)

(* Whatever failed before it, and whoever labels beside it, one labelling  *)
(* has a label ready for every window closed by then that is not labelled  *)
(* yet or crowded out of its batch by newer snapshots: the step that makes *)
(* LabelledUnlessCrowded come true, for any batch size, number of          *)
(* snapshots and horizons.  (outcomes.py:152)                              *)
THEOREM OneRunLabelsTheClosed == Spec => [][LabelsWhatIsClosed]_vars
  <1>1. Init => FewStored
    BY FS_EmptySet DEF Init, FewStored
  <1>2. ASSUME Inv, IsFiniteSet(snapshots), [Next]_vars PROVE IsFiniteSet(snapshots')
    <2>1. ASSUME NEW c \in Cycle, persist_snapshot(c) PROVE IsFiniteSet(snapshots')
      <3>1. IsFiniteSet(captured[c])
        <4>1. PICK s \in captured[c] : captured[c] = {s}
          BY <1>2, <2>1 DEF persist_snapshot, Inv, TypeOK
        <4>2. IsFiniteSet({s})
          BY FS_Singleton
        <4> QED BY <4>1, <4>2
      <3> QED BY <1>2, <2>1, <3>1, FS_Union DEF persist_snapshot
    <2>2. CASE UNCHANGED snapshots
      BY <1>2, <2>2
    <2>3. CASE \A c \in Cycle : ~persist_snapshot(c)
      BY <1>2, <2>2, <2>3
      DEF Next, run_cycle, Onward, Tick, StartCycle, EndScreening, label_snapshots, CommitLabels,
          LabellingFails, Crash, Rollback, Capture, vars
    <2> QED BY <2>1, <2>3
  <1>3. ASSUME Inv, IsFiniteSet(snapshots), NEW c \in Cycle, label_snapshots(c),
               NEW s \in snapshots, NEW h \in Horizon, now - s.at >= h
        PROVE  Crowded(s) \/ \E l \in labels \cup computed'[c] : l.base = s /\ l.horizon = h
    <2>1. PICK C \in Candidates :
             computed' = [computed EXCEPT ![c] =
                 {LabelOf({i \in C \X Horizon : i[2] \in pending_horizons(i[1])}, j) :
                     j \in {i \in C \X Horizon : i[2] \in pending_horizons(i[1])}}]
      BY <1>3 DEF label_snapshots
    <2> DEFINE items == {i \in C \X Horizon : i[2] \in pending_horizons(i[1])}
    <2>2. CASE s \notin C
      <3>1. now \in Int /\ s.at \in Int /\ h \in Int
        BY <1>3, TimesAreInts, ClockIsInt DEF Inv, TypeOK
      <3>2. s.at + h <= now
        BY <1>3, <3>1
      <3> QED BY <1>3, <2>2, <3>2, LeftOutIsCrowded DEF Inv
    <2>3. CASE s \in C /\ h \in done(s)
      <3>1. \E l \in labels : l.base = s /\ l.horizon = h
        BY <2>3 DEF done
      <3> QED BY <3>1
    <2>4. CASE s \in C /\ h \notin done(s)
      <3>1. <<s, h>> \in items
        BY <1>3, <2>4 DEF pending_horizons
      <3>2. LabelOf(items, <<s, h>>) \in computed'[c]
        BY <1>3, <2>1, <3>1 DEF Inv, TypeOK
      <3>3. LabelOf(items, <<s, h>>).base = s /\ LabelOf(items, <<s, h>>).horizon = h
        BY DEF LabelOf
      <3> QED BY <3>2, <3>3
    <2> QED BY <2>2, <2>3, <2>4
  <1>4. Inv /\ FewStored /\ [Next]_vars => [LabelsWhatIsClosed]_vars
    BY <1>3 DEF LabelsWhatIsClosed, FewStored
  <1>5. Inv /\ FewStored /\ [Next]_vars => FewStored'
    BY <1>2 DEF FewStored
  <1> QED BY <1>1, <1>4, <1>5, SpecInv, PTL DEF Spec
=============================================================================
