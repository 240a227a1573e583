------------------------- MODULE OrderExecutionProofs -------------------------
(***************************************************************************)
(* Safety of the order path for any number of cycles, tokens, orders and   *)
(* days, and any limits.  First the shape of a transaction (who holds the  *)
(* write lock, what it has flushed), then the switches, then the answers   *)
(* of the exchange, then the caps.                                         *)
(***************************************************************************)
EXTENDS OrderExecution, FiniteSetTheorems, TLAPS

(***************************************************************************)
(* The shape of a transaction.                                             *)
(***************************************************************************)
\* A worker past its cycle's loop head works on a token.
TokenShape == \A w \in Worker : pc[w] \notin {"idle", "cycle"} => token[w] \in Token

\* What a worker has flushed: nothing before the last step of its path; the
\* order that is on its way; at most one row at the commit.
PendingShape == \A w \in Worker :
    /\ pc[w] \notin {"post", "commit"} => pending[w] = {}
    /\ pc[w] = "post" => \E r \in Row : pending[w] = {r} /\ r.status = "created"
    /\ pc[w] = "commit" => pending[w] = {} \/ \E r \in Row : pending[w] = {r}

\* The write lock: one transaction at a time.
Exclusive == \A v, w \in Worker : pc[v] \in TxSteps /\ pc[w] \in TxSteps => v = w

Shape == TypeOK /\ TokenShape /\ PendingShape /\ Exclusive

USE DEF TxSteps, Steps

LEMMA ShapeInit == Init => Shape
  BY FaultsAssumption, LimitAssumption
     DEF Init, Shape, TypeOK, TokenShape, PendingShape, Exclusive, Signal

\* A new row is a row.
LEMMA NewRowTyped ==
    ASSUME Shape, NEW w \in Worker, token[w] \in Token, NEW m \in Mode,
           NEW s \in Status, NEW r \in NewRow(w, m, s)
    PROVE  /\ r \in Row
           /\ r.status = s /\ r.mode = m /\ r.token = token[w] /\ r.day = today
  BY LimitAssumption DEF Shape, TypeOK, NewRow, Row, FreshIds

\* Leaving a transaction keeps the shape, whatever was committed.
LEMMA LeaveShape ==
    ASSUME Shape, NEW w \in Worker, NEW step \in {"idle", "cycle"}, Leave(w, step),
           ledger' \subseteq Row
    PROVE  Shape'
  <1> USE LimitAssumption DEF Leave, Goto, Shape
  <1>1. TypeOK'
    BY DEF TypeOK
  <1>2. TokenShape'
    BY DEF TypeOK, TokenShape
  <1>3. PendingShape'
    BY DEF TypeOK, PendingShape
  <1>4. Exclusive'
    BY DEF TypeOK, Exclusive
  <1> QED BY <1>1, <1>2, <1>3, <1>4

\* Writing the outcome keeps the shape.
LEMMA RecordShape ==
    ASSUME Shape, NEW w \in Worker, pc[w] = "post", NEW s \in Status, Record(w, s),
           exchange' \subseteq Row
    PROVE  Shape'
  <1> USE LimitAssumption DEF Record, Goto, Shape
  <1>1. PICK r \in Row : pending[w] = {r}
    BY DEF PendingShape
  <1> DEFINE q == [r EXCEPT !.status = s]
  <1>2. q \in Row
    BY <1>1 DEF Row
  <1>3. pending' = [pending EXCEPT ![w] = {q}]
    BY <1>1 DEF TypeOK
  <1> HIDE DEF q
  <1>4. TypeOK'
    BY <1>2, <1>3 DEF TypeOK
  <1>5. TokenShape'
    BY DEF TypeOK, TokenShape
  <1>6. PendingShape'
    <2>1. pending'[w] = {q}
      BY <1>3 DEF TypeOK
    <2>2. \A v \in Worker : v # w => pending'[v] = pending[v] /\ pc'[v] = pc[v]
      BY <1>3 DEF TypeOK
    <2>3. pc'[w] = "commit"
      BY DEF TypeOK
    <2> QED BY <1>2, <2>1, <2>2, <2>3 DEF PendingShape
  <1>7. Exclusive'
    BY DEF TypeOK, Exclusive
  <1> QED BY <1>4, <1>5, <1>6, <1>7

\* A signal moves no worker and stays a signal.
LEMMA RaiseTyped ==
    ASSUME Shape, NEW s \in Signal, Raise(s)
    PROVE  switches' \subseteq Signal /\ excused' \in [Worker -> SUBSET Signal]
  <1>1. CASE s \in switches
    BY <1>1 DEF Raise, Shape, TypeOK
  <1>2. CASE s \notin switches
    BY <1>2 DEF Raise, Shape, TypeOK
  <1> QED BY <1>1, <1>2

LEMMA LowerTyped ==
    ASSUME Shape, NEW s \in Signal, Lower(s)
    PROVE  switches' \subseteq Signal /\ excused' \in [Worker -> SUBSET Signal]
  BY DEF Lower, Shape, TypeOK

LEMMA ShapeNext == Shape /\ [Next]_vars => Shape'
  <1> SUFFICES ASSUME Shape, [Next]_vars PROVE Shape'
    OBVIOUS
  <1> USE LimitAssumption
  <1>1. CASE Switch
    <2>1. switches' \subseteq Signal /\ excused' \in [Worker -> SUBSET Signal]
      BY <1>1, RaiseTyped, LowerTyped
         DEF Switch, TouchFile, RemoveFile, engage, release, SafeModeExpires, Signal
    <2> QED BY <1>1, <2>1 DEF Switch, Shape, TypeOK, TokenShape, PendingShape, Exclusive
  <1>2. CASE NextDay
    BY <1>2 DEF NextDay, Shape, TypeOK, TokenShape, PendingShape, Exclusive
  <1>3. CASE UNCHANGED vars
    BY <1>3 DEF vars, Shape, TypeOK, TokenShape, PendingShape, Exclusive
  <1>4. ASSUME NEW w \in Worker, StartCycle(w) PROVE Shape'
    <2>1. switches' \subseteq Signal /\ excused' \in [Worker -> SUBSET Signal]
      BY <1>4, RaiseTyped, LowerTyped DEF StartCycle, evaluate_safe_mode, Signal, Shape, TypeOK
    <2> QED BY <1>4, <2>1 DEF StartCycle, Goto, Shape, TypeOK, TokenShape, PendingShape, Exclusive
  <1>5. ASSUME NEW w \in Worker, EndCycle(w) PROVE Shape'
    BY <1>5 DEF EndCycle, Goto, Shape, TypeOK, TokenShape, PendingShape, Exclusive
  <1>6. ASSUME NEW w \in Worker, NEW t \in Token, StartToken(w, t) PROVE Shape'
    BY <1>6 DEF StartToken, Goto, Shape, TypeOK, TokenShape, PendingShape, Exclusive
  <1>7. ASSUME NEW w \in Worker, Abort(w) PROVE Shape'
    BY <1>7, LeaveShape DEF Abort, Shape, TypeOK
  <1>8. ASSUME NEW w \in Worker, Screen(w) PROVE Shape'
    BY <1>8 DEF Screen, Goto, Shape, TypeOK, TokenShape, PendingShape, Exclusive
  <1>9. ASSUME NEW w \in Worker, OpenTx(w) PROVE Shape'
    BY <1>9 DEF OpenTx, Goto, Writing, Shape, TypeOK, TokenShape, PendingShape, Exclusive
  <1>10. ASSUME NEW w \in Worker, LockTimeout(w) PROVE Shape'
    BY <1>10, LeaveShape DEF LockTimeout, Shape, TypeOK
  <1>11. ASSUME NEW w \in Worker, Commit(w) PROVE Shape'
    BY <1>11, LeaveShape DEF Commit, Shape, TypeOK
  <1>12. ASSUME NEW w \in Worker, simulate_buy(w) PROVE Shape'
    <2> USE <1>12 DEF simulate_buy, Goto, Shape
    <2>1. \A s \in {"filled", "unfilled"} : \A r \in NewRow(w, "PAPER", s) : r \in Row
      BY NewRowTyped DEF TokenShape, Mode, Status
    <2>2. TypeOK'
      BY <2>1 DEF TypeOK
    <2>3. TokenShape' /\ Exclusive'
      BY DEF TypeOK, TokenShape, Exclusive
    <2>4. PendingShape'
      BY <2>1 DEF TypeOK, PendingShape
    <2> QED BY <2>2, <2>3, <2>4
  <1>13. ASSUME NEW w \in Worker, GlobalSwitches(w) PROVE Shape'
    BY <1>13 DEF GlobalSwitches, Proceed, Goto, Shape, TypeOK, TokenShape, PendingShape, Exclusive
  <1>14. ASSUME NEW w \in Worker, Preflight(w) PROVE Shape'
    BY <1>14 DEF Preflight, Proceed, Goto, Shape, TypeOK, TokenShape, PendingShape, Exclusive
  <1>15. ASSUME NEW w \in Worker, SizeOrder(w) PROVE Shape'
    BY <1>15 DEF SizeOrder, Proceed, Goto, Shape, TypeOK, TokenShape, PendingShape, Exclusive
  <1>16. ASSUME NEW w \in Worker, Recheck(w) PROVE Shape'
    <2> USE <1>16 DEF Recheck, Goto, Shape
    <2>1. \A r \in NewRow(w, "LIVE", "created") : r \in Row /\ r.status = "created"
      BY NewRowTyped DEF TokenShape, Mode, Status
    <2>2. \A lost \in Unreadable : lost \subseteq Signal
      BY DEF Unreadable, Stored, Signal
    <2>3. TypeOK'
      BY <2>1, <2>2 DEF TypeOK
    <2>4. TokenShape' /\ Exclusive'
      BY DEF TypeOK, TokenShape, Exclusive
    <2>5. PendingShape'
      BY <2>1 DEF TypeOK, PendingShape
    <2> QED BY <2>3, <2>4, <2>5
  <1>17. ASSUME NEW w \in Worker, Accepted(w) PROVE Shape'
    BY <1>17, RecordShape DEF Accepted, Shape, TypeOK, Status
  <1>18. ASSUME NEW w \in Worker, Refused(w) PROVE Shape'
    BY <1>18, RecordShape DEF Refused, Shape, TypeOK, Status
  <1>19. ASSUME NEW w \in Worker, NoAnswer(w) PROVE Shape'
    <2>1. pc[w] = "post" /\ exchange' \subseteq Row
      BY <1>19 DEF NoAnswer, Shape, TypeOK
    <2>2. CASE Record(w, "rejected")
      BY <2>1, <2>2, RecordShape DEF Status
    <2>3. CASE ~Record(w, "rejected")
      BY <2>1, <2>3, <1>19 DEF NoAnswer, Shape, TypeOK, TokenShape, PendingShape, Exclusive
    <2> QED BY <2>2, <2>3
  <1> QED
    BY <1>1, <1>2, <1>3, <1>4, <1>5, <1>6, <1>7, <1>8, <1>9, <1>10, <1>11, <1>12, <1>13,
       <1>14, <1>15, <1>16, <1>17, <1>18, <1>19 DEF Next, Progress

\* Every state of every behaviour is of this shape; in particular every
\* variable keeps its type and no two cycles are ever writing together.
THEOREM SpecShape == Spec => []Shape
  BY ShapeInit, ShapeNext, PTL DEF Spec

\* Types, for any instance of the constants.
THEOREM TypeCorrect == Spec => []TypeOK
  BY SpecShape, PTL DEF Shape
-----------------------------------------------------------------------------
(***************************************************************************)
(* The switches.                                                           *)
(***************************************************************************)
LEMMA HaltNext == Shape /\ HaltStopsNewOrders /\ [Next]_vars => HaltStopsNewOrders'
  <1> SUFFICES ASSUME Shape, HaltStopsNewOrders, [Next]_vars PROVE HaltStopsNewOrders'
    OBVIOUS
  <1> USE DEF HaltStopsNewOrders
  <1>1. ASSUME NEW s, Raise(s), pc' = pc PROVE HaltStopsNewOrders'
    <2>1. CASE s \in switches
      BY <1>1, <2>1 DEF Raise
    <2>2. CASE s \notin switches
      BY <1>1, <2>2 DEF Raise, Shape, TypeOK
    <2> QED BY <2>1, <2>2
  <1>2. ASSUME NEW s, Lower(s), pc' = pc PROVE HaltStopsNewOrders'
    BY <1>2 DEF Lower
  <1>3. CASE Switch
    BY <1>1, <1>2, <1>3 DEF Switch, TouchFile, RemoveFile, engage, release, SafeModeExpires
  <1>4. CASE NextDay \/ UNCHANGED vars
    BY <1>4 DEF NextDay, vars
  \* Nobody is sending while safe mode is written: the writer has the lock.
  <1>5. ASSUME NEW w \in Worker, StartCycle(w) PROVE HaltStopsNewOrders'
    <2>1. CASE UNCHANGED <<switches, excused>>
      BY <1>5, <2>1 DEF StartCycle, Goto, Shape, TypeOK
    <2>2. CASE evaluate_safe_mode
      BY <1>5, <2>2 DEF StartCycle, Goto, evaluate_safe_mode, Writing, Shape, TypeOK
    <2> QED BY <1>5, <2>1, <2>2 DEF StartCycle
  \* A worker that moves to any other step is not sending; the others keep
  \* what they were excused from.
  <1>6. ASSUME NEW w \in Worker, NEW step \in Steps \ {"post"}, Goto(w, step),
               UNCHANGED switches,
               \A v \in Worker : v # w => excused'[v] = excused[v]
        PROVE  HaltStopsNewOrders'
    BY <1>6 DEF Goto, Shape, TypeOK
  <1>7. ASSUME NEW w \in Worker, NEW step \in {"idle", "cycle"}, Leave(w, step)
        PROVE  HaltStopsNewOrders'
    BY <1>6, <1>7 DEF Leave, Shape, TypeOK
  <1>8. ASSUME NEW w \in Worker, NEW s, Record(w, s) PROVE HaltStopsNewOrders'
    BY <1>6, <1>8 DEF Record, Shape, TypeOK
  <1>9. ASSUME NEW w \in Worker, EndCycle(w) \/ Screen(w) \/ OpenTx(w) \/ simulate_buy(w)
                                 \/ \E t \in Token : StartToken(w, t)
        PROVE  HaltStopsNewOrders'
    BY <1>6, <1>9 DEF EndCycle, Screen, OpenTx, simulate_buy, StartToken
  <1>10. ASSUME NEW w \in Worker, GlobalSwitches(w) \/ Preflight(w) \/ SizeOrder(w)
         PROVE  HaltStopsNewOrders'
    BY <1>6, <1>10 DEF GlobalSwitches, Preflight, SizeOrder, Proceed
  <1>11. ASSUME NEW w \in Worker, Abort(w) \/ LockTimeout(w) \/ Commit(w)
         PROVE  HaltStopsNewOrders'
    BY <1>7, <1>11 DEF Abort, LockTimeout, Commit
  <1>12. ASSUME NEW w \in Worker, Recheck(w) PROVE HaltStopsNewOrders'
    <2>1. PICK lost \in Unreadable :
            \/ Halted(lost) /\ Goto(w, "commit") /\ UNCHANGED excused
            \/ ~Halted(lost) /\ Goto(w, "post") /\ excused' = [excused EXCEPT ![w] = lost]
      BY <1>12 DEF Recheck
    <2>2. UNCHANGED switches
      BY <1>12 DEF Recheck
    <2>3. CASE Halted(lost) /\ Goto(w, "commit") /\ UNCHANGED excused
      BY <1>6, <2>2, <2>3
    \* The check passed: every signal there is was one it could not read.
    <2>4. CASE ~Halted(lost) /\ Goto(w, "post") /\ excused' = [excused EXCEPT ![w] = lost]
      BY <2>2, <2>4 DEF Goto, Halted, Shape, TypeOK
    <2> QED BY <2>1, <2>3, <2>4
  <1>13. ASSUME NEW w \in Worker, Accepted(w) \/ Refused(w) PROVE HaltStopsNewOrders'
    BY <1>8, <1>13 DEF Accepted, Refused
  <1>14. ASSUME NEW w \in Worker, NoAnswer(w) PROVE HaltStopsNewOrders'
    BY <1>8, <1>14 DEF NoAnswer
  <1> QED
    BY <1>3, <1>4, <1>5, <1>9, <1>10, <1>11, <1>12, <1>13, <1>14 DEF Next, Progress

\* No order is on its way to the exchange under a signal its last check could
\* have seen, for any number of cycles and whatever reads fail.
THEOREM HaltIsRespected == Spec => []HaltStopsNewOrders
  <1>1. Init => HaltStopsNewOrders
    BY DEF Init, HaltStopsNewOrders
  <1> QED BY <1>1, HaltNext, SpecShape, PTL DEF Spec
-----------------------------------------------------------------------------
(***************************************************************************)
(* The answers of the exchange.                                            *)
(***************************************************************************)
Real(r) == r.status = "live" => [r EXCEPT !.status = "created"] \in exchange

\* Rows that were there are still real: the exchange forgets no order.
LEMMA LiveRowsKept ==
    ASSUME LiveRowsAreReal, exchange \subseteq exchange',
           \A r \in AllRows' : r \in AllRows \/ Real(r)'
    PROVE  LiveRowsAreReal'
  BY DEF LiveRowsAreReal, Real

LEMMA LiveNext == Shape /\ LiveRowsAreReal /\ [Next]_vars => LiveRowsAreReal'
  <1> SUFFICES ASSUME Shape, LiveRowsAreReal, [Next]_vars PROVE LiveRowsAreReal'
    OBVIOUS
  \* A step that flushes nothing and sends nothing.
  <1>1. ASSUME UNCHANGED <<pending, ledger, exchange>> PROVE LiveRowsAreReal'
    BY <1>1 DEF LiveRowsAreReal, AllRows
  <1>2. ASSUME NEW w \in Worker, NEW step, Leave(w, step), ledger' \subseteq ledger \cup pending[w]
        PROVE  LiveRowsAreReal'
    BY <1>2, LiveRowsKept DEF Leave, AllRows, Shape, TypeOK
  \* A step that flushes rows: each of them is real.
  <1>3. ASSUME NEW w \in Worker, NEW S, pending' = [pending EXCEPT ![w] = S], UNCHANGED ledger,
               exchange \subseteq exchange', \A r \in S : Real(r)'
        PROVE  LiveRowsAreReal'
    <2>1. \A r \in AllRows' : r \in AllRows \/ r \in S
      BY <1>3 DEF AllRows, Shape, TypeOK
    <2> QED BY <1>3, <2>1, LiveRowsKept
  <1>4. ASSUME NEW w \in Worker, pc[w] = "post", NEW s \in Status, Record(w, s),
               exchange \subseteq exchange', s = "live" => pending[w] \subseteq exchange'
        PROVE  LiveRowsAreReal'
    <2>1. PICK r \in Row : pending[w] = {r} /\ r.status = "created"
      BY <1>4 DEF Shape, PendingShape
    <2> DEFINE q == [r EXCEPT !.status = s]
    <2>2. [q EXCEPT !.status = "created"] = r /\ q.status = s
      BY <2>1 DEF Row
    <2>3. pending' = [pending EXCEPT ![w] = {q}] /\ UNCHANGED ledger
      BY <1>4, <2>1 DEF Record, Shape, TypeOK
    <2>4. Real(q)'
      BY <1>4, <2>1, <2>2 DEF Real
    <2> HIDE DEF q
    <2> QED BY <1>3, <1>4, <2>3, <2>4
  <1>5. CASE Switch \/ NextDay \/ UNCHANGED vars
    BY <1>1, <1>5 DEF Switch, NextDay, vars
  <1>6. ASSUME NEW w \in Worker, StartCycle(w) \/ EndCycle(w) \/ Screen(w) \/ OpenTx(w)
                                 \/ \E t \in Token : StartToken(w, t)
        PROVE  LiveRowsAreReal'
    BY <1>1, <1>6 DEF StartCycle, EndCycle, Screen, OpenTx, StartToken
  <1>7. ASSUME NEW w \in Worker, GlobalSwitches(w) \/ Preflight(w) \/ SizeOrder(w)
        PROVE  LiveRowsAreReal'
    BY <1>1, <1>7 DEF GlobalSwitches, Preflight, SizeOrder, Proceed
  <1>8. ASSUME NEW w \in Worker, Abort(w) \/ LockTimeout(w) \/ Commit(w)
        PROVE  LiveRowsAreReal'
    BY <1>2, <1>8 DEF Abort, LockTimeout, Commit
  <1>9. ASSUME NEW w \in Worker, simulate_buy(w) PROVE LiveRowsAreReal'
    <2>1. \A s \in {"filled", "unfilled"} : \A r \in NewRow(w, "PAPER", s) : r.status # "live"
      BY <1>9, NewRowTyped DEF simulate_buy, Shape, TokenShape, Mode, Status
    <2>2. UNCHANGED <<ledger, exchange>>
      BY <1>9 DEF simulate_buy
    <2>3. CASE pending' = pending
      BY <1>1, <2>2, <2>3
    <2>4. CASE pending' # pending
      <3>1. PICK s \in {"filled", "unfilled"} :
              \E r \in NewRow(w, "PAPER", s) : pending' = [pending EXCEPT ![w] = {r}]
        BY <1>9, <2>4 DEF simulate_buy
      <3> PICK r \in NewRow(w, "PAPER", s) : pending' = [pending EXCEPT ![w] = {r}]
        BY <3>1
      <3>2. Real(r)'
        BY <2>1 DEF Real
      <3> QED BY <1>3, <2>2, <3>2
    <2> QED BY <2>3, <2>4
  <1>10. ASSUME NEW w \in Worker, Recheck(w) PROVE LiveRowsAreReal'
    <2>1. \A r \in NewRow(w, "LIVE", "created") : r.status # "live"
      BY <1>10, NewRowTyped DEF Recheck, Shape, TokenShape, Mode, Status
    <2>2. UNCHANGED <<ledger, exchange>>
      BY <1>10 DEF Recheck
    <2>3. CASE UNCHANGED pending
      BY <1>1, <2>2, <2>3
    <2>4. ASSUME NEW r \in NewRow(w, "LIVE", "created"), pending' = [pending EXCEPT ![w] = {r}]
          PROVE  LiveRowsAreReal'
      BY <1>3, <2>1, <2>2, <2>4 DEF Real
    <2> QED BY <1>10, <2>3, <2>4 DEF Recheck
  <1>11. ASSUME NEW w \in Worker, Accepted(w) \/ Refused(w) PROVE LiveRowsAreReal'
    BY <1>4, <1>11 DEF Accepted, Refused, Status
  <1>12. ASSUME NEW w \in Worker, NoAnswer(w) PROVE LiveRowsAreReal'
    <2>1. pc[w] = "post" /\ exchange \subseteq exchange'
      BY <1>12 DEF NoAnswer
    <2>2. CASE Record(w, "rejected")
      BY <1>4, <2>1, <2>2 DEF Status
    <2>3. CASE ~Record(w, "rejected")
      BY <1>12, <2>1, <2>3, LiveRowsKept DEF NoAnswer, AllRows
    <2> QED BY <2>2, <2>3
  <1> QED
    BY <1>5, <1>6, <1>7, <1>8, <1>9, <1>10, <1>11, <1>12 DEF Next, Progress

\* A row that says "live" is an order the exchange took, exactly as it was
\* written, however often the request was repeated and whichever answers were
\* lost.
THEOREM LiveRowsCorrect == Spec => []LiveRowsAreReal
  <1>1. Init => LiveRowsAreReal
    BY DEF Init, LiveRowsAreReal, AllRows
  <1> QED BY <1>1, LiveNext, SpecShape, PTL DEF Spec
-----------------------------------------------------------------------------
(***************************************************************************)
(* Sums and counts over rows.  What the caps are about is finite: the      *)
(* rows, the dollars in them, the tokens they name.                        *)
(***************************************************************************)
Tokens(rows) == {r.token : r \in rows}
Finite(rows) == IsFiniteSet(rows) /\ IsFiniteSet(Dollars(rows)) /\ IsFiniteSet(Tokens(rows))

\* One row carries at most one clip.
LEMMA OneRow ==
    ASSUME NEW r \in Row
    PROVE  Finite({r}) /\ TotalUsd({r}) <= PositionUsd
  <1> DEFINE T == {<<r, i>> : i \in 1..PositionUsd}
             f == [i \in 1..PositionUsd |-> <<r, i>>]
  <1>1. f \in Surjection(1..PositionUsd, T)
    BY DEF Surjection
  <1>2. IsFiniteSet(1..PositionUsd) /\ Cardinality(1..PositionUsd) = PositionUsd
    BY FS_Interval, LimitAssumption
  <1>3. IsFiniteSet(T) /\ Cardinality(T) <= PositionUsd
    BY <1>1, <1>2, FS_Surjection
  <1>4. Dollars({r}) \in SUBSET T
    BY DEF Dollars
  <1>5. /\ IsFiniteSet(Dollars({r}))
        /\ Cardinality(Dollars({r})) <= Cardinality(T)
    BY <1>3, <1>4, FS_Subset
  <1>6. Cardinality(T) \in Nat /\ Cardinality(Dollars({r})) \in Nat
    BY <1>3, <1>5, FS_CardinalityType
  <1>7. Tokens({r}) = {r.token}
    BY DEF Tokens
  <1> HIDE DEF T, f
  <1> QED BY <1>3, <1>5, <1>6, <1>7, FS_Singleton, LimitAssumption DEF Finite, TotalUsd

\* Fewer rows, fewer dollars.
LEMMA FewerRows ==
    ASSUME NEW S, NEW T, Finite(T), S \subseteq T
    PROVE  /\ Finite(S)
           /\ TotalUsd(S) \in Nat /\ TotalUsd(T) \in Nat /\ TotalUsd(S) <= TotalUsd(T)
           /\ Cardinality(S) \in Nat /\ Cardinality(T) \in Nat /\ Cardinality(S) <= Cardinality(T)
  <1>1. /\ S \in SUBSET T
        /\ Dollars(S) \in SUBSET Dollars(T)
        /\ Tokens(S) \in SUBSET Tokens(T)
    BY DEF Dollars, Tokens
  <1>2. IsFiniteSet(S) /\ Cardinality(S) <= Cardinality(T)
    BY <1>1, FS_Subset DEF Finite
  <1>3. IsFiniteSet(Dollars(S)) /\ Cardinality(Dollars(S)) <= Cardinality(Dollars(T))
    BY <1>1, FS_Subset DEF Finite
  <1>4. IsFiniteSet(Tokens(S))
    BY <1>1, FS_Subset DEF Finite
  <1> QED BY <1>2, <1>3, <1>4, FS_CardinalityType DEF Finite, TotalUsd

\* One row more adds at most one clip and one row.
LEMMA OneRowMore ==
    ASSUME NEW S, NEW r \in Row, Finite(S)
    PROVE  /\ Finite(S \cup {r})
           /\ TotalUsd(S \cup {r}) <= TotalUsd(S) + PositionUsd
           /\ Cardinality(S \cup {r}) <= Cardinality(S) + 1
  <1>1. Finite({r}) /\ TotalUsd({r}) <= PositionUsd
    BY OneRow
  <1>2. /\ Dollars(S \cup {r}) = Dollars(S) \cup Dollars({r})
        /\ Tokens(S \cup {r}) = Tokens(S) \cup Tokens({r})
    BY DEF Dollars, Tokens
  <1>3. IsFiniteSet(S \cup {r}) /\ Cardinality(S \cup {r}) <= Cardinality(S) + 1
    <2>1. IsFiniteSet(S) /\ Cardinality(S) \in Nat
      BY FS_CardinalityType DEF Finite
    <2>2. /\ IsFiniteSet(S \cup {r})
          /\ Cardinality(S \cup {r}) = IF r \in S THEN Cardinality(S) ELSE Cardinality(S) + 1
      BY <2>1, FS_AddElement
    <2> QED BY <2>1, <2>2
  <1>4. IsFiniteSet(Tokens(S) \cup Tokens({r}))
    BY <1>1, FS_Union DEF Finite
  <1>5. /\ IsFiniteSet(Dollars(S) \cup Dollars({r}))
        /\ Cardinality(Dollars(S) \cup Dollars({r})) =
               Cardinality(Dollars(S)) + Cardinality(Dollars({r}))
                   - Cardinality(Dollars(S) \cap Dollars({r}))
    BY <1>1, FS_Union DEF Finite
  <1>6. IsFiniteSet(Dollars(S) \cap Dollars({r}))
    <2>1. (Dollars(S) \cap Dollars({r})) \in SUBSET Dollars(S)
      OBVIOUS
    <2> QED BY <2>1, FS_Subset DEF Finite
  <1>7. /\ Cardinality(Dollars(S)) \in Nat
        /\ Cardinality(Dollars({r})) \in Nat
        /\ Cardinality(Dollars(S) \cap Dollars({r})) \in Nat
    BY <1>1, <1>6, FS_CardinalityType DEF Finite
  <1>8. Cardinality(Dollars(S) \cup Dollars({r})) <= Cardinality(Dollars(S)) + PositionUsd
    BY <1>1, <1>5, <1>7, LimitAssumption DEF TotalUsd
  <1>9. TotalUsd(S \cup {r}) <= TotalUsd(S) + PositionUsd
    BY <1>2, <1>8 DEF TotalUsd
  <1>10. Finite(S \cup {r})
    BY <1>2, <1>3, <1>4, <1>5 DEF Finite
  <1> QED BY <1>3, <1>9, <1>10

\* A sum or a count that had room for one clip, or one row, still respects
\* its limit with that row.
LEMMA RoomForOneRow ==
    ASSUME NEW S, NEW T, NEW r \in Row, Finite(S), T \subseteq S \cup {r}, NEW n \in Nat
    PROVE  /\ TotalUsd(S) + PositionUsd <= n => TotalUsd(T) <= n
           /\ Cardinality(S) < n => Cardinality(T) <= n
  <1>1. /\ Finite(S \cup {r})
        /\ TotalUsd(S \cup {r}) <= TotalUsd(S) + PositionUsd
        /\ Cardinality(S \cup {r}) <= Cardinality(S) + 1
    BY OneRowMore
  <1>2. /\ TotalUsd(T) \in Nat /\ TotalUsd(S \cup {r}) \in Nat
        /\ TotalUsd(T) <= TotalUsd(S \cup {r})
        /\ Cardinality(T) \in Nat /\ Cardinality(S \cup {r}) \in Nat
        /\ Cardinality(T) <= Cardinality(S \cup {r})
    BY <1>1, FewerRows
  <1>3. TotalUsd(S) \in Nat /\ Cardinality(S) \in Nat
    BY FewerRows
  <1> QED BY <1>1, <1>2, <1>3, LimitAssumption
-----------------------------------------------------------------------------
(***************************************************************************)
(* The caps.                                                               *)
(***************************************************************************)
\* check_exposure is enough: a clip it lets through leaves every cap of both
\* books respected, on every day.
LEMMA CheckIsEnough ==
    ASSUME NEW L \in SUBSET Row, Finite(L), WithinCaps(L), NEW r \in Row, r.token \in Token,
           check_exposure(L, r.mode, r.token, r.day)
    PROVE  WithinCaps(L \cup {r})
  <1> SUFFICES ASSUME NEW m \in Mode
               PROVE  /\ \A t \in Token : TotalUsd(TokenRows(L \cup {r}, m, t)) <= MaxTokenUsd
                      /\ \A d \in 0..LastDay :
                          /\ TotalUsd({x \in TodayRows(L \cup {r}, m, d) : x.status \in COMMITTED})
                                <= MaxDailyUsd
                          /\ Cardinality(TodayRows(L \cup {r}, m, d)) <= MaxOrders
                      /\ Cardinality(OpenTokens(L \cup {r}, m)) <= MaxPositions
    BY DEF WithinCaps
  <1> USE LimitAssumption
  <1>1. \A t \in Token : TotalUsd(TokenRows(L \cup {r}, m, t)) <= MaxTokenUsd
    <2> TAKE t \in Token
    <2>1. TokenRows(L, m, t) \subseteq L
      BY DEF TokenRows, OfMode
    <2>2. Finite(TokenRows(L, m, t))
      BY <2>1, FewerRows
    <2>3. CASE m = r.mode /\ t = r.token
      <3>1. TokenRows(L \cup {r}, m, t) \subseteq TokenRows(L, m, t) \cup {r}
        BY DEF TokenRows, OfMode
      <3>2. TotalUsd(TokenRows(L, m, t)) + PositionUsd <= MaxTokenUsd
        BY <2>3 DEF check_exposure
      <3> QED BY <2>2, <3>1, <3>2, RoomForOneRow
    <2>4. CASE ~(m = r.mode /\ t = r.token)
      <3>1. TokenRows(L \cup {r}, m, t) = TokenRows(L, m, t)
        BY <2>4 DEF TokenRows, OfMode
      <3> QED BY <3>1 DEF WithinCaps
    <2> QED BY <2>3, <2>4
  <1>2. \A d \in 0..LastDay :
          /\ TotalUsd({x \in TodayRows(L \cup {r}, m, d) : x.status \in COMMITTED}) <= MaxDailyUsd
          /\ Cardinality(TodayRows(L \cup {r}, m, d)) <= MaxOrders
    <2> TAKE d \in 0..LastDay
    <2>1. Finite(DayRows(L, m, d)) /\ Finite(DayCommitted(L, m, d))
      <3>1. DayRows(L, m, d) \subseteq L /\ DayCommitted(L, m, d) \subseteq L
        BY DEF DayRows, DayCommitted, OfMode
      <3> QED BY <3>1, FewerRows
    <2>2. CASE m = r.mode /\ d = r.day
      \* The rows of the day are among those exposure_for counts since its start.
      <3>1. /\ TodayRows(L \cup {r}, m, d) \subseteq DayRows(L, m, d) \cup {r}
            /\ {x \in TodayRows(L \cup {r}, m, d) : x.status \in COMMITTED}
                   \subseteq DayCommitted(L, m, d) \cup {r}
        BY DEF TodayRows, DayRows, DayCommitted, OfMode
      <3>2. /\ TotalUsd(DayCommitted(L, m, d)) + PositionUsd <= MaxDailyUsd
            /\ Cardinality(DayRows(L, m, d)) < MaxOrders
        BY <2>2 DEF check_exposure
      <3> QED BY <2>1, <3>1, <3>2, RoomForOneRow
    <2>3. CASE ~(m = r.mode /\ d = r.day)
      <3>1. TodayRows(L \cup {r}, m, d) = TodayRows(L, m, d)
        BY <2>3 DEF TodayRows, OfMode
      <3> QED BY <3>1 DEF WithinCaps
    <2> QED BY <2>2, <2>3
  <1>3. Cardinality(OpenTokens(L \cup {r}, m)) <= MaxPositions
    <2>1. CASE m = r.mode
      <3>1. IsFiniteSet(OpenTokens(L, m))
        <4>1. OpenTokens(L, m) \in SUBSET Tokens(L)
          BY DEF OpenTokens, Tokens, OfMode
        <4> QED BY <4>1, FS_Subset DEF Finite
      <3>2. /\ IsFiniteSet(OpenTokens(L, m) \cup {r.token})
            /\ Cardinality(OpenTokens(L, m) \cup {r.token}) <= Cardinality(OpenTokens(L, m)) + 1
            /\ Cardinality(OpenTokens(L, m)) \in Nat
            /\ Cardinality(OpenTokens(L, m) \cup {r.token}) \in Nat
        <4>1. Cardinality(OpenTokens(L, m)) \in Nat
          BY <3>1, FS_CardinalityType
        <4>2. /\ IsFiniteSet(OpenTokens(L, m) \cup {r.token})
              /\ Cardinality(OpenTokens(L, m) \cup {r.token}) =
                     IF r.token \in OpenTokens(L, m) THEN Cardinality(OpenTokens(L, m))
                     ELSE Cardinality(OpenTokens(L, m)) + 1
          BY <3>1, FS_AddElement
        <4> QED BY <4>1, <4>2
      <3>3. OpenTokens(L \cup {r}, m) \in SUBSET (OpenTokens(L, m) \cup {r.token})
        BY DEF OpenTokens, OfMode
      <3>4. /\ Cardinality(OpenTokens(L \cup {r}, m)) \in Nat
            /\ Cardinality(OpenTokens(L \cup {r}, m)) <= Cardinality(OpenTokens(L, m) \cup {r.token})
        BY <3>2, <3>3, FS_Subset, FS_CardinalityType
      <3>5. Cardinality(OpenTokens(L, m)) < MaxPositions
        BY <2>1 DEF check_exposure
      <3> QED BY <3>2, <3>4, <3>5
    <2>2. CASE m # r.mode
      <3>1. OpenTokens(L \cup {r}, m) = OpenTokens(L, m)
        BY <2>2 DEF OpenTokens, OfMode
      <3> QED BY <3>1 DEF WithinCaps
    <2> QED BY <2>1, <2>2
  <1> QED BY <1>1, <1>2, <1>3

\* Rolled back rows only make room.
LEMMA CapsOfFewer ==
    ASSUME NEW L \in SUBSET Row, Finite(L), WithinCaps(L), NEW K \in SUBSET L
    PROVE  WithinCaps(K)
  <1> USE LimitAssumption
  <1> SUFFICES ASSUME NEW m \in Mode
               PROVE  /\ \A t \in Token : TotalUsd(TokenRows(K, m, t)) <= MaxTokenUsd
                      /\ \A d \in 0..LastDay :
                          /\ TotalUsd({x \in TodayRows(K, m, d) : x.status \in COMMITTED})
                                <= MaxDailyUsd
                          /\ Cardinality(TodayRows(K, m, d)) <= MaxOrders
                      /\ Cardinality(OpenTokens(K, m)) <= MaxPositions
    BY DEF WithinCaps
  <1>1. ASSUME NEW t \in Token PROVE TotalUsd(TokenRows(K, m, t)) <= MaxTokenUsd
    <2>1. TokenRows(K, m, t) \subseteq TokenRows(L, m, t) /\ TokenRows(L, m, t) \subseteq L
      BY DEF TokenRows, OfMode
    <2>2. Finite(TokenRows(L, m, t))
      BY <2>1, FewerRows
    <2>3. /\ TotalUsd(TokenRows(K, m, t)) <= TotalUsd(TokenRows(L, m, t))
          /\ TotalUsd(TokenRows(K, m, t)) \in Nat /\ TotalUsd(TokenRows(L, m, t)) \in Nat
      BY <2>1, <2>2, FewerRows
    <2> QED BY <2>3 DEF WithinCaps
  <1>2. ASSUME NEW d \in 0..LastDay
        PROVE  /\ TotalUsd({x \in TodayRows(K, m, d) : x.status \in COMMITTED}) <= MaxDailyUsd
               /\ Cardinality(TodayRows(K, m, d)) <= MaxOrders
    <2> DEFINE A == TodayRows(L, m, d)
               B == {x \in A : x.status \in COMMITTED}
               A0 == TodayRows(K, m, d)
               B0 == {x \in A0 : x.status \in COMMITTED}
    <2>1. A0 \subseteq A /\ B0 \subseteq B /\ A \subseteq L /\ B \subseteq L
      BY DEF TodayRows, OfMode
    <2>2. TotalUsd(B) <= MaxDailyUsd /\ Cardinality(A) <= MaxOrders
      BY DEF WithinCaps
    <2> HIDE DEF A, B, A0, B0
    <2>3. Finite(A) /\ Finite(B)
      BY <2>1, FewerRows
    <2>4. /\ TotalUsd(B0) <= TotalUsd(B) /\ TotalUsd(B0) \in Nat /\ TotalUsd(B) \in Nat
          /\ Cardinality(A0) <= Cardinality(A) /\ Cardinality(A0) \in Nat /\ Cardinality(A) \in Nat
      BY <2>1, <2>3, FewerRows
    <2>5. TotalUsd(B0) <= MaxDailyUsd /\ Cardinality(A0) <= MaxOrders
      BY <2>2, <2>4
    <2> QED BY <2>5 DEF A0, B0
  <1>3. Cardinality(OpenTokens(K, m)) <= MaxPositions
    <2>1. /\ OpenTokens(K, m) \in SUBSET OpenTokens(L, m)
          /\ OpenTokens(L, m) \in SUBSET Tokens(L)
      BY DEF OpenTokens, Tokens, OfMode
    <2>2. IsFiniteSet(OpenTokens(L, m))
      BY <2>1, FS_Subset DEF Finite
    <2>3. /\ Cardinality(OpenTokens(K, m)) <= Cardinality(OpenTokens(L, m))
          /\ Cardinality(OpenTokens(K, m)) \in Nat /\ Cardinality(OpenTokens(L, m)) \in Nat
      BY <2>1, <2>2, FS_Subset, FS_CardinalityType
    <2> QED BY <2>3 DEF WithinCaps
  <1> QED BY <1>1, <1>2, <1>3

\* Time only frees exposure: what fits today fits tomorrow.
LEMMA FitsTomorrow ==
    ASSUME NEW L \in SUBSET Row, Finite(L), NEW m \in Mode, NEW t \in Token,
           NEW d \in 0..LastDay, check_exposure(L, m, t, d)
    PROVE  check_exposure(L, m, t, d + 1)
  <1>1. /\ DayRows(L, m, d + 1) \subseteq DayRows(L, m, d)
        /\ DayCommitted(L, m, d + 1) \subseteq DayCommitted(L, m, d)
        /\ DayRows(L, m, d) \subseteq L
        /\ DayCommitted(L, m, d) \subseteq L
    BY LimitAssumption DEF DayRows, DayCommitted, OfMode, Row
  <1>2. Finite(DayRows(L, m, d)) /\ Finite(DayCommitted(L, m, d))
    BY <1>1, FewerRows
  <1>3. /\ TotalUsd(DayCommitted(L, m, d + 1)) <= TotalUsd(DayCommitted(L, m, d))
        /\ TotalUsd(DayCommitted(L, m, d + 1)) \in Nat /\ TotalUsd(DayCommitted(L, m, d)) \in Nat
    BY <1>1, <1>2, FewerRows
  <1>4. /\ Cardinality(DayRows(L, m, d + 1)) <= Cardinality(DayRows(L, m, d))
        /\ Cardinality(DayRows(L, m, d + 1)) \in Nat /\ Cardinality(DayRows(L, m, d)) \in Nat
    BY <1>1, <1>2, FewerRows
  <1> QED BY <1>3, <1>4, LimitAssumption DEF check_exposure
-----------------------------------------------------------------------------
\* An order on its way was checked against what is committed, and nothing was
\* committed since: this is what makes BookWithinCaps inductive.
RowFits == \A w \in Worker : pc[w] = "post" =>
    \A r \in pending[w] : check_exposure(ledger, r.mode, r.token, r.day)

CapsInv == Finite(ledger) /\ BookWithinCaps /\ ExposureNotStale /\ RowFits

\* The worker that holds the lock is the only one with something flushed.
LEMMA Alone ==
    ASSUME Shape, NEW w \in Worker, pc[w] \in TxSteps
    PROVE  /\ \A v \in Worker : v # w => pc[v] \notin TxSteps /\ pending[v] = {}
           /\ AllRows = ledger \cup pending[w]
  <1>1. \A v \in Worker : v # w => pc[v] \notin TxSteps
    BY DEF Shape, Exclusive
  <1>2. \A v \in Worker : v # w => pending[v] = {}
    BY <1>1 DEF Shape, PendingShape
  <1>3. UNION {pending[v] : v \in Worker} = pending[w]
    BY <1>2
  <1> QED BY <1>1, <1>2, <1>3 DEF AllRows

\* Committed rows and rows in flight are finitely many rows.
LEMMA BookIsFinite ==
    ASSUME Shape, Finite(ledger)
    PROVE  AllRows \in SUBSET Row /\ Finite(AllRows)
  <1>1. AllRows \in SUBSET Row
    BY DEF AllRows, Shape, TypeOK
  <1>2. CASE \E w \in Worker : pc[w] \in {"post", "commit"}
    <2>1. PICK w \in Worker : pc[w] \in {"post", "commit"}
      BY <1>2
    <2>2. AllRows = ledger \cup pending[w]
      BY <2>1, Alone
    <2>3. pending[w] = {} \/ \E r \in Row : pending[w] = {r}
      BY <2>1 DEF Shape, PendingShape
    <2>4. CASE pending[w] = {}
      BY <1>1, <2>2, <2>4
    <2>5. CASE \E r \in Row : pending[w] = {r}
      BY <1>1, <2>2, <2>5, OneRowMore
    <2> QED BY <2>3, <2>4, <2>5
  <1>3. CASE ~ \E w \in Worker : pc[w] \in {"post", "commit"}
    <2>1. \A w \in Worker : pending[w] = {}
      BY <1>3 DEF Shape, PendingShape
    <2>2. AllRows = ledger
      BY <2>1 DEF AllRows
    <2> QED BY <1>1, <2>2
  <1> QED BY <1>2, <1>3

LEMMA CapsInit == Init => CapsInv
  <1> SUFFICES ASSUME Init PROVE CapsInv
    OBVIOUS
  <1> USE LimitAssumption
  <1>1. ledger = {} /\ AllRows = {}
    BY DEF Init, AllRows
  <1>2. Dollars({}) = {} /\ Tokens({}) = {}
    BY DEF Dollars, Tokens
  <1>3. Finite(ledger)
    BY <1>1, <1>2, FS_EmptySet DEF Finite
  <1>4. /\ \A m \in Mode, t \in Token : TokenRows({}, m, t) = {}
        /\ \A m \in Mode, d \in 0..LastDay :
               TodayRows({}, m, d) = {} /\ {x \in TodayRows({}, m, d) : x.status \in COMMITTED} = {}
        /\ \A m \in Mode : OpenTokens({}, m) = {}
    BY DEF TokenRows, TodayRows, OpenTokens, OfMode
  <1>5. Cardinality({}) = 0 /\ TotalUsd({}) = 0
    BY <1>2, FS_EmptySet DEF TotalUsd
  <1>6. BookWithinCaps
    <2> SUFFICES ASSUME NEW m \in Mode
                 PROVE  /\ \A t \in Token : TotalUsd(TokenRows({}, m, t)) <= MaxTokenUsd
                        /\ \A d \in 0..LastDay :
                            /\ TotalUsd({x \in TodayRows({}, m, d) : x.status \in COMMITTED})
                                  <= MaxDailyUsd
                            /\ Cardinality(TodayRows({}, m, d)) <= MaxOrders
                        /\ Cardinality(OpenTokens({}, m)) <= MaxPositions
      BY <1>1 DEF BookWithinCaps, WithinCaps
    <2>1. ASSUME NEW t \in Token PROVE TotalUsd(TokenRows({}, m, t)) <= MaxTokenUsd
      <3>1. TokenRows({}, m, t) = {}
        BY <1>4
      <3> QED BY <1>5, <3>1
    <2>2. ASSUME NEW d \in 0..LastDay
          PROVE  /\ TotalUsd({x \in TodayRows({}, m, d) : x.status \in COMMITTED}) <= MaxDailyUsd
                 /\ Cardinality(TodayRows({}, m, d)) <= MaxOrders
      <3>1. TodayRows({}, m, d) = {}
        BY <1>4
      <3>2. {x \in TodayRows({}, m, d) : x.status \in COMMITTED} = {}
        BY <3>1
      <3> QED BY <1>5, <3>1, <3>2
    <2>3. Cardinality(OpenTokens({}, m)) <= MaxPositions
      BY <1>4, <1>5
    <2> QED BY <2>1, <2>2, <2>3
  <1>7. ExposureNotStale /\ RowFits
    BY DEF Init, ExposureNotStale, RowFits
  <1> QED BY <1>3, <1>6, <1>7 DEF CapsInv

LEMMA CapsNext == Shape /\ Shape' /\ CapsInv /\ [Next]_vars => CapsInv'
  <1> SUFFICES ASSUME Shape, Shape', CapsInv, [Next]_vars PROVE CapsInv'
    OBVIOUS
  <1>0. AllRows \in SUBSET Row /\ Finite(AllRows) /\ WithinCaps(AllRows)
    BY BookIsFinite DEF CapsInv, BookWithinCaps
  \* A step that touches no row, and brings nobody to the recheck or the post.
  <1>1. ASSUME NEW w \in Worker, UNCHANGED <<ledger, pending, today>>,
               pc'[w] \notin {"recheck", "post"},
               \A v \in Worker : v # w => pc'[v] = pc[v] /\ token'[v] = token[v]
        PROVE  CapsInv'
    <2>1. AllRows' = AllRows
      BY <1>1 DEF AllRows
    <2>2. BookWithinCaps' /\ Finite(ledger)'
      BY <1>1, <2>1 DEF CapsInv, BookWithinCaps, Finite, Dollars, Tokens, WithinCaps, TokenRows,
                        TodayRows, OpenTokens, OfMode, TotalUsd
    <2>3. ExposureNotStale'
      BY <1>1 DEF CapsInv, ExposureNotStale, Visible
    <2>4. RowFits'
      BY <1>1 DEF CapsInv, RowFits
    <2> QED BY <2>2, <2>3, <2>4 DEF CapsInv
  \* A step in which the lock holder w flushes one row that fits.
  <1>2. ASSUME NEW w \in Worker, pc[w] \in TxSteps, NEW r \in Row,
               check_exposure(ledger, r.mode, r.token, r.day),
               pending' = [pending EXCEPT ![w] = {r}],
               UNCHANGED ledger, pc' = [pc EXCEPT ![w] = "post"] \/ pc' = [pc EXCEPT ![w] = "commit"]
        PROVE  CapsInv'
    <2>1. \A v \in Worker : v # w => pc[v] \notin TxSteps /\ pending[v] = {}
      BY <1>2, Alone
    <2>2. AllRows' = ledger \cup {r}
      BY <1>2, <2>1 DEF AllRows, Shape, TypeOK
    <2>3. ledger \in SUBSET AllRows
      BY DEF AllRows
    <2>4. WithinCaps(ledger) /\ Finite(ledger) /\ ledger \in SUBSET Row
      BY <1>0, <2>3, CapsOfFewer DEF CapsInv, Shape, TypeOK
    <2>5. WithinCaps(ledger \cup {r})
      BY <1>2, <2>4, CheckIsEnough DEF Row
    <2>6. BookWithinCaps'
      BY <2>2, <2>5 DEF BookWithinCaps
    <2>7. ExposureNotStale'
      BY <1>2, <2>1 DEF ExposureNotStale, Shape, TypeOK
    <2>8. RowFits'
      BY <1>2, <2>1 DEF RowFits, Shape, TypeOK
    <2> QED BY <1>2, <2>4, <2>6, <2>7, <2>8 DEF CapsInv
  \* A worker gives its token up, with nothing committed.
  <1>3. ASSUME NEW w \in Worker, NEW step \in {"idle", "cycle"}, Leave(w, step), UNCHANGED ledger
        PROVE  CapsInv'
    <2>1. AllRows' \in SUBSET AllRows
      BY <1>3 DEF AllRows, Leave, Shape, TypeOK
    <2>2. BookWithinCaps'
      BY <1>0, <2>1, CapsOfFewer DEF BookWithinCaps
    <2>3. \A v \in Worker : v # w => /\ pc'[v] = pc[v] /\ token'[v] = token[v]
                                     /\ pending'[v] = pending[v]
      BY <1>3 DEF Leave, Goto, Shape, TypeOK
    <2>4. pc'[w] \notin {"recheck", "post"} /\ UNCHANGED today
      BY <1>3 DEF Leave, Goto, Shape, TypeOK
    <2>5. ExposureNotStale'
      BY <1>3, <2>3, <2>4 DEF CapsInv, ExposureNotStale, Visible
    <2>6. RowFits'
      BY <1>3, <2>3, <2>4 DEF CapsInv, RowFits
    <2> QED BY <1>3, <2>2, <2>5, <2>6 DEF CapsInv
  <1>4. CASE Switch \/ UNCHANGED vars
    <2>1. UNCHANGED <<ledger, pending, today, pc, token>>
      BY <1>4 DEF Switch, vars
    <2>2. AllRows' = AllRows
      BY <2>1 DEF AllRows
    <2> QED BY <2>1, <2>2 DEF CapsInv, BookWithinCaps, ExposureNotStale, RowFits, Visible
  <1>5. CASE NextDay
    <2>1. UNCHANGED <<ledger, pending, pc, token>> /\ today' = today + 1
      BY <1>5 DEF NextDay
    <2>2. AllRows' = AllRows
      BY <2>1 DEF AllRows
    <2>3. ASSUME NEW w \in Worker, pc[w] = "recheck"
          PROVE  check_exposure(Visible(w), "LIVE", token[w], today + 1)
      <3>1. Visible(w) = ledger
        BY <2>3 DEF Visible, Shape, PendingShape
      <3>2. token[w] \in Token
        BY <2>3 DEF Shape, TokenShape
      <3> QED BY <2>3, <3>1, <3>2, FitsTomorrow
              DEF CapsInv, ExposureNotStale, Mode, Shape, TypeOK
    <2>4. ExposureNotStale'
      BY <2>1, <2>3 DEF ExposureNotStale, Visible
    <2> QED BY <2>1, <2>2, <2>4 DEF CapsInv, BookWithinCaps, RowFits
  <1>6. ASSUME NEW w \in Worker, StartCycle(w) \/ EndCycle(w) \/ Screen(w) \/ OpenTx(w)
                                 \/ \E t \in Token : StartToken(w, t)
        PROVE  CapsInv'
    BY <1>1, <1>6 DEF StartCycle, EndCycle, Screen, OpenTx, StartToken, Goto, Shape, TypeOK
  <1>7. ASSUME NEW w \in Worker, GlobalSwitches(w) \/ Preflight(w) PROVE CapsInv'
    BY <1>1, <1>7 DEF GlobalSwitches, Preflight, Proceed, Goto, Shape, TypeOK
  <1>8. ASSUME NEW w \in Worker, SizeOrder(w) PROVE CapsInv'
    <2>1. PICK plan \in BOOLEAN :
            Proceed(w, plan /\ check_exposure(Visible(w), "LIVE", token[w], today), "recheck")
      BY <1>8 DEF SizeOrder
    <2>2. UNCHANGED <<token, ledger, pending, today>>
      BY <1>8 DEF SizeOrder, Proceed
    <2>3. CASE ~(plan /\ check_exposure(Visible(w), "LIVE", token[w], today))
      BY <1>1, <2>1, <2>2, <2>3 DEF Proceed, Goto, Shape, TypeOK
    <2>4. CASE plan /\ check_exposure(Visible(w), "LIVE", token[w], today)
      <3>1. pc' = [pc EXCEPT ![w] = "recheck"]
        BY <2>1, <2>4 DEF Proceed, Goto
      <3>2. AllRows' = AllRows
        BY <2>2 DEF AllRows
      <3>3. ExposureNotStale'
        BY <2>2, <2>4, <3>1 DEF CapsInv, ExposureNotStale, Visible, Shape, TypeOK
      <3>4. RowFits'
        BY <2>2, <3>1 DEF CapsInv, RowFits, Shape, TypeOK
      <3> QED BY <2>2, <3>2, <3>3, <3>4 DEF CapsInv, BookWithinCaps
    <2> QED BY <2>3, <2>4
  <1>9. ASSUME NEW w \in Worker, Recheck(w) PROVE CapsInv'
    <2>1. pc[w] = "recheck" /\ pending[w] = {} /\ token[w] \in Token /\ UNCHANGED <<token, ledger, today>>
      BY <1>9 DEF Recheck, Shape, TokenShape, PendingShape
    <2>2. check_exposure(ledger, "LIVE", token[w], today)
      BY <2>1 DEF CapsInv, ExposureNotStale, Visible
    <2>3. CASE Goto(w, "commit") /\ UNCHANGED pending
      BY <1>1, <2>1, <2>3 DEF Goto, Shape, TypeOK
    <2>4. ASSUME NEW r \in NewRow(w, "LIVE", "created"), Goto(w, "post"),
                 pending' = [pending EXCEPT ![w] = {r}]
          PROVE  CapsInv'
      <3>1. r \in Row /\ r.mode = "LIVE" /\ r.token = token[w] /\ r.day = today
        BY <2>1, NewRowTyped DEF Mode, Status
      <3> QED BY <1>2, <2>1, <2>2, <2>4, <3>1 DEF Goto
    <2> QED BY <1>9, <2>3, <2>4 DEF Recheck
  <1>10. ASSUME NEW w \in Worker, simulate_buy(w) PROVE CapsInv'
    <2>1. /\ pc[w] = "decided" /\ pending[w] = {} /\ token[w] \in Token
          /\ UNCHANGED <<token, ledger, today>> /\ Goto(w, "commit")
      BY <1>10 DEF simulate_buy, Shape, TokenShape, PendingShape
    <2>2. CASE pending' = pending
      BY <1>1, <2>1, <2>2 DEF Goto, Shape, TypeOK
    <2>3. ASSUME NEW s \in {"filled", "unfilled"}, NEW r \in NewRow(w, "PAPER", s),
                 check_exposure(Visible(w), "PAPER", token[w], today),
                 pending' = [pending EXCEPT ![w] = {r}]
          PROVE  CapsInv'
      <3>1. r \in Row /\ r.mode = "PAPER" /\ r.token = token[w] /\ r.day = today
        BY <2>1, NewRowTyped DEF Mode, Status
      <3>2. check_exposure(ledger, "PAPER", token[w], today)
        BY <2>1, <2>3 DEF Visible
      <3> QED BY <1>2, <2>1, <2>3, <3>1, <3>2 DEF Goto
    <2> QED BY <1>10, <2>2, <2>3 DEF simulate_buy
  \* The outcome changes the status of the row, which fits all the same.
  <1>11. ASSUME NEW w \in Worker, pc[w] = "post", NEW s \in Status, Record(w, s) PROVE CapsInv'
    <2>1. PICK r \in Row : pending[w] = {r}
      BY <1>11 DEF Shape, PendingShape
    <2> DEFINE q == [r EXCEPT !.status = s]
    <2>2. q \in Row /\ q.mode = r.mode /\ q.token = r.token /\ q.day = r.day
      BY DEF Row
    <2>3. check_exposure(ledger, q.mode, q.token, q.day)
      BY <1>11, <2>1, <2>2 DEF CapsInv, RowFits
    <2>4. pending' = [pending EXCEPT ![w] = {q}] /\ UNCHANGED ledger /\ Goto(w, "commit")
      <3>1. {[x EXCEPT !.status = s] : x \in pending[w]} = {q}
        BY <2>1
      <3> QED BY <1>11, <3>1 DEF Record
    <2> HIDE DEF q
    <2> QED BY <1>2, <1>11, <2>2, <2>3, <2>4 DEF Goto
  <1>12. ASSUME NEW w \in Worker, Accepted(w) \/ Refused(w) PROVE CapsInv'
    BY <1>11, <1>12 DEF Accepted, Refused, Status
  <1>13. ASSUME NEW w \in Worker, NoAnswer(w) PROVE CapsInv'
    <2>1. CASE Record(w, "rejected")
      BY <1>11, <1>13, <2>1 DEF NoAnswer, Status
    <2>2. CASE UNCHANGED <<pc, token, pending, ledger, today>>
      <3>1. AllRows' = AllRows
        BY <2>2 DEF AllRows
      <3> QED BY <2>2, <3>1 DEF CapsInv, BookWithinCaps, ExposureNotStale, RowFits, Visible
    <2> QED BY <1>13, <2>1, <2>2 DEF NoAnswer
  <1>14. ASSUME NEW w \in Worker, Abort(w) \/ LockTimeout(w) PROVE CapsInv'
    BY <1>3, <1>14 DEF Abort, LockTimeout
  <1>15. ASSUME NEW w \in Worker, Commit(w) PROVE CapsInv'
    <2>1. /\ pc[w] = "commit" /\ Leave(w, "cycle") /\ ledger' = ledger \cup pending[w]
      BY <1>15 DEF Commit
    <2>2. /\ \A v \in Worker : v # w => pc[v] \notin TxSteps /\ pending[v] = {}
          /\ AllRows = ledger \cup pending[w]
      BY <2>1, Alone
    <2>3. AllRows' = AllRows
      BY <2>1, <2>2 DEF AllRows, Leave, Shape, TypeOK
    <2>4. Finite(ledger')
      BY <1>0, <2>1, <2>2
    <2>5. \A v \in Worker : pc'[v] \notin {"recheck", "post"}
      BY <2>1, <2>2 DEF Leave, Goto, Shape, TypeOK
    <2>6. BookWithinCaps'
      BY <1>0, <2>3 DEF BookWithinCaps
    <2> QED BY <2>4, <2>5, <2>6 DEF CapsInv, ExposureNotStale, RowFits
  <1> QED
    BY <1>4, <1>5, <1>6, <1>7, <1>8, <1>9, <1>10, <1>12, <1>13, <1>14, <1>15 DEF Next, Progress

LEMMA SpecCaps == Spec => []CapsInv
  BY CapsInit, CapsNext, SpecShape, PTL DEF Spec

\* However many cycles run together, whatever they lose and whenever they die,
\* the committed orders and the orders in flight stay, together, within the
\* per-token, the daily, the position and the order-count caps of each book.
THEOREM CapsHold == Spec => []BookWithinCaps
  BY SpecCaps, PTL DEF CapsInv

\* The exposure an order was sized by has not changed when the order is sent.
THEOREM ExposureStaysFree == Spec => []ExposureNotStale
  BY SpecCaps, PTL DEF CapsInv
-----------------------------------------------------------------------------
(***************************************************************************)
(* The path implements the account.                                        *)
(***************************************************************************)
Held == UNION {pending[w] : w \in Worker}

\* A step that neither flushes nor commits is a stutter of the account.
LEMMA AccountStutters ==
    ASSUME UNCHANGED <<ledger, pending, today>>
    PROVE  UNCHANGED <<ledger, Held, today>>
  BY DEF Held

\* Only the lock holder has rows in flight.
LEMMA HeldIsOwn ==
    ASSUME Shape, NEW w \in Worker, pc[w] \in TxSteps
    PROVE  Held = pending[w]
  <1>1. \A v \in Worker : v # w => pending[v] = {}
    BY Alone
  <1> QED BY <1>1 DEF Held

\* So what it flushes is all there is in flight.
LEMMA HeldNext ==
    ASSUME Shape, NEW w \in Worker, pc[w] \in TxSteps, NEW S, pending' = [pending EXCEPT ![w] = S]
    PROVE  Held' = S
  <1>1. \A v \in Worker : v # w => pending[v] = {}
    BY Alone
  <1>2. pending'[w] = S /\ \A v \in Worker : v # w => pending'[v] = {}
    BY <1>1 DEF Shape, TypeOK
  <1> QED BY <1>2 DEF Held

\* A row that fits fits whatever becomes of it, and its id is new to the book.
LEMMA FlushReserves ==
    ASSUME Shape, CapsInv, NEW w \in Worker, pc[w] \in TxSteps, pending[w] = {},
           NEW m \in Mode, NEW s \in Status, NEW r \in NewRow(w, m, s), token[w] \in Token,
           check_exposure(ledger, m, token[w], today),
           pending' = [pending EXCEPT ![w] = {r}], UNCHANGED <<ledger, today>>
    PROVE  Account!Reserve
  <1>1. r \in Row /\ r.mode = m /\ r.token = token[w] /\ r.day = today
    BY NewRowTyped
  <1>2. Held = {} /\ Held' = {r}
    BY HeldIsOwn, HeldNext
  <1>3. \A b \in ledger : b.id # r.id
    BY DEF NewRow, FreshIds, UsedIds, AllRows
  <1>4. ledger \in SUBSET Row /\ Finite(ledger) /\ WithinCaps(ledger)
    <2>1. AllRows \in SUBSET Row /\ Finite(AllRows) /\ WithinCaps(AllRows)
      BY BookIsFinite DEF CapsInv, BookWithinCaps
    <2>2. ledger \in SUBSET AllRows
      BY DEF AllRows
    <2> QED BY <2>1, <2>2, CapsOfFewer DEF CapsInv
  <1>5. ASSUME NEW q \in Status PROVE WithinCaps(ledger \cup {Account!Become(r, q)})
    <2> DEFINE x == [r EXCEPT !.status = q]
    <2>1. x \in Row /\ x.mode = m /\ x.token = token[w] /\ x.day = today
      BY <1>1 DEF Row
    <2>2. WithinCaps(ledger \cup {x})
      <3> HIDE DEF x
      <3> QED BY <1>4, <2>1, CheckIsEnough
    <2> QED BY <2>2 DEF Account!Become
  <1> QED BY <1>1, <1>2, <1>3, <1>5 DEF Account!Reserve, Held

\* Writing the outcome settles the reservation.
LEMMA RecordSettles ==
    ASSUME Shape, NEW w \in Worker, pc[w] = "post", NEW s \in Status, Record(w, s)
    PROVE  Account!Settle
  <1>1. PICK r \in Row : pending[w] = {r}
    BY DEF Shape, PendingShape
  <1>2. {[x EXCEPT !.status = s] : x \in pending[w]} = {[r EXCEPT !.status = s]}
    BY <1>1
  <1>3. Held = {r} /\ Held' = {[r EXCEPT !.status = s]}
    BY <1>1, <1>2, HeldIsOwn, HeldNext DEF Record
  <1> QED BY <1>3 DEF Account!Settle, Account!Become, Record, Held

\* Giving a token up releases what was in flight, or had nothing in flight.
LEMMA LeaveReleases ==
    ASSUME Shape, NEW w \in Worker, NEW step, Leave(w, step), UNCHANGED ledger
    PROVE  Account!Release \/ UNCHANGED <<ledger, Held, today>>
  <1>1. pending' = [pending EXCEPT ![w] = {}] /\ UNCHANGED today
    BY DEF Leave
  <1>2. CASE pc[w] \in TxSteps
    BY <1>1, <1>2, HeldNext DEF Account!Release, Held
  <1>3. CASE pc[w] \notin TxSteps
    <2>1. pending' = pending
      BY <1>1, <1>3 DEF Shape, TypeOK, PendingShape
    <2> QED BY <1>1, <2>1, AccountStutters
  <1> QED BY <1>2, <1>3

LEMMA AccountNext ==
    Shape /\ CapsInv /\ [Next]_vars => [Account!Next]_(Account!vars)
  <1> SUFFICES ASSUME Shape, CapsInv, [Next]_vars
               PROVE  Account!Next \/ UNCHANGED <<ledger, Held, today>>
    BY DEF Account!vars, Held
  <1>1. CASE Switch \/ UNCHANGED vars
    BY <1>1, AccountStutters DEF Switch, vars
  <1>2. CASE NextDay
    BY <1>2 DEF NextDay, Account!Next, Account!NextDay
  <1>3. ASSUME NEW w \in Worker, StartCycle(w) \/ EndCycle(w) \/ Screen(w) \/ OpenTx(w)
                                 \/ \E t \in Token : StartToken(w, t)
        PROVE  UNCHANGED <<ledger, Held, today>>
    BY <1>3, AccountStutters DEF StartCycle, EndCycle, Screen, OpenTx, StartToken
  <1>4. ASSUME NEW w \in Worker, GlobalSwitches(w) \/ Preflight(w) \/ SizeOrder(w)
        PROVE  UNCHANGED <<ledger, Held, today>>
    BY <1>4, AccountStutters DEF GlobalSwitches, Preflight, SizeOrder, Proceed
  <1>5. ASSUME NEW w \in Worker, Abort(w) \/ LockTimeout(w)
        PROVE  Account!Release \/ UNCHANGED <<ledger, Held, today>>
    BY <1>5, LeaveReleases DEF Abort, LockTimeout
  <1>6. ASSUME NEW w \in Worker, Commit(w) PROVE Account!Confirm
    <2>1. Held = pending[w] /\ Held' = {}
      BY <1>6, HeldIsOwn, HeldNext DEF Commit, Leave
    <2> QED BY <1>6, <2>1 DEF Commit, Leave, Account!Confirm, Held
  <1>7. ASSUME NEW w \in Worker, simulate_buy(w)
        PROVE  Account!Reserve \/ UNCHANGED <<ledger, Held, today>>
    <2>1. /\ pc[w] \in TxSteps /\ pending[w] = {} /\ token[w] \in Token /\ Visible(w) = ledger
          /\ UNCHANGED <<ledger, today>>
      BY <1>7 DEF simulate_buy, Visible, Shape, TokenShape, PendingShape
    <2>2. CASE pending' = pending
      BY <2>1, <2>2, AccountStutters
    <2>3. ASSUME NEW s \in {"filled", "unfilled"}, NEW r \in NewRow(w, "PAPER", s),
                 check_exposure(Visible(w), "PAPER", token[w], today),
                 pending' = [pending EXCEPT ![w] = {r}]
          PROVE  Account!Reserve
      BY <2>1, <2>3, FlushReserves DEF Mode, Status
    <2> QED BY <1>7, <2>2, <2>3 DEF simulate_buy
  <1>8. ASSUME NEW w \in Worker, Recheck(w)
        PROVE  Account!Reserve \/ UNCHANGED <<ledger, Held, today>>
    <2>1. /\ pc[w] = "recheck" /\ pending[w] = {} /\ token[w] \in Token
          /\ UNCHANGED <<ledger, today>>
      BY <1>8 DEF Recheck, Shape, TokenShape, PendingShape
    <2>2. check_exposure(ledger, "LIVE", token[w], today)
      BY <2>1 DEF CapsInv, ExposureNotStale, Visible
    <2>3. CASE UNCHANGED pending
      BY <2>1, <2>3, AccountStutters
    <2>4. ASSUME NEW r \in NewRow(w, "LIVE", "created"), pending' = [pending EXCEPT ![w] = {r}]
          PROVE  Account!Reserve
      BY <2>1, <2>2, <2>4, FlushReserves DEF Mode, Status
    <2> QED BY <1>8, <2>3, <2>4 DEF Recheck
  <1>9. ASSUME NEW w \in Worker, Accepted(w) \/ Refused(w) PROVE Account!Settle
    BY <1>9, RecordSettles DEF Accepted, Refused, Status
  <1>10. ASSUME NEW w \in Worker, NoAnswer(w)
         PROVE  Account!Settle \/ UNCHANGED <<ledger, Held, today>>
    BY <1>10, RecordSettles, AccountStutters DEF NoAnswer, Status
  <1> QED
    BY <1>1, <1>2, <1>3, <1>4, <1>5, <1>6, <1>7, <1>8, <1>9, <1>10
       DEF Next, Progress, Account!Next

\* The order path, for any number of cycles and whatever is lost, retried,
\* rolled back or screened twice, behaves as one account.
THEOREM PathIsAnAccount == Spec => ImplementsAccount
  <1>1. Init => Account!Init
    BY DEF Init, Account!Init
  <1> QED BY <1>1, AccountNext, SpecShape, SpecCaps, PTL
          DEF Spec, ImplementsAccount, Account!Spec
-----------------------------------------------------------------------------
(***************************************************************************)
(* Without lost answers the exchange and the ledger agree.                 *)
(***************************************************************************)
\* A row under the id of an order the exchange has says so.
Agreed == \A x \in exchange, r \in AllRows : r.id = x.id => r.status = "live"

\* An order on its way has an id no committed row has.
NewToLedger == \A w \in Worker : pc[w] = "post" =>
    \A r \in pending[w], l \in ledger : l.id # r.id

AgreeInv == NewToLedger /\ ("no_answer" \notin Faults => Agreed)

\* Fewer rows, and the same orders: still agreed.
LEMMA AgreedKept ==
    ASSUME Agreed, exchange' = exchange, AllRows' \subseteq AllRows
    PROVE  Agreed'
  BY DEF Agreed

LEMMA NewToLedgerNext == Shape /\ NewToLedger /\ [Next]_vars => NewToLedger'
  <1> SUFFICES ASSUME Shape, NewToLedger, [Next]_vars PROVE NewToLedger'
    OBVIOUS
  <1> USE DEF NewToLedger
  \* A step of w that commits nothing and sends nothing new.
  <1>1. ASSUME NEW w \in Worker, UNCHANGED ledger, pc'[w] # "post",
               \A v \in Worker : v # w => pc'[v] = pc[v] /\ pending'[v] = pending[v]
        PROVE  NewToLedger'
    BY <1>1
  <1>2. CASE Switch \/ NextDay \/ UNCHANGED vars
    BY <1>2 DEF Switch, NextDay, vars
  <1>3. ASSUME NEW w \in Worker, StartCycle(w) \/ EndCycle(w) \/ Screen(w) \/ OpenTx(w)
                                 \/ \E t \in Token : StartToken(w, t)
        PROVE  NewToLedger'
    BY <1>1, <1>3 DEF StartCycle, EndCycle, Screen, OpenTx, StartToken, Goto, Shape, TypeOK
  <1>4. ASSUME NEW w \in Worker, GlobalSwitches(w) \/ Preflight(w) \/ SizeOrder(w)
                                 \/ simulate_buy(w)
        PROVE  NewToLedger'
    BY <1>1, <1>4 DEF GlobalSwitches, Preflight, SizeOrder, simulate_buy, Proceed, Goto, Shape, TypeOK
  <1>5. ASSUME NEW w \in Worker, Abort(w) \/ LockTimeout(w) PROVE NewToLedger'
    BY <1>1, <1>5 DEF Abort, LockTimeout, Leave, Goto, Shape, TypeOK
  \* The one that commits is the only one in a transaction.
  <1>6. ASSUME NEW w \in Worker, Commit(w) PROVE NewToLedger'
    <2>1. \A v \in Worker : v # w => pc[v] \notin TxSteps
      BY <1>6, Alone DEF Commit
    <2> QED BY <1>6, <2>1 DEF Commit, Leave, Goto, Shape, TypeOK
  <1>7. ASSUME NEW w \in Worker, Recheck(w) PROVE NewToLedger'
    <2>1. \A r \in NewRow(w, "LIVE", "created") : \A l \in ledger : l.id # r.id
      BY DEF NewRow, FreshIds, UsedIds, AllRows
    <2>2. CASE Goto(w, "commit") /\ UNCHANGED pending
      BY <1>1, <1>7, <2>2 DEF Recheck, Goto, Shape, TypeOK
    <2>3. ASSUME NEW r \in NewRow(w, "LIVE", "created"), Goto(w, "post"),
                 pending' = [pending EXCEPT ![w] = {r}]
          PROVE  NewToLedger'
      BY <1>7, <2>1, <2>3 DEF Recheck, Goto, Shape, TypeOK
    <2> QED BY <1>7, <2>2, <2>3 DEF Recheck
  <1>8. ASSUME NEW w \in Worker, NEW s, Record(w, s) PROVE NewToLedger'
    BY <1>1, <1>8 DEF Record, Goto, Shape, TypeOK
  <1>9. ASSUME NEW w \in Worker, Accepted(w) \/ Refused(w) \/ NoAnswer(w) PROVE NewToLedger'
    BY <1>8, <1>9 DEF Accepted, Refused, NoAnswer
  <1> QED
    BY <1>2, <1>3, <1>4, <1>5, <1>6, <1>7, <1>9 DEF Next, Progress

LEMMA AgreedNext ==
    "no_answer" \notin Faults /\ Shape /\ NewToLedger /\ Agreed /\ [Next]_vars => Agreed'
  <1> SUFFICES ASSUME "no_answer" \notin Faults, Shape, NewToLedger, Agreed, [Next]_vars
               PROVE  Agreed'
    OBVIOUS
  <1>1. ASSUME UNCHANGED <<pending, ledger, exchange>> PROVE Agreed'
    BY <1>1, AgreedKept DEF AllRows
  <1>2. ASSUME NEW w \in Worker, NEW step, Leave(w, step), ledger' \subseteq ledger \cup pending[w]
        PROVE  Agreed'
    BY <1>2, AgreedKept DEF Leave, AllRows, Shape, TypeOK
  \* A new row has an id the exchange has not seen.
  <1>3. ASSUME NEW w \in Worker, NEW m, NEW s, NEW r \in NewRow(w, m, s),
               pending' = [pending EXCEPT ![w] = {r}], UNCHANGED <<ledger, exchange>>
        PROVE  Agreed'
    <2>1. \A x \in exchange : x.id # r.id
      BY <1>3 DEF NewRow, FreshIds, UsedIds
    <2>2. \A q \in AllRows' : q \in AllRows \/ q = r
      BY <1>3 DEF AllRows, Shape, TypeOK
    <2> QED BY <1>3, <2>1, <2>2 DEF Agreed
  \* The outcome of the order that is on its way.
  <1>4. ASSUME NEW w \in Worker, pc[w] = "post", NEW s \in Status, Record(w, s),
               \/ s = "live" /\ exchange' = exchange \cup pending[w]
               \/ exchange' = exchange
        PROVE  Agreed'
    <2>1. PICK r \in Row : pending[w] = {r} /\ r.status = "created"
      BY <1>4 DEF Shape, PendingShape
    <2> DEFINE q == [r EXCEPT !.status = s]
    <2>2. q.id = r.id /\ q.status = s
      BY <2>1 DEF Row
    <2>3. \A v \in Worker : v # w => pending[v] = {}
      BY <1>4, Alone
    <2>4. pending' = [pending EXCEPT ![w] = {q}] /\ UNCHANGED ledger
      BY <1>4, <2>1 DEF Record, Shape, TypeOK
    <2>5. AllRows' = ledger \cup {q} /\ r \in AllRows /\ ledger \subseteq AllRows
      BY <2>1, <2>3, <2>4 DEF AllRows, Shape, TypeOK
    <2>6. \A x \in exchange : x.id # r.id
      BY <2>1, <2>5 DEF Agreed
    <2>7. \A l \in ledger : l.id # r.id
      BY <1>4, <2>1 DEF NewToLedger
    <2> HIDE DEF q
    <2> QED BY <1>4, <2>1, <2>2, <2>5, <2>6, <2>7 DEF Agreed
  <1>5. CASE Switch \/ NextDay \/ UNCHANGED vars
    BY <1>1, <1>5 DEF Switch, NextDay, vars
  <1>6. ASSUME NEW w \in Worker, StartCycle(w) \/ EndCycle(w) \/ Screen(w) \/ OpenTx(w)
                                 \/ \E t \in Token : StartToken(w, t)
        PROVE  Agreed'
    BY <1>1, <1>6 DEF StartCycle, EndCycle, Screen, OpenTx, StartToken
  <1>7. ASSUME NEW w \in Worker, GlobalSwitches(w) \/ Preflight(w) \/ SizeOrder(w)
        PROVE  Agreed'
    BY <1>1, <1>7 DEF GlobalSwitches, Preflight, SizeOrder, Proceed
  <1>8. ASSUME NEW w \in Worker, Abort(w) \/ LockTimeout(w) \/ Commit(w) PROVE Agreed'
    BY <1>2, <1>8 DEF Abort, LockTimeout, Commit
  <1>9. ASSUME NEW w \in Worker, simulate_buy(w) PROVE Agreed'
    BY <1>1, <1>3, <1>9 DEF simulate_buy
  <1>10. ASSUME NEW w \in Worker, Recheck(w) PROVE Agreed'
    BY <1>1, <1>3, <1>10 DEF Recheck
  <1>11. ASSUME NEW w \in Worker, Accepted(w) PROVE Agreed'
    BY <1>4, <1>11 DEF Accepted, Status
  <1>12. ASSUME NEW w \in Worker, Refused(w) PROVE Agreed'
    BY <1>4, <1>12 DEF Refused, Status
  <1> QED
    BY <1>5, <1>6, <1>7, <1>8, <1>9, <1>10, <1>11, <1>12 DEF Next, Progress, NoAnswer

\* If no answer is lost, for any number of cycles, rollbacks and failing reads the
\* exchange has nothing that a committed row disowns.  The hypothesis is needed: with
\* a lost answer the row of live.py:149 disowns an order that was taken.
THEOREM NothingDisowned ==
    ASSUME "no_answer" \notin Faults
    PROVE  Spec => []DisownedNothing
  <1>1. Init => AgreeInv
    BY DEF Init, AgreeInv, NewToLedger, Agreed
  <1>2. Shape /\ AgreeInv /\ [Next]_vars => AgreeInv'
    BY NewToLedgerNext, AgreedNext DEF AgreeInv
  <1>3. AgreeInv => DisownedNothing
    BY DEF AgreeInv, Agreed, AllRows, DisownedNothing
  <1> QED BY <1>1, <1>2, <1>3, SpecShape, PTL DEF Spec
-----------------------------------------------------------------------------
(***************************************************************************)
(* What two of the four violated claims are true of: each fails for one    *)
(* kind of fault, and for no other.                                        *)
(***************************************************************************)
\* Who is sending has seen the stored switches clear, and they stay clear,
\* since whoever would engage one needs the write lock.
StoredClear == \A w \in Worker : pc[w] = "post" => switches \cap Stored = {}

LEMMA StoredClearNext ==
    ASSUME "unreadable" \notin Faults, Shape, StoredClear, [Next]_vars
    PROVE  StoredClear'
  <1> USE DEF StoredClear
  \* A worker that goes to any other step, while no signal is raised.
  <1>1. ASSUME NEW w \in Worker, NEW step \in Steps \ {"post"}, Goto(w, step), UNCHANGED switches
        PROVE  StoredClear'
    BY <1>1 DEF Goto, Shape, TypeOK
  <1>2. ASSUME Writing = {}, NEW w \in Worker, NEW step \in Steps \ {"post"},
               Goto(w, step) \/ UNCHANGED pc
        PROVE  StoredClear'
    BY <1>2 DEF Writing, Goto, Shape, TypeOK
  <1>3. CASE Switch
    <2>1. UNCHANGED pc
      BY <1>3 DEF Switch
    <2>2. CASE TouchFile \/ RemoveFile \/ SafeModeExpires
      BY <2>1, <2>2 DEF TouchFile, RemoveFile, SafeModeExpires, Raise, Lower, Stored
    <2>3. CASE engage \/ release
      BY <2>1, <2>3 DEF engage, release, Writing
    <2> QED BY <1>3, <2>2, <2>3 DEF Switch
  <1>4. CASE NextDay \/ UNCHANGED vars
    BY <1>4 DEF NextDay, vars
  <1>5. ASSUME NEW w \in Worker, StartCycle(w) PROVE StoredClear'
    BY <1>1, <1>2, <1>5 DEF StartCycle, evaluate_safe_mode
  <1>6. ASSUME NEW w \in Worker, EndCycle(w) \/ Screen(w) \/ OpenTx(w) \/ simulate_buy(w)
                                 \/ \E t \in Token : StartToken(w, t)
        PROVE  StoredClear'
    BY <1>1, <1>6 DEF EndCycle, Screen, OpenTx, simulate_buy, StartToken
  <1>7. ASSUME NEW w \in Worker, GlobalSwitches(w) \/ Preflight(w) \/ SizeOrder(w)
        PROVE  StoredClear'
    BY <1>1, <1>7 DEF GlobalSwitches, Preflight, SizeOrder, Proceed
  <1>8. ASSUME NEW w \in Worker, Abort(w) \/ LockTimeout(w) \/ Commit(w) PROVE StoredClear'
    BY <1>1, <1>8 DEF Abort, LockTimeout, Commit, Leave
  <1>9. ASSUME NEW w \in Worker, Recheck(w) PROVE StoredClear'
    <2>1. switches = {} \/ Goto(w, "commit")
      BY <1>9 DEF Recheck, Unreadable, Halted
    <2>2. UNCHANGED switches
      BY <1>9 DEF Recheck
    <2> QED BY <1>1, <2>1, <2>2
  <1>10. ASSUME NEW w \in Worker, Accepted(w) \/ Refused(w) \/ NoAnswer(w) PROVE StoredClear'
    BY <1>1, <1>10 DEF Accepted, Refused, NoAnswer, Record
  <1> QED
    BY <1>3, <1>4, <1>5, <1>6, <1>7, <1>8, <1>9, <1>10 DEF Next, Progress

\* The failed read is the whole of it: where every read of the switches
\* answers, no order is ever on its way while the stored kill switch is
\* engaged, however the operator, the cycles and their deaths interleave
\* (killswitch.py:3, against killswitch.py:38).
THEOREM FailsClosedWhenRead ==
    ASSUME "unreadable" \notin Faults
    PROVE  Spec => []FailsClosed
  <1>1. Init => StoredClear
    BY DEF Init, StoredClear
  <1>2. StoredClear => FailsClosed
    BY DEF StoredClear, FailsClosed, Stored
  <1>3. Shape /\ StoredClear /\ [Next]_vars => StoredClear'
    BY StoredClearNext
  <1> QED BY <1>1, <1>2, <1>3, SpecShape, PTL DEF Spec
-----------------------------------------------------------------------------
(***************************************************************************)
(* One order per id.  An order, as it was sent, is what its row was before *)
(* the outcome was written.                                                *)
(***************************************************************************)
Sent(r) == [r EXCEPT !.status = "created"]
Orders(rows) == exchange \cup {Sent(r) : r \in rows}

UniqueOrders == \A x, y \in Orders(AllRows) : x.id = y.id => x = y
UniqueRows == \A r, s \in AllRows : r.id = s.id => r = s
OneOrderPerId == UniqueOrders /\ UniqueRows

\* Nothing that was not there already.
LEMMA UniqueKept ==
    ASSUME OneOrderPerId, AllRows' \subseteq AllRows, exchange' \subseteq Orders(AllRows)
    PROVE  OneOrderPerId'
  <1>1. Orders(AllRows)' \subseteq Orders(AllRows)
    BY DEF Orders
  <1> QED BY <1>1 DEF OneOrderPerId, UniqueOrders, UniqueRows

\* One more row, under an id nobody had.
LEMMA UniqueGrows ==
    ASSUME Shape, OneOrderPerId, NEW w \in Worker, token[w] \in Token, NEW m \in Mode,
           NEW s \in Status, NEW r \in NewRow(w, m, s),
           pending' = [pending EXCEPT ![w] = {r}], UNCHANGED <<ledger, exchange>>
    PROVE  OneOrderPerId'
  <1>1. r \in Row /\ r.id \notin UsedIds
    BY NewRowTyped DEF NewRow, FreshIds
  <1>2. \A q \in AllRows' : q \in AllRows \/ q = r
    BY DEF AllRows, Shape, TypeOK
  <1>3. \A q \in AllRows \cup exchange : q.id # r.id
    BY <1>1 DEF UsedIds
  <1>4. \A q \in AllRows \cup {r} : q \in Row /\ Sent(q).id = q.id
    <2>1. AllRows \subseteq Row
      BY DEF AllRows, Shape, TypeOK
    <2> QED BY <1>1, <2>1 DEF Sent, Row
  <1>5. \A x \in Orders(AllRows) : x.id # r.id
    BY <1>3, <1>4 DEF Orders
  <1>6. \A x \in Orders(AllRows)' : x \in Orders(AllRows) \/ x = Sent(r)
    BY <1>2 DEF Orders
  <1>7. Sent(r).id = r.id
    BY <1>4
  <1>8. UniqueOrders'
    BY <1>5, <1>6, <1>7 DEF OneOrderPerId, UniqueOrders
  <1>9. UniqueRows'
    BY <1>2, <1>3 DEF OneOrderPerId, UniqueRows
  <1> QED BY <1>8, <1>9 DEF OneOrderPerId

\* The outcome changes a row and not the order it stands for.
LEMMA UniqueRecorded ==
    ASSUME Shape, NewToLedger, OneOrderPerId, NEW w \in Worker, pc[w] = "post",
           NEW s \in Status, Record(w, s), exchange' \subseteq exchange \cup pending[w]
    PROVE  OneOrderPerId'
  <1>1. PICK r \in Row : pending[w] = {r} /\ r.status = "created"
    BY DEF Shape, PendingShape
  <1> DEFINE q == [r EXCEPT !.status = s]
  <1>2. q.id = r.id /\ Sent(q) = r /\ Sent(r) = r
    BY <1>1 DEF Row, Sent
  <1>3. pending' = [pending EXCEPT ![w] = {q}] /\ UNCHANGED ledger
    BY <1>1 DEF Record, Shape, TypeOK
  <1>4. \A v \in Worker : v # w => pending[v] = {}
    BY Alone
  <1>5. AllRows' = ledger \cup {q} /\ AllRows = ledger \cup {r}
    BY <1>1, <1>3, <1>4 DEF AllRows, Shape, TypeOK
  <1> HIDE DEF q
  <1>6. Orders(AllRows)' \subseteq Orders(AllRows)
    BY <1>1, <1>2, <1>5 DEF Orders
  <1>7. \A l \in ledger : l.id # q.id
    BY <1>1, <1>2 DEF NewToLedger
  <1>8. UniqueRows'
    BY <1>5, <1>7 DEF OneOrderPerId, UniqueRows
  <1> QED BY <1>6, <1>8 DEF OneOrderPerId, UniqueOrders

LEMMA OneOrderNext == Shape /\ NewToLedger /\ OneOrderPerId /\ [Next]_vars => OneOrderPerId'
  <1> SUFFICES ASSUME Shape, NewToLedger, OneOrderPerId, [Next]_vars PROVE OneOrderPerId'
    OBVIOUS
  <1>1. ASSUME UNCHANGED <<pending, ledger, exchange>> PROVE OneOrderPerId'
    BY <1>1, UniqueKept DEF AllRows, Orders
  <1>2. ASSUME NEW w \in Worker, NEW step, Leave(w, step), ledger' \subseteq ledger \cup pending[w]
        PROVE  OneOrderPerId'
    BY <1>2, UniqueKept DEF Leave, AllRows, Orders, Shape, TypeOK
  <1>3. CASE Switch \/ NextDay \/ UNCHANGED vars
    BY <1>1, <1>3 DEF Switch, NextDay, vars
  <1>4. ASSUME NEW w \in Worker, StartCycle(w) \/ EndCycle(w) \/ Screen(w) \/ OpenTx(w)
                                 \/ \E t \in Token : StartToken(w, t)
        PROVE  OneOrderPerId'
    BY <1>1, <1>4 DEF StartCycle, EndCycle, Screen, OpenTx, StartToken
  <1>5. ASSUME NEW w \in Worker, GlobalSwitches(w) \/ Preflight(w) \/ SizeOrder(w)
        PROVE  OneOrderPerId'
    BY <1>1, <1>5 DEF GlobalSwitches, Preflight, SizeOrder, Proceed
  <1>6. ASSUME NEW w \in Worker, Abort(w) \/ LockTimeout(w) \/ Commit(w) PROVE OneOrderPerId'
    BY <1>2, <1>6 DEF Abort, LockTimeout, Commit
  <1>7. ASSUME NEW w \in Worker, simulate_buy(w) PROVE OneOrderPerId'
    BY <1>1, <1>7, UniqueGrows DEF simulate_buy, Mode, Status, Shape, TokenShape
  <1>8. ASSUME NEW w \in Worker, Recheck(w) PROVE OneOrderPerId'
    BY <1>1, <1>8, UniqueGrows DEF Recheck, Mode, Status, Shape, TokenShape
  <1>9. ASSUME NEW w \in Worker, Accepted(w) \/ Refused(w) PROVE OneOrderPerId'
    BY <1>9, UniqueRecorded DEF Accepted, Refused, Status
  <1>10. ASSUME NEW w \in Worker, NoAnswer(w) PROVE OneOrderPerId'
    <2>1. pc[w] = "post" /\ exchange' \subseteq exchange \cup pending[w]
      BY <1>10 DEF NoAnswer
    <2>2. CASE Record(w, "rejected")
      BY <2>1, <2>2, UniqueRecorded DEF Status
    <2>3. CASE UNCHANGED <<pending, ledger>>
      <3>1. PICK r \in Row : pending[w] = {r} /\ r.status = "created"
        BY <2>1 DEF Shape, PendingShape
      <3>2. Sent(r) = r /\ r \in AllRows
        BY <3>1 DEF Row, Sent, AllRows
      <3>3. exchange' \subseteq Orders(AllRows)
        BY <2>1, <3>1, <3>2 DEF Orders
      <3> QED BY <2>3, <3>3, UniqueKept DEF AllRows
    <2> QED BY <1>10, <2>2, <2>3 DEF NoAnswer
  <1> QED
    BY <1>3, <1>4, <1>5, <1>6, <1>7, <1>8, <1>9, <1>10 DEF Next, Progress

\* Whatever is repeated, lost or rolled back, an id names one order: the
\* exchange and the ledger never know two different ones under it, and no two
\* rows share it (live.py:123-158).
THEOREM IdsNameOneOrder == Spec => []OneOrderPerId
  <1>1. Init => NewToLedger /\ OneOrderPerId
    BY DEF Init, NewToLedger, OneOrderPerId, UniqueOrders, UniqueRows, Orders, AllRows
  <1> QED BY <1>1, NewToLedgerNext, OneOrderNext, SpecShape, PTL DEF Spec
-----------------------------------------------------------------------------
(***************************************************************************)
(* Without rollbacks the ledger has every order the exchange has; without  *)
(* lost answers too, the caps bind the exchange itself.                    *)
(***************************************************************************)
OnRecord == \A x \in exchange : \E r \in AllRows : Sent(r) = x

\* Rows that were there are there, but for their status.
LEMMA OnRecordKept ==
    ASSUME OnRecord, NEW S, exchange' \subseteq exchange \cup S,
           \A r \in AllRows : \E q \in AllRows' : Sent(q) = Sent(r),
           \A x \in S : \E q \in AllRows' : Sent(q) = x
    PROVE  OnRecord'
  BY DEF OnRecord

LEMMA OnRecordNext ==
    ASSUME "abort" \notin Faults, Shape, OnRecord, [Next]_vars
    PROVE  OnRecord'
  \* A step that flushes, commits and sends nothing, or only flushes or commits.
  <1>1. ASSUME AllRows \subseteq AllRows', UNCHANGED exchange PROVE OnRecord'
    BY <1>1 DEF OnRecord
  <1>2. ASSUME UNCHANGED <<pending, ledger, exchange>> PROVE OnRecord'
    BY <1>1, <1>2 DEF AllRows
  <1>3. ASSUME NEW w \in Worker, pending[w] = {}, NEW S, pending' = [pending EXCEPT ![w] = S],
               UNCHANGED <<ledger, exchange>>
        PROVE  OnRecord'
    BY <1>1, <1>3 DEF AllRows, Shape, TypeOK
  <1>4. ASSUME NEW w \in Worker, pc[w] = "post", NEW s \in Status,
               Record(w, s) \/ UNCHANGED <<pending, ledger>>,
               exchange' \subseteq exchange \cup pending[w]
        PROVE  OnRecord'
    <2>1. PICK r \in Row : pending[w] = {r} /\ r.status = "created"
      BY <1>4 DEF Shape, PendingShape
    <2>2. AllRows = ledger \cup {r} /\ \A v \in Worker : v # w => pending[v] = {}
      BY <1>4, <2>1, Alone
    <2> DEFINE q == [r EXCEPT !.status = s]
    <2>3. Sent(q) = r /\ Sent(r) = r
      BY <2>1 DEF Row, Sent
    <2>4. CASE UNCHANGED <<pending, ledger>>
      <3>1. AllRows' = ledger \cup {r}
        BY <2>2, <2>4 DEF AllRows
      <3> QED BY <1>4, <2>1, <2>2, <2>3, <3>1, OnRecordKept
    <2>5. CASE Record(w, s)
      <3>1. pending' = [pending EXCEPT ![w] = {q}] /\ UNCHANGED ledger
        BY <2>1, <2>5 DEF Record, Shape, TypeOK
      <3>2. AllRows' = ledger \cup {q}
        BY <2>2, <3>1 DEF AllRows, Shape, TypeOK
      <3> HIDE DEF q
      <3> QED BY <1>4, <2>1, <2>2, <2>3, <3>2, OnRecordKept
    <2> QED BY <1>4, <2>4, <2>5
  <1>5. CASE Switch \/ NextDay \/ UNCHANGED vars
    BY <1>2, <1>5 DEF Switch, NextDay, vars
  <1>6. ASSUME NEW w \in Worker, StartCycle(w) \/ EndCycle(w) \/ Screen(w) \/ OpenTx(w)
                                 \/ \E t \in Token : StartToken(w, t)
        PROVE  OnRecord'
    BY <1>2, <1>6 DEF StartCycle, EndCycle, Screen, OpenTx, StartToken
  <1>7. ASSUME NEW w \in Worker, GlobalSwitches(w) \/ Preflight(w) \/ SizeOrder(w)
        PROVE  OnRecord'
    BY <1>2, <1>7 DEF GlobalSwitches, Preflight, SizeOrder, Proceed
  \* Giving up at the lock, nothing has been flushed yet.
  <1>8. ASSUME NEW w \in Worker, LockTimeout(w) PROVE OnRecord'
    BY <1>3, <1>8 DEF LockTimeout, Leave, Shape, PendingShape
  <1>9. ASSUME NEW w \in Worker, Commit(w) PROVE OnRecord'
    <2>1. AllRows' = AllRows
      <3>1. AllRows = ledger \cup pending[w] /\ \A v \in Worker : v # w => pending[v] = {}
        BY <1>9, Alone DEF Commit
      <3> QED BY <1>9, <3>1 DEF Commit, Leave, AllRows, Shape, TypeOK
    <2> QED BY <1>1, <1>9, <2>1 DEF Commit, Leave
  <1>10. ASSUME NEW w \in Worker, simulate_buy(w) PROVE OnRecord'
    BY <1>2, <1>3, <1>10 DEF simulate_buy, Shape, PendingShape
  <1>11. ASSUME NEW w \in Worker, Recheck(w) PROVE OnRecord'
    BY <1>2, <1>3, <1>11 DEF Recheck, Shape, PendingShape
  <1>12. ASSUME NEW w \in Worker, Accepted(w) \/ Refused(w) \/ NoAnswer(w) PROVE OnRecord'
    BY <1>4, <1>12 DEF Accepted, Refused, NoAnswer, Status
  <1> QED
    BY <1>5, <1>6, <1>7, <1>8, <1>9, <1>10, <1>11, <1>12 DEF Next, Progress, Abort

LEMMA SpecOnRecord ==
    ASSUME "abort" \notin Faults
    PROVE  Spec => []OnRecord
  <1>1. Init => OnRecord
    BY DEF Init, OnRecord
  <1>2. Shape /\ OnRecord /\ [Next]_vars => OnRecord'
    BY OnRecordNext
  <1> QED BY <1>1, <1>2, SpecShape, PTL DEF Spec

\* The rollback is the whole of it: as long as no transaction is rolled back,
\* every order the exchange has taken has its row, though answers are lost and
\* reads fail (live.py:139).
THEOREM IntentDurableUnlessRolledBack ==
    ASSUME "abort" \notin Faults
    PROVE  Spec => []IntentIsDurable
  <1>1. Shape /\ OnRecord => IntentIsDurable
    <2> SUFFICES ASSUME Shape, OnRecord, NEW x \in exchange
                 PROVE  \E r \in AllRows : r.id = x.id
      BY DEF IntentIsDurable
    <2>1. PICK r \in AllRows : Sent(r) = x
      BY DEF OnRecord
    <2>2. r \in Row
      BY DEF AllRows, Shape, TypeOK
    <2> QED BY <2>1, <2>2 DEF Sent, Row
  <1> QED BY <1>1, SpecOnRecord, SpecShape, PTL

\* The exchange's orders, as positions.
Taken == {[x EXCEPT !.status = "live"] : x \in exchange}

\* With neither rollbacks nor lost answers the caps hold of the money itself:
\* what the exchange took, however the cycles overlapped, is within the
\* per-token, daily, position and order-count caps (order_safety.py,
\* portfolio.py).  Each hypothesis is needed: see crash_mid_flight, and the
\* rejection recorded when no answer comes (live.py:149).
THEOREM ExchangeWithinCaps ==
    ASSUME "abort" \notin Faults, "no_answer" \notin Faults
    PROVE  Spec => []WithinCaps(Taken)
  <1>1. Shape /\ OnRecord /\ Agreed => Taken \subseteq AllRows
    <2> SUFFICES ASSUME Shape, OnRecord, Agreed, NEW x \in exchange
                 PROVE  [x EXCEPT !.status = "live"] \in AllRows
      BY DEF Taken
    <2>1. PICK r \in AllRows : Sent(r) = x
      BY DEF OnRecord
    <2>2. r \in Row
      BY DEF AllRows, Shape, TypeOK
    <2>3. r.id = x.id
      BY <2>1, <2>2 DEF Sent, Row
    <2>4. r.status = "live"
      BY <2>3 DEF Agreed
    <2>5. [x EXCEPT !.status = "live"] = r
      BY <2>1, <2>2, <2>4 DEF Sent, Row
    <2> QED BY <2>5
  <1>2. Shape /\ CapsInv /\ Taken \subseteq AllRows => WithinCaps(Taken)
    BY BookIsFinite, CapsOfFewer DEF CapsInv, BookWithinCaps
  <1>3. Init => AgreeInv
    BY DEF Init, AgreeInv, NewToLedger, Agreed
  <1>4. Shape /\ AgreeInv /\ [Next]_vars => AgreeInv'
    BY NewToLedgerNext, AgreedNext DEF AgreeInv
  <1>5. AgreeInv => Agreed
    BY DEF AgreeInv
  <1> QED BY <1>1, <1>2, <1>3, <1>4, <1>5, SpecOnRecord, SpecCaps, SpecShape, PTL DEF Spec
-----------------------------------------------------------------------------
(***************************************************************************)
(* Why a screening ends: what is left of it only ever shrinks.             *)
(***************************************************************************)
\* The steps a worker still has before it.
Left(w) ==
    CASE pc[w] = "collect" -> MaxAttempts + 7
      [] pc[w] = "screened" -> MaxAttempts + 6
      [] pc[w] = "decided" -> MaxAttempts + 5
      [] pc[w] = "preflight" -> MaxAttempts + 4
      [] pc[w] = "sizing" -> MaxAttempts + 3
      [] pc[w] = "recheck" -> MaxAttempts + 2
      [] pc[w] = "post" -> tries[w] + 1
      [] pc[w] = "commit" -> 1
      [] OTHER -> 0

\* Between tokens a worker has none, and one that sends has an attempt left.
Busy == \A w \in Worker :
    /\ token[w] # NoToken => pc[w] \notin {"idle", "cycle"}
    /\ pc[w] = "post" => tries[w] >= 1

LEMMA BusyNext == Shape /\ Busy /\ [Next]_vars => Busy'
  <1> SUFFICES ASSUME Shape, Busy, [Next]_vars PROVE Busy'
    OBVIOUS
  <1> USE LimitAssumption DEF Busy, Goto
  <1>1. CASE Switch \/ NextDay \/ UNCHANGED vars
    BY <1>1 DEF Switch, NextDay, vars
  <1>2. ASSUME NEW w \in Worker, StartCycle(w) \/ EndCycle(w) PROVE Busy'
    BY <1>2 DEF StartCycle, EndCycle, Shape, TypeOK
  <1>3. ASSUME NEW w \in Worker, Screen(w) \/ OpenTx(w) \/ simulate_buy(w)
                                 \/ \E t \in Token : StartToken(w, t)
        PROVE  Busy'
    BY <1>3 DEF Screen, OpenTx, simulate_buy, StartToken, Shape, TypeOK
  <1>4. ASSUME NEW w \in Worker, GlobalSwitches(w) \/ Preflight(w) \/ SizeOrder(w)
        PROVE  Busy'
    BY <1>4 DEF GlobalSwitches, Preflight, SizeOrder, Proceed, Shape, TypeOK
  <1>5. ASSUME NEW w \in Worker, Abort(w) \/ LockTimeout(w) \/ Commit(w) PROVE Busy'
    BY <1>5 DEF Abort, LockTimeout, Commit, Leave, Shape, TypeOK
  <1>6. ASSUME NEW w \in Worker, Recheck(w) PROVE Busy'
    BY <1>6 DEF Recheck, Shape, TypeOK
  <1>7. ASSUME NEW w \in Worker, Accepted(w) \/ Refused(w) PROVE Busy'
    BY <1>7 DEF Accepted, Refused, Record, Shape, TypeOK
  <1>8. ASSUME NEW w \in Worker, NoAnswer(w) PROVE Busy'
    BY <1>8 DEF NoAnswer, Record, Shape, TypeOK
  <1> QED
    BY <1>1, <1>2, <1>3, <1>4, <1>5, <1>6, <1>7, <1>8 DEF Next, Progress

\* A step of the worker's own leaves less to do.
LEMMA ProgressShrinks ==
    ASSUME Shape, Busy, NEW w \in Worker, Progress(w)
    PROVE  Left(w) \in Nat /\ Left(w)' \in Nat /\ Left(w)' < Left(w)
  <1> USE LimitAssumption DEF Left, Goto
  <1>1. pc[w] \in Steps /\ tries[w] \in 0..MaxAttempts
    BY DEF Shape, TypeOK
  <1>2. CASE Screen(w) \/ OpenTx(w) \/ LockTimeout(w) \/ Commit(w)
    BY <1>2 DEF Screen, OpenTx, LockTimeout, Commit, Leave, Shape, TypeOK
  <1>3. CASE simulate_buy(w)
    BY <1>3 DEF simulate_buy, Shape, TypeOK
  <1>4. CASE GlobalSwitches(w) \/ Preflight(w) \/ SizeOrder(w)
    BY <1>4 DEF GlobalSwitches, Preflight, SizeOrder, Proceed, Shape, TypeOK
  <1>5. CASE Recheck(w)
    BY <1>5 DEF Recheck, Shape, TypeOK
  <1>6. CASE Accepted(w) \/ Refused(w)
    BY <1>1, <1>6 DEF Accepted, Refused, Record, Busy, Shape, TypeOK
  <1>7. CASE NoAnswer(w)
    BY <1>1, <1>7 DEF NoAnswer, Record, Busy, Shape, TypeOK
  <1> QED BY <1>2, <1>3, <1>4, <1>5, <1>6, <1>7 DEF Progress

\* And no other step leaves more.
LEMMA OthersKeep ==
    ASSUME Shape, Busy, NEW w \in Worker, token[w] # NoToken, [Next]_vars, ~Progress(w)
    PROVE  Left(w)' = Left(w) \/ Left(w)' = 0
  <1> USE DEF Left, Goto
  \* Another worker's step moves neither this one nor its attempts.
  <1>1. ASSUME UNCHANGED <<pc[w], tries[w]>> PROVE Left(w)' = Left(w)
    BY <1>1
  <1>2. CASE Switch \/ NextDay \/ UNCHANGED vars
    BY <1>1, <1>2 DEF Switch, NextDay, vars
  <1>3. ASSUME NEW v \in Worker, v # w, NEW step, pc' = [pc EXCEPT ![v] = step],
               tries' = tries \/ \E n : tries' = [tries EXCEPT ![v] = n]
        PROVE  Left(w)' = Left(w)
    BY <1>1, <1>3 DEF Shape, TypeOK
  <1>4. ASSUME NEW v \in Worker, StartCycle(v) \/ EndCycle(v) \/ \E t \in Token : StartToken(v, t)
        PROVE  Left(w)' = Left(w)
    BY <1>3, <1>4 DEF StartCycle, EndCycle, StartToken, Busy
  <1>5. ASSUME NEW v \in Worker, v # w, Abort(v) \/ LockTimeout(v) \/ Commit(v)
        PROVE  Left(w)' = Left(w)
    BY <1>3, <1>5 DEF Abort, LockTimeout, Commit, Leave
  <1>6. CASE Abort(w)
    BY <1>6 DEF Abort, Leave, Shape, TypeOK
  <1>7. ASSUME NEW v \in Worker, v # w,
               Screen(v) \/ OpenTx(v) \/ simulate_buy(v) \/ Recheck(v)
        PROVE  Left(w)' = Left(w)
    BY <1>3, <1>7 DEF Screen, OpenTx, simulate_buy, Recheck
  <1>8. ASSUME NEW v \in Worker, v # w, GlobalSwitches(v) \/ Preflight(v) \/ SizeOrder(v)
        PROVE  Left(w)' = Left(w)
    BY <1>3, <1>8 DEF GlobalSwitches, Preflight, SizeOrder, Proceed
  <1>9. ASSUME NEW v \in Worker, v # w, Accepted(v) \/ Refused(v) PROVE Left(w)' = Left(w)
    BY <1>3, <1>9 DEF Accepted, Refused, Record
  <1>10. ASSUME NEW v \in Worker, v # w, NoAnswer(v) PROVE Left(w)' = Left(w)
    <2>1. CASE Record(v, "rejected")
      BY <1>3, <1>10, <2>1 DEF Record
    <2>2. CASE ~Record(v, "rejected")
      BY <1>1, <1>10, <2>2 DEF NoAnswer, Shape, TypeOK
    <2> QED BY <2>1, <2>2
  <1> QED
    BY <1>2, <1>4, <1>5, <1>6, <1>7, <1>8, <1>9, <1>10 DEF Next, Progress

\* A step leaves every screening that is under way nearer to its end, or where
\* it was; a step of its own worker leaves it nearer.
NeverFurther == \A w \in Worker : token[w] # NoToken =>
    /\ Left(w) \in Nat /\ Left(w) > 0
    /\ Left(w)' \in 0..Left(w)
    /\ Progress(w) => Left(w)' < Left(w)

\* What makes every screening end, for any number of cycles and attempts: each
\* step of the worker's own brings it nearer to the end and nothing anyone else
\* does, the lock, a retry or a midnight included, takes it further away
\* (ingest.py:598, base.py:143, a bounded number of attempts).
THEOREM ScreeningShrinks == Spec => [][NeverFurther]_vars
  <1>1. Init => Busy
    BY DEF Init, Busy
  <1>2. ASSUME Shape, Busy, [Next]_vars, NEW w \in Worker, token[w] # NoToken
        PROVE  /\ Left(w) \in Nat /\ Left(w) > 0
               /\ Left(w)' \in 0..Left(w)
               /\ Progress(w) => Left(w)' < Left(w)
    <2>1. pc[w] \in Steps \ {"idle", "cycle"} /\ tries[w] \in 0..MaxAttempts
      BY <1>2 DEF Shape, TypeOK, Busy
    <2>2. Left(w) \in Nat /\ Left(w) > 0
      BY <1>2, <2>1, LimitAssumption DEF Left, Busy
    <2>3. CASE Progress(w)
      <3>1. Left(w)' \in Nat /\ Left(w)' < Left(w)
        BY <1>2, <2>3, ProgressShrinks
      <3> HIDE DEF Left
      <3> QED BY <2>2, <3>1
    <2>4. CASE ~Progress(w)
      <3>1. Left(w)' = Left(w) \/ Left(w)' = 0
        BY <1>2, <2>4, OthersKeep
      <3> HIDE DEF Left
      <3> QED BY <2>2, <2>4, <3>1
    <2> QED BY <2>3, <2>4, <2>2
  <1>3. Shape /\ Busy /\ [Next]_vars => NeverFurther
    BY <1>2 DEF NeverFurther
  <1> QED BY <1>1, <1>3, BusyNext, SpecShape, PTL DEF Spec
=============================================================================
