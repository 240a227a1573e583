----------------------------- MODULE BudgetLedger -----------------------------
(***************************************************************************)
(* What the order path promises, without cycles, locks, switches or an     *)
(* exchange: one account.  A clip is reserved only if the book can carry   *)
(* it whatever becomes of it, only one reservation is open at a time, a    *)
(* reservation changes nothing but its status until it is confirmed or     *)
(* released, and what is in the book stays there as it was written.        *)
(***************************************************************************)
EXTENDS Naturals

CONSTANTS
    Row,              \* what can be written
    Status,           \* what can become of a row
    WithinCaps(_)     \* the sets of rows the budget can carry

VARIABLES
    book,             \* rows that are confirmed
    held,             \* the open reservation, if any
    day

vars == <<book, held, day>>

Init == book = {} /\ held = {} /\ day = 0

Become(r, s) == [r EXCEPT !.status = s]

\* A clip for today under an id the book has not seen.
Reserve ==
    /\ held = {}
    /\ \E r \in held' :
        /\ held' = {r}
        /\ r \in Row /\ r.day = day
        /\ \A b \in book : b.id # r.id
        /\ \A s \in Status : WithinCaps(book \cup {Become(r, s)})
    /\ UNCHANGED <<book, day>>

Settle ==
    /\ \E r \in held, s \in Status : held' = {Become(r, s)}
    /\ UNCHANGED <<book, day>>

Confirm ==
    /\ book' = book \cup held
    /\ held' = {}
    /\ UNCHANGED day

Release ==
    /\ held' = {}
    /\ UNCHANGED <<book, day>>

NextDay ==
    /\ day' = day + 1
    /\ UNCHANGED <<book, held>>

Next == Reserve \/ Settle \/ Confirm \/ Release \/ NextDay

Spec == Init /\ [][Next]_vars
=============================================================================
