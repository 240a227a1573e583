----------------------------- MODULE TokenDirectory -----------------------------
(***************************************************************************)
(* Which contracts a cycle screens and under which row of the token table, *)
(* when several cycles discover and store tokens and the operator types    *)
(* addresses in: discover_tokens, the deployment date and upsert_token of  *)
(* process_token, and the three forms that add a token.                    *)
(*                                                                         *)
(* An address is a contract in a spelling: the chain's addresses have no   *)
(* case, the column of the table has.                                      *)
(***************************************************************************)
EXTENDS NodeReads

CONSTANTS
    Spelling,   \* ways to write an address
    Limit,      \* MAX_TOKENS_PER_CYCLE
    Listing,    \* addresses as the hot list may write them
    Typing      \* addresses that the operator may type

Address == [contract : Contract, spelling : Spelling]

ASSUME TokenDirectoryAssumption ==
    /\ "lower" \in Spelling /\ IsFiniteSet(Spelling) /\ Limit \in Nat \ {0}
    /\ Listing \subseteq Address /\ Typing \subseteq Address

VARIABLES
    pc,         \* where each cycle is
    hot,        \* the addresses the hot list gave it
    refs,       \* the addresses it has still to screen
    cur,        \* the address it is screening, {} or one
    date,       \* the deployment block it has found for it, {} or one
    seen,       \* did its SELECT find the row
    row,        \* the token table: addresses
    deployed,   \* per address: the deployment block that is stored, {} or one
    typed       \* the addresses the operator has added

local == <<pc, hot, refs, cur, date, seen>>
table == <<row, deployed, typed>>
vars == <<reads, local, table>>

At(k, s) == [contract |-> k, spelling |-> s]
lower(a) == At(a.contract, "lower")

Steps == {"idle", "scan", "next", "dig", "write"}

Goto(r, step) == pc' = [pc EXCEPT ![r] = step]

Init ==
    /\ ReadsInit
    /\ pc = [r \in Reader |-> "idle"]
    /\ hot = [r \in Reader |-> {}]
    /\ refs = [r \in Reader |-> {}]
    /\ cur = [r \in Reader |-> {}]
    /\ date = [r \in Reader |-> {}]
    /\ seen = [r \in Reader |-> FALSE]
    /\ row = {}
    /\ deployed = [a \in Address |-> {}]
    /\ typed = {}

-----------------------------------------------------------------------------
(***************************************************************************)
(* Discovery.                                                              *)
(***************************************************************************)
\* Variant with a bug: the hot list's addresses are kept as they are written.
hot_tokens_raw(items) == items

\* What is kept of the hot list's items: their addresses in lower case.
hot_tokens(items) == {lower(a) : a \in items}

\* The hot list is read, or fails and is empty, and the scan of mint logs begins, unless
\* its block_number fails.
Discover(r, items) ==
    /\ pc[r] = "idle"
    /\ Goto(r, "scan")
    /\ Cardinality(items) <= Limit
    /\ hot' = [hot EXCEPT ![r] = hot_tokens(items)]
    /\ BeginScan(r) \/ UNCHANGED reads
    /\ UNCHANGED <<refs, cur, date, seen, table>>

Page(r) ==
    /\ pc[r] = "scan"
    /\ ReadPage(r)
    /\ UNCHANGED <<local, table>>

\* What the scan gave.
minted(r) == UNION {{At(k, "lower") : k \in s.found} : s \in scan[r]}

\* The lists `unique` may be: one address per contract, of the first source that has it,
\* cut at the limit in the order of the sources.  The order inside a source, and which
\* rows the database returns when there are more than the limit, are left open.
Contracts(S) == {a.contract : a \in S}

\* Variant with a bug: the same contract in another spelling counts as another one.
unique_spelled(h, m, t) ==
    LET offered == h \cup m \cup t
    IN  {u \in SUBSET offered : Cardinality(u) = Lesser(Limit, Cardinality(offered))}

unique(h, m, t) ==
    LET offered == h \cup m \cup t
        Rank(k) == IF k \in Contracts(h) THEN 1 ELSE IF k \in Contracts(m) THEN 2 ELSE 3
        Of(k) == CASE Rank(k) = 1 -> h [] Rank(k) = 2 -> m [] Rank(k) = 3 -> t
    IN  {u \in SUBSET offered :
            /\ \A a, b \in u : a.contract = b.contract => a = b
            /\ \A a \in u : a \in Of(a.contract)
            /\ Cardinality(u) = Lesser(Limit, Cardinality(Contracts(offered)))
            /\ \A a \in u, b \in offered : b.contract \notin Contracts(u) =>
                   Rank(a.contract) <= Rank(b.contract)}

\* The rows that the query of the tracked set may return.
Tracked == {t \in SUBSET row : Cardinality(t) = Lesser(Limit, Cardinality(row))}

\* The scan has read its last page, or there is none any more, and the list is made.
List(r) ==
    /\ pc[r] = "scan"
    /\ \A s \in scan[r] : Scanned(s)
    /\ Goto(r, "next")
    /\ \E t \in Tracked : \E u \in unique(hot[r], minted(r), t) : refs' = [refs EXCEPT ![r] = u]
    /\ hot' = [hot EXCEPT ![r] = {}]
    /\ EndScan(r)
    /\ UNCHANGED <<cur, date, seen, table>>

-----------------------------------------------------------------------------
(***************************************************************************)
(* process_token.                                                          *)
(***************************************************************************)
\* The next token of the list; its evidence asks for the head of the chain and for its
\* newest code, between which the chain may have grown.
Take(r) ==
    /\ pc[r] = "next"
    /\ Goto(r, "dig")
    /\ \E a \in refs[r] : /\ refs' = [refs EXCEPT ![r] = @ \ {a}]
                          /\ cur' = [cur EXCEPT ![r] = {a}]
                          /\ \E latest \in {head, head - 1} \cap Nat :
                                BeginDig(r, a.contract, latest)
    /\ UNCHANGED <<hot, date, seen, table>>

Dig_on(r) ==
    /\ pc[r] = "dig"
    /\ Probe(r)
    /\ UNCHANGED <<local, table>>

\* The search is over, or there is none; when the rest of the evidence is there,
\* upsert_token looks the row up by its exact address ...
Look(r) ==
    /\ pc[r] = "dig"
    /\ \A d \in dig[r] : Found(d)
    /\ Goto(r, "write")
    /\ date' = [date EXCEPT ![r] = {d.lo : d \in dig[r]}]
    /\ seen' = [seen EXCEPT ![r] = cur[r] \subseteq row]
    /\ EndDig(r)
    /\ UNCHANGED <<hot, refs, cur, table>>

Done(r) ==
    /\ Goto(r, "next")
    /\ cur' = [cur EXCEPT ![r] = {}]
    /\ date' = [date EXCEPT ![r] = {}]
    /\ seen' = [seen EXCEPT ![r] = FALSE]
    /\ UNCHANGED <<hot, refs>>

\* Variant with a bug: a date that could not be found again is forgotten.
Stored_anew(old, new) == new

\* A date that was found replaces the one that is stored.
Stored(old, new) == IF new = {} THEN old ELSE new

\* ... and the transaction commits: an update, or an insert unless another cycle or the
\* operator was first, in which case the unique constraint makes the token an ERROR.
Write(r) ==
    /\ pc[r] = "write"
    /\ Done(r)
    /\ \E a \in cur[r] :
          IF a \in row /\ ~seen[r]
          THEN UNCHANGED <<row, deployed>>
          ELSE /\ row' = row \cup {a}
               /\ deployed' = [deployed EXCEPT ![a] = Stored(@, date[r])]
    /\ UNCHANGED <<typed, reads>>

\* Anything else raises and the transaction rolls back: the token is an ERROR.
Fail(r) ==
    /\ pc[r] \in {"dig", "write"}
    /\ Done(r)
    /\ EndDig(r)
    /\ UNCHANGED table

\* A call to the node raises a ClientError: the cycle goes on without its answer.
Raise(r) ==
    /\ \/ pc[r] = "scan" /\ EndScan(r)
       \/ pc[r] = "dig" /\ EndDig(r)
    /\ UNCHANGED <<local, table>>

Leave(r) ==
    /\ Goto(r, "idle")
    /\ hot' = [hot EXCEPT ![r] = {}]
    /\ refs' = [refs EXCEPT ![r] = {}]
    /\ cur' = [cur EXCEPT ![r] = {}]
    /\ date' = [date EXCEPT ![r] = {}]
    /\ seen' = [seen EXCEPT ![r] = FALSE]
    /\ scan' = [scan EXCEPT ![r] = {}]
    /\ dig' = [dig EXCEPT ![r] = {}]
    /\ UNCHANGED <<head, table>>

\* The list is through.
Finish(r) == pc[r] = "next" /\ refs[r] = {} /\ Leave(r)

\* The process of the cycle dies; what it had committed stays.
Die(r) == pc[r] # "idle" /\ Leave(r)

\* Variant with a bug: the answer is given although nothing was saved.
Add_unsaved(a) ==
    /\ typed' = typed \cup {a}
    /\ UNCHANGED <<reads, local, row, deployed>>

\* The operator adds a token as typed: POST /tokens, the panel or one_click --token.
Add(a) ==
    /\ row' = row \cup {a}
    /\ typed' = typed \cup {a}
    /\ UNCHANGED <<reads, local, deployed>>

Onward(r) == Page(r) \/ List(r) \/ Take(r) \/ Dig_on(r) \/ Look(r) \/ Write(r) \/ Finish(r)

Next ==
    \/ Grow /\ UNCHANGED <<local, table>>
    \/ \E r \in Reader :
          \/ Onward(r)
          \/ Raise(r) \/ Fail(r) \/ Die(r)
          \/ \E items \in SUBSET Listing : Discover(r, items)
    \/ \E a \in Typing : Add(a)

Spec == Init /\ [][Next]_vars

\* A coroutine goes on when its call has returned, as every call does; no error is owed.
FairSpec == Spec /\ \A r \in Reader : WF_vars(Onward(r))

-----------------------------------------------------------------------------
TypeOK ==
    /\ head \in 0..LastBlock
    /\ scan \in [Reader -> SUBSET Scan]
    /\ dig \in [Reader -> SUBSET Dig]
    /\ pc \in [Reader -> Steps]
    /\ {hot, refs, cur} \subseteq [Reader -> SUBSET Address]
    /\ date \in [Reader -> SUBSET Nat]
    /\ seen \in [Reader -> BOOLEAN]
    /\ row \subseteq Address
    /\ deployed \in [Address -> SUBSET Nat]
    /\ typed \subseteq row

\* Of everything a cycle was offered no contract is listed twice, and unless the list is
\* full none is left out, be it only tracked; a contract that the operator typed in a
\* second spelling may take two of the rows that are read.  (discover_tokens)
ListIsFair ==
    [][\A r \in Reader : pc[r] = "scan" /\ pc'[r] = "next" =>
          LET listed == Contracts(refs'[r])
          IN  /\ Cardinality(listed) = Cardinality(refs'[r])
              /\ Cardinality(listed) <= Limit
              /\ \/ Cardinality(listed) = Limit
                 \/ Contracts(hot[r] \cup minted(r) \cup row) \subseteq listed
                 \/ Cardinality(Contracts(row)) < Cardinality(row)]_vars

\* A contract has two rows, and with them two histories and two caps, only when the
\* operator typed one of them; two cycles that store it at once make one.
\* (discover_tokens' lower(), upsert_token, uq_token_chain_address)
TwiceOnlyIfTyped ==
    \A a, b \in row : a # b /\ a.contract = b.contract => a \in typed \/ b \in typed

\* The stored deployment block is never lost to a cycle that could not read it, and is
\* never later than the deployment, so that no token looks younger than it is.
DatesHold ==
    [][\A a \in Address : /\ deployed[a] # {} => deployed'[a] # {}
                          /\ \A d \in deployed'[a] : d <= Birth[a.contract]]_vars

\* Every cycle ends by itself, however the chain grows and other cycles run: what is left
\* of a scan, of a search and of the list gets shorter.  (run_cycle)
CycleEnds == \A r \in Reader : []<>(pc[r] = "idle")
=================================================================================
