------------------------------- MODULE NodeReads -------------------------------
(***************************************************************************)
(* The two long reads of RobinhoodNodeClient, a call at a time, on a chain *)
(* that grows under them: the paged scan of mint logs and the binary       *)
(* search for the block a contract was deployed in.  Any call may raise a  *)
(* ClientError.  Code once deployed stays, and the node answers for every  *)
(* block up to its head.                                                   *)
(***************************************************************************)
EXTENDS Integers, FiniteSets

CONSTANTS
    Reader,         \* coroutines that read
    Contract,       \* contracts of the chain
    Birth,          \* the first block in which a contract has code
    Mints,          \* the mint logs: contract and block
    Chunk,          \* LOG_CHUNK_BLOCKS
    Lookback,       \* DISCOVERY_LOOKBACK_BLOCKS
    LastBlock       \* bound: the head of the chain stops here

\* An address is twenty bytes, so that there are finitely many.
ASSUME NodeReadsAssumption ==
    /\ IsFiniteSet(Contract)
    /\ Birth \in [Contract -> Nat]
    /\ Mints \subseteq [contract : Contract, block : Nat]
    /\ Chunk \in Nat \ {0} /\ Lookback \in Nat \ {0} /\ LastBlock \in Nat

VARIABLES
    head,   \* the newest block
    scan,   \* per reader: the scan it is in, {} or one record
    dig     \* per reader: the search it is in, {} or one record

reads == <<head, scan, dig>>

Lesser(a, b) == IF a < b THEN a ELSE b
Greater(a, b) == IF a < b THEN b ELSE a

\* A scan of the blocks from..to of which those from `start` on are still unread.
Scan == [from : Nat, to : Nat, start : Nat, found : SUBSET Contract]

\* A search of the blocks 0..latest: the first one with code is in lo..hi.
Dig == [contract : Contract, latest : Nat, lo : Nat, hi : Nat]

HasCode(k, block) == Birth[k] <= block

MintedIn(first, last) == {m.contract : m \in {x \in Mints : first <= x.block /\ x.block <= last}}

ReadsInit ==
    /\ head = 0
    /\ scan = [r \in Reader |-> {}]
    /\ dig = [r \in Reader |-> {}]

Grow ==
    /\ head < LastBlock
    /\ head' = head + 1
    /\ UNCHANGED <<scan, dig>>

-----------------------------------------------------------------------------
\* block_number, and the window that is scanned for it.
BeginScan(r) ==
    LET from == Greater(0, head - Lookback + 1)
    IN  /\ scan' = [scan EXCEPT ![r] = {[from |-> from, to |-> head, start |-> from, found |-> {}]}]
        /\ UNCHANGED <<head, dig>>

\* Variant with a bug: the block after a page is skipped.
NextPage_skipping(s) ==
    LET end == Lesser(s.start + Chunk - 1, s.to)
    IN  [s EXCEPT !.start = end + 2, !.found = @ \cup MintedIn(s.start, end)]

\* The scan after its next eth_getLogs.
NextPage(s) ==
    LET end == Lesser(s.start + Chunk - 1, s.to)
    IN  [s EXCEPT !.start = end + 1, !.found = @ \cup MintedIn(s.start, end)]

ReadPage(r) ==
    /\ \E s \in scan[r] : s.start <= s.to /\ scan' = [scan EXCEPT ![r] = {NextPage(s)}]
    /\ UNCHANGED <<head, dig>>

Scanned(s) == s.start > s.to

\* The scan is over; or one of its calls raised, and what it had found is lost.
EndScan(r) ==
    /\ scan' = [scan EXCEPT ![r] = {}]
    /\ UNCHANGED <<head, dig>>

-----------------------------------------------------------------------------
\* block_number and find_deploy_block's look at the newest code: `latest` is a head of
\* the chain that may have grown since.  No search without code, nor of block 0 alone.
BeginDig(r, k, latest) ==
    /\ latest <= head
    /\ dig' = [dig EXCEPT ![r] =
           IF latest > 0 /\ HasCode(k, head)
           THEN {[contract |-> k, latest |-> latest, lo |-> 0, hi |-> latest]}
           ELSE {}]
    /\ UNCHANGED <<head, scan>>

\* Variant with a bug: the half without code is kept with its middle.
NextProbe_stuck(d) ==
    LET mid == (d.lo + d.hi) \div 2
    IN  IF HasCode(d.contract, mid) THEN [d EXCEPT !.hi = mid] ELSE [d EXCEPT !.lo = mid]

\* Variant with a bug: the first half is left too early.
NextProbe_short(d) ==
    LET mid == (d.lo + d.hi) \div 2
    IN  IF HasCode(d.contract, mid) THEN [d EXCEPT !.hi = Greater(d.lo, mid - 1)]
                                    ELSE [d EXCEPT !.lo = mid + 1]

\* The search after its next eth_getCode.
NextProbe(d) ==
    LET mid == (d.lo + d.hi) \div 2
    IN  IF HasCode(d.contract, mid) THEN [d EXCEPT !.hi = mid] ELSE [d EXCEPT !.lo = mid + 1]

Probe(r) ==
    /\ \E d \in dig[r] : d.lo < d.hi /\ dig' = [dig EXCEPT ![r] = {NextProbe(d)}]
    /\ UNCHANGED <<head, scan>>

Found(d) == d.lo = d.hi

\* The search is over, or one of its calls raised.
EndDig(r) ==
    /\ dig' = [dig EXCEPT ![r] = {}]
    /\ UNCHANGED <<head, scan>>

-----------------------------------------------------------------------------
\* A scan that has read its last page holds exactly the contracts minted in its window:
\* no block between two pages is lost, none beyond the window is read, and what the chain
\* adds meanwhile does not count.  (discover_minted_contracts)
ScanIsExact ==
    \A r \in Reader : \A s \in scan[r] :
        Scanned(s) => /\ s.found = MintedIn(s.from, s.to)
                      /\ s.to - s.from < Lookback

\* A search ends at the block the contract was deployed in; only of a contract that
\* appeared after the head was read, it ends at that head.  (find_deploy_block)
SearchFinds ==
    \A r \in Reader : \A d \in dig[r] :
        Found(d) => d.lo = Lesser(Birth[d.contract], d.latest)
===============================================================================
