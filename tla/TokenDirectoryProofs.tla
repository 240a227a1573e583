-------------------------- MODULE TokenDirectoryProofs --------------------------
(***************************************************************************)
(* Proofs about TokenDirectory and the reads of NodeReads it is made of,   *)
(* for every chain, window, page and limit and any number of cycles.       *)
(***************************************************************************)
EXTENDS TokenDirectory, FiniteSetTheorems, TLAPS

-----------------------------------------------------------------------------
(***************************************************************************)
(* The two reads, a call at a time.                                        *)
(***************************************************************************)
\* A scan between two pages holds what was minted in the blocks it has read.
Reading(s) ==
    /\ s.to - s.from < Lookback
    /\ s.from <= s.start /\ s.start <= s.to + 1
    /\ s.found = MintedIn(s.from, s.start - 1)

\* The first block with code is among those a search has left.
Searching(d) ==
    /\ d.hi <= d.latest
    /\ d.lo <= Lesser(Birth[d.contract], d.latest)
    /\ Lesser(Birth[d.contract], d.latest) <= d.hi

\* Two windows that meet hold together what the joined window holds.
LEMMA WindowsMeet ==
    ASSUME NEW a \in Int, NEW b \in Int, NEW c \in Int, a <= b, b <= c + 1
    PROVE  MintedIn(a, b - 1) \cup MintedIn(b, c) = MintedIn(a, c)
  <1>1. \A x \in Mints : x.block \in Nat  BY NodeReadsAssumption DEF NodeReadsAssumption
  <1> QED  BY <1>1 DEF MintedIn

\* What is minted in a window are contracts.
LEMMA MintedAreContracts ==
    ASSUME NEW a \in Int, NEW b \in Int
    PROVE  MintedIn(a, b) \in SUBSET Contract
  BY NodeReadsAssumption DEF NodeReadsAssumption, MintedIn

\* The next page of a scan continues it without a gap.
LEMMA PageContinues ==
    ASSUME NEW s \in Scan, Reading(s), s.start <= s.to
    PROVE  NextPage(s) \in Scan /\ Reading(NextPage(s))
  <1> DEFINE end == Lesser(s.start + Chunk - 1, s.to)
             n == NextPage(s)
  <1>1. /\ s.from \in Nat /\ s.to \in Nat /\ s.start \in Nat /\ s.found \in SUBSET Contract
        /\ Chunk \in Nat \ {0} /\ Lookback \in Nat \ {0}
    BY NodeReadsAssumption DEF NodeReadsAssumption, Scan
  <1>2. end \in Nat /\ s.start <= end /\ end <= s.to  BY <1>1 DEF Lesser
  <1>3. n = [from |-> s.from, to |-> s.to, start |-> end + 1,
             found |-> s.found \cup MintedIn(s.start, end)]
    <2>1. s = [from |-> s.from, to |-> s.to, start |-> s.start, found |-> s.found]  BY DEF Scan
    <2>2. n = [s EXCEPT !.start = end + 1, !.found = s.found \cup MintedIn(s.start, end)]
      BY DEF NextPage
    <2> HIDE DEF n, end
    <2> QED  BY <2>1, <2>2
  <1>4. MintedIn(s.start, end) \in SUBSET Contract  BY <1>1, <1>2, MintedAreContracts
  <1>5. n \in Scan  BY <1>1, <1>2, <1>3, <1>4 DEF Scan
  <1>6. MintedIn(s.from, s.start - 1) \cup MintedIn(s.start, end) = MintedIn(s.from, end)
    BY <1>1, <1>2, WindowsMeet DEF Reading
  <1>7. n.found = MintedIn(n.from, n.start - 1)
    <2>1. n.found = MintedIn(s.from, end)  BY <1>3, <1>6 DEF Reading
    <2>2. n.from = s.from /\ n.start - 1 = end  BY <1>2, <1>3
    <2> QED  BY <2>1, <2>2
  <1>8. /\ n.to - n.from < Lookback
        /\ n.from <= n.start /\ n.start <= n.to + 1
    BY <1>1, <1>2, <1>3 DEF Reading
  <1> QED  BY <1>5, <1>7, <1>8 DEF Reading

\* A window that begins at the head less the lookback is no longer than the lookback.
LEMMA WindowFits ==
    ASSUME head \in Nat, NEW from, from = Greater(0, head - Lookback + 1)
    PROVE  LET s == [from |-> from, to |-> head, start |-> from, found |-> {}]
           IN  s \in Scan /\ Reading(s)
  <1> DEFINE s == [from |-> from, to |-> head, start |-> from, found |-> {}]
  <1>1. Lookback \in Nat \ {0}  BY NodeReadsAssumption DEF NodeReadsAssumption
  <1>2. from \in Nat /\ head - from < Lookback /\ from <= head + 1  BY <1>1 DEF Greater
  <1>3. s \in Scan  BY <1>2 DEF Scan
  <1>4. MintedIn(from, from - 1) = {}
    BY <1>2, NodeReadsAssumption DEF NodeReadsAssumption, MintedIn
  <1> QED  BY <1>2, <1>3, <1>4 DEF Reading

\* The middle of two blocks is before the later one.
LEMMA Middle ==
    ASSUME NEW a \in Nat, NEW b \in Nat, a < b
    PROVE  (a + b) \div 2 \in Nat /\ a <= (a + b) \div 2 /\ (a + b) \div 2 < b
  BY SMT

\* The next probe of a search keeps the first block with code among those that are left.
LEMMA ProbeContinues ==
    ASSUME NEW d \in Dig, Searching(d), d.lo < d.hi
    PROVE  NextProbe(d) \in Dig /\ Searching(NextProbe(d)) /\ NextProbe(d).contract = d.contract
  <1> DEFINE mid == (d.lo + d.hi) \div 2
  <1>1. /\ d.lo \in Nat /\ d.hi \in Nat /\ d.latest \in Nat /\ d.contract \in Contract
        /\ Birth[d.contract] \in Nat
    BY NodeReadsAssumption DEF NodeReadsAssumption, Dig
  <1>2. mid \in Nat /\ d.lo <= mid /\ mid < d.hi  BY <1>1, Middle
  <1> HIDE DEF mid
  <1>3. CASE HasCode(d.contract, mid)
    <2>1. NextProbe(d) = [d EXCEPT !.hi = mid]  BY <1>3 DEF NextProbe, mid
    <2>2. Birth[d.contract] <= mid  BY <1>3 DEF HasCode
    <2>3. NextProbe(d) \in Dig  BY <1>1, <1>2, <2>1 DEF Dig
    <2>4. /\ NextProbe(d).contract = d.contract /\ NextProbe(d).latest = d.latest
          /\ NextProbe(d).lo = d.lo /\ NextProbe(d).hi = mid
      BY <2>1 DEF Dig
    <2> QED  BY <1>1, <1>2, <2>2, <2>3, <2>4 DEF Searching, Lesser
  <1>4. CASE ~HasCode(d.contract, mid)
    <2>1. NextProbe(d) = [d EXCEPT !.lo = mid + 1]  BY <1>4 DEF NextProbe, mid
    <2>2. mid + 1 <= Birth[d.contract]  BY <1>1, <1>2, <1>4 DEF HasCode
    <2>3. NextProbe(d) \in Dig  BY <1>1, <1>2, <2>1 DEF Dig
    <2>4. /\ NextProbe(d).contract = d.contract /\ NextProbe(d).latest = d.latest
          /\ NextProbe(d).lo = mid + 1 /\ NextProbe(d).hi = d.hi
      BY <2>1 DEF Dig
    <2> QED  BY <1>1, <1>2, <2>2, <2>3, <2>4 DEF Searching, Lesser
  <1> QED  BY <1>3, <1>4
\* A search that begins where there is code has the first block with code before it.
LEMMA DigBegins ==
    ASSUME NEW k \in Contract, NEW latest \in Nat
    PROVE  LET d == [contract |-> k, latest |-> latest, lo |-> 0, hi |-> latest]
           IN  d \in Dig /\ Searching(d) /\ d.contract = k
  <1> DEFINE d == [contract |-> k, latest |-> latest, lo |-> 0, hi |-> latest]
  <1>1. Birth[k] \in Nat  BY NodeReadsAssumption DEF NodeReadsAssumption
  <1>2. d \in Dig  BY DEF Dig
  <1>3. d.contract = k /\ d.latest = latest /\ d.lo = 0 /\ d.hi = latest  OBVIOUS
  <1> HIDE DEF d
  <1>4. Searching(d)  BY <1>1, <1>3 DEF Searching, Lesser
  <1> QED  BY <1>2, <1>3, <1>4 DEF d

-----------------------------------------------------------------------------
(***************************************************************************)
(* What every step of a reader does to the reads.                          *)
(***************************************************************************)
ReadsType ==
    /\ head \in 0..LastBlock
    /\ scan \in [Reader -> SUBSET Scan]
    /\ dig \in [Reader -> SUBSET Dig]

ReadsInv ==
    /\ ReadsType
    /\ \A r \in Reader : \A s \in scan[r] : Reading(s)
    /\ \A r \in Reader : \A d \in dig[r] : Searching(d)

LEMMA ScanBegins ==
    ASSUME ReadsInv, NEW r \in Reader, BeginScan(r)
    PROVE  ReadsInv' /\ dig' = dig
  <1> DEFINE from == Greater(0, head - Lookback + 1)
             s == [from |-> from, to |-> head, start |-> from, found |-> {}]
  <1>1. head \in Nat  BY NodeReadsAssumption DEF NodeReadsAssumption, ReadsInv, ReadsType
  <1>2. s \in Scan /\ Reading(s)  BY <1>1, WindowFits
  <1>3. scan' = [scan EXCEPT ![r] = {s}] /\ head' = head /\ dig' = dig  BY DEF BeginScan
  <1> HIDE DEF s, from
  <1> QED  BY <1>2, <1>3 DEF ReadsInv, ReadsType, Reading, Searching

LEMMA ScanReads ==
    ASSUME ReadsInv, NEW r \in Reader, ReadPage(r)
    PROVE  ReadsInv' /\ dig' = dig
  <1>1. PICK s \in scan[r] : s.start <= s.to /\ scan' = [scan EXCEPT ![r] = {NextPage(s)}]
    BY DEF ReadPage
  <1>2. s \in Scan /\ Reading(s)  BY DEF ReadsInv, ReadsType
  <1>3. NextPage(s) \in Scan /\ Reading(NextPage(s))  BY <1>1, <1>2, PageContinues
  <1> QED  BY <1>1, <1>3 DEF ReadsInv, ReadsType, ReadPage, Reading, Searching

LEMMA ScanEnds ==
    ASSUME ReadsInv, NEW r \in Reader, EndScan(r)
    PROVE  ReadsInv' /\ dig' = dig
  BY DEF ReadsInv, ReadsType, EndScan, Reading, Searching

LEMMA SearchBegins ==
    ASSUME ReadsInv, NEW r \in Reader, NEW k \in Contract, NEW latest \in Nat,
           BeginDig(r, k, latest)
    PROVE  /\ ReadsInv'
           /\ \A d \in dig'[r] : d.contract = k
           /\ \A q \in Reader : q # r => dig'[q] = dig[q]
  <1> DEFINE d == [contract |-> k, latest |-> latest, lo |-> 0, hi |-> latest]
  <1>1. d \in Dig /\ Searching(d) /\ d.contract = k  BY DigBegins
  <1>2. /\ dig' = [dig EXCEPT ![r] = {d}] \/ dig' = [dig EXCEPT ![r] = {}]
        /\ head' = head /\ scan' = scan
    BY DEF BeginDig
  <1> HIDE DEF d
  <1> QED  BY <1>1, <1>2 DEF ReadsInv, ReadsType, Reading, Searching

LEMMA SearchProbes ==
    ASSUME ReadsInv, NEW r \in Reader, Probe(r)
    PROVE  /\ ReadsInv'
           /\ \A q \in Reader : \A d \in dig'[q] : \E e \in dig[q] : d.contract = e.contract
  <1>1. PICK d \in dig[r] : d.lo < d.hi /\ dig' = [dig EXCEPT ![r] = {NextProbe(d)}]
    BY DEF Probe
  <1>2. d \in Dig /\ Searching(d)  BY DEF ReadsInv, ReadsType
  <1>3. NextProbe(d) \in Dig /\ Searching(NextProbe(d)) /\ NextProbe(d).contract = d.contract
    BY <1>1, <1>2, ProbeContinues
  <1> QED  BY <1>1, <1>3 DEF ReadsInv, ReadsType, Probe, Reading, Searching

LEMMA SearchEnds ==
    ASSUME ReadsInv, NEW r \in Reader, EndDig(r)
    PROVE  ReadsInv' /\ \A q \in Reader : dig'[q] \subseteq dig[q]
  BY DEF ReadsInv, ReadsType, EndDig, Reading, Searching

-----------------------------------------------------------------------------
(***************************************************************************)
(* The directory.  Its type says only what its own variables are, so that  *)
(* each step is proved of the reads by the lemmas above.                   *)
(***************************************************************************)
OwnType ==
    /\ pc \in [Reader -> Steps]
    /\ hot \in [Reader -> SUBSET Address]
    /\ refs \in [Reader -> SUBSET Address]
    /\ cur \in [Reader -> SUBSET Address]
    /\ date \in [Reader -> SUBSET Nat]
    /\ seen \in [Reader -> BOOLEAN]
    /\ row \in SUBSET Address
    /\ deployed \in [Address -> SUBSET Nat]
    /\ typed \in SUBSET row

Plain(a) == a = lower(a)

\* What a cycle carries is in lower case or a row, and a row is in lower case or typed.
NamesInv ==
    /\ \A r \in Reader : \A a \in hot[r] : Plain(a)
    /\ \A r \in Reader : \A a \in refs[r] \cup cur[r] : Plain(a) \/ a \in row
    /\ \A a \in row : Plain(a) \/ a \in typed

\* A search is of the contract a cycle is at, and no date is later than its deployment.
DatesInv ==
    /\ \A r \in Reader : \A d \in dig[r], a \in cur[r] : d.contract = a.contract
    /\ \A r \in Reader : pc[r] # "write" => date[r] = {}
    /\ \A r \in Reader : \A a \in cur[r] : \A b \in date[r] : b <= Birth[a.contract]
    /\ \A a \in Address : \A b \in deployed[a] : b <= Birth[a.contract]

IInv == ReadsInv /\ OwnType /\ NamesInv /\ DatesInv

\* The type of TokenDirectory is that of its reads and its own variables.
LEMMA TypeParts == TypeOK <=> ReadsType /\ OwnType
  BY DEF TypeOK, ReadsType, OwnType

LEMMA LowerIsPlain ==
    ASSUME NEW a \in Address
    PROVE  lower(a) \in Address /\ Plain(lower(a))
  BY TokenDirectoryAssumption DEF TokenDirectoryAssumption, Address, lower, At, Plain

LEMMA MintedArePlain ==
    ASSUME ReadsInv, NEW r \in Reader
    PROVE  minted(r) \in SUBSET Address /\ \A a \in minted(r) : Plain(a)
  <1>1. \A s \in scan[r] : s.found \in SUBSET Contract  BY DEF ReadsInv, ReadsType, Scan
  <1>2. \A k \in Contract : At(k, "lower") \in Address /\ Plain(At(k, "lower"))
    BY TokenDirectoryAssumption DEF TokenDirectoryAssumption, Address, At, Plain, lower
  <1> QED  BY <1>1, <1>2 DEF minted

LEMMA Initially == Init => IInv
  <1> SUFFICES ASSUME Init PROVE IInv  OBVIOUS
  <1>1. ReadsInv
    BY NodeReadsAssumption DEF NodeReadsAssumption, Init, ReadsInit, ReadsInv, ReadsType
  <1>2. OwnType  BY DEF Init, OwnType, Steps
  <1>3. NamesInv  BY DEF Init, NamesInv
  <1>4. DatesInv  BY DEF Init, ReadsInit, DatesInv
  <1> QED  BY <1>1, <1>2, <1>3, <1>4 DEF IInv

LEMMA DiscoverStep ==
    ASSUME IInv, NEW r \in Reader, NEW items \in SUBSET Listing, Discover(r, items)
    PROVE  IInv'
  <1> USE DEF IInv
  <1>1. ReadsInv' /\ dig' = dig
    <2>1. CASE BeginScan(r)  BY <2>1, ScanBegins
    <2>2. CASE UNCHANGED reads
      BY <2>2 DEF reads, ReadsInv, ReadsType, Reading, Searching
    <2> QED  BY <2>1, <2>2 DEF Discover
  <1>2. hot_tokens(items) \in SUBSET Address /\ \A a \in hot_tokens(items) : Plain(a)
    BY LowerIsPlain, TokenDirectoryAssumption DEF TokenDirectoryAssumption, hot_tokens
  <1>3. OwnType'  BY <1>2 DEF Discover, Goto, Steps, table, OwnType
  <1>4. NamesInv'  BY <1>2 DEF Discover, table, OwnType, NamesInv
  <1>5. DatesInv'  BY <1>1 DEF Discover, Goto, table, OwnType, DatesInv
  <1> QED  BY <1>1, <1>3, <1>4, <1>5

\* A step that leaves the directory and the searches alone.
LEMMA StillStep ==
    ASSUME OwnType, NamesInv, DatesInv, UNCHANGED <<local, table>>,
           \A q \in Reader : \A d \in dig'[q] : \E e \in dig[q] : d.contract = e.contract
    PROVE  OwnType' /\ NamesInv' /\ DatesInv'
  <1>1. OwnType'  BY DEF OwnType, local, table
  <1>2. NamesInv'  BY DEF NamesInv, local, table
  <1>3. DatesInv'  BY DEF DatesInv, local, table
  <1> QED  BY <1>1, <1>2, <1>3

LEMMA PageStep ==
    ASSUME IInv, NEW r \in Reader, Page(r)
    PROVE  IInv'
  <1>1. ReadsInv' /\ dig' = dig  BY ScanReads DEF IInv, Page
  <1> QED  BY <1>1, StillStep DEF IInv, Page

LEMMA ListStep ==
    ASSUME IInv, NEW r \in Reader, List(r)
    PROVE  IInv'
  <1> USE DEF IInv
  <1>1. ReadsInv' /\ dig' = dig  BY ScanEnds DEF List
  <1>2. PICK t \in Tracked : \E u \in unique(hot[r], minted(r), t) : refs' = [refs EXCEPT ![r] = u]
    BY DEF List
  <1>3. PICK u \in unique(hot[r], minted(r), t) : refs' = [refs EXCEPT ![r] = u]  BY <1>2
  <1>4. u \subseteq hot[r] \cup minted(r) \cup t /\ t \subseteq row
    BY <1>2, <1>3 DEF unique, Tracked
  <1>5. u \in SUBSET Address /\ \A a \in u : Plain(a) \/ a \in row
    BY <1>4, MintedArePlain DEF OwnType, NamesInv
  <1>6. OwnType'  BY <1>3, <1>5 DEF List, Goto, Steps, table, OwnType
  <1>7. NamesInv'  BY <1>3, <1>5 DEF List, table, OwnType, NamesInv
  <1>8. DatesInv'  BY <1>1 DEF List, Goto, table, OwnType, DatesInv
  <1> QED  BY <1>1, <1>6, <1>7, <1>8

LEMMA TakeStep ==
    ASSUME IInv, NEW r \in Reader, Take(r)
    PROVE  IInv'
  <1> USE DEF IInv
  <1>1. PICK a \in refs[r] : /\ refs' = [refs EXCEPT ![r] = @ \ {a}]
                             /\ cur' = [cur EXCEPT ![r] = {a}]
                             /\ \E latest \in {head, head - 1} \cap Nat :
                                   BeginDig(r, a.contract, latest)
    BY DEF Take
  <1>2. a \in Address /\ a.contract \in Contract  BY DEF OwnType, Address
  <1>3. PICK latest \in Nat : BeginDig(r, a.contract, latest)  BY <1>1
  <1>4. /\ ReadsInv'
        /\ \A d \in dig'[r] : d.contract = a.contract
        /\ \A q \in Reader : q # r => dig'[q] = dig[q]
    BY <1>2, <1>3, SearchBegins
  <1>5. OwnType'  BY <1>1, <1>2 DEF Take, Goto, Steps, table, OwnType
  <1>6. NamesInv'  BY <1>1, <1>2 DEF Take, table, OwnType, NamesInv
  <1>7. DatesInv'  BY <1>1, <1>2, <1>4 DEF Take, Goto, table, OwnType, DatesInv
  <1> QED  BY <1>4, <1>5, <1>6, <1>7

LEMMA DigStep ==
    ASSUME IInv, NEW r \in Reader, Dig_on(r)
    PROVE  IInv'
  <1>1. /\ ReadsInv'
        /\ \A q \in Reader : \A d \in dig'[q] : \E e \in dig[q] : d.contract = e.contract
    BY SearchProbes DEF IInv, Dig_on
  <1> QED  BY <1>1, StillStep DEF IInv, Dig_on

LEMMA RaiseStep ==
    ASSUME IInv, NEW r \in Reader, Raise(r)
    PROVE  IInv'
  <1>1. ReadsInv' /\ \A q \in Reader : dig'[q] \subseteq dig[q]
    BY ScanEnds, SearchEnds DEF IInv, Raise
  <1> QED  BY <1>1, StillStep DEF IInv, Raise

\* What a search ends with is not after the deployment.
LEMMA FoundIsBirth ==
    ASSUME ReadsInv, NEW r \in Reader, NEW d \in dig[r], Found(d)
    PROVE  d.lo \in Nat /\ d.lo = Lesser(Birth[d.contract], d.latest) /\ d.lo <= Birth[d.contract]
  <1>1. d \in Dig /\ Searching(d)  BY DEF ReadsInv, ReadsType
  <1>2. /\ d.lo \in Nat /\ d.hi \in Nat /\ d.latest \in Nat /\ Birth[d.contract] \in Nat
    BY <1>1, NodeReadsAssumption DEF NodeReadsAssumption, Dig
  <1> QED  BY <1>1, <1>2 DEF Searching, Found, Lesser

LEMMA LookStep ==
    ASSUME IInv, NEW r \in Reader, Look(r)
    PROVE  IInv'
  <1> USE DEF IInv
  <1> DEFINE b == {d.lo : d \in dig[r]}
  <1>1. ReadsInv' /\ \A q \in Reader : dig'[q] \subseteq dig[q]  BY SearchEnds DEF Look
  <1>2. \A d \in dig[r] : d.lo \in Nat /\ d.lo <= Birth[d.contract]  BY FoundIsBirth DEF Look
  <1>3. b \in SUBSET Nat /\ \A a \in cur[r] : \A x \in b : x <= Birth[a.contract]
    BY <1>2 DEF DatesInv
  <1>4. date' = [date EXCEPT ![r] = b]  BY DEF Look
  <1> HIDE DEF b
  <1>5. OwnType'  BY <1>3, <1>4 DEF Look, Goto, Steps, table, OwnType
  <1>6. NamesInv'  BY DEF Look, table, OwnType, NamesInv
  <1>7. DatesInv'  BY <1>1, <1>3, <1>4 DEF Look, Goto, table, OwnType, DatesInv
  <1> QED  BY <1>1, <1>5, <1>6, <1>7

LEMMA WriteStep ==
    ASSUME IInv, NEW r \in Reader, Write(r)
    PROVE  IInv' /\ \A a \in Address : deployed[a] # {} => deployed'[a] # {}
  <1> USE DEF IInv
  <1>1. ReadsInv' /\ dig' = dig
    BY DEF Write, reads, ReadsInv, ReadsType, Reading, Searching
  <1>2. PICK a \in cur[r] :
          \/ UNCHANGED <<row, deployed>>
          \/ /\ row' = row \cup {a}
             /\ deployed' = [deployed EXCEPT ![a] = Stored(@, date[r])]
    BY DEF Write
  <1>3. a \in Address  BY DEF OwnType
  <1>4. /\ Stored(deployed[a], date[r]) \in SUBSET Nat
        /\ \A x \in Stored(deployed[a], date[r]) : x <= Birth[a.contract]
        /\ deployed[a] # {} => Stored(deployed[a], date[r]) # {}
    BY <1>3 DEF Stored, OwnType, DatesInv
  <1> DEFINE new == Stored(deployed[a], date[r])
  <1>5. deployed' = deployed \/ deployed' = [deployed EXCEPT ![a] = new]  BY <1>2
  <1>6. row' = row \/ row' = row \cup {a}  BY <1>2
  <1>7. Plain(a) \/ a \in row  BY DEF NamesInv
  <1>8. new \in SUBSET Nat /\ (\A x \in new : x <= Birth[a.contract]) /\ (deployed[a] # {} => new # {})
    BY <1>4
  <1> HIDE DEF new
  <1>9. OwnType'
    BY <1>3, <1>5, <1>6, <1>8 DEF Write, Done, Goto, Steps, table, OwnType
  <1>10. NamesInv'  BY <1>6, <1>7 DEF Write, Done, table, OwnType, NamesInv
  <1>11. DatesInv'
    <2>1. cur' = [cur EXCEPT ![r] = {}] /\ date' = [date EXCEPT ![r] = {}]  BY DEF Write, Done
    <2>2. \A q \in Reader : \A d \in dig'[q], x \in cur'[q] : d.contract = x.contract
      BY <1>1, <2>1 DEF OwnType, DatesInv
    <2>3. \A q \in Reader : pc'[q] # "write" => date'[q] = {}
      BY <2>1 DEF Write, Done, Goto, OwnType, DatesInv
    <2>4. \A q \in Reader : \A x \in cur'[q] : \A y \in date'[q] : y <= Birth[x.contract]
      BY <2>1 DEF OwnType, DatesInv
    <2>5. \A x \in Address : \A y \in deployed'[x] : y <= Birth[x.contract]
      BY <1>3, <1>5, <1>8 DEF OwnType, DatesInv
    <2> QED  BY <2>2, <2>3, <2>4, <2>5 DEF DatesInv
  <1> QED  BY <1>1, <1>3, <1>5, <1>8, <1>9, <1>10, <1>11 DEF OwnType

LEMMA FailStep ==
    ASSUME IInv, NEW r \in Reader, Fail(r)
    PROVE  IInv'
  <1> USE DEF IInv
  <1>1. ReadsInv' /\ \A q \in Reader : dig'[q] \subseteq dig[q]  BY SearchEnds DEF Fail
  <1>2. OwnType'  BY DEF Fail, Done, Goto, Steps, table, OwnType
  <1>3. NamesInv'  BY DEF Fail, Done, table, OwnType, NamesInv
  <1>4. DatesInv'  BY <1>1 DEF Fail, Done, Goto, table, OwnType, DatesInv
  <1> QED  BY <1>1, <1>2, <1>3, <1>4

LEMMA LeaveStep ==
    ASSUME IInv, NEW r \in Reader, Leave(r)
    PROVE  IInv'
  <1> USE DEF IInv
  <1>1. ReadsInv'  BY DEF Leave, ReadsInv, ReadsType, Reading, Searching
  <1>2. OwnType'  BY DEF Leave, Goto, Steps, table, OwnType
  <1>3. NamesInv'  BY DEF Leave, table, OwnType, NamesInv
  <1>4. DatesInv'  BY DEF Leave, Goto, table, OwnType, DatesInv, ReadsInv, ReadsType
  <1> QED  BY <1>1, <1>2, <1>3, <1>4

LEMMA AddStep ==
    ASSUME IInv, NEW a \in Typing, Add(a)
    PROVE  IInv'
  <1> USE DEF IInv
  <1>1. ReadsInv'  BY DEF Add, reads, ReadsInv, ReadsType, Reading, Searching
  <1>2. a \in Address  BY TokenDirectoryAssumption DEF TokenDirectoryAssumption
  <1>3. OwnType'  BY <1>2 DEF Add, local, OwnType
  <1>4. NamesInv'  BY DEF Add, local, NamesInv
  <1>5. DatesInv'  BY DEF Add, local, reads, DatesInv
  <1> QED  BY <1>1, <1>3, <1>4, <1>5

LEMMA GrowStep ==
    ASSUME IInv, Grow, UNCHANGED <<local, table>>
    PROVE  IInv'
  <1>1. ReadsInv'
    BY NodeReadsAssumption
    DEF NodeReadsAssumption, IInv, Grow, ReadsInv, ReadsType, Reading, Searching
  <1> QED  BY <1>1, StillStep DEF IInv, Grow

LEMMA Invariance ==
    ASSUME IInv, [Next]_vars
    PROVE  IInv' /\ \A a \in Address : deployed[a] # {} => deployed'[a] # {}
  <1> DEFINE Kept == \A a \in Address : deployed[a] # {} => deployed'[a] # {}
  <1>1. CASE Grow /\ UNCHANGED <<local, table>>
    <2>1. Kept  BY <1>1 DEF table
    <2> QED  BY <1>1, <2>1, GrowStep
  <1>2. ASSUME NEW r \in Reader, Onward(r)
        PROVE  IInv' /\ Kept
    <2>1. CASE Write(r)  BY <2>1, WriteStep
    <2>2. CASE Page(r)  BY <2>2, PageStep DEF Page, table
    <2>3. CASE List(r)  BY <2>3, ListStep DEF List, table
    <2>4. CASE Take(r)  BY <2>4, TakeStep DEF Take, table
    <2>5. CASE Dig_on(r)  BY <2>5, DigStep DEF Dig_on, table
    <2>6. CASE Look(r)  BY <2>6, LookStep DEF Look, table
    <2>7. CASE Finish(r)  BY <2>7, LeaveStep DEF Finish, Leave, table
    <2> QED  BY <1>2, <2>1, <2>2, <2>3, <2>4, <2>5, <2>6, <2>7 DEF Onward
  <1>3. ASSUME NEW r \in Reader, Raise(r) \/ Fail(r) \/ Die(r)
        PROVE  IInv' /\ Kept
    <2>1. CASE Raise(r)  BY <2>1, RaiseStep DEF Raise, table
    <2>2. CASE Fail(r)  BY <2>2, FailStep DEF Fail, table
    <2>3. CASE Die(r)  BY <2>3, LeaveStep DEF Die, Leave, table
    <2> QED  BY <1>3, <2>1, <2>2, <2>3
  <1>4. ASSUME NEW r \in Reader, NEW items \in SUBSET Listing, Discover(r, items)
        PROVE  IInv' /\ Kept
    BY <1>4, DiscoverStep DEF Discover, table
  <1>5. ASSUME NEW a \in Typing, Add(a)
        PROVE  IInv' /\ Kept
    BY <1>5, AddStep DEF Add
  <1>6. CASE UNCHANGED vars
    <2>1. UNCHANGED <<head, scan, dig>> /\ UNCHANGED <<local, table>>  BY <1>6 DEF vars, reads
    <2>2. ReadsInv'  BY <2>1 DEF IInv, ReadsInv, ReadsType, Reading, Searching
    <2> QED  BY <2>1, <2>2, StillStep DEF IInv, table
  <1>7. Next => IInv' /\ Kept  BY <1>1, <1>2, <1>3, <1>4, <1>5 DEF Next
  <1> QED  BY <1>6, <1>7

LEMMA Always == Spec => []IInv
  <1>1. IInv /\ [Next]_vars => IInv'  BY Invariance
  <1> QED  BY Initially, <1>1, PTL DEF Spec

-----------------------------------------------------------------------------
(***************************************************************************)
(* The theorems.                                                           *)
(***************************************************************************)
\* Every variable has its type, and an address the operator added is a row.
THEOREM TypeCorrect == Spec => []TypeOK
  <1>1. IInv => TypeOK  BY TypeParts DEF IInv, ReadsInv
  <1> QED  BY Always, <1>1, PTL

\* A scan that has read its last page holds exactly what was minted in its window,
\* whatever page size and lookback and however the chain grows.
\* (discover_minted_contracts)
THEOREM ScansAreExact == Spec => []ScanIsExact
  <1>1. ASSUME IInv, NEW r \in Reader, NEW s \in scan[r], Scanned(s)
        PROVE  s.found = MintedIn(s.from, s.to) /\ s.to - s.from < Lookback
    <2>1. s \in Scan /\ Reading(s)  BY <1>1 DEF IInv, ReadsInv, ReadsType
    <2>2. s.to \in Nat /\ s.start \in Nat /\ s.start - 1 = s.to
      BY <1>1, <2>1 DEF Scan, Reading, Scanned
    <2> QED  BY <2>1, <2>2 DEF Reading
  <1>2. IInv => ScanIsExact  BY <1>1 DEF ScanIsExact
  <1> QED  BY Always, <1>2, PTL

\* The binary search ends at the block of the deployment, or at the head it was given when
\* the contract is younger than that.  (find_deploy_block)
THEOREM SearchesFind == Spec => []SearchFinds
  <1>1. IInv => SearchFinds  BY FoundIsBirth DEF IInv, SearchFinds
  <1> QED  BY Always, <1>1, PTL

\* However many cycles discover and store tokens at once, two rows of one contract mean
\* that the operator typed one of them.  (TokenRef, upsert_token, uq_token_chain_address)
THEOREM RowsAreUnique == Spec => []TwiceOnlyIfTyped
  <1>1. ASSUME IInv, NEW a \in row, NEW b \in row, a # b, a.contract = b.contract
        PROVE  a \in typed \/ b \in typed
    <2>1. Plain(a) /\ Plain(b) => a = b  BY <1>1 DEF Plain, lower, At
    <2> QED  BY <1>1, <2>1 DEF IInv, NamesInv
  <1>2. IInv => TwiceOnlyIfTyped  BY <1>1 DEF TwiceOnlyIfTyped
  <1> QED  BY Always, <1>2, PTL

\* No cycle, however late or blind, makes a token younger than it is or forgets its date.
\* (upsert_token)
THEOREM DatesAreKept == Spec => DatesHold
  <1>1. ASSUME IInv, IInv', \A a \in Address : deployed[a] # {} => deployed'[a] # {}
        PROVE  \A a \in Address : /\ deployed[a] # {} => deployed'[a] # {}
                                 /\ \A d \in deployed'[a] : d <= Birth[a.contract]
    BY <1>1 DEF IInv, DatesInv
  <1>2. IInv /\ [Next]_vars =>
          [\A a \in Address : /\ deployed[a] # {} => deployed'[a] # {}
                              /\ \A d \in deployed'[a] : d <= Birth[a.contract]]_vars
    BY <1>1, Invariance
  <1> QED  BY Always, <1>2, PTL DEF Spec, DatesHold

-----------------------------------------------------------------------------
(***************************************************************************)
(* The list of a cycle.                                                    *)
(***************************************************************************)
LEMMA AddressesFinite == ASSUME NEW S \in SUBSET Address PROVE IsFiniteSet(S)
  <1> DEFINE P == Contract \X Spelling
             f == [p \in P |-> At(p[1], p[2])]
  <1>1. IsFiniteSet(P)
    BY FS_Product, NodeReadsAssumption, TokenDirectoryAssumption
    DEF NodeReadsAssumption, TokenDirectoryAssumption
  <1>2. f \in Surjection(P, Address)
    <2>1. f \in [P -> Address]  BY DEF Address, At
    <2>2. ASSUME NEW a \in Address PROVE \E p \in P : f[p] = a
      <3>1. <<a.contract, a.spelling>> \in P  BY DEF Address
      <3>2. f[<<a.contract, a.spelling>>] = a  BY <3>1 DEF Address, At
      <3> QED  BY <3>1, <3>2
    <2> QED  BY <2>1, <2>2 DEF Surjection
  <1>3. IsFiniteSet(Address)  BY <1>1, <1>2, FS_Surjection
  <1> QED  BY <1>3, FS_Subset

\* As many contracts as addresses, unless two of the addresses are of one contract.
LEMMA ContractsCount ==
    ASSUME NEW S \in SUBSET Address
    PROVE  /\ IsFiniteSet(S) /\ IsFiniteSet(Contracts(S))
           /\ Cardinality(S) \in Nat /\ Cardinality(Contracts(S)) \in Nat
           /\ Cardinality(Contracts(S)) <= Cardinality(S)
           /\ Cardinality(Contracts(S)) = Cardinality(S)
                 <=> \A a, b \in S : a.contract = b.contract => a = b
  <1> DEFINE f == [a \in S |-> a.contract]
  <1>1. IsFiniteSet(S)  BY AddressesFinite
  <1>2. f \in Surjection(S, Contracts(S))  BY DEF Surjection, Contracts
  <1>3. /\ IsFiniteSet(Contracts(S))
        /\ Cardinality(Contracts(S)) <= Cardinality(S)
        /\ Cardinality(Contracts(S)) = Cardinality(S) <=> f \in Injection(S, Contracts(S))
    BY <1>1, <1>2, FS_Surjection
  <1>4. f \in Injection(S, Contracts(S)) <=> \A a, b \in S : a.contract = b.contract => a = b
    BY DEF Injection, IsInjective, Contracts
  <1>5. Cardinality(S) \in Nat /\ Cardinality(Contracts(S)) \in Nat
    BY <1>1, <1>3, FS_CardinalityType
  <1> QED  BY <1>1, <1>3, <1>4, <1>5

\* Of what discovery, the scan and the tracked rows offer, a list that is not full has all.
LEMMA ListHasAll ==
    ASSUME NEW h \in SUBSET Address, NEW m \in SUBSET Address, NEW t \in SUBSET Address,
           NEW u \in unique(h, m, t)
    PROVE  /\ Cardinality(Contracts(u)) = Cardinality(u) /\ Cardinality(u) <= Limit
           /\ \/ Cardinality(u) = Limit
              \/ /\ Contracts(h \cup m \cup t) \subseteq Contracts(u)
                 /\ Cardinality(Contracts(t)) < Limit
  <1> DEFINE o == h \cup m \cup t
  <1>1. Limit \in Nat  BY TokenDirectoryAssumption DEF TokenDirectoryAssumption
  <1>2. /\ u \subseteq o
        /\ \A a, b \in u : a.contract = b.contract => a = b
        /\ Cardinality(u) = Lesser(Limit, Cardinality(Contracts(o)))
    BY DEF unique
  <1>3. o \in SUBSET Address /\ u \in SUBSET Address /\ t \subseteq o  BY <1>2
  <1> HIDE DEF o
  <1>4. Cardinality(Contracts(u)) = Cardinality(u) /\ Cardinality(u) \in Nat
    BY <1>2, <1>3, ContractsCount
  <1>5. IsFiniteSet(Contracts(o)) /\ Cardinality(Contracts(o)) \in Nat  BY <1>3, ContractsCount
  <1>6. Cardinality(u) <= Limit  BY <1>1, <1>2, <1>5 DEF Lesser
  <1>7. CASE Cardinality(u) # Limit
    <2>1. /\ Cardinality(Contracts(u)) = Cardinality(Contracts(o))
          /\ Cardinality(Contracts(o)) < Limit
      BY <1>1, <1>2, <1>4, <1>5, <1>7 DEF Lesser
    <2>2. Contracts(u) \in SUBSET Contracts(o) /\ Contracts(t) \in SUBSET Contracts(o)
      BY <1>2, <1>3 DEF Contracts
    <2>3. Contracts(o) = Contracts(u)  BY <1>5, <2>1, <2>2, FS_Subset
    <2>4. Cardinality(Contracts(t)) <= Cardinality(Contracts(o))  BY <1>5, <2>2, FS_Subset
    <2>5. Cardinality(Contracts(t)) \in Nat  BY ContractsCount
    <2> QED  BY <1>1, <1>4, <1>5, <1>6, <2>1, <2>3, <2>4, <2>5 DEF o
  <1> QED  BY <1>4, <1>6, <1>7

\* The query reads every row, unless the table has more than the limit of them.
LEMMA TrackedHasAll ==
    ASSUME row \in SUBSET Address, NEW t \in Tracked, Cardinality(Contracts(t)) < Limit
    PROVE  t = row \/ Cardinality(Contracts(row)) < Cardinality(row)
  <1>1. Limit \in Nat  BY TokenDirectoryAssumption DEF TokenDirectoryAssumption
  <1>2. t \in SUBSET row /\ Cardinality(t) = Lesser(Limit, Cardinality(row))  BY DEF Tracked
  <1>3. t \in SUBSET Address  BY <1>2
  <1>4. /\ IsFiniteSet(row) /\ Cardinality(row) \in Nat /\ Cardinality(Contracts(row)) \in Nat
        /\ Cardinality(Contracts(row)) <= Cardinality(row)
    BY ContractsCount
  <1>5. CASE Cardinality(t) = Cardinality(row)  BY <1>2, <1>4, <1>5, FS_Subset
  <1>6. CASE Cardinality(t) = Limit
    <2>1. Cardinality(Contracts(t)) # Cardinality(t)  BY <1>1, <1>3, <1>6, ContractsCount
    <2>2. PICK a \in t, b \in t : a.contract = b.contract /\ a # b
      BY <1>3, <2>1, ContractsCount
    <2>3. Cardinality(Contracts(row)) # Cardinality(row)  BY <1>2, <2>2, ContractsCount
    <2> QED  BY <1>4, <2>3
  <1> QED  BY <1>2, <1>5, <1>6 DEF Lesser

\* Only the making of the list ends a scan.
LEMMA ListEndsScan ==
    ASSUME IInv, [Next]_vars, NEW r \in Reader, pc[r] = "scan", pc'[r] = "next"
    PROVE  List(r)
  <1>1. pc \in [Reader -> Steps]  BY DEF IInv, OwnType
  <1>2. ASSUME UNCHANGED pc PROVE FALSE  BY <1>2
  <1>3. ASSUME NEW q \in Reader, Onward(q) \/ Raise(q) \/ Fail(q) \/ Die(q),
               q # r \/ ~List(r)
        PROVE  FALSE
    <2>1. CASE Page(q) \/ Dig_on(q) \/ Raise(q)
      BY <1>2, <2>1 DEF Page, Dig_on, Raise, local
    <2>2. CASE List(q)  BY <1>1, <1>3, <2>2 DEF List, Goto
    <2>3. CASE Take(q)  BY <1>1, <2>3 DEF Take, Goto
    <2>4. CASE Look(q)  BY <1>1, <2>4 DEF Look, Goto
    <2>5. CASE Write(q)  BY <1>1, <2>5 DEF Write, Done, Goto
    <2>6. CASE Finish(q)  BY <1>1, <2>6 DEF Finish, Leave, Goto
    <2>7. CASE Fail(q)  BY <1>1, <2>7 DEF Fail, Done, Goto
    <2>8. CASE Die(q)  BY <1>1, <2>8 DEF Die, Leave, Goto
    <2> QED  BY <1>3, <2>1, <2>2, <2>3, <2>4, <2>5, <2>6, <2>7, <2>8 DEF Onward
  <1>4. ASSUME NEW q \in Reader, NEW items, Discover(q, items) PROVE FALSE
    BY <1>1, <1>4 DEF Discover, Goto
  <1>5. CASE Grow /\ UNCHANGED <<local, table>>  BY <1>2, <1>5 DEF local
  <1>6. ASSUME NEW a \in Typing, Add(a) PROVE FALSE  BY <1>2, <1>6 DEF Add, local
  <1>7. CASE UNCHANGED vars  BY <1>2, <1>7 DEF vars, local
  <1> QED  BY <1>3, <1>4, <1>5, <1>6, <1>7 DEF Next

\* For any limit, chain and table: no contract is on a cycle's list twice, and what was
\* offered is missing only from a full list, or because the operator's second spelling of
\* a contract took a row of the query.  (discover_tokens)
THEOREM ListsAreFair == Spec => ListIsFair
  <1>1. ASSUME IInv, [Next]_vars, NEW r \in Reader, pc[r] = "scan", pc'[r] = "next"
        PROVE  LET listed == Contracts(refs'[r])
               IN  /\ Cardinality(listed) = Cardinality(refs'[r])
                   /\ Cardinality(listed) <= Limit
                   /\ \/ Cardinality(listed) = Limit
                      \/ Contracts(hot[r] \cup minted(r) \cup row) \subseteq listed
                      \/ Cardinality(Contracts(row)) < Cardinality(row)
    <2>1. List(r)  BY <1>1, ListEndsScan
    <2>2. PICK t \in Tracked : \E u \in unique(hot[r], minted(r), t) : refs' = [refs EXCEPT ![r] = u]
      BY <2>1 DEF List
    <2>3. PICK u \in unique(hot[r], minted(r), t) : refs' = [refs EXCEPT ![r] = u]  BY <2>2
    <2>4. refs'[r] = u  BY <1>1, <2>3 DEF IInv, OwnType
    <2>5. row \in SUBSET Address /\ t \in SUBSET Address /\ hot[r] \in SUBSET Address
      BY <1>1 DEF IInv, OwnType, Tracked
    <2>6. minted(r) \in SUBSET Address  BY <1>1, MintedArePlain DEF IInv
    <2>7. /\ Cardinality(Contracts(u)) = Cardinality(u) /\ Cardinality(u) <= Limit
          /\ \/ Cardinality(u) = Limit
             \/ /\ Contracts(hot[r] \cup minted(r) \cup t) \subseteq Contracts(u)
                /\ Cardinality(Contracts(t)) < Limit
      <3> DEFINE h == hot[r]
                 m == minted(r)
      <3>1. h \in SUBSET Address /\ m \in SUBSET Address /\ u \in unique(h, m, t)
        BY <2>3, <2>5, <2>6
      <3> HIDE DEF h, m
      <3>2. /\ Cardinality(Contracts(u)) = Cardinality(u) /\ Cardinality(u) <= Limit
            /\ \/ Cardinality(u) = Limit
               \/ /\ Contracts(h \cup m \cup t) \subseteq Contracts(u)
                  /\ Cardinality(Contracts(t)) < Limit
        BY <2>5, <3>1, ListHasAll
      <3> QED  BY <3>2 DEF h, m
    <2>8. Cardinality(Contracts(t)) < Limit => t = row \/ Cardinality(Contracts(row)) < Cardinality(row)
      BY <2>5, TrackedHasAll
    <2> QED  BY <2>4, <2>7, <2>8
  <1>2. IInv /\ [Next]_vars =>
          [\A r \in Reader : pc[r] = "scan" /\ pc'[r] = "next" =>
              LET listed == Contracts(refs'[r])
              IN  /\ Cardinality(listed) = Cardinality(refs'[r])
                  /\ Cardinality(listed) <= Limit
                  /\ \/ Cardinality(listed) = Limit
                     \/ Contracts(hot[r] \cup minted(r) \cup row) \subseteq listed
                     \/ Cardinality(Contracts(row)) < Cardinality(row)]_vars
    BY <1>1
  <1> QED  BY Always, <1>2, PTL DEF Spec, ListIsFair


-----------------------------------------------------------------------------
(***************************************************************************)
(* What the reads cost, and why a cycle ends.                              *)
(***************************************************************************)
\* A reader is in one read at most, a scan while it discovers, a search while it collects.
Placed == \A r \in Reader :
    /\ scan[r] = {} \/ (pc[r] = "scan" /\ \E s \in Scan : scan[r] = {s})
    /\ dig[r] = {} \/ (pc[r] = "dig" /\ \E d \in Dig : dig[r] = {d})

\* Every step of a reader leaves the others where they are.
Apart(r) == \A q \in Reader \ {r} : UNCHANGED <<pc[q], refs[q], scan[q], dig[q]>>

LEMMA NextApart ==
    ASSUME IInv, Next
    PROVE  \/ \A q \in Reader : UNCHANGED <<pc[q], refs[q], scan[q], dig[q]>>
           \/ \E r \in Reader :
                 /\ Apart(r)
                 /\ \/ Onward(r) \/ Raise(r) \/ Fail(r) \/ Die(r)
                    \/ \E items \in SUBSET Listing : Discover(r, items)
  <1> USE DEF IInv, ReadsInv, ReadsType, OwnType, Apart
  <1>1. CASE (Grow /\ UNCHANGED <<local, table>>) \/ \E a \in Typing : Add(a)
    BY <1>1 DEF Grow, Add, local, reads
  <1>2. ASSUME NEW r \in Reader, Page(r) \/ Dig_on(r) PROVE Apart(r)
    BY <1>2 DEF Page, Dig_on, ReadPage, Probe, local
  <1>3. ASSUME NEW r \in Reader, List(r) PROVE Apart(r)
    BY <1>3 DEF List, EndScan, Goto
  <1>4. ASSUME NEW r \in Reader, Take(r) PROVE Apart(r)
    BY <1>4 DEF Take, BeginDig, Goto
  <1>5. ASSUME NEW r \in Reader, Look(r) PROVE Apart(r)
    BY <1>5 DEF Look, EndDig, Goto
  <1>6. ASSUME NEW r \in Reader, Write(r) \/ Fail(r) PROVE Apart(r)
    BY <1>6 DEF Write, Fail, Done, EndDig, Goto, reads
  <1>7. ASSUME NEW r \in Reader, Finish(r) \/ Die(r) PROVE Apart(r)
    BY <1>7 DEF Finish, Die, Leave, Goto
  <1>8. ASSUME NEW r \in Reader, Raise(r) PROVE Apart(r)
    BY <1>8 DEF Raise, EndScan, EndDig, local
  <1>9. ASSUME NEW r \in Reader, NEW items \in SUBSET Listing, Discover(r, items) PROVE Apart(r)
    BY <1>9 DEF Discover, BeginScan, Goto, reads
  <1> QED  BY <1>1, <1>2, <1>3, <1>4, <1>5, <1>6, <1>7, <1>8, <1>9 DEF Next, Onward

\* The reader that moves stays in one read at most.
LEMMA PlacedNext == IInv /\ Placed /\ [Next]_vars => Placed'
  <1> SUFFICES ASSUME IInv, Placed, [Next]_vars PROVE Placed'  OBVIOUS
  <1> DEFINE OK(r) == /\ scan[r] = {} \/ (pc[r] = "scan" /\ \E s \in Scan : scan[r] = {s})
                      /\ dig[r] = {} \/ (pc[r] = "dig" /\ \E d \in Dig : dig[r] = {d})
  <1> USE DEF IInv, ReadsInv, ReadsType, OwnType
  <1>1. ASSUME NEW r \in Reader, OK(r), Page(r) PROVE OK(r)'
    <2>1. PICK s \in scan[r] : s.start <= s.to /\ scan' = [scan EXCEPT ![r] = {NextPage(s)}]
      BY <1>1 DEF Page, ReadPage
    <2>2. NextPage(s) \in Scan  BY <2>1, PageContinues
    <2> QED  BY <1>1, <2>1, <2>2 DEF Page, ReadPage, local
  <1>2. ASSUME NEW r \in Reader, OK(r), Dig_on(r) PROVE OK(r)'
    <2>1. PICK d \in dig[r] : d.lo < d.hi /\ dig' = [dig EXCEPT ![r] = {NextProbe(d)}]
      BY <1>2 DEF Dig_on, Probe
    <2>2. NextProbe(d) \in Dig  BY <2>1, ProbeContinues
    <2> QED  BY <1>2, <2>1, <2>2 DEF Dig_on, Probe, local
  <1>3. ASSUME NEW r \in Reader, OK(r), Take(r) PROVE OK(r)'
    <2>1. PICK a \in refs[r] : \E latest \in Nat : BeginDig(r, a.contract, latest)
      BY <1>3 DEF Take
    <2>2. PICK latest \in Nat : BeginDig(r, a.contract, latest)  BY <2>1
    <2> DEFINE d == [contract |-> a.contract, latest |-> latest, lo |-> 0, hi |-> latest]
    <2>3. d \in Dig  BY DEF Dig, Address
    <2>4. /\ dig' = [dig EXCEPT ![r] = {d}] \/ dig' = [dig EXCEPT ![r] = {}]
          /\ scan' = scan
      BY <2>2 DEF BeginDig
    <2> HIDE DEF d
    <2> QED  BY <1>3, <2>3, <2>4 DEF Take, Goto
  <1>4. ASSUME NEW r \in Reader, OK(r), List(r) \/ Look(r) \/ Write(r) \/ Fail(r) \/ Raise(r)
        PROVE  OK(r)'
    <2>1. CASE List(r)  BY <1>4, <2>1 DEF List, EndScan, Goto
    <2>2. CASE Look(r)  BY <1>4, <2>2 DEF Look, EndDig, Goto
    <2>3. CASE Write(r)  BY <1>4, <2>3 DEF Write, Done, Goto, reads
    <2>4. CASE Fail(r)  BY <1>4, <2>4 DEF Fail, Done, EndDig, Goto
    <2>5. CASE Raise(r)  BY <1>4, <2>5 DEF Raise, EndScan, EndDig, local
    <2> QED  BY <1>4, <2>1, <2>2, <2>3, <2>4, <2>5
  <1>5. ASSUME NEW r \in Reader, OK(r), Finish(r) \/ Die(r) PROVE OK(r)'
    BY <1>5 DEF Finish, Die, Leave, Goto
  <1>6. ASSUME NEW r \in Reader, OK(r), NEW items \in SUBSET Listing, Discover(r, items)
        PROVE  OK(r)'
    <2> DEFINE from == Greater(0, head - Lookback + 1)
               s == [from |-> from, to |-> head, start |-> from, found |-> {}]
    <2>1. head \in Nat  BY NodeReadsAssumption DEF NodeReadsAssumption
    <2>2. s \in Scan  BY <2>1, WindowFits
    <2>3. \/ scan' = [scan EXCEPT ![r] = {s}] /\ dig' = dig
          \/ scan' = scan /\ dig' = dig
      BY <1>6 DEF Discover, BeginScan, reads
    <2> HIDE DEF s
    <2> QED  BY <1>6, <2>2, <2>3 DEF Discover, Goto
  <1>7. ASSUME NEW q \in Reader, OK(q), UNCHANGED <<pc[q], refs[q], scan[q], dig[q]>>
        PROVE  OK(q)'
    BY <1>7
  <1>8. ASSUME NEW q \in Reader PROVE OK(q)
    BY DEF Placed
  <1> HIDE DEF OK
  <1>9. ASSUME NEW q \in Reader PROVE OK(q)'
    <2>1. CASE UNCHANGED vars
      BY <1>7, <1>8, <2>1 DEF vars, reads, local
    <2>2. CASE Next
      BY <1>1, <1>2, <1>3, <1>4, <1>5, <1>6, <1>7, <1>8, <2>2, NextApart DEF Apart, Onward
    <2> QED  BY <2>1, <2>2
  <1> QED  BY <1>9 DEF OK, Placed

\* A page is as long as the node allows, or the last; a probe halves the search.
LEMMA PageAdvances ==
    ASSUME NEW s \in Scan, Reading(s), s.start <= s.to
    PROVE  /\ NextPage(s).to = s.to
           /\ NextPage(s).start = s.start + Chunk \/ NextPage(s).start = s.to + 1
           /\ s.start < NextPage(s).start
  <1>1. s.to \in Nat /\ s.start \in Nat /\ Chunk \in Nat \ {0}
    BY NodeReadsAssumption DEF NodeReadsAssumption, Scan
  <1> DEFINE end == Lesser(s.start + Chunk - 1, s.to)
  <1>2. NextPage(s).to = s.to /\ NextPage(s).start = end + 1  BY DEF NextPage, Scan
  <1>3. (end = s.start + Chunk - 1 \/ end = s.to) /\ s.start <= end  BY <1>1 DEF Lesser
  <1> HIDE DEF end
  <1> QED  BY <1>1, <1>2, <1>3

LEMMA ProbeHalves ==
    ASSUME NEW d \in Dig, Searching(d), d.lo < d.hi
    PROVE  /\ NextProbe(d).lo <= NextProbe(d).hi
           /\ 2 * (NextProbe(d).hi - NextProbe(d).lo) <= d.hi - d.lo
  <1> DEFINE mid == (d.lo + d.hi) \div 2
  <1>1. d.lo \in Nat /\ d.hi \in Nat  BY DEF Dig
  <1>2. mid \in Nat /\ 2 * mid <= d.lo + d.hi /\ d.lo + d.hi <= 2 * mid + 1
    BY <1>1
  <1> HIDE DEF mid
  <1>3. \/ NextProbe(d).lo = d.lo /\ NextProbe(d).hi = mid
        \/ NextProbe(d).lo = mid + 1 /\ NextProbe(d).hi = d.hi
    BY DEF NextProbe, mid, Dig
  <1> QED  BY <1>1, <1>2, <1>3

\* The cost of a step: a call of a scan reads a full page or the last one, a call of a
\* search leaves at most half of the blocks; a search that began n blocks wide has at most
\* n / 2^k left after k calls.
ReadsAdvance ==
    \A r \in Reader :
        /\ Page(r) => \A s \in scan[r], t \in scan'[r] :
              t.start = s.start + Chunk \/ Scanned(t)
        /\ Dig_on(r) => \A d \in dig[r], e \in dig'[r] :
              2 * (e.hi - e.lo) <= d.hi - d.lo

\* However long the chain is and however it grows, the scan of the mints takes one call
\* per page and the search for the deployment a number of calls that is logarithmic in the
\* head.  (discover_minted_contracts, find_deploy_block)
THEOREM ReadsAreShort == Spec => [][ReadsAdvance]_vars
  <1>1. Init => Placed  BY DEF Init, ReadsInit, Placed
  <1>2. ASSUME IInv, Placed, [Next]_vars PROVE ReadsAdvance
    <2> USE <1>2 DEF IInv, ReadsInv, ReadsType
    <2>1. ASSUME NEW r \in Reader, Page(r), NEW s \in scan[r], NEW t \in scan'[r]
          PROVE  t.start = s.start + Chunk \/ Scanned(t)
      <3>1. t = NextPage(s) /\ s.start <= s.to /\ s \in Scan /\ Reading(s)
        BY <2>1 DEF Page, ReadPage, Placed
      <3>2. s.to \in Nat  BY <3>1 DEF Scan
      <3> QED  BY <3>1, <3>2, PageAdvances DEF Scanned
    <2>2. ASSUME NEW r \in Reader, Dig_on(r), NEW d \in dig[r], NEW e \in dig'[r]
          PROVE  2 * (e.hi - e.lo) <= d.hi - d.lo
      <3>1. e = NextProbe(d) /\ d.lo < d.hi /\ d \in Dig /\ Searching(d)
        BY <2>2 DEF Dig_on, Probe, Placed
      <3> QED  BY <3>1, ProbeHalves
    <2> QED  BY <2>1, <2>2 DEF ReadsAdvance
  <1>3. IInv /\ Placed /\ [Next]_vars => ReadsAdvance  BY <1>2
  <1> QED  BY <1>1, <1>3, PlacedNext, Always, PTL DEF Spec

\* What a cycle has left, the weightier part first: the phases of the cycle, the tokens of
\* its list, the steps of the token it is at, the blocks of the read it is in.
Phase(r) == CASE pc[r] = "idle" -> 0 [] pc[r] = "scan" -> 2 [] OTHER -> 1
Listed(r) == Cardinality(refs[r])
Stage(r) == CASE pc[r] = "dig" -> 2 [] pc[r] = "write" -> 1 [] OTHER -> 0
Blocks(r) == {s.to + 1 - s.start : s \in scan[r]} \cup {d.hi - d.lo : d \in dig[r]}
Width(r) == IF Blocks(r) = {} THEN 0 ELSE CHOOSE n \in Blocks(r) : TRUE

\* Less is left after the step, in the lexicographic order.
Nearer(r) ==
    \/ Phase(r)' < Phase(r)
    \/ Phase(r)' = Phase(r) /\ Listed(r)' < Listed(r)
    \/ Phase(r)' = Phase(r) /\ Listed(r)' = Listed(r) /\ Stage(r)' < Stage(r)
    \/ /\ Phase(r)' = Phase(r) /\ Listed(r)' = Listed(r) /\ Stage(r)' = Stage(r)
       /\ Width(r)' < Width(r)

Still(r) == UNCHANGED <<Phase(r), Listed(r), Stage(r), Width(r)>>

LEMMA OneElement == \A n : (CHOOSE x \in {n} : TRUE) = n
  OBVIOUS

\* The measure is made of numbers, and the last one is the width of the one read there is.
Measured == \A r \in Reader :
    /\ {Phase(r), Listed(r), Stage(r), Width(r)} \subseteq Nat
    /\ scan[r] = {} /\ dig[r] = {} => Width(r) = 0
    /\ \A s : scan[r] = {s} => Width(r) = s.to + 1 - s.start
    /\ \A d : dig[r] = {d} => Width(r) = d.hi - d.lo

LEMMA LeftIsNatural == IInv /\ Placed => Measured
  <1> SUFFICES ASSUME IInv, Placed, NEW r \in Reader
               PROVE  /\ {Phase(r), Listed(r), Stage(r), Width(r)} \subseteq Nat
                      /\ scan[r] = {} /\ dig[r] = {} => Width(r) = 0
                      /\ \A s : scan[r] = {s} => Width(r) = s.to + 1 - s.start
                      /\ \A d : dig[r] = {d} => Width(r) = d.hi - d.lo
    BY DEF Measured
  <1>1. Phase(r) \in Nat /\ Stage(r) \in Nat  BY DEF Phase, Stage
  <1>2. Listed(r) \in Nat
    <2>1. refs[r] \in SUBSET Address  BY DEF IInv, OwnType
    <2> QED  BY <2>1, AddressesFinite, FS_CardinalityType DEF Listed
  <1>3. scan[r] = {} /\ dig[r] = {} => Width(r) = 0  BY DEF Width, Blocks
  <1>4. ASSUME NEW s, scan[r] = {s} PROVE Width(r) \in Nat /\ Width(r) = s.to + 1 - s.start
    <2>1. s \in Scan /\ Reading(s)  BY <1>4 DEF IInv, ReadsInv, ReadsType
    <2>2. dig[r] = {}  BY <1>4 DEF Placed
    <2>3. Blocks(r) = {s.to + 1 - s.start}  BY <1>4, <2>2 DEF Blocks
    <2>4. Width(r) = s.to + 1 - s.start  BY <2>3, OneElement DEF Width
    <2> QED  BY <2>1, <2>4 DEF Scan, Reading
  <1>5. ASSUME NEW d, dig[r] = {d} PROVE Width(r) \in Nat /\ Width(r) = d.hi - d.lo
    <2>1. d \in Dig /\ Searching(d)
      BY <1>5 DEF IInv, ReadsInv, ReadsType
    <2>2. scan[r] = {}  BY <1>5 DEF Placed
    <2>3. Blocks(r) = {d.hi - d.lo}  BY <1>5, <2>2 DEF Blocks
    <2>4. Width(r) = d.hi - d.lo  BY <2>3, OneElement DEF Width
    <2>5. Birth[d.contract] \in Nat  BY <2>1, NodeReadsAssumption DEF NodeReadsAssumption, Dig
    <2>6. d.hi - d.lo \in Nat  BY <2>1, <2>5 DEF Dig, Searching, Lesser
    <2> QED  BY <2>4, <2>6
  <1>6. Width(r) \in Nat
    <2>1. CASE scan[r] = {} /\ dig[r] = {}  BY <1>3, <2>1
    <2>2. CASE scan[r] # {}
      <3>1. PICK s \in Scan : scan[r] = {s}  BY <2>2 DEF Placed
      <3> QED  BY <1>4, <3>1
    <2>3. CASE dig[r] # {}
      <3>1. PICK d \in Dig : dig[r] = {d}  BY <2>3 DEF Placed
      <3> QED  BY <1>5, <3>1
    <2> QED  BY <2>1, <2>2, <2>3
  <1> QED  BY <1>1, <1>2, <1>3, <1>4, <1>5, <1>6

\* A step of its own leaves the cycle less to do.
LEMMA OnwardIsNearer ==
    ASSUME IInv, Placed, Measured, Measured', NEW r \in Reader, Onward(r)
    PROVE  Nearer(r)
  <1>1. CASE Page(r)
    <2>1. PICK s \in scan[r] : s.start <= s.to /\ scan' = [scan EXCEPT ![r] = {NextPage(s)}]
      BY <1>1 DEF Page, ReadPage
    <2>2. s \in Scan /\ Reading(s) /\ scan[r] = {s} /\ scan'[r] = {NextPage(s)}
      BY <2>1 DEF IInv, ReadsInv, ReadsType, Placed
    <2>3. NextPage(s).to = s.to /\ s.start < NextPage(s).start /\ NextPage(s) \in Scan
      BY <2>1, <2>2, PageAdvances, PageContinues
    <2>4. Width(r) = s.to + 1 - s.start  BY <2>2 DEF Measured
    <2>5. Width(r)' = NextPage(s).to + 1 - NextPage(s).start  BY <2>2 DEF Measured
    <2>6. Width(r)' < Width(r)
      <3> HIDE DEF Width
      <3> QED  BY <2>2, <2>3, <2>4, <2>5 DEF Scan
    <2>7. Phase(r)' = Phase(r) /\ Listed(r)' = Listed(r) /\ Stage(r)' = Stage(r)
      BY <1>1 DEF Page, local, Phase, Listed, Stage
    <2> QED  BY <2>6, <2>7 DEF Nearer
  <1>2. CASE Dig_on(r)
    <2>1. PICK d \in dig[r] : d.lo < d.hi /\ dig' = [dig EXCEPT ![r] = {NextProbe(d)}]
      BY <1>2 DEF Dig_on, Probe
    <2>2. d \in Dig /\ Searching(d) /\ dig[r] = {d} /\ dig'[r] = {NextProbe(d)}
      BY <2>1 DEF IInv, ReadsInv, ReadsType, Placed
    <2>3. /\ NextProbe(d).lo <= NextProbe(d).hi /\ NextProbe(d) \in Dig
          /\ 2 * (NextProbe(d).hi - NextProbe(d).lo) <= d.hi - d.lo
      BY <2>1, <2>2, ProbeHalves, ProbeContinues
    <2>4. Width(r) = d.hi - d.lo  BY <2>2 DEF Measured
    <2>5. Width(r)' = NextProbe(d).hi - NextProbe(d).lo  BY <2>2 DEF Measured
    <2>6. Width(r)' < Width(r)
      <3> HIDE DEF Width
      <3> QED  BY <2>1, <2>2, <2>3, <2>4, <2>5 DEF Dig
    <2>7. Phase(r)' = Phase(r) /\ Listed(r)' = Listed(r) /\ Stage(r)' = Stage(r)
      BY <1>2 DEF Dig_on, local, Phase, Listed, Stage
    <2> QED  BY <2>6, <2>7 DEF Nearer
  <1>3. CASE List(r)
    BY <1>3 DEF List, Goto, Phase, Nearer, IInv, OwnType
  <1>4. CASE Take(r)
    <2>1. PICK a \in refs[r] : refs' = [refs EXCEPT ![r] = @ \ {a}]
      BY <1>4 DEF Take
    <2>2. refs[r] \in SUBSET Address /\ refs'[r] = refs[r] \ {a}
      BY <2>1 DEF IInv, OwnType
    <2>3. IsFiniteSet(refs[r])  BY <2>2, AddressesFinite
    <2> DEFINE R == refs[r]
    <2>4. Cardinality(R \ {a}) = Cardinality(R) - 1 /\ Cardinality(R) \in Nat
      <3>1. IsFiniteSet(R) /\ a \in R  BY <2>1, <2>3
      <3> HIDE DEF R
      <3> QED  BY <3>1, FS_RemoveElement, FS_CardinalityType
    <2>5. Phase(r)' = Phase(r)
      BY <1>4 DEF Take, Goto, Phase, IInv, OwnType
    <2>6. Listed(r)' < Listed(r)  BY <2>2, <2>4 DEF Listed
    <2> QED  BY <2>5, <2>6 DEF Nearer
  <1>5. CASE Look(r)
    BY <1>5 DEF Look, Goto, Phase, Listed, Stage, Nearer, IInv, OwnType
  <1>6. CASE Write(r)
    BY <1>6 DEF Write, Done, Goto, Phase, Listed, Stage, Nearer, IInv, OwnType
  <1>7. CASE Finish(r)
    BY <1>7 DEF Finish, Leave, Goto, Phase, Nearer, IInv, OwnType
  <1> QED  BY <1>1, <1>2, <1>3, <1>4, <1>5, <1>6, <1>7 DEF Onward

\* An error leaves it less to do, or as much where there was no read to lose.
LEMMA ErrorIsNearer ==
    ASSUME IInv, Placed, Measured, Measured', NEW r \in Reader, Raise(r) \/ Fail(r) \/ Die(r)
    PROVE  Nearer(r) \/ Still(r)
  <1>1. CASE Raise(r)
    <2>1. /\ Phase(r)' = Phase(r) /\ Listed(r)' = Listed(r) /\ Stage(r)' = Stage(r)
      BY <1>1 DEF Raise, local, Phase, Listed, Stage
    <2>2. scan'[r] = {} /\ dig'[r] = {}
      BY <1>1 DEF Raise, EndScan, EndDig, Placed, IInv, ReadsInv, ReadsType
    <2>3. Width(r)' = 0 /\ Width(r) \in Nat  BY <2>2 DEF Measured
    <2> QED  BY <2>1, <2>3 DEF Nearer, Still
  <1>2. CASE Fail(r)
    BY <1>2 DEF Fail, Done, Goto, Phase, Listed, Stage, Nearer, IInv, OwnType
  <1>3. CASE Die(r)
    BY <1>3 DEF Die, Leave, Goto, Phase, Nearer, IInv, OwnType
  <1> QED  BY <1>1, <1>2, <1>3

\* A step leaves each running cycle nearer to its end, or where it was; a step of its own
\* leaves it nearer.
NeverFurther == \A r \in Reader : pc[r] # "idle" =>
    /\ {Phase(r), Listed(r), Stage(r), Width(r)} \subseteq Nat
    /\ Nearer(r) \/ Still(r)
    /\ Onward(r) => Nearer(r)

\* Why every cycle ends, whatever the lengths: what is left of it goes down with each step
\* of its own and with nothing that others do, the growth of the chain, other cycles and
\* errors included.  (run_cycle)
THEOREM CyclesShrink == Spec => [][NeverFurther]_vars
  <1>1. Init => Placed  BY DEF Init, ReadsInit, Placed
  <1>2. ASSUME IInv, Placed, Measured, Measured', [Next]_vars, NEW q \in Reader, pc[q] # "idle"
        PROVE  /\ {Phase(q), Listed(q), Stage(q), Width(q)} \subseteq Nat
               /\ Nearer(q) \/ Still(q)
               /\ Onward(q) => Nearer(q)
    <2>1. {Phase(q), Listed(q), Stage(q), Width(q)} \subseteq Nat
      BY <1>2 DEF Measured
    <2>2. ASSUME pc'[q] = pc[q], refs'[q] = refs[q], scan'[q] = scan[q], dig'[q] = dig[q]
          PROVE  Still(q)
      BY <2>2 DEF Still, Phase, Listed, Stage, Width, Blocks
    <2>3. Onward(q) => Nearer(q)
      BY <1>2, OnwardIsNearer
    <2>4. ASSUME UNCHANGED vars PROVE Still(q)
      <3>1. pc' = pc /\ refs' = refs /\ scan' = scan /\ dig' = dig
        BY <2>4 DEF vars, reads, local
      <3> QED  BY <2>2, <3>1
    <2>5. ASSUME Next PROVE Nearer(q) \/ Still(q)
      <3>1. ASSUME NEW r \in Reader, Apart(r), r # q PROVE Still(q)
        BY <2>2, <3>1 DEF Apart
      <3>2. ASSUME NEW items \in SUBSET Listing, Discover(q, items) PROVE FALSE
        BY <1>2, <3>2 DEF Discover
      <3>3. ASSUME \A r \in Reader : UNCHANGED <<pc[r], refs[r], scan[r], dig[r]>>
            PROVE  Still(q)
        BY <1>2, <2>2, <3>3
      <3>4. ASSUME NEW r \in Reader, Apart(r),
                   \/ Onward(r) \/ Raise(r) \/ Fail(r) \/ Die(r)
                   \/ \E items \in SUBSET Listing : Discover(r, items)
            PROVE  Nearer(q) \/ Still(q)
        <4>1. CASE r # q  BY <3>1, <3>4, <4>1
        <4>2. CASE r = q  BY <1>2, <3>2, <3>4, <4>2, OnwardIsNearer, ErrorIsNearer
        <4> QED  BY <4>1, <4>2
      <3> QED  BY <1>2, <2>5, <3>3, <3>4, NextApart
    <2> QED  BY <1>2, <2>1, <2>3, <2>4, <2>5
  <1>3. IInv /\ Placed /\ Measured /\ Measured' /\ [Next]_vars => NeverFurther
    BY <1>2 DEF NeverFurther
  <1> QED  BY <1>1, <1>3, PlacedNext, LeftIsNatural, Always, PTL DEF Spec
=================================================================================
