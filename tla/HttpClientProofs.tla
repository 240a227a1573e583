--------------------------- MODULE HttpClientProofs ---------------------------
(***************************************************************************)
(* The client's bucket keeps its rate, and its health report is true, for  *)
(* any callers, requests, rate and number of retries.                      *)
(***************************************************************************)
EXTENDS HttpClient, SequenceTheorems, FiniteSetTheorems, TLAPS

LEMMA CapacityBound == capacity \in Nat /\ capacity >= One
  <1>1. CASE Rps > 1
    <2>1. Rps \in Nat /\ One \in Nat /\ One >= 1
      BY HttpClientAssumption
    <2>2. Rps * One >= 1 * One
      BY <2>1, <1>1, Z3
    <2> QED BY <1>1, <2>1, <2>2 DEF capacity
  <1>2. CASE ~ Rps > 1
    BY <1>2, HttpClientAssumption DEF capacity
  <1> QED BY <1>1, <1>2

(***************************************************************************)
(* The rate.  What the window still allows is never less than what the     *)
(* bucket will hold once it is refilled; a sleeper wakes to a whole token. *)
(***************************************************************************)
Allowance ==
    /\ tokens \in Nat /\ accrued \in Nat /\ wait \in Nat /\ meter \in Nat
    /\ asleep \in BOOLEAN
    /\ meter + tokens + accrued <= capacity
    /\ asleep => tokens + accrued + wait >= One \/ tokens + accrued = capacity

LEMMA AllowanceStep == ASSUME Allowance, [Next]_vars PROVE Allowance'
  <1> USE DEF Allowance
  <1>0. One \in Nat /\ One >= 1 /\ Rps \in Nat /\ Rps >= 1 /\ capacity \in Nat /\ capacity >= One
    BY HttpClientAssumption, CapacityBound
  <1>1. ASSUME UNCHANGED <<asleep, wait, tokens, accrued, meter>> PROVE Allowance'
    BY <1>1, <1>0
  <1>2. ASSUME NEW c \in Caller, acquire(c) PROVE Allowance'
    <2> DEFINE now == tokens + accrued
    <2>1. CASE now >= One
      <3>1. /\ accrued' = 0 /\ tokens' = now - One /\ asleep' = asleep /\ wait' = wait
            /\ meter' = meter + One
        BY <1>2, <2>1 DEF acquire, Send
      <3>2. ~asleep
        BY <1>2 DEF acquire
      <3> QED BY <1>0, <2>1, <3>1, <3>2
    <2>2. CASE ~ now >= One
      <3>1. /\ accrued' = 0 /\ tokens' = now /\ asleep' = TRUE /\ wait' = One - now
            /\ meter' = meter
        BY <1>2, <2>2 DEF acquire
      <3> QED BY <1>0, <2>2, <3>1
    <2> QED BY <2>1, <2>2
  <1>3. ASSUME NEW c \in Caller, Wake(c) PROVE Allowance'
    <2>1. /\ asleep /\ wait = 0 /\ asleep' = FALSE /\ tokens' = 0 /\ accrued' = 0 /\ wait' = wait
          /\ meter' = meter + One
      BY <1>3 DEF Wake, Send
    <2>2. tokens + accrued >= One
      <3>1. tokens + accrued + wait >= One \/ tokens + accrued = capacity
        BY <2>1
      <3> QED BY <1>0, <2>1, <3>1
    <2>3. meter' + tokens' + accrued' <= capacity'
      BY <1>0, <2>1, <2>2 DEF capacity
    <2>4. asleep' \in BOOLEAN /\ ~asleep'
      BY <2>1, Zenon
    <2>5. {tokens', accrued', wait', meter'} \subseteq Nat
      BY <1>0, <2>1
    <2> QED BY <2>3, <2>4, <2>5
  <1>4. CASE Tick
    <2>1. /\ accrued' = Least(capacity - tokens, accrued + Rps)
          /\ wait' = IF asleep THEN Drained(wait, Rps) ELSE wait
          /\ meter' = Drained(meter, Rps)
          /\ asleep' = asleep /\ tokens' = tokens
      BY <1>4 DEF Tick
    <2> QED BY <1>0, <2>1 DEF Least, Drained
  <1>5. ASSUME NEW c \in Caller, NEW r \in Request, Hit(c, r) \/ Ask(c, r) PROVE Allowance'
    BY <1>1, <1>5 DEF Hit, Ask, bucket
  <1>6. ASSUME NEW c \in Caller, Retry(c) \/ Network(c) PROVE Allowance'
    BY <1>1, <1>6 DEF Retry, Network, Answer, Garbled, Refuse, Lose, bucket
  <1>7. CASE aclose \/ NewReport
    BY <1>1, <1>7 DEF aclose, NewReport, bucket
  <1>8. CASE UNCHANGED vars
    BY <1>1, <1>8 DEF vars, bucket
  <1> QED BY <1>2, <1>3, <1>4, <1>5, <1>6, <1>7, <1>8 DEF Next, Proceed

(* However many callers share the client and however their retries fall,   *)
(* every window of time sees at most the bucket and its refill: the lock   *)
(* is kept over the sleep and the sleeper leaves nothing behind.           *)
THEOREM RateIsKept == Spec => []RateKept
  <1>1. Init => Allowance
    <2> SUFFICES ASSUME Init PROVE Allowance
      OBVIOUS
    <2>1. tokens = capacity /\ accrued = 0 /\ wait = 0 /\ meter = 0 /\ asleep = FALSE
      BY DEF Init
    <2>2. asleep \in BOOLEAN /\ ~asleep
      BY <2>1, Zenon
    <2>3. meter + tokens + accrued <= capacity /\ {tokens, accrued, wait, meter} \subseteq Nat
      BY <2>1, CapacityBound
    <2> QED BY <2>2, <2>3 DEF Allowance
  <1>2. Allowance => RateKept
    BY HttpClientAssumption, CapacityBound DEF Allowance, RateKept
  <1> QED BY <1>1, <1>2, AllowanceStep, PTL DEF Spec

(***************************************************************************)
(* Who waits for the bucket.                                               *)
(***************************************************************************)
\* Who has asked something knows what; nobody is in the line twice.
Queued ==
    /\ pc \in [Caller -> {"idle", "line", "sent", "backoff"}]
    /\ req \in [Caller -> Request \cup {None}]
    /\ \A c \in Caller : pc[c] # "idle" => req[c] \in Request
    /\ line \in Seq(Caller)
    /\ \A i \in 1..Len(line) : pc[line[i]] = "line"
    /\ \A i, j \in 1..Len(line) : line[i] = line[j] => i = j

\* What a step does to the line.
LEMMA LeaveLine ==
    ASSUME Queued, NEW c \in Caller, line # <<>>, Head(line) = c, line' = Tail(line),
           pc' \in [Caller -> {"idle", "line", "sent", "backoff"}],
           req' \in [Caller -> Request \cup {None}],
           \A d \in Caller : pc'[d] # "idle" => req'[d] \in Request,
           \A d \in Caller \ {c} : pc'[d] = pc[d]
    PROVE  Queued'
  <1>1. line' \in Seq(Caller) /\ Len(line') = Len(line) - 1 /\ Len(line) \in Nat \ {0}
    BY HeadTailProperties, EmptySeq, LenProperties DEF Queued
  <1>2. \A i \in 1..Len(line') : line'[i] = line[i + 1] /\ i + 1 \in 1..Len(line)
    BY <1>1, HeadTailProperties DEF Queued
  <1>3. c = line[1]
    BY <1>1 DEF Queued
  <1>4. \A i \in 1..Len(line') : line'[i] \in Caller \ {c}
    BY <1>1, <1>2, <1>3, ElementOfSeq DEF Queued
  <1>5. \A i \in 1..Len(line') : pc'[line'[i]] = "line"
    BY <1>2, <1>4 DEF Queued
  <1>6. \A i, j \in 1..Len(line') : line'[i] = line'[j] => i = j
    <2> TAKE i, j \in 1..Len(line')
    <2> HAVE line'[i] = line'[j]
    <2>1. i + 1 = j + 1
      BY <1>2 DEF Queued
    <2> QED BY <2>1, <1>1
  <1> QED BY <1>1, <1>5, <1>6 DEF Queued

LEMMA JoinLine ==
    ASSUME Queued, NEW c \in Caller, pc[c] # "line", line' = Append(line, c),
           pc' = [pc EXCEPT ![c] = "line"],
           req' \in [Caller -> Request \cup {None}], req'[c] \in Request,
           \A d \in Caller \ {c} : req'[d] = req[d]
    PROVE  Queued'
  <1>1. line' \in Seq(Caller) /\ Len(line') = Len(line) + 1 /\ Len(line) \in Nat
    BY AppendProperties, LenProperties DEF Queued
  <1>2. line'[Len(line) + 1] = c /\ \A i \in 1..Len(line) : line'[i] = line[i]
    BY AppendProperties DEF Queued
  <1>3. \A i \in 1..Len(line) : line[i] # c /\ line[i] \in Caller
    BY ElementOfSeq DEF Queued
  <1>4. \A i \in 1..Len(line') : i \in 1..Len(line) \/ i = Len(line) + 1
    BY <1>1
  <1>5. \A i \in 1..Len(line') : pc'[line'[i]] = "line"
    BY <1>2, <1>3, <1>4 DEF Queued
  <1>6. \A i, j \in 1..Len(line') : line'[i] = line'[j] => i = j
    BY <1>2, <1>3, <1>4 DEF Queued
  <1> QED BY <1>1, <1>5, <1>6 DEF Queued

LEMMA QueuedStep == ASSUME Queued, [Next]_vars PROVE Queued'
  <1>1. ASSUME UNCHANGED <<pc, req, line>> PROVE Queued'
    BY <1>1 DEF Queued
  <1>2. ASSUME NEW c \in Caller, pc[c] = "sent", line' = line, NEW step \in {"idle", "backoff"},
               pc' = [pc EXCEPT ![c] = step],
               req' = [req EXCEPT ![c] = IF step = "idle" THEN None ELSE @]
        PROVE  Queued'
    <2>1. \A i \in 1..Len(line) : line[i] # c /\ line[i] \in Caller
      BY <1>2, ElementOfSeq DEF Queued
    <2> QED BY <1>2, <2>1 DEF Queued
  <1>3. ASSUME NEW c \in Caller, acquire(c) PROVE Queued'
    <2>1. CASE UNCHANGED <<pc, req, line>>
      BY <1>1, <2>1
    <2>2. CASE Send(c)
      <3>1. line # <<>> /\ Head(line) = c /\ line' = Tail(line)
        BY <1>3, <2>2 DEF acquire, Send
      <3>2. pc[c] = "line"
        BY <3>1, HeadTailProperties, EmptySeq, LenProperties DEF Queued
      <3> QED BY <2>2, <3>1, <3>2, LeaveLine DEF Send, End, Queued
    <2> QED BY <1>3, <2>1, <2>2 DEF acquire, call
  <1>4. ASSUME NEW c \in Caller, Wake(c) PROVE Queued'
    <2>1. line # <<>> /\ Head(line) = c /\ line' = Tail(line) /\ Send(c)
      BY <1>4 DEF Wake, Send
    <2>2. pc[c] = "line"
      BY <2>1, HeadTailProperties, EmptySeq, LenProperties DEF Queued
    <2> QED BY <2>1, <2>2, LeaveLine DEF Send, End, Queued
  <1>5. ASSUME NEW c \in Caller, NEW r \in Request, Ask(c, r) PROVE Queued'
    BY <1>5, JoinLine DEF Ask, Queued
  <1>6. ASSUME NEW c \in Caller, Retry(c) PROVE Queued'
    BY <1>6, JoinLine DEF Retry, Queued
  <1>7. ASSUME NEW c \in Caller, Network(c) PROVE Queued'
    <2>1. pc[c] = "sent" /\ line' = line
      BY <1>7 DEF Network, Answer, Garbled, Refuse, Lose, bucket
    <2>2. ASSUME NEW outcome, End(c, outcome) PROVE Queued'
      <3>1. /\ pc' = [pc EXCEPT ![c] = "idle"]
            /\ req' = [req EXCEPT ![c] = IF "idle" = "idle" THEN None ELSE @]
        BY <2>2 DEF End
      <3> QED BY <1>2, <2>1, <3>1
    <2>3. CASE pc' = [pc EXCEPT ![c] = "backoff"] /\ req' = req
      <3>1. req' = [req EXCEPT ![c] = IF "backoff" = "idle" THEN None ELSE @]
        BY <2>3 DEF Queued
      <3> QED BY <1>2, <2>1, <2>3, <3>1
    <2> QED BY <1>7, <2>2, <2>3 DEF Network, Answer, Garbled, Refuse, Lose, GiveUp
  <1>8. ASSUME NEW c \in Caller, NEW r \in Request, Hit(c, r) PROVE Queued'
    BY <1>1, <1>8 DEF Hit, call, bucket
  <1>9. CASE aclose \/ NewReport \/ Tick \/ UNCHANGED vars
    BY <1>1, <1>9 DEF aclose, NewReport, Tick, vars, call, bucket
  <1> QED BY <1>3, <1>4, <1>5, <1>6, <1>7, <1>8, <1>9 DEF Next, Proceed

LEMMA QueuedAlways == Spec => []Queued
  <1>1. Init => Queued
    BY EmptySeq DEF Init, Queued, None
  <1> QED BY <1>1, QueuedStep, PTL DEF Spec
(***************************************************************************)
(* What the cache holds.                                                   *)
(***************************************************************************)
Stored == cache \in [Request -> SUBSET [data : Data, left : -1..Ttl]]

LEMMA StoredStep == ASSUME Stored, [Next]_vars PROVE Stored'
  <1> USE HttpClientAssumption DEF Stored
  <1>1. CASE UNCHANGED cache
    BY <1>1
  <1>2. ASSUME NEW c \in Caller, NEW data \in Data, Answer(c, data) PROVE Stored'
    <2>1. ASSUME NEW r PROVE set(r, data) \in [Request -> SUBSET [data : Data, left : -1..Ttl]]
      <3> DEFINE kept == IF Cardinality(Entries) >= MaxSize THEN [q \in Request |-> {}] ELSE cache
      <3>1. kept \in [Request -> SUBSET [data : Data, left : -1..Ttl]]
        OBVIOUS
      <3>2. {[data |-> data, left |-> Ttl]} \in SUBSET [data : Data, left : -1..Ttl]
        OBVIOUS
      <3> HIDE DEF kept
      <3>3. [kept EXCEPT ![r] = {[data |-> data, left |-> Ttl]}]
                \in [Request -> SUBSET [data : Data, left : -1..Ttl]]
        BY <3>1, <3>2
      <3> QED BY <3>3 DEF set, kept
    <2> QED BY <1>2, <2>1 DEF Answer
  <1>3. CASE Tick
    <2>1. \A r \in Request : \A e \in cache[r] :
              [e EXCEPT !.left = IF @ < 0 THEN @ ELSE @ - 1] \in [data : Data, left : -1..Ttl]
      OBVIOUS
    <2> QED BY <1>3, <2>1 DEF Tick
  <1>4. ASSUME NEW c \in Caller, NEW r \in Request, Ask(c, r) PROVE Stored'
    BY <1>4 DEF Ask
  <1>5. ASSUME NEW c \in Caller, Garbled(c) \/ Refuse(c) \/ Lose(c) \/ acquire(c) \/ Wake(c) \/ Retry(c)
        PROVE  Stored'
    BY <1>1, <1>5 DEF Garbled, Refuse, Lose, acquire, Wake, Retry, Send
  <1>6. ASSUME NEW c \in Caller, NEW r \in Request, Hit(c, r) PROVE Stored'
    BY <1>1, <1>6 DEF Hit
  <1>7. CASE aclose \/ NewReport \/ UNCHANGED vars
    BY <1>1, <1>7 DEF aclose, NewReport, vars
  <1> QED BY <1>2, <1>3, <1>4, <1>5, <1>6, <1>7 DEF Next, Proceed, Network

LEMMA StoredAlways == Spec => []Stored
  <1>1. Init => Stored
    BY DEF Init, Stored
  <1> QED BY <1>1, StoredStep, PTL DEF Spec

Fits == IsFiniteSet(Entries) /\ CacheFits

\* A cache that gets no new entry still fits.
LEMMA FewerFit == ASSUME Fits, Entries' \subseteq Entries PROVE Fits'
  <1>1. IsFiniteSet(Entries') /\ Cardinality(Entries') <= Cardinality(Entries)
    BY FS_Subset DEF Fits
  <1>2. Cardinality(Entries) \in Nat /\ Cardinality(Entries') \in Nat /\ MaxSize \in Nat
    BY <1>1, FS_CardinalityType, HttpClientAssumption DEF Fits
  <1> QED BY <1>1, <1>2 DEF Fits, CacheFits

LEMMA SetFits ==
    ASSUME Fits, Stored, NEW r \in Request, NEW data, cache' = set(r, data)
    PROVE  Fits'
  <1>1. Cardinality(Entries) \in Nat /\ MaxSize \in Nat /\ MaxSize >= 1
    BY FS_CardinalityType, HttpClientAssumption DEF Fits
  <1>2. CASE Cardinality(Entries) >= MaxSize
    <2>1. Entries' \subseteq {r}
      BY <1>2 DEF Entries, set
    <2>2. IsFiniteSet({r}) /\ Cardinality({r}) = 1
      BY FS_Singleton
    <2>3. IsFiniteSet(Entries') /\ Cardinality(Entries') <= 1
      BY <2>1, <2>2, FS_Subset
    <2>4. Cardinality(Entries') \in Nat
      BY <2>3, FS_CardinalityType
    <2> QED BY <1>1, <2>3, <2>4 DEF Fits, CacheFits
  <1>3. CASE ~ Cardinality(Entries) >= MaxSize
    <2>1. Entries' \subseteq Entries \cup {r}
      BY <1>3 DEF Entries, set, Stored
    <2>2. IsFiniteSet(Entries \cup {r}) /\ Cardinality(Entries \cup {r}) <= Cardinality(Entries) + 1
      <3>1. IsFiniteSet(Entries)
        BY DEF Fits
      <3>2. /\ IsFiniteSet(Entries \cup {r})
            /\ \/ Cardinality(Entries \cup {r}) = Cardinality(Entries)
               \/ Cardinality(Entries \cup {r}) = Cardinality(Entries) + 1
        BY <3>1, FS_AddElement
      <3> QED BY <1>1, <3>2
    <2>3. IsFiniteSet(Entries') /\ Cardinality(Entries') <= Cardinality(Entries \cup {r})
      BY <2>1, <2>2, FS_Subset
    <2>4. Cardinality(Entries') \in Nat /\ Cardinality(Entries \cup {r}) \in Nat
      BY <2>2, <2>3, FS_CardinalityType
    <2> QED BY <1>1, <1>3, <2>2, <2>3, <2>4 DEF Fits, CacheFits
  <1> QED BY <1>2, <1>3

LEMMA FitsStep == ASSUME Queued, Stored, Fits, [Next]_vars PROVE Fits'
  <1>1. CASE UNCHANGED cache
    BY <1>1, FewerFit DEF Entries
  <1>2. ASSUME NEW c \in Caller, NEW data \in Data, Answer(c, data) PROVE Fits'
    <2>1. req[c] \in Request
      BY <1>2 DEF Answer, Queued
    <2> QED BY <1>1, <1>2, <2>1, SetFits DEF Answer
  <1>3. CASE Tick
    <2>1. Entries' \subseteq Entries
      BY <1>3 DEF Tick, Entries
    <2> QED BY <2>1, FewerFit
  <1>4. ASSUME NEW c \in Caller, NEW r \in Request, Ask(c, r) PROVE Fits'
    <2>1. Entries' \subseteq Entries
      BY <1>4 DEF Ask, Entries, Stored
    <2> QED BY <2>1, FewerFit
  <1>5. ASSUME NEW c \in Caller, Garbled(c) \/ Refuse(c) \/ Lose(c) \/ acquire(c) \/ Wake(c) \/ Retry(c)
        PROVE  Fits'
    BY <1>1, <1>5 DEF Garbled, Refuse, Lose, acquire, Wake, Retry, Send
  <1>6. ASSUME NEW c \in Caller, NEW r \in Request, Hit(c, r) PROVE Fits'
    BY <1>1, <1>6 DEF Hit
  <1>7. CASE aclose \/ NewReport \/ UNCHANGED vars
    BY <1>1, <1>7 DEF aclose, NewReport, vars
  <1> QED BY <1>2, <1>3, <1>4, <1>5, <1>6, <1>7 DEF Next, Proceed, Network

(* However many answers of concurrent callers are stored, the cache holds  *)
(* no more than its size, for any requests and any size.                   *)
THEOREM CacheStaysSmall == Spec => []CacheFits
  <1>1. Init => Fits
    <2> SUFFICES ASSUME Init PROVE Fits
      OBVIOUS
    <2>1. Entries = {}
      BY DEF Init, Entries
    <2>2. IsFiniteSet(Entries) /\ Cardinality(Entries) = 0
      BY <2>1, FS_EmptySet
    <2> QED BY <2>2, HttpClientAssumption DEF Fits, CacheFits
  <1>2. Fits => CacheFits
    BY DEF Fits
  <1> QED BY <1>1, <1>2, FitsStep, QueuedAlways, StoredAlways, PTL DEF Spec

(***************************************************************************)
(* The health report.                                                      *)
(***************************************************************************)
Reported ==
    /\ conn \in [Endpoint -> SUBSET {"ok", "failed"}]
    /\ source \in [Endpoint -> SUBSET {"ok", "empty", "failed"}]
    /\ HealthIsTrue

LEMMA Label == \A r \in Request : endpoint_label[r] \in Endpoint
  BY HttpClientAssumption

\* A call that ends without a connection being counted: from the cache or escaping.
LEMMA QuietEnd ==
    ASSUME Reported, NEW r \in Request, NEW outcome \in Data \cup {"escaped"}, NEW a \in BOOLEAN,
           a => outcome = "escaped", record(r, outcome), UNCHANGED conn,
           gave' = {[req |-> r, outcome |-> outcome, asked |-> a]}
    PROVE  Reported'
  <1>1. endpoint_label[r] \in Endpoint
    BY Label
  <1>2. source' \in [Endpoint -> SUBSET {"ok", "empty", "failed"}]
    BY <1>1 DEF Reported, record, Data
  <1>3. \A e \in Endpoint : source[e] \subseteq source'[e]
    BY <1>1 DEF Reported, record
  <1>4. \A g \in gave' : g.req = r /\ g.outcome = outcome /\ g.asked = a
    OBVIOUS
  <1>5. HealthIsTrue'
    BY <1>3, <1>4 DEF Reported, HealthIsTrue, Data
  <1> QED BY <1>2, <1>5 DEF Reported

LEMMA GoodEnd ==
    ASSUME Reported, NEW r \in Request, NEW data \in Data, record(r, data), Counted(r, {"ok"}),
           gave' = {[req |-> r, outcome |-> data, asked |-> TRUE]}
    PROVE  Reported'
  <1>1. endpoint_label[r] \in Endpoint
    BY Label
  <1>2. /\ source' \in [Endpoint -> SUBSET {"ok", "empty", "failed"}]
        /\ conn' \in [Endpoint -> SUBSET {"ok", "failed"}]
    BY <1>1 DEF Reported, record, Counted, Data
  <1>3. /\ \A e \in Endpoint : source[e] \subseteq source'[e]
        /\ \A e \in Endpoint : "failed" \in conn'[e] => "failed" \in conn[e]
        /\ "ok" \in conn'[endpoint_label[r]]
    BY <1>1 DEF Reported, record, Counted
  <1>4. \A g \in gave' : g.req = r /\ g.outcome = data
    OBVIOUS
  <1>5. \A g \in gave' : endpoint_label[g.req] \notin dead_connections'
    BY <1>3, <1>4 DEF dead_connections, silent
  <1>6. HealthIsTrue'
    BY <1>3, <1>4, <1>5 DEF Reported, HealthIsTrue, Data
  <1> QED BY <1>2, <1>6 DEF Reported

LEMMA BadEnd ==
    ASSUME Reported, NEW r \in Request, record(r, "ClientError"), Counted(r, {"failed"}),
           gave' = {[req |-> r, outcome |-> "ClientError", asked |-> TRUE]}
    PROVE  Reported'
  <1>1. endpoint_label[r] \in Endpoint
    BY Label
  <1>2. /\ source' \in [Endpoint -> SUBSET {"ok", "empty", "failed"}]
        /\ conn' \in [Endpoint -> SUBSET {"ok", "failed"}]
    BY <1>1 DEF Reported, record, Counted
  <1>3. /\ \A e \in Endpoint : source[e] \subseteq source'[e]
        /\ \A e \in Endpoint \ {endpoint_label[r]} : conn'[e] = conn[e]
        /\ source'[endpoint_label[r]] \cap {"failed", "empty"} # {}
        /\ "failed" \in conn'[endpoint_label[r]]
    BY <1>1 DEF Reported, record, Counted
  <1>4. \A g \in gave' : g.req = r /\ g.outcome = "ClientError"
    OBVIOUS
  <1>5. HealthIsTrue'
    BY <1>3, <1>4 DEF Reported, HealthIsTrue
  <1> QED BY <1>2, <1>5 DEF Reported

LEMMA ReportedStep == ASSUME Queued, Stored, Reported, [Next]_vars PROVE Reported'
  <1>1. ASSUME gave' = {}, UNCHANGED report PROVE Reported'
    BY <1>1 DEF Reported, HealthIsTrue, report, dead_connections
  <1>2. ASSUME NEW c \in Caller, Send(c), pc[c] = "line" PROVE Reported'
    <2>1. CASE held[c]
      BY <1>1, <1>2, <2>1 DEF Send, report
    <2>2. CASE ~held[c]
      <3>1. req[c] \in Request
        BY <1>2 DEF Queued
      <3> QED BY <1>2, <2>2, <3>1, QuietEnd DEF Send, End
    <2> QED BY <2>1, <2>2
  <1>3. ASSUME NEW c \in Caller, line # <<>>, Head(line) = c PROVE pc[c] = "line"
    BY <1>3, HeadTailProperties, EmptySeq, LenProperties DEF Queued
  <1>4. ASSUME NEW c \in Caller, acquire(c) PROVE Reported'
    BY <1>1, <1>2, <1>3, <1>4 DEF acquire
  <1>5. ASSUME NEW c \in Caller, Wake(c) PROVE Reported'
    BY <1>2, <1>3, <1>5 DEF Wake
  <1>6. ASSUME NEW c \in Caller, NEW r \in Request, Hit(c, r) PROVE Reported'
    <2>1. PICK e \in Fresh(r) : /\ gave' = {[req |-> r, outcome |-> e.data, asked |-> FALSE]}
                                /\ record(r, e.data)
      BY <1>6 DEF Hit
    <2>2. e.data \in Data
      BY <1>6, <2>1 DEF Fresh, Stored
    <2> QED BY <1>6, <2>1, <2>2, QuietEnd DEF Hit
  <1>7. ASSUME NEW c \in Caller, Network(c) PROVE Reported'
    <2>1. pc[c] = "sent" /\ req[c] \in Request
      BY <1>7 DEF Network, Answer, Garbled, Refuse, Lose, Queued
    <2>2. ASSUME NEW data \in Data, Answer(c, data) PROVE Reported'
      BY <2>1, <2>2, GoodEnd DEF Answer, End
    <2>3. CASE Garbled(c)
      BY <2>1, <2>3, QuietEnd DEF Garbled, End
    <2>4. CASE GiveUp(c)
      BY <2>1, <2>4, BadEnd DEF GiveUp, End
    <2> QED BY <1>1, <1>7, <2>2, <2>3, <2>4 DEF Network, Refuse, Lose
  <1>8. CASE NewReport
    BY <1>8 DEF NewReport, Reported, HealthIsTrue, dead_connections
  <1>9. CASE aclose \/ Tick
    BY <1>1, <1>9 DEF aclose, Tick
  <1>10. ASSUME NEW c \in Caller, Retry(c) \/ \E r \in Request : Ask(c, r) PROVE Reported'
    BY <1>1, <1>10 DEF Ask, Retry
  <1>11. CASE UNCHANGED vars
    BY <1>11 DEF vars, report, Reported, HealthIsTrue, dead_connections
  <1> QED BY <1>4, <1>5, <1>6, <1>7, <1>8, <1>9, <1>10, <1>11 DEF Next, Proceed

(* The health report tells a dead connection from one that has nothing,    *)
(* for any callers, endpoints, caches and methods that hide a failure.     *)
THEOREM HealthReportIsTrue == Spec => []HealthIsTrue
  <1>1. Init => Reported
    BY DEF Init, Reported, HealthIsTrue
  <1>2. Reported => HealthIsTrue
    BY DEF Reported
  <1> QED BY <1>1, <1>2, ReportedStep, QueuedAlways, StoredAlways, PTL DEF Spec

(***************************************************************************)
(* Why a call ends.                                                        *)
(***************************************************************************)
\* Whoever waits for the bucket is in the line, and no attempt is beyond the last.
Waiting ==
    /\ attempt \in [Caller -> 0..MaxRetries]
    /\ \A c \in Caller : pc[c] = "line" => \E i \in 1..Len(line) : line[i] = c

\* What the holder of the lock does to the line, and a caller that joins it.
LEMMA LineShortens ==
    ASSUME Queued, line # <<>>, line' = Tail(line)
    PROVE  /\ Len(line) \in Nat \ {0} /\ Len(line') = Len(line) - 1
           /\ Head(line) = line[1] /\ pc[Head(line)] = "line" /\ Head(line) \in Caller
           /\ \A i \in 1..Len(line) \ {1} : i - 1 \in 1..Len(line') /\ line'[i - 1] = line[i]
  <1>1. Len(line) \in Nat \ {0} /\ Len(line') = Len(line) - 1 /\ Head(line) = line[1]
    BY HeadTailProperties, EmptySeq, LenProperties DEF Queued
  <1>2. \A i \in 1..Len(line') : line'[i] = line[i + 1]
    BY HeadTailProperties DEF Queued
  <1>3. \A i \in 1..Len(line) \ {1} : i - 1 \in 1..Len(line') /\ line'[i - 1] = line[i]
    BY <1>1, <1>2
  <1>4. 1 \in 1..Len(line)
    BY <1>1
  <1> QED BY <1>1, <1>3, <1>4, ElementOfSeq DEF Queued

LEMMA LineGrows ==
    ASSUME Queued, NEW d \in Caller, line' = Append(line, d)
    PROVE  /\ Len(line) \in Nat /\ Len(line') = Len(line) + 1 /\ line'[Len(line) + 1] = d
           /\ \A i \in 1..Len(line) : line'[i] = line[i]
  BY AppendProperties, LenProperties DEF Queued

\* What one step may do to a caller and to the line.
Sends(d) == line # <<>> /\ Head(line) = d /\ line' = Tail(line)
            /\ \/ pc' = [pc EXCEPT ![d] = "sent"] /\ attempt' = attempt
               \/ pc' = [pc EXCEPT ![d] = "idle"] /\ attempt' = [attempt EXCEPT ![d] = 0]
Joins(d) == pc[d] \in {"idle", "backoff"} /\ pc' = [pc EXCEPT ![d] = "line"]
            /\ line' = Append(line, d) /\ attempt' = attempt
Hears(d) == pc[d] = "sent" /\ line' = line
            /\ \/ pc' = [pc EXCEPT ![d] = "idle"] /\ attempt' = [attempt EXCEPT ![d] = 0]
               \/ /\ pc' = [pc EXCEPT ![d] = "backoff"] /\ attempt[d] < MaxRetries
                  /\ attempt' = [attempt EXCEPT ![d] = @ + 1]

LEMMA StepKinds ==
    ASSUME Queued, Waiting, [Next]_vars
    PROVE  \/ UNCHANGED <<pc, attempt, line>>
           \/ \E d \in Caller : Sends(d) \/ Joins(d) \/ Hears(d)
  <1>1. ASSUME NEW d \in Caller, line # <<>>, Head(line) = d, Send(d) PROVE Sends(d)
    BY <1>1 DEF Send, End, Sends
  <1>2. ASSUME NEW d \in Caller, acquire(d) PROVE UNCHANGED <<pc, attempt, line>> \/ Sends(d)
    BY <1>1, <1>2 DEF acquire, call
  <1>3. ASSUME NEW d \in Caller, Wake(d) PROVE Sends(d)
    BY <1>1, <1>3 DEF Wake
  <1>4. ASSUME NEW d \in Caller, Retry(d) \/ \E r \in Request : Ask(d, r) PROVE Joins(d)
    BY <1>4 DEF Retry, Ask, Joins
  <1>5. ASSUME NEW d \in Caller, Network(d) PROVE Hears(d)
    <2>1. ~(attempt[d] >= MaxRetries) => attempt[d] < MaxRetries
      BY HttpClientAssumption DEF Waiting
    <2> QED BY <1>5, <2>1
            DEF Network, Answer, Garbled, Refuse, Lose, GiveUp, End, bucket, Hears
  <1>6. ASSUME NEW d \in Caller, NEW r \in Request, Hit(d, r)
        PROVE  UNCHANGED <<pc, attempt, line>>
    BY <1>6 DEF Hit, call, bucket
  <1>7. CASE aclose \/ NewReport \/ Tick \/ UNCHANGED vars
    BY <1>7 DEF aclose, NewReport, Tick, vars, call, bucket
  <1> QED BY <1>2, <1>3, <1>4, <1>5, <1>6, <1>7 DEF Next, Proceed

LEMMA WaitingStep == ASSUME Queued, Waiting, [Next]_vars PROVE Waiting'
  <1> USE HttpClientAssumption
  <1>1. CASE UNCHANGED <<pc, attempt, line>>
    BY <1>1 DEF Waiting
  <1>2. ASSUME NEW d \in Caller, Sends(d) PROVE Waiting'
    <2>1. line' = Tail(line) /\ line # <<>> /\ Head(line) = d
      BY <1>2 DEF Sends
    <2>2. attempt' \in [Caller -> 0..MaxRetries]
      BY <1>2 DEF Sends, Waiting
    <2>3. ASSUME NEW c \in Caller, pc'[c] = "line"
          PROVE  \E i \in 1..Len(line') : line'[i] = c
      <3>1. c # d /\ pc[c] = "line"
        BY <1>2, <2>3 DEF Sends, Queued
      <3>2. PICK i \in 1..Len(line) : line[i] = c
        BY <3>1 DEF Waiting
      <3>3. i # 1
        BY <2>1, <3>1, <3>2, LineShortens
      <3>4. i - 1 \in 1..Len(line') /\ line'[i - 1] = c
        BY <2>1, <3>2, <3>3, LineShortens
      <3> QED BY <3>4
    <2> QED BY <2>2, <2>3 DEF Waiting
  <1>3. ASSUME NEW d \in Caller, Joins(d) PROVE Waiting'
    <2>1. /\ Len(line) \in Nat /\ Len(line') = Len(line) + 1 /\ line'[Len(line) + 1] = d
          /\ \A i \in 1..Len(line) : line'[i] = line[i]
      BY <1>3, LineGrows DEF Joins
    <2>2. Len(line) + 1 \in 1..Len(line') /\ 1..Len(line) \subseteq 1..Len(line')
      BY <2>1
    <2>3. \A c \in Caller \ {d} : pc'[c] = pc[c]
      BY <1>3 DEF Joins, Queued
    <2>4. attempt' = attempt
      BY <1>3 DEF Joins
    <2> QED BY <2>1, <2>2, <2>3, <2>4 DEF Waiting
  <1>4. ASSUME NEW d \in Caller, Hears(d) PROVE Waiting'
    <2>1. attempt' \in [Caller -> 0..MaxRetries]
      BY <1>4 DEF Hears, Waiting
    <2>2. line' = line /\ \A c \in Caller : pc'[c] = "line" => pc[c] = "line"
      BY <1>4 DEF Hears, Queued
    <2> QED BY <2>1, <2>2 DEF Waiting
  <1> QED BY <1>1, <1>2, <1>3, <1>4, StepKinds

\* How much of a call is left: its attempts, three steps each, then those before it in the
\* line.
Left(c) == CASE pc[c] = "idle" -> 0
             [] pc[c] = "line" -> 3 * (MaxRetries - attempt[c]) + 3
             [] pc[c] = "sent" -> 3 * (MaxRetries - attempt[c]) + 2
             [] pc[c] = "backoff" -> 3 * (MaxRetries - attempt[c]) + 4
Places(c) == {i \in 1..Len(line) : line[i] = c}
Place(c) == IF pc[c] = "line" THEN CHOOSE i \in Places(c) : TRUE ELSE 0

Numbered == \A c \in Caller : \A i \in 1..Len(line) :
    pc[c] = "line" /\ line[i] = c => Place(c) = i

LEMMA NumberedAlways == Queued => Numbered
  <1> SUFFICES ASSUME Queued, NEW c \in Caller, NEW i \in 1..Len(line), pc[c] = "line", line[i] = c
               PROVE  Place(c) = i
    BY DEF Numbered
  <1>1. Places(c) = {i}
    BY DEF Places, Queued
  <1>2. (CHOOSE x \in {i} : TRUE) = i
    OBVIOUS
  <1> QED BY <1>1, <1>2 DEF Place

\* A step never leaves a call more to do, nor more callers before it in the line; one that
\* moves the call on leaves it less, and one that takes the first out of the line brings
\* everybody behind it forward.
NeverFurther == \A c \in Caller : pc[c] # "idle" =>
    /\ Left(c) \in Nat \ {0} /\ Left(c)' \in 0..Left(c)
    /\ pc'[c] # pc[c] => Left(c)' < Left(c)
    /\ Left(c)' = Left(c) => Place(c)' <= Place(c)
    /\ pc[c] = "line" /\ line' = Tail(line) => Left(c)' < Left(c) \/ Place(c)' < Place(c)

LEMMA CallNearer ==
    ASSUME Queued, Waiting, Numbered, Queued', Waiting', Numbered', [Next]_vars,
           NEW c \in Caller, pc[c] # "idle"
    PROVE  /\ Left(c) \in Nat \ {0} /\ Left(c)' \in 0..Left(c)
           /\ pc'[c] # pc[c] => Left(c)' < Left(c)
           /\ Left(c)' = Left(c) => Place(c)' <= Place(c)
           /\ pc[c] = "line" /\ line' = Tail(line) => Left(c)' < Left(c) \/ Place(c)' < Place(c)
  <1> DEFINE Goal == /\ Left(c)' \in 0..Left(c)
                     /\ pc'[c] # pc[c] => Left(c)' < Left(c)
                     /\ Left(c)' = Left(c) => Place(c)' <= Place(c)
                     /\ pc[c] = "line" /\ line' = Tail(line)
                            => Left(c)' < Left(c) \/ Place(c)' < Place(c)
  <1>1. /\ attempt[c] \in 0..MaxRetries /\ MaxRetries \in Nat
        /\ pc[c] \in {"line", "sent", "backoff"}
    BY HttpClientAssumption DEF Waiting, Queued
  <1>2. Left(c) \in Nat \ {0}
    BY <1>1 DEF Left
  <1>3. ASSUME pc'[c] = pc[c], attempt'[c] = attempt[c] PROVE Left(c)' = Left(c)
    BY <1>3 DEF Left
  \* A caller that nothing moved keeps what is left of its call.
  <1>4. ASSUME pc'[c] = pc[c], attempt'[c] = attempt[c], Place(c)' <= Place(c),
               pc[c] = "line" /\ line' = Tail(line) => Place(c)' < Place(c)
        PROVE  Goal
    <2>1. Left(c)' = Left(c)
      BY <1>3, <1>4
    <2> HIDE DEF Left, Place
    <2> QED BY <1>2, <1>4, <2>1
  \* A caller that moves on has less left.
  <1>5. ASSUME Left(c)' \in Nat, Left(c)' < Left(c) PROVE Goal
    <2> HIDE DEF Left, Place
    <2> QED BY <1>2, <1>5
  <1>6. ASSUME pc[c] # "line", pc'[c] = pc[c] PROVE Place(c)' = 0 /\ Place(c) = 0
    BY <1>6 DEF Place
  <1>7. ASSUME pc[c] = "line"
        PROVE  \E i \in 1..Len(line) : line[i] = c /\ Place(c) = i
    <2>1. PICK i \in 1..Len(line) : line[i] = c
      BY <1>7 DEF Waiting
    <2> QED BY <1>7, <2>1 DEF Numbered
  <1>8. Len(line) \in Nat /\ (line # <<>> => Tail(line) # line)
    <2>1. Len(line) \in Nat
      BY LenProperties DEF Queued
    <2>2. CASE line # <<>>
      <3>1. Len(Tail(line)) = Len(line) - 1
        BY <2>2, HeadTailProperties DEF Queued
      <3> QED BY <2>1, <3>1
    <2> QED BY <2>1, <2>2
  <1>9. CASE UNCHANGED <<pc, attempt, line>>
    <2>1. Place(c)' = Place(c)
      BY <1>9 DEF Place, Places
    <2>2. ASSUME pc[c] = "line", line' = Tail(line) PROVE FALSE
      <3>1. PICK i \in 1..Len(line) : line[i] = c
        BY <1>7, <2>2
      <3>2. line # <<>>
        BY <3>1, EmptySeq, <1>8, LenProperties DEF Queued
      <3> QED BY <1>8, <1>9, <2>2, <3>2
    <2>3. Place(c)' <= Place(c)
      <3>1. Place(c) \in Nat
        BY <1>6, <1>7, <1>9, <1>8
      <3> HIDE DEF Place
      <3> QED BY <2>1, <3>1
    <2>4. Goal
      BY <1>4, <1>9, <2>2, <2>3
    <2> QED BY <1>2, <2>4
  <1>10. ASSUME NEW d \in Caller, Sends(d) PROVE Goal
    <2>1. CASE c = d
      <3>1. pc[c] = "line"
        BY <1>10, <2>1, LineShortens DEF Sends
      <3>2. pc'[c] \in {"sent", "idle"} /\ (pc'[c] = "sent" => attempt'[c] = attempt[c])
        BY <1>10, <2>1 DEF Sends, Queued
      <3>3. Left(c)' \in Nat /\ Left(c)' < Left(c)
        BY <1>1, <3>1, <3>2 DEF Left
      <3> QED BY <1>5, <3>3
    <2>2. CASE c # d
      <3>1. pc'[c] = pc[c] /\ attempt'[c] = attempt[c]
        BY <1>10, <2>2 DEF Sends, Queued, Waiting
      <3>2. CASE pc[c] # "line"
        BY <1>4, <1>6, <3>1, <3>2
      <3>3. CASE pc[c] = "line"
        <4>1. PICK i \in 1..Len(line) : line[i] = c /\ Place(c) = i
          BY <1>7, <3>3
        <4>2. i # 1 /\ i - 1 \in 1..Len(line') /\ line'[i - 1] = c
          BY <1>10, <2>2, <4>1, LineShortens DEF Sends
        <4>3. Place(c)' = i - 1
          BY <3>1, <3>3, <4>2 DEF Numbered
        <4>4. Place(c)' < Place(c)
          <5> HIDE DEF Place
          <5> QED BY <1>8, <4>1, <4>3
        <4>5. Place(c)' <= Place(c)
          <5> HIDE DEF Place
          <5> QED BY <1>8, <4>1, <4>3
        <4> QED BY <1>4, <3>1, <4>4, <4>5
      <3> QED BY <3>2, <3>3
    <2> QED BY <2>1, <2>2
  <1>11. ASSUME NEW d \in Caller, Joins(d) PROVE Goal
    <2>1. CASE c = d
      <3>1. pc[c] = "backoff" /\ pc'[c] = "line" /\ attempt'[c] = attempt[c]
        BY <1>11, <2>1, <1>1 DEF Joins, Queued
      <3>2. Left(c)' \in Nat /\ Left(c)' < Left(c)
        BY <1>1, <3>1 DEF Left
      <3> QED BY <1>5, <3>2
    <2>2. CASE c # d
      <3>1. pc'[c] = pc[c] /\ attempt'[c] = attempt[c]
        BY <1>11, <2>2 DEF Joins, Queued, Waiting
      <3>2. CASE pc[c] # "line"
        BY <1>4, <1>6, <3>1, <3>2
      <3>3. CASE pc[c] = "line"
        <4>1. PICK i \in 1..Len(line) : line[i] = c /\ Place(c) = i
          BY <1>7, <3>3
        <4>2. line'[i] = c /\ Len(line') = Len(line) + 1
          BY <1>11, <4>1, LineGrows DEF Joins
        <4>3. i \in 1..Len(line')
          BY <1>8, <4>1, <4>2
        <4>4. Place(c)' = i
          BY <3>1, <3>3, <4>2, <4>3 DEF Numbered
        <4>5. line' # Tail(line)
          <5>1. line # <<>>
            BY <4>1, EmptySeq, <1>8, LenProperties DEF Queued
          <5>2. Len(Tail(line)) = Len(line) - 1
            BY <5>1, HeadTailProperties DEF Queued
          <5> QED BY <1>8, <4>2, <5>2
        <4>6. Place(c)' <= Place(c)
          <5> HIDE DEF Place
          <5> QED BY <1>8, <4>1, <4>4
        <4> QED BY <1>4, <3>1, <4>5, <4>6
      <3> QED BY <3>2, <3>3
    <2> QED BY <2>1, <2>2
  <1>12. ASSUME NEW d \in Caller, Hears(d) PROVE Goal
    <2>1. CASE c = d
      <3>1. /\ pc[c] = "sent"
            /\ \/ pc'[c] = "idle"
               \/ pc'[c] = "backoff" /\ attempt[c] < MaxRetries /\ attempt'[c] = attempt[c] + 1
        BY <1>12, <2>1 DEF Hears, Queued, Waiting
      <3>2. Left(c)' \in Nat /\ Left(c)' < Left(c)
        BY <1>1, <3>1 DEF Left
      <3> QED BY <1>5, <3>2
    <2>2. CASE c # d
      <3>1. pc'[c] = pc[c] /\ attempt'[c] = attempt[c] /\ line' = line
        BY <1>12, <2>2 DEF Hears, Queued, Waiting
      <3>2. CASE pc[c] # "line"
        BY <1>4, <1>6, <3>1, <3>2
      <3>3. CASE pc[c] = "line"
        <4>1. PICK i \in 1..Len(line) : line[i] = c /\ Place(c) = i
          BY <1>7, <3>3
        <4>2. Place(c)' = i
          BY <3>1, <3>3, <4>1 DEF Numbered
        <4>3. line' # Tail(line)
          <5>1. line # <<>>
            BY <4>1, EmptySeq, <1>8, LenProperties DEF Queued
          <5> QED BY <1>8, <3>1, <5>1
        <4>4. Place(c)' <= Place(c)
          <5> HIDE DEF Place
          <5> QED BY <1>8, <4>1, <4>2
        <4> QED BY <1>4, <3>1, <4>3, <4>4
      <3> QED BY <3>2, <3>3
    <2> QED BY <2>1, <2>2
  <1> HIDE DEF Goal
  <1>13. Goal
    BY <1>9, <1>10, <1>11, <1>12, StepKinds DEF Goal
  <1> QED BY <1>2, <1>13 DEF Goal

(* Why every call ends, however many callers share the bucket and however  *)
(* large the limits: its attempts are bounded, what is left of it only     *)
(* goes down, and in the lock's line nobody is overtaken                   *)
(* (base.py:143-170, asyncio.Lock).  Timers and timeouts do the rest.      *)
THEOREM CallsShrink == Spec => [][NeverFurther]_vars
  <1>1. Init => Waiting
    BY HttpClientAssumption DEF Init, Waiting
  <1>2. Queued /\ Waiting /\ [Next]_vars => Waiting'
    BY WaitingStep
  <1>3. Queued /\ Waiting /\ Numbered /\ Queued' /\ Waiting' /\ Numbered' /\ [Next]_vars
            => NeverFurther
    BY CallNearer DEF NeverFurther
  <1> QED BY <1>1, <1>2, <1>3, QueuedAlways, NumberedAlways, PTL DEF Spec

(***************************************************************************)
(* Types.                                                                  *)
(***************************************************************************)
Timed ==
    /\ rest \in [Caller -> Nat]
    /\ held \in [Caller -> BOOLEAN]
    /\ gave \subseteq Ended

LEMMA EndTimed ==
    ASSUME Queued, Timed, NEW c \in Caller, pc[c] # "idle", NEW outcome \in Outcome, End(c, outcome)
    PROVE  Timed'
  <1>1. [req |-> req[c], outcome |-> outcome, asked |-> TRUE] \in Ended
    BY DEF Queued, Ended
  <1>2. held' = [held EXCEPT ![c] = FALSE] /\ rest' = rest
        /\ gave' = {[req |-> req[c], outcome |-> outcome, asked |-> TRUE]}
    BY DEF End
  <1>3. held' \in [Caller -> BOOLEAN]
    BY <1>2 DEF Timed
  <1> QED BY <1>1, <1>2, <1>3 DEF Timed

LEMMA TimedStep ==
    ASSUME \A n \in Nat : 2^n \in Nat, Queued, Waiting, Stored, Timed, [Next]_vars
    PROVE  Timed'
  <1>1. ASSUME UNCHANGED <<rest, held>>, gave' \subseteq Ended PROVE Timed'
    BY <1>1 DEF Timed
  <1>2. ASSUME NEW c \in Caller, NEW r \in Request, Hit(c, r) PROVE Timed'
    <2>1. PICK e \in Fresh(r) : gave' = {[req |-> r, outcome |-> e.data, asked |-> FALSE]}
      BY <1>2 DEF Hit
    <2>2. e.data \in Outcome
      BY DEF Fresh, Stored, Outcome
    <2>3. gave' \subseteq Ended
      BY <2>1, <2>2 DEF Ended
    <2> QED BY <1>1, <1>2, <2>3 DEF Hit, call
  <1>3. ASSUME NEW c \in Caller, NEW r \in Request, Ask(c, r) PROVE Timed'
    <2>1. held' = [held EXCEPT ![c] = TRUE] /\ rest' = rest /\ gave' = {}
      BY <1>3 DEF Ask
    <2> QED BY <2>1 DEF Timed
  <1>4. ASSUME NEW c \in Caller, line # <<>>, Head(line) = c, Send(c) PROVE Timed'
    <2>1. line' = Tail(line)
      BY <1>4 DEF Send
    <2>2. pc[c] # "idle"
      BY <1>4, <2>1, LineShortens
    <2>3. CASE held[c]
      BY <1>1, <1>4, <2>3 DEF Send
    <2>4. CASE ~held[c]
      BY <1>4, <2>2, <2>4, EndTimed DEF Send, Outcome
    <2> QED BY <2>3, <2>4
  <1>5. ASSUME NEW c \in Caller, acquire(c) \/ Wake(c) PROVE Timed'
    BY <1>1, <1>4, <1>5 DEF acquire, Wake, call
  <1>6. ASSUME NEW c \in Caller, Retry(c) PROVE Timed'
    BY <1>1, <1>6 DEF Retry
  <1>7. ASSUME NEW c \in Caller, Network(c) PROVE Timed'
    <2>1. pc[c] # "idle"
      BY <1>7 DEF Network, Answer, Garbled, Refuse, Lose
    <2>2. ASSUME NEW outcome \in Outcome, End(c, outcome) PROVE Timed'
      BY <2>1, <2>2, EndTimed
    <2>3. CASE \E data \in Data : Answer(c, data)
      BY <2>2, <2>3 DEF Answer, Outcome
    <2>4. CASE Garbled(c) \/ Refuse(c)
      BY <2>2, <2>4 DEF Garbled, Refuse, GiveUp, Outcome
    <2>5. CASE Lose(c) /\ attempt[c] >= MaxRetries
      BY <2>2, <2>5 DEF Lose, GiveUp, Outcome
    <2>6. CASE Lose(c) /\ ~(attempt[c] >= MaxRetries)
      <3>1. rest' = [rest EXCEPT ![c] = Backoff * 2^attempt[c]] /\ held' = held /\ gave' = {}
        BY <2>6 DEF Lose
      <3>2. attempt[c] \in Nat /\ Backoff \in Nat
        BY HttpClientAssumption DEF Waiting
      <3> DEFINE p == 2^attempt[c]
      <3>3. p \in Nat
        BY <3>2
      <3>4. rest' = [rest EXCEPT ![c] = Backoff * p]
        BY <3>1
      <3> HIDE DEF p
      <3>5. Backoff * p \in Nat
        BY <3>2, <3>3
      <3> QED BY <3>1, <3>4, <3>5 DEF Timed
    <2> QED BY <1>7, <2>3, <2>4, <2>5, <2>6 DEF Network
  <1>8. CASE aclose
    BY <1>8 DEF aclose, Timed
  <1>9. CASE NewReport
    BY <1>1, <1>9 DEF NewReport, call
  <1>10. CASE Tick
    BY <1>10 DEF Tick, Drained, Timed
  <1>11. CASE UNCHANGED vars
    BY <1>1, <1>11 DEF vars, call, Timed
  <1> QED BY <1>2, <1>3, <1>5, <1>6, <1>7, <1>8, <1>9, <1>10, <1>11 DEF Next, Proceed

\* Types, for any callers, requests and rates.  That a power of two is a natural number is
\* assumed because the provers have no rule for powers.
THEOREM TypeCorrect ==
    ASSUME \A n \in Nat : 2^n \in Nat
    PROVE  Spec => []TypeOK
  <1>1. Init => Timed /\ Waiting /\ Allowance /\ Reported
    <2> SUFFICES ASSUME Init PROVE Timed /\ Waiting /\ Allowance /\ Reported
      OBVIOUS
    <2>1. Timed
      BY DEF Init, Timed
    <2>2. Waiting
      BY HttpClientAssumption DEF Init, Waiting
    <2>3. Allowance
      <3>1. tokens = capacity /\ accrued = 0 /\ wait = 0 /\ meter = 0 /\ asleep = FALSE
        BY DEF Init
      <3>2. asleep \in BOOLEAN /\ ~asleep
        BY <3>1, Zenon
      <3>3. meter + tokens + accrued <= capacity /\ {tokens, accrued, wait, meter} \subseteq Nat
        BY <3>1, CapacityBound
      <3> QED BY <3>2, <3>3 DEF Allowance
    <2>4. Reported
      BY DEF Init, Reported, HealthIsTrue
    <2> QED BY <2>1, <2>2, <2>3, <2>4
  <1>2. Queued /\ Waiting /\ Stored /\ Timed /\ [Next]_vars => Timed'
    BY TimedStep
  <1>3. Queued /\ Waiting /\ Stored /\ Timed /\ Allowance /\ Reported => TypeOK
    <2> SUFFICES ASSUME Queued, Waiting, Stored, Timed, Allowance, Reported PROVE TypeOK
      OBVIOUS
    <2>1. asleep \in BOOLEAN
      BY DEF Allowance
    <2>2. {wait, meter} \subseteq Nat /\ {tokens, accrued} \subseteq 0..capacity
      BY CapacityBound DEF Allowance
    <2> QED BY <2>1, <2>2 DEF TypeOK, Queued, Waiting, Stored, Timed, Reported
  <1> QED BY <1>1, <1>2, <1>3, QueuedAlways, WaitingStep, StoredAlways, AllowanceStep,
             ReportedStep, PTL DEF Spec
===============================================================================
