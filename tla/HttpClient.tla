------------------------------ MODULE HttpClient ------------------------------
(***************************************************************************)
(* One upstream's client, BaseHTTPClient, as its concurrent callers share  *)
(* it: the token bucket, the retries, the cache, its shutdown, and the two *)
(* tallies of the cycle's health report: connections, which the transport  *)
(* records, and sources, which the pipeline records of what arrived.       *)
(*                                                                         *)
(* A tick is 1/One of a second.  The bucket is counted in units: a token   *)
(* is One of them, and a tick refills Rps.  All timers are relative, so    *)
(* the clock needs no bound.                                               *)
(***************************************************************************)
EXTENDS Integers, Sequences, FiniteSets

CONSTANTS
    Caller,         \* coroutines that share the client
    Request,        \* what is asked: one path with its parameters
    Endpoint,       \* labels of the report
    endpoint_label, \* the label of a request: its path without addresses
    Cached,         \* requests made with a cache_key
    Softened,       \* endpoints whose client method turns a ClientError into None
    One,            \* ticks in a second, units of a token
    Rps,            \* rps, tokens in a second
    MaxRetries,     \* max_retries
    Backoff,        \* backoff_base_s, in ticks
    Ttl,            \* ttl_s, in ticks
    MaxSize         \* maxsize of the cache

ASSUME HttpClientAssumption ==
    /\ {One, Rps, MaxSize} \subseteq Nat \ {0}
    /\ {MaxRetries, Backoff, Ttl} \subseteq Nat
    /\ endpoint_label \in [Request -> Endpoint]
    /\ Cached \subseteq Request

VARIABLES
    pc,         \* per caller: "idle", "line", "sent" or "backoff"
    req,        \* per caller: what it asks, None when idle
    attempt,    \* per caller: the number of the attempt
    rest,       \* per caller: ticks of its backoff that are left
    held,       \* per caller: is the connection pool it took still open
    gave,       \* the calls that ended in the last step: what they asked and got
    line,       \* callers in the bucket's lock, the holder first
    asleep,     \* does the holder sleep until there is a token
    wait,       \* how long: the units that are missing
    tokens,     \* _tokens
    accrued,    \* what has been refilled since _last, as far as the bucket can take it
    cache,      \* per request: the entry, {} or one record of its data and ticks left
    conn,       \* per endpoint: which of "ok" and "failed" its connection counts
    source,     \* per endpoint: which of "ok", "empty" and "failed" its source counts
    meter       \* the units sent so far, drained as the rate allows: what the bucket
                \* owes over every window of time

call == <<pc, req, attempt, rest, held>>
bucket == <<line, asleep, wait, tokens, accrued, meter>>
report == <<conn, source>>
vars == <<call, gave, bucket, cache, report>>

None == "none"

\* What a call gives its caller.  The upstream may say that something is wrong in the
\* body of a good answer; an exception that is no ClientError escapes request().
Data == {"rows", "nothing", "error body"}
Outcome == Data \cup {"ClientError", "escaped"}

\* An ended call; `asked`: it went to the network and not to the cache.
Ended == [req : Request, outcome : Outcome, asked : BOOLEAN]

Least(a, b) == IF a < b THEN a ELSE b
Drained(a, b) == IF a < b THEN 0 ELSE a - b

capacity == IF Rps > 1 THEN Rps * One ELSE One

-----------------------------------------------------------------------------
(***************************************************************************)
(* The cache.                                                              *)
(***************************************************************************)
\* An entry is served until its ticks are below zero; then it only takes room.
Fresh(r) == {e \in cache[r] : e.left >= 0}

Entries == {r \in Request : cache[r] # {}}

\* Variant with a bug: the cache is never emptied.
set_unbounded(r, data) == [cache EXCEPT ![r] = {[data |-> data, left |-> Ttl]}]

\* A full cache is cleared whole before the entry goes in.
set(r, data) ==
    LET kept == IF Cardinality(Entries) >= MaxSize THEN [q \in Request |-> {}] ELSE cache
    IN  [kept EXCEPT ![r] = {[data |-> data, left |-> Ttl]}]

(***************************************************************************)
(* The health report.                                                      *)
(***************************************************************************)
\* What the pipeline records of a call: a method that turns a ClientError into None
\* makes the failure look like an endpoint that has nothing for the token.
record(r, outcome) ==
    LET e == endpoint_label[r]
        bin == CASE outcome = "rows" -> "ok"
                 [] outcome = "nothing" -> "empty"
                 [] outcome = "escaped" -> "failed"
                 [] OTHER -> IF e \in Softened THEN "empty" ELSE "failed"
    IN  source' = [source EXCEPT ![e] = @ \cup {bin}]

\* What the transport records of it: what escapes is not counted.
Counted(r, bins) == conn' = [conn EXCEPT ![endpoint_label[r]] = @ \cup bins]

silent(bins) == bins # {} /\ "ok" \notin bins

dead_connections == {e \in Endpoint : silent(conn[e]) /\ "failed" \in conn[e]}

\* The call of c ends with this.
End(c, outcome) ==
    /\ pc' = [pc EXCEPT ![c] = "idle"]
    /\ req' = [req EXCEPT ![c] = None]
    /\ attempt' = [attempt EXCEPT ![c] = 0]
    /\ held' = [held EXCEPT ![c] = FALSE]
    /\ gave' = {[req |-> req[c], outcome |-> outcome, asked |-> TRUE]}
    /\ record(req[c], outcome)
    /\ UNCHANGED rest

-----------------------------------------------------------------------------
Init ==
    /\ pc = [c \in Caller |-> "idle"]
    /\ req = [c \in Caller |-> None]
    /\ attempt = [c \in Caller |-> 0]
    /\ rest = [c \in Caller |-> 0]
    /\ held = [c \in Caller |-> FALSE]
    /\ gave = {}
    /\ line = <<>>
    /\ asleep = FALSE
    /\ wait = 0
    /\ tokens = capacity
    /\ accrued = 0
    /\ cache = [r \in Request |-> {}]
    /\ conn = [e \in Endpoint |-> {}]
    /\ source = [e \in Endpoint |-> {}]
    /\ meter = 0

\* request() is answered from the cache: no connection is counted.
Hit(c, r) ==
    /\ pc[c] = "idle"
    /\ r \in Cached
    /\ \E e \in Fresh(r) : /\ gave' = {[req |-> r, outcome |-> e.data, asked |-> FALSE]}
                           /\ record(r, e.data)
    /\ UNCHANGED <<call, bucket, cache, conn>>

\* request() has to ask: it drops an expired entry, opens the pool if there is none
\* and goes for a token.
Ask(c, r) ==
    /\ pc[c] = "idle"
    /\ r \in Cached => Fresh(r) = {}
    /\ pc' = [pc EXCEPT ![c] = "line"]
    /\ req' = [req EXCEPT ![c] = r]
    /\ held' = [held EXCEPT ![c] = TRUE]
    /\ gave' = {}
    /\ line' = Append(line, c)
    /\ cache' = IF r \in Cached THEN [cache EXCEPT ![r] = {}] ELSE cache
    /\ UNCHANGED <<attempt, rest, asleep, wait, tokens, accrued, meter, report>>

\* acquire() has returned: the attempt leaves, unless the pool was closed meanwhile.
Send(c) ==
    /\ line' = Tail(line)
    /\ meter' = meter + One
    /\ IF held[c]
       THEN /\ pc' = [pc EXCEPT ![c] = "sent"]
            /\ gave' = {}
            /\ UNCHANGED <<req, attempt, rest, held, source>>
       ELSE End(c, "escaped")
    /\ UNCHANGED <<cache, conn>>

\* Variant with a bug: the refill is not consumed by the one who takes a token.
acquire_keeping_time(c) ==
    /\ line # <<>> /\ Head(line) = c /\ ~asleep
    /\ LET now == tokens + accrued
       IN  IF now >= One
           THEN /\ tokens' = now - One
                /\ UNCHANGED <<asleep, wait, accrued>>
                /\ Send(c)
           ELSE /\ tokens' = now
                /\ accrued' = 0
                /\ asleep' = TRUE
                /\ wait' = One - now
                /\ gave' = {}
                /\ UNCHANGED <<call, line, meter, cache, report>>

\* The holder of the lock refills the bucket and takes a token or, with the lock held,
\* sleeps until there is one.
acquire(c) ==
    /\ line # <<>> /\ Head(line) = c /\ ~asleep
    /\ accrued' = 0
    /\ LET now == tokens + accrued
       IN  IF now >= One
           THEN /\ tokens' = now - One
                /\ UNCHANGED <<asleep, wait>>
                /\ Send(c)
           ELSE /\ tokens' = now
                /\ asleep' = TRUE
                /\ wait' = One - now
                /\ gave' = {}
                /\ UNCHANGED <<call, line, meter, cache, report>>

\* The sleeper wakes, at the earliest when its wait is over, and leaves an empty bucket.
Wake(c) ==
    /\ line # <<>> /\ Head(line) = c /\ asleep /\ wait = 0
    /\ asleep' = FALSE
    /\ tokens' = 0
    /\ accrued' = 0
    /\ UNCHANGED wait
    /\ Send(c)

\* A good answer.
Answer(c, data) ==
    /\ pc[c] = "sent"
    /\ data \in Data
    /\ cache' = IF req[c] \in Cached /\ data # "nothing" THEN set(req[c], data) ELSE cache
    /\ Counted(req[c], {"ok"})
    /\ End(c, data)
    /\ UNCHANGED <<bucket>>

\* A good answer that is no JSON.
Garbled(c) ==
    /\ pc[c] = "sent"
    /\ End(c, "escaped")
    /\ UNCHANGED <<bucket, cache, conn>>

GiveUp(c) ==
    /\ Counted(req[c], {"failed"})
    /\ End(c, "ClientError")

\* A status of 400 or more that is not worth a retry.
Refuse(c) ==
    /\ pc[c] = "sent"
    /\ GiveUp(c)
    /\ UNCHANGED <<bucket, cache>>

\* Variant with a bug: every attempt that fails counts as a failed connection.
Lose_counting(c) ==
    /\ pc[c] = "sent"
    /\ IF attempt[c] >= MaxRetries
       THEN GiveUp(c)
       ELSE /\ pc' = [pc EXCEPT ![c] = "backoff"]
            /\ attempt' = [attempt EXCEPT ![c] = @ + 1]
            /\ rest' = [rest EXCEPT ![c] = Backoff * 2^attempt[c]]
            /\ Counted(req[c], {"failed"})
            /\ gave' = {}
            /\ UNCHANGED <<req, held, source>>
    /\ UNCHANGED <<bucket, cache>>

\* Variant with a bug: the last attempt is retried as well.
Lose_forever(c) ==
    /\ pc[c] = "sent"
    /\ pc' = [pc EXCEPT ![c] = "backoff"]
    /\ rest' = [rest EXCEPT ![c] = Backoff]
    /\ gave' = {}
    /\ UNCHANGED <<req, attempt, held, report, bucket, cache>>

\* No answer, or a status worth a retry: after the last attempt the call gives up.
Lose(c) ==
    /\ pc[c] = "sent"
    /\ IF attempt[c] >= MaxRetries
       THEN GiveUp(c)
       ELSE /\ pc' = [pc EXCEPT ![c] = "backoff"]
            /\ attempt' = [attempt EXCEPT ![c] = @ + 1]
            /\ rest' = [rest EXCEPT ![c] = Backoff * 2^attempt[c]]
            /\ gave' = {}
            /\ UNCHANGED <<req, held, report>>
    /\ UNCHANGED <<bucket, cache>>

\* The backoff is over; its jitter is part of how late this may be.
Retry(c) ==
    /\ pc[c] = "backoff" /\ rest[c] = 0
    /\ pc' = [pc EXCEPT ![c] = "line"]
    /\ line' = Append(line, c)
    /\ gave' = {}
    /\ UNCHANGED <<req, attempt, rest, held, asleep, wait, tokens, accrued, meter,
                   cache, report>>

\* The services are closed under their callers; the next to ask opens a new pool.
aclose ==
    /\ \E c \in Caller : held[c]
    /\ held' = [c \in Caller |-> FALSE]
    /\ gave' = {}
    /\ UNCHANGED <<pc, req, attempt, rest, bucket, cache, report>>

\* The next cycle starts with a report of its own.
NewReport ==
    /\ \A c \in Caller : pc[c] = "idle"
    /\ conn' = [e \in Endpoint |-> {}]
    /\ source' = [e \in Endpoint |-> {}]
    /\ gave' = {}
    /\ UNCHANGED <<call, bucket, cache>>

Tick ==
    /\ accrued' = Least(capacity - tokens, accrued + Rps)
    /\ wait' = IF asleep THEN Drained(wait, Rps) ELSE wait
    /\ meter' = Drained(meter, Rps)
    /\ rest' = [c \in Caller |-> Drained(rest[c], 1)]
    /\ cache' = [r \in Request |-> {[e EXCEPT !.left = IF @ < 0 THEN @ ELSE @ - 1] : e \in cache[r]}]
    /\ gave' = {}
    /\ UNCHANGED <<pc, req, attempt, held, line, asleep, tokens, report>>

\* What the network makes of an attempt.
Network(c) ==
    \/ \E data \in Data : Answer(c, data)
    \/ Garbled(c)
    \/ Refuse(c)
    \/ Lose(c)

\* What a caller does once it has asked; exactly one of these is its turn.
Proceed(c) == acquire(c) \/ Wake(c) \/ Retry(c) \/ Network(c)

Next ==
    \/ \E c \in Caller : Proceed(c) \/ \E r \in Request : Hit(c, r) \/ Ask(c, r)
    \/ aclose \/ NewReport \/ Tick

Spec == Init /\ [][Next]_vars

\* Time passes, timers fire, and every attempt has a timeout; nobody has to call.
FairSpec == Spec /\ WF_vars(Tick) /\ \A c \in Caller : WF_vars(Proceed(c))

-----------------------------------------------------------------------------
TypeOK ==
    /\ pc \in [Caller -> {"idle", "line", "sent", "backoff"}]
    /\ req \in [Caller -> Request \cup {None}]
    /\ attempt \in [Caller -> 0..MaxRetries]
    /\ rest \in [Caller -> Nat]
    /\ held \in [Caller -> BOOLEAN]
    /\ gave \subseteq Ended
    /\ line \in Seq(Caller)
    /\ asleep \in BOOLEAN
    /\ {wait, meter} \subseteq Nat
    /\ {tokens, accrued} \subseteq 0..capacity
    /\ cache \in [Request -> SUBSET [data : Data, left : -1..Ttl]]
    /\ conn \in [Endpoint -> SUBSET {"ok", "failed"}]
    /\ source \in [Endpoint -> SUBSET {"ok", "empty", "failed"}]

\* Over every window of time, however the callers and their retries interleave, no
\* more attempts leave than the bucket holds plus what the rate refills.  (RateLimiter:
\* the lock is kept over the sleep, and the sleeper leaves an empty bucket.)
RateKept == meter <= capacity

\* The report tells a dead connection from an endpoint that has nothing: a call that
\* gave up is counted as failed even when its method made None of it; a connection is
\* counted as failed only when somebody went without data for it; and of a dead one
\* nothing arrived but what the cache still had.  ("The transport layer still knows
\* the difference", SourceReport.)
HealthIsTrue ==
    /\ \A g \in gave :
          LET e == endpoint_label[g.req]
          IN  /\ g.outcome = "ClientError" => "failed" \in conn[e]
              /\ g.outcome = "rows" /\ e \in dead_connections => ~g.asked
    /\ \A e \in Endpoint :
          "failed" \in conn[e] => source[e] \cap {"failed", "empty"} # {}

\* The cache never outgrows its size, expired entries included.
CacheFits == Cardinality(Entries) <= MaxSize

\* Every call ends, by an answer, a ClientError or an exception: the lock is handed on,
\* sleeps and backoffs are finite, and so are the retries.
EveryCallEnds == \A c \in Caller : pc[c] # "idle" ~> pc[c] = "idle"
===============================================================================
