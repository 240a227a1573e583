------------------------------ MODULE Collection ------------------------------
(***************************************************************************)
(* collect(): one token's evidence, gathered by coroutines that run side   *)
(* by side in two phases (run_sources), each source making its calls in    *)
(* turn.  Every call may answer, fail with a ClientError, which its source *)
(* handles, or raise something else, which ends the source and is only     *)
(* logged.                                                                 *)
(*                                                                         *)
(* Names of tokens, explorer counters of the log and the transfer sample,  *)
(* which no gate reads, are left out.                                      *)
(***************************************************************************)
EXTENDS Evidence

CONSTANTS
    Payload,        \* per origin: what it can answer, or be
    Ways,           \* how a call can end: "answers", "fails", "raises"
    Enabled,        \* sources that are configured, the oracle among them
    Decimals        \* the token's real number of decimals

PhaseOne == {"dexscreener", "geckoterminal", "okx", "node", "explorer", "rh_data"}
PhaseTwo == {"okx_trade", "holders"}
Source == PhaseOne \cup PhaseTwo

Script ==
    [dexscreener   |-> <<"dexscreener">>,
     geckoterminal |-> <<"geckoterminal">>,
     okx           |-> <<"price_info", "basic_info", "advanced_info", "okx_holders", "trades",
                         "top_liquidity">>,
     node          |-> <<"erc20", "erc20_symbol", "contract_risk_flags", "find_deploy_block">>,
     explorer      |-> <<"is_verified", "token_counters">>,
     rh_data       |-> <<"token_metadata">>,
     okx_trade     |-> <<"resolve_contract_spot", "order_book">>,
     holders       |-> <<"token_holders">>]

Ended(s) == Len(Script[s]) + 1

\* The index of a call in the node's script.
ScanCall == 3

ASSUME CollectionAssumption ==
    /\ Enabled \subseteq Source \cup {"oracle"}
    /\ Decimals \in Nat
    /\ Ways \subseteq {"answers", "fails", "raises"}
    /\ \A o \in Origin : \A r \in Payload[o] : \A f \in DOMAIN r : r[f] \in Level
    /\ \A r \in Payload["contract_risk_flags"] : "code" \in DOMAIN r

VARIABLES
    got,        \* the bundle
    at,         \* per source: the call it is waiting for
    phase,      \* the two run_sources; then "done", or "failed" by an exception
    symbol,     \* whether ref.symbol is set
    basis       \* what the explorer's balances were put on: decimals known, pools

vars == <<got, at, phase, symbol, basis>>

Running(s) == at[s] < Ended(s)
Pending(s) == Script[s][at[s]]

\* Variant with a bug: gather returns when the first of them has.
SettledFirst(sources) == \E s \in sources : ~Running(s)

\* gather returns when its coroutines have.
Settled(sources) == \A s \in sources : ~Running(s)

\* Disabled clients return at once; so does a source of phase two that finds
\* nothing to do when it starts.
Idle(s, named) ==
    \/ s \notin Enabled
    \/ s = "okx_trade" /\ ~named
    \/ s = "holders" /\ got["okx_holders"] # Nothing

Start(s) == IF s \in PhaseOne \cap Enabled THEN 1 ELSE Ended(s)

\* The exchange lists the very token.
Listed(r) == "instrument" \in DOMAIN r /\ r["instrument"] = "good"

\* Variant with a bug: after a failed scan the node's source starts over.
AfterWithRetry(s, how, r) ==
    IF how = "raises" THEN Ended(s)
    ELSE CASE Pending(s) = "erc20" -> IF how = "fails" THEN ScanCall
                                      ELSE IF symbol THEN Ended(s) ELSE at[s] + 1
           [] Pending(s) = "contract_risk_flags" /\ how = "fails" -> 1
           [] OTHER -> at[s] + 1

\* The next call of a source.  An ERC-20 read that succeeded is followed by the
\* symbol, if there is none, and then by b.onchain_total_supply, an attribute that
\* RawBundle does not have: the node's source raises before it scans the bytecode.
\* The order book is only read for an instrument.
After(s, how, r) ==
    IF how = "raises" THEN Ended(s)
    ELSE CASE Pending(s) = "erc20" -> IF how = "fails" THEN ScanCall
                                      ELSE IF symbol THEN Ended(s) ELSE at[s] + 1
           [] Pending(s) = "erc20_symbol" -> Ended(s)
           [] Pending(s) = "resolve_contract_spot" -> IF Listed(r) THEN at[s] + 1 ELSE Ended(s)
           [] OTHER -> at[s] + 1

DecimalsKnown == Has(got, "erc20", "decimals")

\* Balances are divided by 10^18 while the decimals are not known: the shares of a
\* token with fewer come out tiny, with more they come out huge.
Scaled(r) ==
    [f \in DOMAIN r |->
        IF DecimalsKnown \/ Decimals = 18 THEN r[f]
        ELSE IF Decimals < 18 THEN "good" ELSE "bad"]

\* What a call leaves in the bundle.
Stored(o, r) == IF o = "token_holders" THEN Scaled(r) ELSE r

\* Two calls set ref.symbol.  The node's had found it empty before it was made, and
\* overwrites what DexScreener has set since, be it with nothing.
Named(o, how, r) ==
    CASE o = "dexscreener" -> symbol \/ "symbol" \in DOMAIN r
      [] o = "erc20_symbol" /\ how # "raises" -> "symbol" \in DOMAIN r
      [] OTHER -> symbol

-----------------------------------------------------------------------------
Init ==
    /\ \E h \in Payload["hot"], p \in Payload["history"], u \in Payload["override"] :
          got = [o \in Origin |->
                    CASE o = "hot" -> h [] o = "history" -> p [] o = "override" -> u
                      [] OTHER -> Nothing]
    /\ at = [s \in Source |-> Start(s)]
    /\ phase = "first"
    /\ symbol \in BOOLEAN
    /\ basis = {}

\* A call that fails or raises leaves what RawBundle starts with.
Answer(o, how) == IF how = "answers" THEN Payload[o] ELSE {Nothing}

\* The call a source waits for returns or raises; the source handles that and goes
\* on to its next call.
Return(s, how, r) ==
    /\ Running(s)
    /\ r \in Answer(Pending(s), how)
    /\ got' = [got EXCEPT ![Pending(s)] = Stored(Pending(s), r)]
    /\ at' = [at EXCEPT ![s] = After(s, how, r)]
    /\ symbol' = Named(Pending(s), how, r)
    /\ basis' = IF Pending(s) = "token_holders" /\ r # Nothing
                THEN {[decimals |-> DecimalsKnown, pools |-> got["top_liquidity"]]}
                ELSE basis
    /\ UNCHANGED phase

\* Between the phases the symbol is taken from OKX and from Alchemy if need be.
StartPhaseTwo ==
    /\ phase = "first"
    /\ Settled(PhaseOne)
    /\ phase' = "second"
    /\ symbol' = (symbol \/ Has(got, "basic_info", "symbol") \/ Has(got, "token_metadata", "symbol"))
    /\ at' = [s \in Source |-> IF s \in PhaseTwo /\ ~Idle(s, symbol') THEN 1 ELSE at[s]]
    /\ UNCHANGED <<got, basis>>

\* The oracle is asked outside run_sources: what it raises fails the token.
ReadOracle(how, r) ==
    /\ phase = "second"
    /\ Settled(PhaseTwo)
    /\ IF "oracle" \in Enabled /\ symbol
       THEN r \in Answer("latest_price", how)
       ELSE how = "answers" /\ r = Nothing
    /\ got' = [got EXCEPT !["latest_price"] = r]
    /\ phase' = IF how = "raises" THEN "failed" ELSE "done"
    /\ UNCHANGED <<at, symbol, basis>>

Returns(s) ==
    /\ Running(s)
    /\ \E how \in Ways : \E r \in Answer(Pending(s), how) : Return(s, how, r)

\* latest_price handles the failures of its own calls.
Oracle ==
    \E how \in Ways \cup {"answers"} :
        \E r \in {Nothing} \cup Payload["latest_price"] : ReadOracle(how, r)

Next == (\E s \in Source : Returns(s)) \/ StartPhaseTwo \/ Oracle

Spec == Init /\ [][Next]_vars

\* Every call has a timeout and a bounded number of retries, so it returns.
FairSpec ==
    /\ Spec
    /\ \A s \in Source : WF_vars(Returns(s))
    /\ WF_vars(StartPhaseTwo)
    /\ WF_vars(Oracle)

-----------------------------------------------------------------------------
\* What normalize and the gates say once collect has returned.
Judged == phase = "done"
Snapshot == normalize(got)
Clean == Judged /\ ~Hard(Snapshot) /\ ~Data(Snapshot)
Buyable == Clean /\ ~Review(Snapshot)

Answered(o, fields) == fields \subseteq DOMAIN got[o]

TypeOK ==
    /\ \A o \in Origin : \A f \in DOMAIN got[o] : got[o][f] \in Level
    /\ \A s \in Source : at[s] \in 1..Ended(s)
    /\ phase = "first" => Settled(PhaseTwo)
    /\ phase \in {"first", "second", "done", "failed"}
    /\ phase # "first" => Settled(PhaseOne)
    /\ symbol \in BOOLEAN

\* Whatever fails, in whatever order: a clean verdict rests on a bytecode that was
\* fetched, a verified source, a known supply and liquidity, counted holders whose
\* shares are known, the chain's word on the age, OKX's trades and a reviewed unlock.
\* "a broken gate must not open the door", "Here an unknown value can never satisfy
\* a gate" (risk.py), for the values that keep to it.
CleanIsKnown ==
    Clean =>
        /\ Answered("contract_risk_flags", {"code"})
        /\ got["is_verified"]["verified"] # "bad" /\ Answered("is_verified", {"verified"})
        /\ Answered("erc20", {"supply", "decimals"}) \/ Answered("geckoterminal", {"supply"})
        /\ \E o \in Origin : Answered(o, {"liquidity"})
        /\ \E o \in Origin : Answered(o, {"holders"})
        /\ Answered("okx_holders", {"top1"}) \/ Answered("token_holders", {"top1"})
        /\ Answered("find_deploy_block", {"age"})
        /\ Answered("trades", {"trades"})
        /\ Answered("history", {"growth"})
        /\ Answered("override", {"unlock"})

\* A token that may be bought was looked up at the one endpoint that tells a honeypot,
\* its trades were sampled, it has its own instrument and book, and two feeds quote
\* it: no outage turns a rejection into more than an alert.
BuyableIsScreened ==
    Buyable =>
        /\ Answered("advanced_info", {"sniper", "suspicious"})
        /\ Answered("trades", {"trades"})
        /\ Answered("resolve_contract_spot", {"instrument"})
        /\ Answered("order_book", {"spread"})
        /\ \E o, p \in Quoting(got) : o # p

\* Balances are put on the decimals and cleared of the pools that phase one found, not
\* on what it had found so far.  "This avoids the old race that silently assumed 18
\* decimals while an on-chain read was still running" (ingest.py).
BasisIsFinal ==
    \A b \in basis : b = [decimals |-> DecimalsKnown, pools |-> got["top_liquidity"]]

\* Whatever its sources do, collect returns or raises.
CollectEnds == <>(phase \in {"done", "failed"})

\* With a node configured and nothing failing, the runtime code is scanned: "Every
\* source is individually guarded" (ingest.py).
CodeArrives == Judged /\ "node" \in Enabled => Answered("contract_risk_flags", {"code"})
===============================================================================
