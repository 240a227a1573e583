------------------------------- MODULE Evidence -------------------------------
(***************************************************************************)
(* What normalize() and the gates make of a bundle.  Pure; Collection      *)
(* fills the bundle.                                                       *)
(*                                                                         *)
(* A bundle maps each upstream call to what it answered: a function from   *)
(* the fields it had a value for to how that value stands to the gates.    *)
(* A call that failed, or answered nothing, maps to the empty function: a  *)
(* None is the same to normalize() whatever it comes from.                 *)
(***************************************************************************)
EXTENDS Naturals, Sequences, FiniteSets

\* A value that a gate rejects, that a gate leaves to a person, that passes.
Level == {"bad", "open", "good"}

Nothing == <<>>

\* What a token comes with: its hot-list row, its stored history, the operator's
\* reviewed unlock schedule.
Given == {"hot", "history", "override"}

Calls == {"dexscreener", "geckoterminal", "price_info", "basic_info", "advanced_info",
          "okx_holders", "trades", "top_liquidity", "erc20", "erc20_symbol",
          "contract_risk_flags", "find_deploy_block", "is_verified", "token_counters",
          "token_metadata", "resolve_contract_spot", "order_book", "token_holders",
          "latest_price"}

Origin == Given \cup Calls

\* normalize applies these in order and the first that has the field wins.
Precedence ==
    [volume     |-> <<"dexscreener", "geckoterminal", "price_info", "hot">>,
     window     |-> <<"dexscreener", "price_info">>,
     tx_count   |-> <<"dexscreener", "price_info", "hot">>,
     change     |-> <<"dexscreener", "price_info", "hot">>,
     holders    |-> <<"price_info", "hot", "token_counters">>,
     top1       |-> <<"okx_holders", "token_holders">>,
     top10      |-> <<"hot", "okx_holders", "token_holders", "advanced_info">>,
     bundled    |-> <<"hot", "advanced_info">>,
     sniper     |-> <<"advanced_info">>,
     suspicious |-> <<"advanced_info">>,
     trades     |-> <<"trades">>,
     buy_ratio  |-> <<"hot", "dexscreener", "trades">>,
     spread     |-> <<"order_book">>,
     age        |-> <<"find_deploy_block">>,
     verified   |-> <<"is_verified">>,
     unlock     |-> <<"override">>,
     instrument |-> <<"resolve_contract_spot">>]

Direct == DOMAIN Precedence
Derived == {"liquidity", "slippage", "supply", "growth", "base", "prices", "flags"}
Measure == Direct \cup Derived

-----------------------------------------------------------------------------
Has(got, o, f) == f \in DOMAIN got[o]

\* The chain's own supply wins, once it can be scaled; a zero from GeckoTerminal
\* counts as missing.
supply(got) ==
    IF Has(got, "erc20", "supply") /\ Has(got, "erc20", "decimals")
    THEN got["erc20"]["supply"]
    ELSE IF Has(got, "geckoterminal", "supply") /\ got["geckoterminal"]["supply"] # "bad"
    THEN got["geckoterminal"]["supply"]
    ELSE "unknown"

\* Balances become shares only over a total supply that is not zero.
Usable(got, o, f) ==
    /\ Has(got, o, f)
    /\ o = "token_holders" => supply(got) \notin {"unknown", "bad"}

First(got, f) ==
    LET order == Precedence[f]
        usable == {i \in DOMAIN order : Usable(got, order[i], f)}
    IN  IF usable = {} THEN "unknown"
        ELSE got[order[CHOOSE i \in usable : \A j \in usable : i <= j]][f]

Worst(levels) ==
    CASE levels = {}      -> "unknown"
      [] "bad" \in levels  -> "bad"
      [] "open" \in levels -> "open"
      [] OTHER             -> "good"

\* price_info is applied with the market fields, before reconcile_liquidity takes
\* the minimum, which then only fills a gap.
liquidity(got) ==
    IF Has(got, "price_info", "liquidity") THEN got["price_info"]["liquidity"]
    ELSE Worst({got[o]["liquidity"] :
                  o \in {p \in {"hot", "dexscreener", "geckoterminal"} : Has(got, p, "liquidity")}})

\* The walk through the exchange's asks, else the constant-product estimate.
slippage(got) ==
    IF Has(got, "order_book", "slippage") THEN got["order_book"]["slippage"]
    ELSE CASE liquidity(got) = "unknown" -> "unknown"
           [] liquidity(got) = "bad"     -> "bad"
           [] OTHER                      -> "good"

\* Who quotes a price: the hot list only stands in for price_info, the book only
\* counts for an instrument that is available.
Quoting(got) ==
    {o \in {"price_info", "hot", "dexscreener", "geckoterminal", "latest_price", "order_book"} :
        /\ Has(got, o, "price")
        /\ o = "hot" => ~Has(got, "price_info", "price")
        /\ o = "order_book" => First(got, "instrument") = "good"}

\* One quote cannot be cross-checked; two that differ are too far apart.
prices(got) ==
    LET quotes == {got[o]["price"] : o \in Quoting(got)}
    IN  IF \A o, p \in Quoting(got) : o = p THEN "unknown"
        ELSE IF \E q, r \in quotes : q # r THEN "bad" ELSE "good"

\* Growth and base compare a measurement with the history.
growth(got) ==
    IF First(got, "holders") # "unknown" /\ Has(got, "history", "growth")
    THEN got["history"]["growth"] ELSE "unknown"

base(got) ==
    IF Quoting(got) # {} /\ Has(got, "history", "base")
    THEN got["history"]["base"] ELSE "unknown"

\* The bytecode scan and the tags OKX gives the token, in one list of flags.
Scan(got) == got["contract_risk_flags"]

OwnerCanMint(got) ==
    /\ {"mint", "owner"} \subseteq DOMAIN Scan(got)
    /\ Scan(got)["owner"] = "open"

\* Variant with a bug: an empty list of flags passes.
ScannedAlways(got) == TRUE

\* Some flag was raised, or the proxy slot was read.
Scanned(got) ==
    \/ \E f \in {"code", "owner"} \cap DOMAIN Scan(got) : Scan(got)[f] # "good"
    \/ {"mint", "proxy"} \cap DOMAIN Scan(got) # {}

flags(got) ==
    IF Has(got, "advanced_info", "tags") /\ got["advanced_info"]["tags"] = "bad" THEN "bad"
    ELSE IF ~Scanned(got) THEN "unknown"
    ELSE IF OwnerCanMint(got) THEN "bad"
    ELSE Worst({"good"} \cup {Scan(got)[f] : f \in {"code", "proxy"} \cap DOMAIN Scan(got)})

normalize(got) ==
    [m \in Measure |->
        CASE m = "liquidity" -> liquidity(got)
          [] m = "slippage"  -> slippage(got)
          [] m = "supply"    -> supply(got)
          [] m = "growth"    -> growth(got)
          [] m = "base"      -> base(got)
          [] m = "prices"    -> prices(got)
          [] m = "flags"     -> flags(got)
          [] OTHER           -> First(got, m)]

-----------------------------------------------------------------------------
(***************************************************************************)
(* The gates: what an unknown value costs, per measure.  A bad value is    *)
(* HARD except where only the venue is lacking.  The distance to the 7-day *)
(* base is the one value whose absence costs nothing.                      *)
(***************************************************************************)
HardIfUnknown == {"liquidity", "holders", "top1", "top10", "verified", "flags", "supply", "unlock"}
DataIfUnknown == {"slippage", "volume", "tx_count", "trades", "growth", "age", "change"}

\* Variant with a bug: what only the advanced endpoint measures is optional.
ReviewIfMeasured == {"spread", "window", "buy_ratio", "bundled", "prices", "instrument"}

ReviewIfUnknown ==
    {"spread", "window", "buy_ratio", "sniper", "bundled", "suspicious", "prices", "instrument"}

Venue == {"spread", "instrument"}

Hard(s) ==
    \/ \E m \in HardIfUnknown : s[m] = "unknown"
    \/ \E m \in Measure \ Venue : s[m] = "bad"

Data(s) == \E m \in DataIfUnknown : s[m] = "unknown"

Review(s) ==
    \/ \E m \in ReviewIfUnknown : s[m] = "unknown"
    \/ \E m \in Venue : s[m] = "bad"
    \/ \E m \in Measure : s[m] = "open"

summarize(s) == [hard |-> Hard(s), data |-> Data(s), review |-> Review(s)]
===============================================================================
