--------------------------- MODULE CollectionProofs ---------------------------
(***************************************************************************)
(* Theorems about Collection, for every token, every set of configured     *)
(* sources and every answer they can give.                                 *)
(*                                                                         *)
(* The verdict is a function of the bundle, so CleanIsKnown and            *)
(* BuyableIsScreened follow from what normalize and the gates do           *)
(* (KnownHard, KnownData, KnownReview) and from ScanWhole, the one thing   *)
(* to know of the answers.  BasisIsFinal is about the order of events; its *)
(* inductive form is BasisKept: no call of phase two touches what the      *)
(* basis recorded.                                                         *)
(***************************************************************************)
EXTENDS Collection, TLAPS

NodeCalls == {"erc20", "erc20_symbol", "contract_risk_flags", "find_deploy_block"}

\* What the scripts say: every source makes its own calls.
LEMMA Scripts ==
    ASSUME NEW s \in Source
    PROVE  /\ Len(Script[s]) \in Nat
           /\ Len(Script[s]) >= 1
           /\ \A k \in 1..Len(Script[s]) :
                /\ Script[s][k] \in Calls
                /\ Script[s][k] \in NodeCalls => s = "node"
                /\ Script[s][k] = "top_liquidity" => s = "okx"
                /\ Script[s][k] = "token_holders" => s = "holders"
<1>1. CASE s = "dexscreener"
  <2>1. Script[s] = <<"dexscreener">>
    BY <1>1 DEF Script
  <2> QED  BY <1>1, <2>1 DEF Calls, NodeCalls
<1>2. CASE s = "geckoterminal"
  <2>1. Script[s] = <<"geckoterminal">>
    BY <1>2 DEF Script
  <2> QED  BY <1>2, <2>1 DEF Calls, NodeCalls
<1>3. CASE s = "okx"
  <2>1. Script[s] = <<"price_info", "basic_info", "advanced_info", "okx_holders", "trades", "top_liquidity">>
    BY <1>3 DEF Script
  <2> QED  BY <1>3, <2>1 DEF Calls, NodeCalls
<1>4. CASE s = "node"
  <2>1. Script[s] = <<"erc20", "erc20_symbol", "contract_risk_flags", "find_deploy_block">>
    BY <1>4 DEF Script
  <2> QED  BY <1>4, <2>1 DEF Calls, NodeCalls
<1>5. CASE s = "explorer"
  <2>1. Script[s] = <<"is_verified", "token_counters">>
    BY <1>5 DEF Script
  <2> QED  BY <1>5, <2>1 DEF Calls, NodeCalls
<1>6. CASE s = "rh_data"
  <2>1. Script[s] = <<"token_metadata">>
    BY <1>6 DEF Script
  <2> QED  BY <1>6, <2>1 DEF Calls, NodeCalls
<1>7. CASE s = "okx_trade"
  <2>1. Script[s] = <<"resolve_contract_spot", "order_book">>
    BY <1>7 DEF Script
  <2> QED  BY <1>7, <2>1 DEF Calls, NodeCalls
<1>8. CASE s = "holders"
  <2>1. Script[s] = <<"token_holders">>
    BY <1>8 DEF Script
  <2> QED  BY <1>8, <2>1 DEF Calls, NodeCalls
<1> QED  BY <1>1, <1>2, <1>3, <1>4, <1>5, <1>6, <1>7, <1>8 DEF Source, PhaseOne, PhaseTwo

LEMMA NodeScript ==
    /\ Script["node"] = <<"erc20", "erc20_symbol", "contract_risk_flags", "find_deploy_block">>
    /\ Ended("node") = 5
    /\ "node" \in Source
  BY DEF Script, Ended, Source, PhaseOne

-----------------------------------------------------------------------------
(***************************************************************************)
(* The gates, read backwards: what a verdict says of the snapshot, and a   *)
(* measure of the snapshot of the bundle.                                  *)
(***************************************************************************)
LEMMA FirstKnown ==
    ASSUME NEW g, NEW f \in Direct, First(g, f) # "unknown"
    PROVE  \E i \in DOMAIN Precedence[f] : Usable(g, Precedence[f][i], f)
  BY DEF First

LEMMA DirectMeasure ==
    ASSUME NEW g, NEW f \in Direct
    PROVE  f \in Measure /\ normalize(g)[f] = First(g, f)
<1>1. f \notin Derived  BY DEF Direct, Precedence, Derived
<1> QED  BY <1>1 DEF normalize, Measure, Derived

LEMMA DerivedMeasure ==
    ASSUME NEW g
    PROVE  /\ normalize(g)["liquidity"] = liquidity(g)
           /\ normalize(g)["supply"] = supply(g)
           /\ normalize(g)["growth"] = growth(g)
           /\ normalize(g)["prices"] = prices(g)
           /\ normalize(g)["flags"] = flags(g)
  BY DEF normalize, Measure, Derived

LEMMA OneOrigin ==
    ASSUME NEW g, NEW f \in Direct, NEW o, Precedence[f] = <<o>>, First(g, f) # "unknown"
    PROVE  Has(g, o, f)
<1>1. PICK i \in DOMAIN Precedence[f] : Usable(g, Precedence[f][i], f)  BY FirstKnown
<1>2. Precedence[f][i] = o  BY <1>1
<1> QED  BY <1>1, <1>2 DEF Usable

LEMMA KnownSupply ==
    ASSUME NEW g, supply(g) # "unknown"
    PROVE  \/ Has(g, "erc20", "supply") /\ Has(g, "erc20", "decimals")
           \/ Has(g, "geckoterminal", "supply")
  BY DEF supply

LEMMA KnownLiquidity ==
    ASSUME NEW g, liquidity(g) # "unknown"
    PROVE  \E o \in Origin : Has(g, o, "liquidity")
<1>1. CASE Has(g, "price_info", "liquidity")
  BY <1>1 DEF Origin, Calls
<1>2. CASE ~Has(g, "price_info", "liquidity")
  <2> DEFINE from == {p \in {"hot", "dexscreener", "geckoterminal"} : Has(g, p, "liquidity")}
             S == {g[o]["liquidity"] : o \in from}
  <2>1. liquidity(g) = Worst(S)  BY <1>2 DEF liquidity
  <2>2. S # {}  BY <2>1 DEF Worst
  <2>3. PICK o \in from : TRUE  BY <2>2
  <2> QED  BY <2>3 DEF Origin, Given, Calls
<1> QED  BY <1>1, <1>2

LEMMA KnownFlags ==
    ASSUME NEW g, flags(g) \notin {"unknown", "bad"}
    PROVE  DOMAIN g["contract_risk_flags"] # {}
<1>1. Scanned(g)  BY DEF flags
<1> QED  BY <1>1 DEF Scanned, Scan

-----------------------------------------------------------------------------
(***************************************************************************)
(* The steps.                                                              *)
(***************************************************************************)
Typed ==
    /\ got = [o \in Origin |-> got[o]]
    /\ at \in [Source -> Nat]
    /\ TypeOK

\* The node's source scans the bytecode only after its ERC-20 read failed.
ScanNeedsFailure ==
    /\ at["node"] \in {1, 2} => got["contract_risk_flags"] = Nothing
    /\ at["node"] \in {3, 4} => got["erc20"] = Nothing
    /\ got["contract_risk_flags"] # Nothing => got["erc20"] = Nothing

\* A scan that answered has the code.
ScanWhole == got["contract_risk_flags"] = Nothing \/ "code" \in DOMAIN got["contract_risk_flags"]

BasisKept ==
    /\ phase = "first" => basis = {}
    /\ BasisIsFinal

Inv == Typed /\ ScanNeedsFailure /\ ScanWhole /\ BasisKept

LEMMA PendingCall ==
    ASSUME Typed, NEW s \in Source, Running(s)
    PROVE  /\ at[s] \in 1..Len(Script[s])
           /\ Ended(s) = Len(Script[s]) + 1
           /\ Len(Script[s]) \in Nat
           /\ Pending(s) \in Calls
           /\ Pending(s) \in NodeCalls => s = "node"
           /\ Pending(s) = "top_liquidity" => s = "okx"
           /\ Pending(s) = "token_holders" => s = "holders"
<1>1. Len(Script[s]) \in Nat /\ Len(Script[s]) >= 1  BY Scripts
<1>2. at[s] \in 1..Len(Script[s])  BY <1>1 DEF Typed, TypeOK, Running, Ended
<1> QED  BY <1>1, <1>2, Scripts DEF Pending, Ended

\* Where the node's source goes.
LEMMA NodeSteps ==
    ASSUME Typed, Running("node"), NEW how, NEW r
    PROVE  /\ at["node"] = 1 => After("node", how, r) \in {2, 3, 5}
           /\ at["node"] = 1 /\ After("node", how, r) = 3 => how = "fails"
           /\ at["node"] = 2 => After("node", how, r) = 5
           /\ at["node"] = 3 => After("node", how, r) \in {4, 5}
           /\ at["node"] = 4 => After("node", how, r) = 5
           /\ at["node"] \in 1..4
<1>1. at["node"] \in 1..4  BY NodeScript, PendingCall DEF Ended
<1>2. /\ at["node"] = 1 => Pending("node") = "erc20"
      /\ at["node"] = 2 => Pending("node") = "erc20_symbol"
      /\ at["node"] = 3 => Pending("node") = "contract_risk_flags"
      /\ at["node"] = 4 => Pending("node") = "find_deploy_block"
  BY NodeScript DEF Pending
<1>3. CASE how = "raises"
  <2>1. After("node", how, r) = 5  BY <1>3, NodeScript DEF After
  <2> QED  BY <1>1, <1>3, <2>1
<1>4. CASE how # "raises" /\ at["node"] = 1
  <2>1. After("node", how, r) = IF how = "fails" THEN 3 ELSE IF symbol THEN 5 ELSE 2
    BY <1>2, <1>4, NodeScript DEF After, ScanCall
  <2> QED  BY <1>4, <2>1
<1>5. CASE how # "raises" /\ at["node"] = 2
  BY <1>2, <1>5, NodeScript DEF After
<1>6. CASE how # "raises" /\ at["node"] \in {3, 4}
  <2>1. After("node", how, r) = at["node"] + 1  BY <1>2, <1>6 DEF After
  <2> QED  BY <1>6, <2>1
<1> QED  BY <1>1, <1>3, <1>4, <1>5, <1>6

LEMMA AfterRange ==
    ASSUME Typed, NEW s \in Source, Running(s), NEW how, NEW r
    PROVE  After(s, how, r) \in 1..Ended(s)
<1>1. CASE s = "node"
  BY <1>1, NodeSteps, NodeScript
<1>2. CASE s # "node"
  <2>1. Pending(s) \notin {"erc20", "erc20_symbol"}  BY <1>2, PendingCall DEF NodeCalls
  <2>2. After(s, how, r) \in {Ended(s), at[s] + 1}  BY <2>1 DEF After
  <2> QED  BY <2>2, PendingCall
<1> QED  BY <1>1, <1>2

\* What a call stores has levels for values.
LEMMA StoredLevels ==
    ASSUME NEW s \in Source, NEW o \in Calls, NEW how,
           NEW r \in Answer(o, how)
    PROVE  \A f \in DOMAIN Stored(o, r) : Stored(o, r)[f] \in Level
<1>1. \A f \in DOMAIN r : r[f] \in Level
  BY CollectionAssumption DEF Answer, Origin, Nothing
<1>2. \A f \in DOMAIN Scaled(r) : Scaled(r)[f] \in Level
  BY <1>1 DEF Scaled, Level
<1> QED  BY <1>1, <1>2 DEF Stored

LEMMA InitInv ==
    ASSUME Init
    PROVE  Inv
<1>1. PICK h \in Payload["hot"], p \in Payload["history"], u \in Payload["override"] :
         got = [o \in Origin |->
                   CASE o = "hot" -> h [] o = "history" -> p [] o = "override" -> u
                     [] OTHER -> Nothing]
  BY DEF Init
<1>2. got["hot"] = h /\ got["history"] = p /\ got["override"] = u
  BY <1>1, Zenon DEF Origin, Given
<1>3. \A o \in Calls : got[o] = Nothing
  <2> SUFFICES ASSUME NEW o \in Calls PROVE got[o] = Nothing  OBVIOUS
  <2>1. o \notin {"hot", "history", "override"}  BY DEF Calls
  <2> QED  BY <1>1, <2>1, Zenon DEF Origin
<1>4. got = [o \in Origin |-> got[o]]  BY <1>1
<1>5. \A o \in Origin : \A f \in DOMAIN got[o] : got[o][f] \in Level
  <2> SUFFICES ASSUME NEW o \in Origin PROVE \A f \in DOMAIN got[o] : got[o][f] \in Level  OBVIOUS
  <2>1. CASE o \in Calls  BY <1>3, <2>1 DEF Nothing
  <2>2. CASE o \in Given  BY <1>2, <2>2, CollectionAssumption DEF Given, Origin
  <2> QED  BY <2>1, <2>2 DEF Origin
<1>6. \A s \in Source : Ended(s) \in Nat /\ Ended(s) >= 2  BY Scripts DEF Ended
<1>7. at \in [Source -> Nat] /\ \A s \in Source : at[s] = Start(s)
  BY <1>6 DEF Init, Start
<1>8. \A s \in PhaseTwo : s \in Source /\ s \notin PhaseOne
  BY DEF Source, PhaseOne, PhaseTwo
<1>9. Settled(PhaseTwo)  BY <1>6, <1>7, <1>8 DEF Settled, Running, Start
<1>10. Typed  BY <1>4, <1>5, <1>6, <1>7, <1>9 DEF Typed, TypeOK, Init, Start
<1>11. ScanNeedsFailure /\ ScanWhole  BY <1>3 DEF ScanNeedsFailure, ScanWhole, Calls
<1> QED  BY <1>10, <1>11 DEF Inv, BasisKept, BasisIsFinal, Init

\* What a step of a source changes: its own position and the answer to its own call.
LEMMA ReturnFrame ==
    ASSUME Typed, NEW s \in Source, Running(s), NEW how, NEW r, Return(s, how, r)
    PROVE  /\ got' = [o \in Origin |-> got'[o]]
           /\ got'[Pending(s)] = Stored(Pending(s), r)
           /\ \A o \in Origin : o # Pending(s) => got'[o] = got[o]
           /\ at' \in [Source -> Nat]
           /\ at'[s] = After(s, how, r)
           /\ \A q \in Source : q # s => at'[q] = at[q]
           /\ \A q \in Source : at'[q] \in 1..Ended(q)
           /\ phase' = phase
           /\ Pending(s) \in Origin
<1>1. Pending(s) \in Origin  BY PendingCall DEF Origin
<1>2. After(s, how, r) \in 1..Ended(s) /\ Ended(s) \in Nat  BY AfterRange, PendingCall
<1> QED  BY <1>1, <1>2 DEF Return, Typed, TypeOK

\* In the first phase only its sources run, later only those of the second.
LEMMA RunningPhase ==
    ASSUME Typed, NEW s \in Source, Running(s)
    PROVE  /\ phase = "first" => s \notin PhaseTwo /\ Pending(s) # "token_holders"
           /\ phase # "first" => /\ s \notin PhaseOne
                                 /\ Pending(s) \notin NodeCalls \cup {"top_liquidity"}
<1>1. phase = "first" => s \notin PhaseTwo  BY DEF Typed, TypeOK, Settled
<1>2. phase # "first" => s \notin PhaseOne  BY DEF Typed, TypeOK, Settled
<1> QED  BY <1>1, <1>2, PendingCall DEF PhaseOne, PhaseTwo

LEMMA ReturnTyped ==
    ASSUME Typed, NEW s \in Source, Running(s), NEW how, NEW r,
           Return(s, how, r)
    PROVE  Typed'
<1>1. \A o \in Origin : \A f \in DOMAIN got'[o] : got'[o][f] \in Level
  <2> SUFFICES ASSUME NEW o \in Origin
               PROVE  \A f \in DOMAIN got'[o] : got'[o][f] \in Level
    OBVIOUS
  <2>1. CASE o # Pending(s)  BY <2>1, ReturnFrame DEF Typed, TypeOK
  <2>2. CASE o = Pending(s)
    <3>1. Pending(s) \in Calls /\ r \in Answer(Pending(s), how)  BY PendingCall DEF Return
    <3> QED  BY <2>2, <3>1, ReturnFrame, StoredLevels
  <2> QED  BY <2>1, <2>2
<1>2. phase' = "first" => \A q \in PhaseTwo : ~(at'[q] < Ended(q))
  BY ReturnFrame, RunningPhase DEF Typed, TypeOK, Settled, Running, Source
<1>3. phase' # "first" => \A q \in PhaseOne : ~(at'[q] < Ended(q))
  BY ReturnFrame, RunningPhase DEF Typed, TypeOK, Settled, Running, Source
<1>4. symbol' \in BOOLEAN
  <2>1. symbol' = Named(Pending(s), how, r) /\ symbol \in BOOLEAN  BY DEF Return, Typed, TypeOK
  <2>2. CASE Pending(s) = "dexscreener"
    <3>1. symbol' = (symbol \/ "symbol" \in DOMAIN r)  BY <2>1, <2>2, Zenon DEF Named
    <3>2. (symbol \/ "symbol" \in DOMAIN r) \in BOOLEAN  OBVIOUS
    <3> QED  BY <3>1, <3>2, Zenon
  <2>3. CASE Pending(s) = "erc20_symbol" /\ how # "raises"
    <3>1. symbol' = ("symbol" \in DOMAIN r)  BY <2>1, <2>3, Zenon DEF Named
    <3>2. ("symbol" \in DOMAIN r) \in BOOLEAN  OBVIOUS
    <3> QED  BY <3>1, <3>2, Zenon
  <2>4. CASE Pending(s) # "dexscreener" /\ ~(Pending(s) = "erc20_symbol" /\ how # "raises")
    <3>1. symbol' = symbol  BY <2>1, <2>4, Zenon DEF Named
    <3> QED  BY <2>1, <3>1, Zenon
  <2> QED  BY <2>2, <2>3, <2>4
<1> QED  BY <1>1, <1>2, <1>3, <1>4, ReturnFrame DEF Typed, TypeOK, Settled, Running, Ended

LEMMA ReturnScan ==
    ASSUME Inv, NEW s \in Source, Running(s), NEW how, NEW r,
           Return(s, how, r)
    PROVE  ScanNeedsFailure' /\ ScanWhole'
<1> USE DEF Inv
<1>1. r \in Answer(Pending(s), how)  BY DEF Return
<1>2. {"erc20", "contract_risk_flags"} \subseteq Origin  BY DEF Origin, Calls
<1>3. CASE s # "node"
  <2>1. Pending(s) \notin NodeCalls  BY <1>3, PendingCall
  <2>2. /\ at'["node"] = at["node"]
        /\ got'["erc20"] = got["erc20"]
        /\ got'["contract_risk_flags"] = got["contract_risk_flags"]
    BY <1>2, <1>3, <2>1, ReturnFrame, NodeScript DEF NodeCalls
  <2> QED  BY <2>2 DEF ScanNeedsFailure, ScanWhole
<1>4. CASE s = "node"
  <2>1. /\ at["node"] = 1 => Pending("node") = "erc20"
        /\ at["node"] = 2 => Pending("node") = "erc20_symbol"
        /\ at["node"] = 3 => Pending("node") = "contract_risk_flags"
        /\ at["node"] = 4 => Pending("node") = "find_deploy_block"
    BY NodeScript DEF Pending
  <2>2. /\ at'["node"] = After("node", how, r)
        /\ got'[Pending("node")] = r
        /\ \A o \in Origin : o # Pending("node") => got'[o] = got[o]
    BY <1>4, <2>1, ReturnFrame, NodeSteps DEF Stored
  <2>3. CASE at["node"] = 1
    <3>1. how = "fails" => r = Nothing  BY <1>1 DEF Answer
    <3>2. got'["erc20"] = r /\ got'["contract_risk_flags"] = Nothing
      BY <1>2, <2>1, <2>2, <2>3 DEF ScanNeedsFailure
    <3> QED  BY <1>4, <2>2, <2>3, <3>1, <3>2, NodeSteps DEF ScanNeedsFailure, ScanWhole
  <2>4. CASE at["node"] = 2
    <3>1. got'["contract_risk_flags"] = Nothing
      BY <1>2, <2>1, <2>2, <2>4 DEF ScanNeedsFailure
    <3> QED  BY <1>4, <2>2, <2>4, <3>1, NodeSteps DEF ScanNeedsFailure, ScanWhole
  <2>5. CASE at["node"] = 3
    <3>1. got'["erc20"] = Nothing /\ got'["contract_risk_flags"] = r
      BY <1>2, <2>1, <2>2, <2>5 DEF ScanNeedsFailure
    <3>2. r = Nothing \/ "code" \in DOMAIN r
      BY <1>1, <1>4, <2>1, <2>5, CollectionAssumption DEF Answer
    <3> QED  BY <1>4, <2>2, <2>5, <3>1, <3>2, NodeSteps DEF ScanNeedsFailure, ScanWhole
  <2>6. CASE at["node"] = 4
    <3>1. got'["erc20"] = Nothing /\ got'["contract_risk_flags"] = got["contract_risk_flags"]
      BY <1>2, <2>1, <2>2, <2>6 DEF ScanNeedsFailure
    <3> QED  BY <1>4, <2>2, <2>6, <3>1, NodeSteps DEF ScanNeedsFailure, ScanWhole
  <2> QED  BY <1>4, <2>3, <2>4, <2>5, <2>6, NodeSteps
<1> QED  BY <1>3, <1>4

LEMMA ReturnBasis ==
    ASSUME Inv, NEW s \in Source, Running(s), NEW how, NEW r, Return(s, how, r)
    PROVE  BasisKept'
<1> USE DEF Inv
<1>1. CASE phase = "first"
  <2>1. Pending(s) # "token_holders" /\ basis = {}  BY <1>1, RunningPhase DEF BasisKept
  <2>2. basis' = {}  BY <2>1 DEF Return
  <2> QED  BY <2>2 DEF BasisKept, BasisIsFinal
<1>2. CASE phase # "first"
  <2>1. Pending(s) \notin NodeCalls \cup {"top_liquidity"}  BY <1>2, RunningPhase
  <2>2. got'["erc20"] = got["erc20"] /\ got'["top_liquidity"] = got["top_liquidity"]
    BY <2>1, ReturnFrame DEF Origin, Calls, NodeCalls
  <2>3. DecimalsKnown' = DecimalsKnown
    <3>1. "erc20" \in Origin /\ Has(got', "erc20", "decimals") = Has(got, "erc20", "decimals")
      BY <2>2 DEF Has, Origin, Calls
    <3> QED  BY <3>1 DEF DecimalsKnown, Has
  <2>4. basis' \subseteq basis \cup {[decimals |-> DecimalsKnown, pools |-> got["top_liquidity"]]}
    BY DEF Return
  <2>5. phase' # "first"  BY <1>2 DEF Return
  <2> QED  BY <2>2, <2>3, <2>4, <2>5 DEF BasisKept, BasisIsFinal
<1> QED  BY <1>1, <1>2

LEMMA StartPhaseTwoInv ==
    ASSUME Inv, StartPhaseTwo
    PROVE  Inv'
<1> USE DEF Inv
<1>1. got' = got /\ basis' = basis /\ phase = "first" /\ phase' = "second" /\ Settled(PhaseOne)
  BY DEF StartPhaseTwo
<1>2. \A s \in Source : Ended(s) \in Nat /\ Ended(s) >= 2  BY Scripts DEF Ended
<1>3. /\ at' \in [Source -> Nat]
      /\ \A s \in Source : at'[s] \in 1..Ended(s)
      /\ \A s \in PhaseOne : s \in Source /\ at'[s] = at[s]
  <2>1. \A s \in PhaseOne : s \in Source /\ s \notin PhaseTwo  BY DEF Source, PhaseOne, PhaseTwo
  <2>2. \A s \in Source : at'[s] \in {1, at[s]}  BY DEF StartPhaseTwo
  <2>3. at' = [s \in Source |-> at'[s]]  BY DEF StartPhaseTwo
  <2> QED  BY <1>2, <2>1, <2>2, <2>3 DEF StartPhaseTwo, Typed, TypeOK
<1>4. at'["node"] = at["node"]  BY <1>3 DEF PhaseOne
<1>5. symbol' \in BOOLEAN
  <2>1. symbol' = (symbol \/ Has(got, "basic_info", "symbol") \/ Has(got, "token_metadata", "symbol"))
    BY Zenon DEF StartPhaseTwo
  <2>2. (symbol \/ Has(got, "basic_info", "symbol") \/ Has(got, "token_metadata", "symbol")) \in BOOLEAN
    OBVIOUS
  <2> QED  BY <2>1, <2>2, Zenon
<1>6. Typed'
  BY <1>1, <1>3, <1>5 DEF Typed, TypeOK, Settled, Running, Ended
<1>7. ScanNeedsFailure' /\ ScanWhole'  BY <1>1, <1>4 DEF ScanNeedsFailure, ScanWhole
<1>8. BasisKept'  BY <1>1 DEF BasisKept, BasisIsFinal, DecimalsKnown, Has
<1> QED  BY <1>6, <1>7, <1>8

LEMMA OracleInv ==
    ASSUME Inv, Oracle
    PROVE  Inv'
<1> USE DEF Inv
<1>1. PICK how, r : ReadOracle(how, r)  BY DEF Oracle
<1>2. /\ phase = "second"
      /\ phase' \in {"done", "failed"}
      /\ Settled(PhaseTwo)
      /\ at' = at /\ symbol' = symbol /\ basis' = basis
  BY <1>1 DEF ReadOracle
<1>3. /\ got' = [got EXCEPT !["latest_price"] = r]
      /\ r \in Payload["latest_price"] \cup {Nothing}
  BY <1>1 DEF ReadOracle, Answer
<1>4. \A o \in Origin : o # "latest_price" => got'[o] = got[o]
  BY <1>3 DEF Typed
<1>5. "latest_price" \in Origin /\ got'["latest_price"] = r
  BY <1>3 DEF Typed, Origin, Calls
<1>6. \A o \in Origin : \A f \in DOMAIN got'[o] : got'[o][f] \in Level
  <2> SUFFICES ASSUME NEW o \in Origin
               PROVE  \A f \in DOMAIN got'[o] : got'[o][f] \in Level
    OBVIOUS
  <2>1. CASE o # "latest_price"  BY <1>4, <2>1 DEF Typed, TypeOK
  <2>2. CASE o = "latest_price"
    BY <1>3, <1>5, <2>2, CollectionAssumption DEF Nothing
  <2> QED  BY <2>1, <2>2
<1>7. got' = [o \in Origin |-> got'[o]]  BY <1>3 DEF Typed
<1>8. Typed'
  BY <1>2, <1>6, <1>7 DEF Typed, TypeOK, Settled, Running, Ended
<1>9. /\ got'["erc20"] = got["erc20"]
      /\ got'["contract_risk_flags"] = got["contract_risk_flags"]
      /\ got'["top_liquidity"] = got["top_liquidity"]
  BY <1>4 DEF Origin, Calls
<1>10. ScanNeedsFailure' /\ ScanWhole'  BY <1>2, <1>9 DEF ScanNeedsFailure, ScanWhole
<1>11. BasisKept'  BY <1>2, <1>9 DEF BasisKept, BasisIsFinal, DecimalsKnown, Has
<1> QED  BY <1>8, <1>10, <1>11

\* Everything the theorems below rest on, at every moment of collect.
THEOREM Invariance == Spec => []Inv
<1>1. Init => Inv
  BY InitInv
<1>2. Inv /\ [Next]_vars => Inv'
  <2> SUFFICES ASSUME Inv, [Next]_vars PROVE Inv'
    OBVIOUS
  <2>1. CASE \E s \in Source : Returns(s)
    <3>1. PICK s \in Source : Returns(s)  BY <2>1
    <3>2. PICK how, r : Return(s, how, r)  BY <3>1 DEF Returns
    <3>3. Running(s)  BY <3>2 DEF Return
    <3>4. Typed'  BY <3>2, <3>3, ReturnTyped DEF Inv
    <3>5. ScanNeedsFailure' /\ ScanWhole'  BY <3>2, <3>3, ReturnScan
    <3>6. BasisKept'  BY <3>2, <3>3, ReturnBasis
    <3> QED  BY <3>4, <3>5, <3>6 DEF Inv
  <2>2. CASE StartPhaseTwo
    BY <2>2, StartPhaseTwoInv
  <2>3. CASE Oracle
    BY <2>3, OracleInv
  <2>4. CASE UNCHANGED vars
    BY <2>4 DEF vars, Inv, Typed, TypeOK, Settled, Running, Ended, ScanNeedsFailure, ScanWhole,
                BasisKept, BasisIsFinal, DecimalsKnown, Has
  <2> QED  BY <2>1, <2>2, <2>3, <2>4 DEF Next
<1> QED  BY <1>1, <1>2, PTL DEF Spec

-----------------------------------------------------------------------------
(***************************************************************************)
(* What a verdict shows.                                                   *)
(***************************************************************************)
LEMMA CleanMeasures ==
    ASSUME Clean
    PROVE  /\ \A m \in HardIfUnknown \cup DataIfUnknown : Snapshot[m] # "unknown"
           /\ \A m \in Measure \ Venue : Snapshot[m] # "bad"
  BY DEF Clean, Hard, Data

LEMMA CleanScan ==
    ASSUME Inv, Clean
    PROVE  Answered("contract_risk_flags", {"code"}) /\ got["erc20"] = Nothing
<1>1. Snapshot["flags"] \notin {"unknown", "bad"}
  BY CleanMeasures DEF HardIfUnknown, Measure, Derived, Venue
<1>2. flags(got) \notin {"unknown", "bad"}  BY <1>1, DerivedMeasure DEF Snapshot
<1>3. got["contract_risk_flags"] # Nothing  BY <1>2, KnownFlags DEF Nothing
<1> QED  BY <1>3 DEF Inv, ScanWhole, ScanNeedsFailure, Answered

\* A clean verdict rests on known evidence, whatever the sources answered and whichever
\* of them failed (normalize, the gates of risk.py).
LEMMA CleanKnown ==
    ASSUME Inv PROVE CleanIsKnown
<1> SUFFICES ASSUME Clean PROVE CleanIsKnown
  BY DEF CleanIsKnown
<1>1. /\ \A m \in {"holders", "top1", "verified", "unlock", "age", "trades"} :
            m \in Direct /\ First(got, m) # "unknown"
      /\ First(got, "verified") # "bad"
      /\ supply(got) # "unknown" /\ liquidity(got) # "unknown" /\ growth(got) # "unknown"
  <2>1. {"holders", "top1", "verified", "unlock", "age", "trades"} \subseteq Direct
    BY DEF Direct, Precedence
  <2>2. \A m \in {"holders", "top1", "verified", "unlock", "age", "trades", "supply", "liquidity", "growth"} :
           Snapshot[m] # "unknown"
    BY CleanMeasures DEF HardIfUnknown, DataIfUnknown
  <2>3. Snapshot["verified"] # "bad"
    BY <2>1, CleanMeasures DEF Measure, Venue
  <2> QED  BY <2>1, <2>2, <2>3, DirectMeasure, DerivedMeasure DEF Snapshot
<1>2. Answered("contract_risk_flags", {"code"})  BY CleanScan
<1>3. got["is_verified"]["verified"] # "bad" /\ Answered("is_verified", {"verified"})
  <2>1. Precedence["verified"] = <<"is_verified">>  BY DEF Precedence
  <2>2. Has(got, "is_verified", "verified")  BY <1>1, <2>1, OneOrigin
  <2>3. First(got, "verified") = got["is_verified"]["verified"]
    <3>1. Usable(got, "is_verified", "verified")  BY <2>2 DEF Usable
    <3>2. DOMAIN Precedence["verified"] = {1} /\ Precedence["verified"][1] = "is_verified"
      BY <2>1
    <3> QED  BY <3>1, <3>2 DEF First
  <2> QED  BY <1>1, <2>2, <2>3 DEF Answered, Has
<1>4. Answered("erc20", {"supply", "decimals"}) \/ Answered("geckoterminal", {"supply"})
  BY <1>1, KnownSupply DEF Answered, Has
<1>5. \E o \in Origin : Answered(o, {"liquidity"})
  BY <1>1, KnownLiquidity DEF Answered, Has
<1>6. \E o \in Origin : Answered(o, {"holders"})
  <2>1. Precedence["holders"] = <<"price_info", "hot", "token_counters">>  BY DEF Precedence
  <2>2. PICK i \in DOMAIN Precedence["holders"] : Usable(got, Precedence["holders"][i], "holders")
    BY <1>1, FirstKnown
  <2>3. Precedence["holders"][i] \in Origin  BY <2>1 DEF Origin, Given, Calls
  <2> QED  BY <2>2, <2>3 DEF Usable, Has, Answered
<1>7. Answered("okx_holders", {"top1"}) \/ Answered("token_holders", {"top1"})
  <2>1. Precedence["top1"] = <<"okx_holders", "token_holders">>  BY DEF Precedence
  <2>2. PICK i \in DOMAIN Precedence["top1"] : Usable(got, Precedence["top1"][i], "top1")
    BY <1>1, FirstKnown
  <2>3. Precedence["top1"][i] \in {"okx_holders", "token_holders"}  BY <2>1
  <2> QED  BY <2>2, <2>3 DEF Usable, Has, Answered
<1>8. Answered("find_deploy_block", {"age"}) /\ Answered("trades", {"trades"})
      /\ Answered("override", {"unlock"})
  <2>1. /\ Precedence["age"] = <<"find_deploy_block">>
        /\ Precedence["trades"] = <<"trades">>
        /\ Precedence["unlock"] = <<"override">>
    BY DEF Precedence
  <2> QED  BY <1>1, <2>1, OneOrigin DEF Answered, Has
<1>9. Answered("history", {"growth"})  BY <1>1 DEF growth, Answered, Has
<1> QED  BY <1>2, <1>3, <1>4, <1>5, <1>6, <1>7, <1>8, <1>9 DEF CleanIsKnown

LEMMA BuyableScreened ==
    ASSUME Inv PROVE BuyableIsScreened
<1> SUFFICES ASSUME Buyable PROVE BuyableIsScreened
  BY DEF BuyableIsScreened
<1>1. Clean /\ ~Review(Snapshot)  BY DEF Buyable
<1>2. Answered("trades", {"trades"})  BY <1>1, CleanKnown DEF CleanIsKnown
<1>3. /\ \A m \in {"sniper", "suspicious", "instrument", "spread"} :
            m \in Direct /\ First(got, m) # "unknown"
      /\ prices(got) # "unknown"
  <2>1. {"sniper", "suspicious", "instrument", "spread"} \subseteq Direct
    BY DEF Direct, Precedence
  <2>2. \A m \in {"sniper", "suspicious", "instrument", "spread", "prices"} : Snapshot[m] # "unknown"
    BY <1>1 DEF Review, ReviewIfUnknown
  <2> QED  BY <2>1, <2>2, DirectMeasure, DerivedMeasure DEF Snapshot
<1>4. /\ Precedence["sniper"] = <<"advanced_info">>
      /\ Precedence["suspicious"] = <<"advanced_info">>
      /\ Precedence["instrument"] = <<"resolve_contract_spot">>
      /\ Precedence["spread"] = <<"order_book">>
  BY DEF Precedence
<1>5. /\ Answered("advanced_info", {"sniper", "suspicious"})
      /\ Answered("resolve_contract_spot", {"instrument"})
      /\ Answered("order_book", {"spread"})
  BY <1>3, <1>4, OneOrigin DEF Answered, Has
<1>6. \E o, p \in Quoting(got) : o # p  BY <1>3 DEF prices
<1> QED  BY <1>2, <1>5, <1>6 DEF BuyableIsScreened

-----------------------------------------------------------------------------
\* At every moment of collect its state has the shape the code gives it.
THEOREM TypeCorrect == Spec => []TypeOK
<1>1. Inv => TypeOK  BY DEF Inv, Typed
<1> QED  BY <1>1, Invariance, PTL

\* Outages only ever take a verdict away: no token is clean on evidence nobody gave.
THEOREM FailsClosed == Spec => []CleanIsKnown
<1>1. Inv => CleanIsKnown  BY CleanKnown
<1> QED  BY <1>1, Invariance, PTL

\* No token may be bought that was not looked up where a honeypot is told, on its own
\* instrument and at two quotes.
THEOREM BuysAreScreened == Spec => []BuyableIsScreened
<1>1. Inv => BuyableIsScreened  BY BuyableScreened
<1> QED  BY <1>1, Invariance, PTL

\* Holder shares are put on the decimals and pools that collect ends with.
THEOREM BasisSettled == Spec => []BasisIsFinal
<1>1. Inv => BasisIsFinal  BY DEF Inv, BasisKept
<1> QED  BY <1>1, Invariance, PTL

\* As the code stands (ingest.py:266), a clean verdict means that the node's ERC-20 read
\* FAILED: after one that succeeds the bytecode is never scanned, and a token without a
\* scan is rejected.
THEOREM CleanWithoutDecimals == Spec => [](Clean => ~DecimalsKnown)
<1>1. Inv => (Clean => ~DecimalsKnown)
  <2> SUFFICES ASSUME Inv, Clean PROVE ~DecimalsKnown
    OBVIOUS
  <2>1. got["erc20"] = Nothing  BY CleanScan
  <2> QED  BY <2>1 DEF DecimalsKnown, Has, Nothing
<1> QED  BY <1>1, Invariance, PTL

-----------------------------------------------------------------------------
(***************************************************************************)
(* Why collect ends: the phase, and within a phase the calls that are      *)
(* left, only ever get on.                                                 *)
(***************************************************************************)
Left(s) == Ended(s) - at[s]

Nearer ==
    \/ phase = "first" /\ phase' = "second"
    \/ phase = "second" /\ phase' \in {"done", "failed"}
    \/ /\ phase \in {"first", "second"} /\ phase' = phase
       /\ \E s \in Source : /\ Left(s) \in Nat /\ Left(s)' \in Nat /\ Left(s)' < Left(s)
                            /\ \A q \in Source \ {s} : at'[q] = at[q]

\* Nobody is still asking when collect has returned.
Over == phase \in {"done", "failed"} => Settled(PhaseTwo)

LEMMA CallsGoOn ==
    ASSUME Typed, NEW s \in Source, Running(s), NEW how, NEW r
    PROVE  After(s, how, r) > at[s]
<1>1. at[s] \in Nat /\ Ended(s) \in Nat /\ at[s] < Ended(s)  BY PendingCall DEF Running, Ended
<1>2. CASE s = "node"
  BY <1>2, NodeSteps
<1>3. CASE s # "node"
  <2>1. Pending(s) \notin {"erc20", "erc20_symbol"}  BY <1>3, PendingCall DEF NodeCalls
  <2>2. After(s, how, r) \in {Ended(s), at[s] + 1}  BY <2>1 DEF After
  <2> QED  BY <1>1, <2>2
<1> QED  BY <1>2, <1>3

LEMMA ReturnIsNearer ==
    ASSUME Typed, Over, NEW s \in Source, NEW how, NEW r, Return(s, how, r)
    PROVE  Nearer /\ Over'
<1>1. Running(s)  BY DEF Return
<1>2. phase \in {"first", "second"}
  BY <1>1, RunningPhase DEF Over, Settled, Source, Typed, TypeOK
<1>3. /\ at'[s] = After(s, how, r) /\ phase' = phase
      /\ \A q \in Source \ {s} : at'[q] = at[q]
      /\ at'[s] \in 1..Ended(s)
  BY <1>1, ReturnFrame
<1>4. at[s] \in Nat /\ Ended(s) \in Nat /\ at[s] < Ended(s)
  BY <1>1, PendingCall DEF Running, Ended
<1>5. at'[s] \in Nat /\ at'[s] <= Ended(s) /\ at'[s] > at[s]  BY <1>1, <1>3, <1>4, CallsGoOn
<1>6. Left(s) \in Nat /\ Left(s)' \in Nat /\ Left(s)' < Left(s)
  BY <1>4, <1>5 DEF Left, Ended
<1> QED  BY <1>2, <1>3, <1>6 DEF Nearer, Over

\* Whatever its sources do, collect asks each of its questions at most once and gets
\* nearer to its end with every step; once it has returned or raised nothing of it is
\* still running, and the bundle stays as it was judged (run_sources, gather).
THEOREM CollectShrinks == Spec => [][Nearer]_vars
<1>1. Init => Over  BY DEF Init, Over
<1>2. ASSUME Inv, Over, [Next]_vars PROVE [Nearer]_vars /\ Over'
  <2>1. CASE \E s \in Source : Returns(s)
    <3>1. PICK s \in Source : Returns(s)  BY <2>1
    <3>2. PICK how, r : Return(s, how, r)  BY <3>1 DEF Returns
    <3> QED  BY <1>2, <3>2, ReturnIsNearer DEF Inv
  <2>2. CASE StartPhaseTwo
    BY <2>2 DEF StartPhaseTwo, Nearer, Over
  <2>3. CASE Oracle
    <3>1. PICK how, r : ReadOracle(how, r)  BY <2>3 DEF Oracle
    <3> QED  BY <3>1 DEF ReadOracle, Nearer, Over, Settled, Running, Ended
  <2>4. CASE UNCHANGED vars
    BY <1>2, <2>4 DEF vars, Over, Settled, Running, Ended
  <2> QED  BY <1>2, <2>1, <2>2, <2>3, <2>4 DEF Next
<1> QED  BY <1>1, <1>2, Invariance, PTL DEF Spec
===============================================================================
