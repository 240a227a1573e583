----------------------------- MODULE MCCollection -----------------------------
(***************************************************************************)
(* Model-checking instances of Collection: what each upstream can say of a *)
(* token.                                                                  *)
(***************************************************************************)
EXTENDS Collection, TLC

All(fields) == [f \in fields |-> "good"]

Market == {"volume", "window", "tx_count", "change", "liquidity", "price", "symbol", "buy_ratio"}

Full ==
    [hot                   |-> {All({"holders", "bundled", "top10", "price"})},
     history               |-> {All({"growth", "base"})},
     override              |-> {All({"unlock"})},
     dexscreener           |-> {All(Market)},
     geckoterminal         |-> {All({"volume", "liquidity", "price", "supply"})},
     price_info            |-> {All((Market \ {"symbol", "buy_ratio"}) \cup {"holders"})},
     basic_info            |-> {All({"symbol"})},
     advanced_info         |-> {All({"top10", "sniper", "bundled", "suspicious", "tags"})},
     okx_holders           |-> {All({"top1", "top10"})},
     trades                |-> {All({"trades", "buy_ratio"})},
     top_liquidity         |-> {All({"pools"})},
     erc20                 |-> {All({"supply", "decimals"})},
     erc20_symbol          |-> {All({"symbol"})},
     contract_risk_flags   |-> {All({"code", "proxy", "owner"})},
     find_deploy_block     |-> {All({"age"})},
     is_verified           |-> {All({"verified"})},
     token_counters        |-> {All({"holders"})},
     token_metadata        |-> {All({"symbol"})},
     resolve_contract_spot |-> {All({"instrument"})},
     order_book            |-> {All({"spread", "slippage", "price"})},
     token_holders         |-> {All({"top1", "top10"})},
     latest_price          |-> {All({"price"})}]

\* What is worth varying: a scan that could not read the proxy slot of a contract whose
\* owner is live, a source that is not verified, a concentrated supply.  Calls whose
\* answers other calls repeat only fail.
Varied ==
    [contract_risk_flags |-> {All({"code", "proxy", "owner"}),
                              [All({"code", "owner"}) EXCEPT !["owner"] = "open"]},
     is_verified         |-> {All({"verified"}), [verified |-> "bad"]},
     token_holders       |-> {[top1 |-> "bad", top10 |-> "open"]},
     basic_info          |-> {},
     token_counters      |-> {}]

Payloads == Varied @@ Full
===============================================================================
