SPECIFICATION FairSpec
CONSTANTS
    Payload <- Payloads
    Ways = {"answers", "fails", "raises"}
    Enabled = {"dexscreener", "geckoterminal", "okx", "node", "explorer", "okx_trade", "holders", "oracle"}
    Decimals = 6
CHECK_DEADLOCK FALSE
INVARIANTS
    CleanIsKnown
    BuyableIsScreened
    BasisIsFinal
PROPERTIES
    CollectEnds
