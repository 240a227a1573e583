SPECIFICATION Spec
CONSTANTS
    Payload <- Full
    Ways = {"answers"}
    Enabled = {"dexscreener", "geckoterminal", "okx", "node", "explorer", "okx_trade", "holders", "oracle"}
    Decimals = 6
CHECK_DEADLOCK FALSE
INVARIANTS
    CodeArrives
