------------------------------ MODULE MCPanel ------------------------------
(* Panel for TLC: a form that arms real money, one that runs on the demo   *)
(* account, and one that clears the clip size with the key left masked; by *)
(* hand the operator engages the switch of the file.                       *)
EXTENDS Panel

Submitted(mode, key, simulated, clip) ==
    [k \in Field |-> CASE k = "RUN_MODE" -> mode
                       [] k = "OKX_TRADE_API_KEY" -> key
                       [] k = "OKX_SIMULATED" -> simulated
                       [] OTHER -> clip]

Forms == { Submitted("LIVE", "k1", "false", "25"),
           Submitted("LIVE", Blank, "true", "25"),
           Submitted("ALERT_ONLY", Stored, "false", Blank) }

Edits == {Line("KILL_SWITCH", "true")}
=============================================================================
