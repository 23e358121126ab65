---------------------------- MODULE MCTradingLoop ----------------------------
EXTENDS TradingLoop

ThreePrices == 1..3
ManyWorlds ==
    {{}, {"capture", "orders"}, {"price"}, {"highs", "reset"}, {"slide"}, {"patrol"},
     {"disabled"}, {"interrupt", "late"}, {"orders", "late"}, {"users"}}
QuietWorld == {{}}
UnpricedWorld == {{"price"}}
OverlappingWorld == {{"users", "overlap"}}
=============================================================================
