------------------------- MODULE MCMarketCollector -------------------------
EXTENDS MarketCollector

Deployments ==
    {{"lost", "crash"}, {"stop", "lost"}, {"fail", "lost"}, {"post", "crash"}, {"script", "fail"},
     {"script", "today"}}
=============================================================================
