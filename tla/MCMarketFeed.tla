---------------------------- MODULE MCMarketFeed ----------------------------
EXTENDS MarketFeed
=============================================================================
