---------------------------- MODULE MCScoreboard ----------------------------
EXTENDS Scoreboard, TLC
CONSTANTS t1, c1, b1, r1, r2
MCPrices == {1, 2}
MCFreezeTimes == {-1, 0}
MCGifts == {1}
Symmetric == Permutations(Readers)
=============================================================================
