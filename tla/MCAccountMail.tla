---------------------------- MODULE MCAccountMail ----------------------------
EXTENDS AccountMail, TLC
CONSTANTS u1, h1, h2, w1, w2
=============================================================================
