--------------------------- MODULE MCCandidatePage ---------------------------
EXTENDS CandidatePage, TLC
CONSTANTS c1, p1, w1
MCIds == p1 :> w1
=============================================================================
