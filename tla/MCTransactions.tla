---------------------------- MODULE MCTransactions ----------------------------
EXTENDS Transactions, TLC
CONSTANTS c1, c2, p1, p2, s1, s2
MCIds == p1 :> p1 @@ p2 :> p2
===============================================================================
