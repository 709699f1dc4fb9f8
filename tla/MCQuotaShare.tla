----------------------------- MODULE MCQuotaShare -----------------------------
(* Three targets on two connections, one of them capped at one request.        *)
EXTENDS QuotaShare

MCRank == [a |-> 1, b |-> 2, d |-> 3]
MCWeight == [a |-> 2, b |-> 1, d |-> 0]
MCConn == [a |-> "k1", b |-> "k2", d |-> "k1"]
MCCap == [k1 |-> 0, k2 |-> 1]
=============================================================================
