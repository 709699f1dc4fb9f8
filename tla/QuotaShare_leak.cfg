SPECIFICATION Spec
CONSTANTS
    Targets = {"a", "b", "d"}
    Rank <- MCRank
    Weight <- MCWeight
    Conns = {"k1", "k2"}
    Conn <- MCConn
    Cap <- MCCap
    Scale = 6
    Lease = 2
    Requests = {r1, r2}
INVARIANTS AbortedExpire
