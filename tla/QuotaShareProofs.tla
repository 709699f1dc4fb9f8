--------------------------- MODULE QuotaShareProofs ---------------------------
(* The in-flight counts of quota share: no phantom load, and no request that   *)
(* goes uncounted but for late releases, for any targets, weights, caps and    *)
(* leases and any number of requests.  For these it does not matter which      *)
(* target a selection takes.  Then the deficits: their sums over sets of       *)
(* targets, and that the richest paying keeps each target near its share.      *)
EXTENDS QuotaShare, FiniteSetTheorems, TLAPS

(* The live slot outlasts the lease of every held request on its connection,   *)
(* so when it expires nothing within its lease is lost from the count.         *)
Covers ==
    \A c \in Conns : count[c] > 0 =>
        \A r \in On(c, {"held"}) : request[r].lease <= left[c]

Shape ==
    /\ count \in [Conns -> Nat]
    /\ left \in [Conns -> 0..Lease]
    /\ DOMAIN request = Requests
    /\ \A r \in Requests :
        /\ DOMAIN request[r] = {"state", "conn", "lease"}
        /\ request[r].state \in States
        /\ request[r].lease \in 0..Lease

Inv == Shape /\ Covers /\ NoPhantomLoad /\ LoadIsCounted

(* The sets whose sizes are compared with the count of a connection. *)
Unsettled(c) == On(c, {"held", "dropped"})
Alive(c) == {r \in On(c, {"held"}) : Fresh(r)}
Late(c) == On(c, {"late"})

LEMMA Finite ==
    ASSUME NEW c
    PROVE  /\ IsFiniteSet(Unsettled(c)) /\ Cardinality(Unsettled(c)) \in Nat
           /\ IsFiniteSet(Alive(c)) /\ Cardinality(Alive(c)) \in Nat
           /\ IsFiniteSet(Late(c)) /\ Cardinality(Late(c)) \in Nat
<1>1. /\ Unsettled(c) \subseteq Requests
      /\ Alive(c) \subseteq Requests
      /\ Late(c) \subseteq Requests
    BY DEF Unsettled, Alive, Late, On
<1>2. IsFiniteSet(Unsettled(c)) /\ IsFiniteSet(Alive(c)) /\ IsFiniteSet(Late(c))
    BY <1>1, LimitsAssumption, FS_Subset
<1> QED BY <1>2, FS_CardinalityType

LEMMA InitInv == Init => Inv
<1> SUFFICES ASSUME Init PROVE Inv
    OBVIOUS
<1>1. Shape
  <2>1. /\ DOMAIN Idle = {"state", "conn", "lease"}
        /\ Idle.state = "idle" /\ Idle.lease = 0
    BY DEF Idle
  <2> QED BY <2>1, LimitsAssumption DEF Init, Shape, States
<1>2. \A c \in Conns, s \in SUBSET {"held", "dropped", "late"} : On(c, s) = {}
    BY DEF Init, On, Idle
<1>3. Covers /\ NoPhantomLoad
    BY <1>2, FS_EmptySet DEF Init, Covers, NoPhantomLoad
<1>4. LoadIsCounted
  <2> SUFFICES ASSUME NEW c \in Conns
               PROVE  Cardinality(Alive(c)) <= count[c] + Cardinality(Late(c))
    BY DEF LoadIsCounted, Alive, Late
  <2>1. Alive(c) = {} /\ Late(c) = {}
    BY <1>2 DEF Alive, Late
  <2> QED BY <2>1, FS_EmptySet DEF Init
<1> QED BY <1>1, <1>3, <1>4 DEF Inv

(* A step that leaves counts, slots and requests alone. *)
LEMMA SameInv ==
    ASSUME Inv, UNCHANGED <<count, left, request>> PROVE Inv'
BY DEF Inv, Shape, Covers, NoPhantomLoad, LoadIsCounted, On, Fresh

(* The sets that count, after a step that changes one request. *)
OnlyChanges(r) == \A s \in Requests \ {r} : request'[s] = request[s]

LEMMA SetsChange ==
    ASSUME NEW r \in Requests, OnlyChanges(r), NEW c
    PROVE  /\ Unsettled(c)' = IF request'[r].conn = c /\ request'[r].state \in {"held", "dropped"}
                              THEN Unsettled(c) \cup {r} ELSE Unsettled(c) \ {r}
           /\ Alive(c)' = IF /\ request'[r].conn = c /\ request'[r].state = "held"
                             /\ request'[r].lease > 0
                          THEN Alive(c) \cup {r} ELSE Alive(c) \ {r}
           /\ Late(c)' = IF request'[r].conn = c /\ request'[r].state = "late"
                         THEN Late(c) \cup {r} ELSE Late(c) \ {r}
BY DEF Unsettled, Alive, Late, On, Fresh, OnlyChanges

LEMMA SelectInv ==
    ASSUME Inv, NEW r \in Requests, Select(r) PROVE Inv'
<1> DEFINE k == Conn[Picked(WithRoom)]
           q == [state |-> "held", conn |-> k, lease |-> Lease]
<1>1. /\ request[r].state = "idle"
      /\ request' = [request EXCEPT ![r] = q]
      /\ count' = [d \in Conns |-> IF d = k THEN count[d] + 1 ELSE count[d]]
      /\ left' = [d \in Conns |-> IF d = k THEN Lease ELSE left[d]]
    BY DEF Select, Increment
<1> HIDE DEF k
<1>2. /\ request'[r].state = "held" /\ request'[r].conn = k /\ request'[r].lease = Lease
      /\ DOMAIN request'[r] = {"state", "conn", "lease"}
      /\ OnlyChanges(r)
      /\ DOMAIN request' = Requests
    BY <1>1 DEF Inv, Shape, OnlyChanges
<1>3. Shape'
  <2>1. count' \in [Conns -> Nat] /\ left' \in [Conns -> 0..Lease]
    BY <1>1, LimitsAssumption DEF Inv, Shape
  <2> QED BY <1>2, <2>1, LimitsAssumption DEF Inv, Shape, States, OnlyChanges
<1> HIDE DEF q
<1>4. Covers'
  <2> SUFFICES ASSUME NEW c \in Conns, count'[c] > 0, NEW s \in On(c, {"held"})'
               PROVE  request'[s].lease <= left'[c]
    BY DEF Covers
  <2>1. s \in Requests /\ request'[s].conn = c /\ request'[s].state = "held"
    BY DEF On
  <2>2. request'[s].lease <= Lease
    BY <1>3, <2>1, LimitsAssumption DEF Shape
  <2>3. CASE c = k
    BY <1>1, <2>2, <2>3
  <2>4. CASE c # k
    <3>1. s # r
      BY <1>1, <1>2, <2>1, <2>4 DEF Inv, Shape
    <3>2. request'[s] = request[s] /\ s \in On(c, {"held"})
      BY <1>2, <2>1, <3>1 DEF OnlyChanges, On
    <3> QED BY <1>1, <2>4, <3>2 DEF Inv, Covers
  <2> QED BY <2>3, <2>4
<1>5. ASSUME NEW c \in Conns
      PROVE  /\ r \notin Unsettled(c) /\ r \notin Alive(c) /\ r \notin Late(c)
             /\ Unsettled(c)' = IF k = c THEN Unsettled(c) \cup {r} ELSE Unsettled(c)
             /\ Alive(c)' = IF k = c THEN Alive(c) \cup {r} ELSE Alive(c)
             /\ Late(c)' = Late(c)
  <2>1. r \notin Unsettled(c) /\ r \notin Alive(c) /\ r \notin Late(c)
    BY <1>1 DEF Unsettled, Alive, Late, On
  <2>2. /\ Unsettled(c) \ {r} = Unsettled(c)
        /\ Alive(c) \ {r} = Alive(c)
        /\ Late(c) \ {r} = Late(c)
    BY <2>1
  <2>3. /\ request'[r].state \in {"held", "dropped"} /\ request'[r].state # "late"
        /\ request'[r].lease > 0
    BY <1>2, LimitsAssumption
  <2>4. Unsettled(c)' = IF k = c THEN Unsettled(c) \cup {r} ELSE Unsettled(c) \ {r}
    BY <1>2, <2>3, SetsChange
  <2>5. Alive(c)' = IF k = c THEN Alive(c) \cup {r} ELSE Alive(c) \ {r}
    BY <1>2, <2>3, SetsChange
  <2>6. Late(c)' = Late(c) \ {r}
    BY <1>2, <2>3, SetsChange
  <2> QED BY <2>1, <2>2, <2>4, <2>5, <2>6
<1>6. ASSUME NEW c \in Conns
      PROVE  /\ count'[c] = IF k = c THEN count[c] + 1 ELSE count[c]
             /\ Cardinality(Unsettled(c)') =
                   IF k = c THEN Cardinality(Unsettled(c)) + 1 ELSE Cardinality(Unsettled(c))
             /\ Cardinality(Alive(c)') =
                   IF k = c THEN Cardinality(Alive(c)) + 1 ELSE Cardinality(Alive(c))
    BY <1>1, <1>5, Finite, FS_AddElement
<1>7. ASSUME NEW c \in Conns
      PROVE  /\ count'[c] <= Cardinality(Unsettled(c)')
             /\ Cardinality(Alive(c)') <= count'[c] + Cardinality(Late(c)')
  <2>1. /\ count[c] <= Cardinality(Unsettled(c))
        /\ Cardinality(Alive(c)) <= count[c] + Cardinality(Late(c))
        /\ count[c] \in Nat
    BY DEF Inv, Shape, NoPhantomLoad, LoadIsCounted, Unsettled, Alive, Late
  <2>2. Late(c)' = Late(c)
    BY <1>5
  <2> QED BY <1>6, <2>1, <2>2, Finite
<1>8. NoPhantomLoad' /\ LoadIsCounted'
    BY <1>7 DEF NoPhantomLoad, LoadIsCounted, Unsettled, Alive, Late
<1> QED BY <1>3, <1>4, <1>8 DEF Inv

LEMMA ReleaseInv ==
    ASSUME Inv, NEW r \in Requests, Release(r) PROVE Inv'
<1> DEFINE k == request[r].conn
           late == ~Fresh(r) /\ k # "" /\ count[k] > 0
<1>1. /\ request[r].state = "held"
      /\ count' = [d \in Conns |-> IF d = k /\ count[d] > 0 THEN count[d] - 1 ELSE count[d]]
      /\ left' = [d \in Conns |-> IF d = k /\ count[d] <= 1 THEN 0 ELSE left[d]]
      /\ request' = [request EXCEPT ![r] =
              IF late THEN [state |-> "late", conn |-> k, lease |-> 0] ELSE Idle]
    BY DEF Release, Decrement
<1> HIDE DEF late
<1>2. /\ DOMAIN request' = Requests
      /\ OnlyChanges(r)
      /\ request'[r] = IF late THEN [state |-> "late", conn |-> k, lease |-> 0] ELSE Idle
    BY <1>1 DEF Inv, Shape, OnlyChanges
<1>3. /\ DOMAIN request'[r] = {"state", "conn", "lease"}
      /\ late => request'[r].state = "late"
      /\ ~late => request'[r].state = "idle"
      /\ late => request'[r].conn = k
      /\ request'[r].lease \in 0..Lease
  <2>1. CASE late
    <3>1. request'[r] = [state |-> "late", conn |-> k, lease |-> 0]
      BY <1>2, <2>1
    <3> QED BY <2>1, <3>1, LimitsAssumption
  <2>2. CASE ~late
    <3>1. request'[r] = Idle
      BY <1>2, <2>2
    <3>2. /\ DOMAIN Idle = {"state", "conn", "lease"}
          /\ Idle.state = "idle" /\ Idle.lease = 0
      BY DEF Idle
    <3> QED BY <2>2, <3>1, <3>2, LimitsAssumption
  <2> QED BY <2>1, <2>2
<1>4. Shape'
  <2>1. count' \in [Conns -> Nat]
    BY <1>1 DEF Inv, Shape
  <2>2. left' \in [Conns -> 0..Lease]
    BY <1>1, LimitsAssumption DEF Inv, Shape
  <2> QED BY <1>2, <1>3, <2>1, <2>2 DEF Inv, Shape, States, OnlyChanges
<1>5. Covers'
  <2> SUFFICES ASSUME NEW c \in Conns, count'[c] > 0, NEW s \in On(c, {"held"})'
               PROVE  request'[s].lease <= left'[c]
    BY DEF Covers
  <2>1. s \in Requests /\ request'[s].conn = c /\ request'[s].state = "held"
    BY DEF On
  <2>2. s # r
    BY <1>3, <2>1
  <2>3. request'[s] = request[s] /\ s \in On(c, {"held"})
    BY <1>2, <2>1, <2>2 DEF OnlyChanges, On
  <2>4. count[c] > 0 /\ left'[c] = left[c]
    BY <1>1 DEF Inv, Shape
  <2> QED BY <2>3, <2>4 DEF Inv, Covers
<1>6. ASSUME NEW c \in Conns
      PROVE  /\ Unsettled(c)' = Unsettled(c) \ {r}
             /\ Alive(c)' = Alive(c) \ {r}
             /\ Late(c)' = IF late /\ k = c THEN Late(c) \cup {r} ELSE Late(c)
  <2>1. r \notin Late(c)
    BY <1>1 DEF Late, On
  <2>2. Late(c) \ {r} = Late(c)
    BY <2>1
  <2>3. request'[r].state \notin {"held", "dropped"}
    BY <1>3
  <2>4. Unsettled(c)' = Unsettled(c) \ {r} /\ Alive(c)' = Alive(c) \ {r}
    BY <1>2, <2>3, SetsChange
  <2>5. Late(c)' = IF late /\ k = c THEN Late(c) \cup {r} ELSE Late(c) \ {r}
    BY <1>2, <1>3, SetsChange
  <2> QED BY <2>2, <2>4, <2>5
<1>7. ASSUME NEW c \in Conns
      PROVE  /\ count'[c] <= Cardinality(Unsettled(c)')
             /\ Cardinality(Alive(c)') <= count'[c] + Cardinality(Late(c)')
  <2>1. /\ count[c] <= Cardinality(Unsettled(c))
        /\ Cardinality(Alive(c)) <= count[c] + Cardinality(Late(c))
        /\ count[c] \in Nat
    BY DEF Inv, Shape, NoPhantomLoad, LoadIsCounted, Unsettled, Alive, Late
  <2>2. CASE k # c
    <3>1. r \notin Unsettled(c) /\ r \notin Alive(c)
      BY <2>2 DEF Unsettled, Alive, On
    <3>2. Unsettled(c)' = Unsettled(c) /\ Alive(c)' = Alive(c) /\ Late(c)' = Late(c)
      BY <1>6, <2>2, <3>1
    <3> QED BY <1>1, <2>1, <2>2, <3>2
  <2>3. CASE k = c /\ count[c] = 0
    <3>1. count'[c] = 0
      BY <1>1, <2>3
    <3>2. Unsettled(c)' = Unsettled(c) \ {r} /\ Alive(c)' = Alive(c) \ {r}
      BY <1>6
    <3>3. Cardinality(Alive(c)') <= Cardinality(Alive(c)) /\ IsFiniteSet(Unsettled(c)')
      BY <3>2, Finite, FS_Subset
    <3>4. Cardinality(Unsettled(c)') \in Nat /\ Cardinality(Alive(c)') \in Nat
      <4>1. IsFiniteSet(Alive(c)')
        BY <3>2, Finite, FS_Subset
      <4> QED BY <3>3, <4>1, FS_CardinalityType
    <3>5. Late(c)' = Late(c)
      BY <1>6, <2>3 DEF late
    <3> QED BY <2>1, <2>3, <3>1, <3>3, <3>4, <3>5, Finite
  <2>4. CASE k = c /\ count[c] > 0
    <3>0. /\ Cardinality(Unsettled(c)) \in Nat /\ Cardinality(Alive(c)) \in Nat
          /\ Cardinality(Late(c)) \in Nat
      BY Finite
    <3>1. count'[c] = count[c] - 1
      BY <1>1, <2>4
    <3>2. r \in Unsettled(c)
      BY <1>1, <2>4 DEF Unsettled, On
    <3>3. Cardinality(Unsettled(c)') = Cardinality(Unsettled(c)) - 1
      BY <1>6, <3>2, Finite, FS_RemoveElement
    <3>4. CASE Fresh(r)
      <4>1. r \in Alive(c)
        BY <1>1, <2>4, <3>4 DEF Alive, On
      <4>2. Cardinality(Alive(c)') = Cardinality(Alive(c)) - 1
        BY <1>6, <4>1, Finite, FS_RemoveElement
      <4>3. Late(c)' = Late(c)
        BY <1>6, <3>4 DEF late
      <4> QED BY <2>1, <3>0, <3>1, <3>3, <4>2, <4>3
    <3>5. CASE ~Fresh(r)
      <4>1. r \notin Alive(c) /\ r \notin Late(c)
        BY <1>1, <3>5 DEF Alive, Late, On
      <4>2. late
        <5>1. c # ""
          BY TargetsAssumption
        <5> QED BY <2>4, <5>1, <3>5 DEF late
      <4>3. Alive(c)' = Alive(c)
        BY <1>6, <4>1
      <4>4. Late(c)' = Late(c) \cup {r}
        BY <1>6, <2>4, <4>2
      <4>5. Cardinality(Late(c)') = Cardinality(Late(c)) + 1
        BY <4>1, <4>4, Finite, FS_AddElement
      <4> QED BY <2>1, <3>0, <3>1, <3>3, <4>3, <4>5
    <3> QED BY <3>4, <3>5
  <2> QED BY <2>1, <2>2, <2>3, <2>4
<1>8. NoPhantomLoad' /\ LoadIsCounted'
    BY <1>7 DEF NoPhantomLoad, LoadIsCounted, Unsettled, Alive, Late
<1> QED BY <1>4, <1>5, <1>8 DEF Inv

LEMMA DropInv ==
    ASSUME Inv, NEW r \in Requests, Drop(r) PROVE Inv'
<1>1. /\ request[r].state = "held"
      /\ request' = [request EXCEPT ![r] = [request[r] EXCEPT !.state = "dropped"]]
      /\ count' = count /\ left' = left
    BY DEF Drop
<1>2. /\ DOMAIN request' = Requests
      /\ OnlyChanges(r)
      /\ request'[r] = [request[r] EXCEPT !.state = "dropped"]
    BY <1>1 DEF Inv, Shape, OnlyChanges
<1>3. /\ DOMAIN request'[r] = {"state", "conn", "lease"}
      /\ request'[r].state = "dropped"
      /\ request'[r].conn = request[r].conn
      /\ request'[r].lease \in 0..Lease
  <2>1. DOMAIN request[r] = {"state", "conn", "lease"} /\ request[r].lease \in 0..Lease
    BY DEF Inv, Shape
  <2> QED BY <1>2, <2>1
<1>4. Shape'
    BY <1>1, <1>2, <1>3 DEF Inv, Shape, States, OnlyChanges
<1>5. Covers'
  <2> SUFFICES ASSUME NEW c \in Conns, count'[c] > 0, NEW s \in On(c, {"held"})'
               PROVE  request'[s].lease <= left'[c]
    BY DEF Covers
  <2>1. s \in Requests /\ request'[s].conn = c /\ request'[s].state = "held"
    BY DEF On
  <2>2. s # r
    BY <1>3, <2>1
  <2>3. request'[s] = request[s] /\ s \in On(c, {"held"})
    BY <1>2, <2>1, <2>2 DEF OnlyChanges, On
  <2> QED BY <1>1, <2>3 DEF Inv, Covers
<1>6. ASSUME NEW c \in Conns
      PROVE  /\ count'[c] <= Cardinality(Unsettled(c)')
             /\ Cardinality(Alive(c)') <= count'[c] + Cardinality(Late(c)')
  <2>1. /\ count[c] <= Cardinality(Unsettled(c))
        /\ Cardinality(Alive(c)) <= count[c] + Cardinality(Late(c))
        /\ count[c] \in Nat
    BY DEF Inv, Shape, NoPhantomLoad, LoadIsCounted, Unsettled, Alive, Late
  <2>2. Unsettled(c)' = Unsettled(c)
    BY <1>1, <1>2, <1>3 DEF Unsettled, On, OnlyChanges
  <2>3. Late(c)' = Late(c)
    BY <1>1, <1>2, <1>3 DEF Late, On, OnlyChanges
  <2>4. Alive(c)' \subseteq Alive(c)
    BY <1>2, <1>3 DEF Alive, On, Fresh, OnlyChanges
  <2>5. Cardinality(Alive(c)') <= Cardinality(Alive(c)) /\ Cardinality(Alive(c)') \in Nat
    BY <2>4, Finite, FS_Subset, FS_CardinalityType
  <2> QED BY <1>1, <2>1, <2>2, <2>3, <2>5, Finite
<1>7. NoPhantomLoad' /\ LoadIsCounted'
    BY <1>6 DEF NoPhantomLoad, LoadIsCounted, Unsettled, Alive, Late
<1> QED BY <1>4, <1>5, <1>7 DEF Inv

LEMMA TickInv ==
    ASSUME Inv, Tick PROVE Inv'
<1> DEFINE aged(r) == [request[r] EXCEPT !.lease = Less(@)]
<1>1. /\ left' = [c \in Conns |-> Less(left[c])]
      /\ count' = [c \in Conns |-> IF left[c] <= 1 THEN 0 ELSE count[c]]
      /\ request' = [r \in Requests |-> IF Forgotten(r) THEN Idle ELSE aged(r)]
    BY DEF Tick
<1>2. ASSUME NEW r \in Requests
      PROVE  /\ request[r].lease \in 0..Lease
             /\ request'[r] = IF Forgotten(r) THEN Idle ELSE aged(r)
             /\ DOMAIN aged(r) = {"state", "conn", "lease"}
             /\ aged(r).state = request[r].state
             /\ aged(r).conn = request[r].conn
             /\ aged(r).lease = Less(request[r].lease)
             /\ aged(r).state \in States
  <2>1. /\ DOMAIN request[r] = {"state", "conn", "lease"}
        /\ request[r].lease \in 0..Lease /\ request[r].state \in States
    BY DEF Inv, Shape
  <2> QED BY <1>1, <2>1
<1>3. /\ DOMAIN Idle = {"state", "conn", "lease"}
      /\ Idle.state = "idle" /\ Idle.lease = 0
    BY DEF Idle
<1> HIDE DEF aged
<1>4. Shape'
  <2>1. count' \in [Conns -> Nat]
    BY <1>1 DEF Inv, Shape
  <2>2. left' \in [Conns -> 0..Lease]
    BY <1>1, LimitsAssumption DEF Inv, Shape, Less
  <2>3. DOMAIN request' = Requests
    BY <1>1
  <2>4. ASSUME NEW r \in Requests
        PROVE  /\ DOMAIN request'[r] = {"state", "conn", "lease"}
               /\ request'[r].state \in States
               /\ request'[r].lease \in 0..Lease
    <3>1. CASE Forgotten(r)
      BY <1>2, <1>3, <3>1, LimitsAssumption DEF States
    <3>2. CASE ~Forgotten(r)
      BY <1>2, <3>2, LimitsAssumption DEF Less
    <3> QED BY <3>1, <3>2
  <2> QED BY <2>1, <2>2, <2>3, <2>4 DEF Shape
\* held requests stay, one tick older
<1>5. ASSUME NEW c, NEW r \in On(c, {"held"})'
      PROVE  r \in On(c, {"held"}) /\ request'[r].lease = Less(request[r].lease)
  <2>1. r \in Requests /\ request'[r].state = "held" /\ request'[r].conn = c
    BY DEF On
  <2>2. request'[r] = aged(r)
    BY <1>2, <1>3, <2>1
  <2> QED BY <1>2, <2>1, <2>2 DEF On
<1>6. Covers'
  <2> SUFFICES ASSUME NEW c \in Conns, count'[c] > 0, NEW r \in On(c, {"held"})'
               PROVE  request'[r].lease <= left'[c]
    BY DEF Covers
  <2>1. r \in On(c, {"held"}) /\ r \in Requests /\ request'[r].lease = Less(request[r].lease)
    BY <1>5 DEF On
  <2>2. count[c] > 0 /\ left[c] \in Nat /\ left[c] > 1 /\ left'[c] = left[c] - 1
    BY <1>1 DEF Inv, Shape, Less
  <2>3. request[r].lease <= left[c] /\ request[r].lease \in Nat
    BY <1>2, <2>1, <2>2, LimitsAssumption DEF Inv, Covers
  <2> QED BY <2>1, <2>2, <2>3 DEF Less
<1>7. ASSUME NEW c \in Conns
      PROVE  count'[c] <= Cardinality(Unsettled(c)')
  <2>1. count[c] <= Cardinality(Unsettled(c)) /\ left[c] \in Nat
    BY DEF Inv, Shape, NoPhantomLoad, Unsettled
  <2>2. CASE left[c] <= 1
    <3>1. Cardinality(Unsettled(c)') \in Nat
      <4>1. Unsettled(c)' \subseteq Requests
        BY DEF Unsettled, On
      <4> QED BY <4>1, LimitsAssumption, FS_Subset, FS_CardinalityType
    <3> QED BY <1>1, <2>2, <3>1
  <2>3. CASE left[c] > 1
    <3>1. left'[c] # 0
      BY <1>1, <2>1, <2>3 DEF Less
    <3>2. c # ""
      BY TargetsAssumption
    <3>3. ASSUME NEW r \in Unsettled(c) PROVE r \in Unsettled(c)'
      <4>1. r \in Requests /\ request[r].conn = c /\ request[r].state \in {"held", "dropped"}
        BY DEF Unsettled, On
      <4>2. ~Forgotten(r)
        BY <3>1, <3>2, <4>1 DEF Forgotten
      <4> QED BY <1>2, <4>1, <4>2 DEF Unsettled, On
    <3>4. ASSUME NEW r \in Unsettled(c)' PROVE r \in Unsettled(c)
      <4>1. /\ r \in Requests /\ request'[r].conn = c
            /\ request'[r].state \in {"held", "dropped"}
        BY DEF Unsettled, On
      <4>2. request'[r] = aged(r)
        BY <1>2, <1>3, <4>1
      <4> QED BY <1>2, <4>1, <4>2 DEF Unsettled, On
    <3>5. Unsettled(c)' = Unsettled(c)
      BY <3>3, <3>4
    <3> QED BY <1>1, <2>1, <2>3, <3>5
  <2> QED BY <2>1, <2>2, <2>3
<1>8. ASSUME NEW c \in Conns
      PROVE  Cardinality(Alive(c)') <= count'[c] + Cardinality(Late(c)')
  <2>1. /\ Cardinality(Alive(c)) <= count[c] + Cardinality(Late(c))
        /\ count[c] \in Nat /\ count'[c] \in Nat /\ left[c] \in Nat
    BY <1>4 DEF Inv, Shape, LoadIsCounted, Alive, Late
  <2>2. Late(c)' \subseteq Requests /\ Alive(c)' \subseteq Requests
    BY DEF Late, Alive, On
  <2>3. /\ IsFiniteSet(Late(c)') /\ Cardinality(Late(c)') \in Nat
        /\ Cardinality(Alive(c)') \in Nat
    BY <2>2, LimitsAssumption, FS_Subset, FS_CardinalityType
  <2>4. CASE Alive(c)' = {}
    BY <2>1, <2>3, <2>4, FS_EmptySet
  <2>5. CASE Alive(c)' # {}
    <3>1. PICK a \in Alive(c)' : TRUE
      BY <2>5
    <3>2. a \in On(c, {"held"}) /\ a \in Requests /\ request[a].lease > 1
      <4>1. a \in On(c, {"held"})' /\ request'[a].lease > 0
        BY DEF Alive, Fresh
      <4>2. a \in On(c, {"held"}) /\ request'[a].lease = Less(request[a].lease)
        BY <1>5, <4>1
      <4>3. a \in Requests
        BY <4>2 DEF On
      <4> QED BY <1>2, <4>1, <4>2, <4>3, LimitsAssumption DEF Less
    <3>3. count'[c] = count[c]
      <4>1. CASE count[c] = 0
        BY <1>1, <4>1
      <4>2. CASE count[c] > 0
        <5>1. request[a].lease <= left[c]
          BY <3>2, <4>2 DEF Inv, Covers
        <5>2. left[c] > 1
          BY <1>2, <2>1, <3>2, <5>1, LimitsAssumption
        <5> QED BY <1>1, <2>1, <5>2
      <4> QED BY <2>1, <4>1, <4>2
    <3>4. ASSUME NEW r \in Late(c) PROVE r \in Late(c)'
      <4>1. r \in Requests /\ request[r].conn = c /\ request[r].state = "late"
        BY DEF Late, On
      <4>2. ~(request[a].lease <= 1)
        BY <1>2, <3>2, LimitsAssumption
      <4>3. ~Forgotten(r)
        BY <3>2, <4>1, <4>2 DEF Forgotten
      <4> QED BY <1>2, <4>1, <4>3 DEF Late, On
    <3>5. Cardinality(Late(c)) <= Cardinality(Late(c)')
      BY <2>3, <3>4, FS_Subset
    <3>6. ASSUME NEW r \in Alive(c)' PROVE r \in Alive(c)
      <4>1. r \in On(c, {"held"})' /\ request'[r].lease > 0
        BY DEF Alive, Fresh
      <4>2. r \in On(c, {"held"}) /\ request'[r].lease = Less(request[r].lease)
        BY <1>5, <4>1
      <4>3. r \in Requests
        BY <4>2 DEF On
      <4>4. request[r].lease > 0
        BY <1>2, <4>1, <4>2, <4>3, LimitsAssumption DEF Less
      <4> QED BY <4>2, <4>4 DEF Alive, Fresh
    <3>7. Cardinality(Alive(c)') <= Cardinality(Alive(c))
      BY <3>6, Finite, FS_Subset
    <3> QED BY <2>1, <2>3, <3>3, <3>5, <3>7, Finite
  <2> QED BY <2>4, <2>5
<1>9. NoPhantomLoad' /\ LoadIsCounted'
    BY <1>7, <1>8 DEF NoPhantomLoad, LoadIsCounted, Unsettled, Alive, Late
<1> QED BY <1>4, <1>6, <1>9 DEF Inv

THEOREM Invariance == Spec => []Inv
<1>1. Init => Inv
    BY InitInv
<1>2. Inv /\ [Next]_vars => Inv'
  <2> SUFFICES ASSUME Inv, [Next]_vars PROVE Inv'
    OBVIOUS
  <2>1. ASSUME NEW r \in Requests, Select(r) PROVE Inv'
    BY <2>1, SelectInv
  <2>2. ASSUME NEW r \in Requests, Release(r) PROVE Inv'
    BY <2>2, ReleaseInv
  <2>3. ASSUME NEW r \in Requests, Drop(r) PROVE Inv'
    BY <2>3, DropInv
  <2>4. ASSUME NEW c \in Conns, Saturate(c) \/ Reopen(c) PROVE Inv'
    BY <2>4, SameInv DEF Saturate, Reopen
  <2>5. CASE Evict
    BY <2>5, SameInv DEF Evict
  <2>6. CASE Tick
    BY <2>6, TickInv
  <2>7. CASE UNCHANGED vars
    BY <2>7, SameInv DEF vars
  <2> QED BY <2>1, <2>2, <2>3, <2>4, <2>5, <2>6, <2>7 DEF Next
<1> QED BY <1>1, <1>2, PTL DEF Spec

(* A connection never shows more in flight than the requests that were routed  *)
(* to it and not released, for any number of them, any lease and caps.         *)
THEOREM NeverPhantom == Spec => []NoPhantomLoad
<1>1. Inv => NoPhantomLoad
    BY DEF Inv
<1> QED BY <1>1, Invariance, PTL

(* A request within its lease is missing from the count of its connection only *)
(* for a release that came after its own lease, one for one.                   *)
THEOREM AliveIsCounted == Spec => []LoadIsCounted
<1>1. Inv => LoadIsCounted
    BY DEF Inv
<1> QED BY <1>1, Invariance, PTL

(***************************************************************************)
(* Sums.                                                                   *)
(***************************************************************************)

(* A family of subsets of a finite set that holds the empty one, and with a    *)
(* set each set of one more member, holds them all.                            *)
LEMMA SetInduction ==
    ASSUME NEW S, IsFiniteSet(S), NEW G, {} \in G,
           \A T \in SUBSET S : \A x \in S \ T : T \in G => T \cup {x} \in G
    PROVE  \A T \in SUBSET S : T \in G
<1> DEFINE X == (SUBSET S) \ G
<1> SUFFICES ASSUME X # {} PROVE FALSE
    OBVIOUS
<1>1. X \subseteq FiniteSubsetsOf(S)
    BY FS_Subset DEF FiniteSubsetsOf
<1>2. IsWellFoundedOn(StrictSubsetOrdering(S), FiniteSubsetsOf(S))
    BY FS_StrictSubsetOrderingWellFounded
<1>3. PICK T \in X : \A U \in X : ~ (<<U, T>> \in StrictSubsetOrdering(S))
    BY <1>1, <1>2, WFMin
<1>4. PICK x \in T : TRUE
    OBVIOUS
<1>5. T \ {x} \in SUBSET S /\ T \ {x} # T /\ (T \ {x}) \cup {x} = T /\ x \in S \ (T \ {x})
    BY <1>4
<1>6. <<T \ {x}, T>> \in StrictSubsetOrdering(S)
    BY <1>5 DEF StrictSubsetOrdering
<1>7. T \ {x} \in G
    BY <1>3, <1>5, <1>6
<1>8. T \in G
    BY <1>5, <1>7
<1> QED BY <1>8

(* Sums over sets, as TotalWeight and SharesBalance have them.                 *)
Total(f, S) == MapThenSumSet(LAMBDA t : f[t], S)

(* g is the sum of f over the subsets of S.                                    *)
Additive(g, f, S) ==
    /\ g \in [SUBSET S -> Int]
    /\ \A x \in S : f[x] \in Int
    /\ g[{}] = 0
    /\ \A T \in SUBSET S : \A x \in S \ T : g[T \cup {x}] = g[T] + f[x]

LEMMA SumExists ==
    ASSUME NEW S, IsFiniteSet(S), NEW f, \A x \in S : f[x] \in Int
    PROVE  \E g : Additive(g, f, S)
<1> DEFINE G == {T \in SUBSET S : \E g : Additive(g, f, T)}
<1>1. {} \in G
  <2> DEFINE h == [T \in SUBSET {} |-> 0]
  <2>1. h \in [SUBSET {} -> Int] /\ h[{}] = 0
    OBVIOUS
  <2>2. Additive(h, f, {})
    BY <2>1 DEF Additive
  <2> QED BY <2>2
<1>2. ASSUME NEW T \in SUBSET S, NEW x \in S \ T, T \in G PROVE T \cup {x} \in G
  <2>1. PICK g : Additive(g, f, T)
    BY <1>2
  <2> DEFINE R == T \cup {x}
             h == [U \in SUBSET R |-> IF x \in U THEN g[U \ {x}] + f[x] ELSE g[U]]
  <2>2. \A U \in SUBSET R : U \ {x} \in SUBSET T /\ g[U \ {x}] \in Int /\ f[x] \in Int
    BY <2>1 DEF Additive
  <2>3. \A U \in SUBSET R : x \notin U => U \ {x} = U
    OBVIOUS
  <2>4. h \in [SUBSET R -> Int]
    <3>1. ASSUME NEW U \in SUBSET R
          PROVE  (IF x \in U THEN g[U \ {x}] + f[x] ELSE g[U]) \in Int
      <4>1. g[U \ {x}] \in Int /\ f[x] \in Int
        BY <2>2
      <4>2. g[U \ {x}] + f[x] \in Int
        BY <4>1
      <4>3. x \notin U => g[U] \in Int
        BY <2>3, <4>1
      <4> QED BY <4>2, <4>3
    <3> HIDE DEF R
    <3> QED BY <3>1
  <2>5. h[{}] = 0
    BY <2>1 DEF Additive
  <2>6. ASSUME NEW U \in SUBSET R, NEW y \in R \ U PROVE h[U \cup {y}] = h[U] + f[y]
    <3>1. CASE y = x
      <4>1. (U \cup {x}) \ {x} = U /\ x \in U \cup {x} /\ U \cup {x} \in SUBSET R /\ x \notin U
        BY <3>1
      <4>2. h[U \cup {x}] = g[U] + f[x] /\ h[U] = g[U]
        BY <4>1
      <4> QED BY <3>1, <4>2
    <3>2. CASE y # x /\ x \in U
      <4>1. /\ U \cup {y} \in SUBSET R /\ x \in U \cup {y}
            /\ (U \cup {y}) \ {x} = (U \ {x}) \cup {y}
            /\ U \ {x} \in SUBSET T /\ y \in T \ (U \ {x})
        BY <3>2
      <4>2. g[(U \ {x}) \cup {y}] = g[U \ {x}] + f[y]
        BY <2>1, <4>1 DEF Additive
      <4>3. h[U \cup {y}] = g[(U \ {x}) \cup {y}] + f[x] /\ h[U] = g[U \ {x}] + f[x]
        BY <3>2, <4>1
      <4>4. g[U \ {x}] \in Int /\ f[x] \in Int /\ f[y] \in Int
        BY <2>2, <4>1
      <4> HIDE DEF h
      <4> QED BY <4>2, <4>3, <4>4
    <3>3. CASE y # x /\ x \notin U
      <4>1. U \cup {y} \in SUBSET R /\ x \notin U \cup {y} /\ U \in SUBSET T /\ y \in T \ U
        BY <3>3
      <4>2. g[U \cup {y}] = g[U] + f[y]
        BY <2>1, <4>1 DEF Additive
      <4>3. h[U \cup {y}] = g[U \cup {y}] /\ h[U] = g[U]
        BY <3>3, <4>1
      <4> QED BY <4>2, <4>3
    <3> QED BY <3>1, <3>2, <3>3
  <2>7. Additive(h, f, R)
    <3>1. \A y \in R : f[y] \in Int
      OBVIOUS
    <3> HIDE DEF h, R
    <3> QED BY <2>4, <2>5, <2>6, <3>1 DEF Additive
  <2> QED BY <2>7
<1>3. \A T \in SUBSET S : T \in G
  <2> HIDE DEF G
  <2> QED BY <1>1, <1>2, SetInduction
<1> QED BY <1>3

(* The sum of the community modules is that sum.                               *)
LEMMA TotalIsSum ==
    ASSUME NEW S, IsFiniteSet(S), NEW f, NEW g, Additive(g, f, S)
    PROVE  Total(f, S) = g[S]
<1> DEFINE Pick(T) == CHOOSE x \in T : TRUE
           Rec(h) == [T \in SUBSET S |->
                         IF T = {} THEN 0 ELSE f[Pick(T)] + h[T \ {Pick(T)}]]
           iter == CHOOSE h : h = Rec(h)
<1>1. Total(f, S) = iter[S]
    BY DEF Total, MapThenSumSet, MapThenFoldSet
<1>2. ASSUME NEW T \in SUBSET S, T # {}
      PROVE  /\ Pick(T) \in T /\ T \ {Pick(T)} \in SUBSET S
             /\ Pick(T) \in S \ (T \ {Pick(T)})
             /\ (T \ {Pick(T)}) \cup {Pick(T)} = T
    BY <1>2
<1>3. g = Rec(g)
  <2>1. ASSUME NEW T \in SUBSET S, T # {} PROVE g[T] = f[Pick(T)] + g[T \ {Pick(T)}]
    <3>1. f[Pick(T)] \in Int
      BY <1>2, <2>1 DEF Additive
    <3>2. g[T] = g[T \ {Pick(T)}] + f[Pick(T)] /\ g[T \ {Pick(T)}] \in Int
      <4> HIDE DEF Pick
      <4> QED BY <1>2, <2>1 DEF Additive
    <3> HIDE DEF Pick
    <3> QED BY <3>1, <3>2
  <2> HIDE DEF Pick
  <2> QED BY <2>1 DEF Additive
<1>4. iter = Rec(iter)
  <2> HIDE DEF Rec
  <2> QED BY <1>3
<1> DEFINE G == {T \in SUBSET S : iter[T] = g[T]}
           X == (SUBSET S) \ G
<1>5. X = {}
  <2> SUFFICES ASSUME X # {} PROVE FALSE
    OBVIOUS
  <2> HIDE DEF iter
  <2>1. X \subseteq FiniteSubsetsOf(S)
    BY FS_Subset DEF FiniteSubsetsOf
  <2>2. IsWellFoundedOn(StrictSubsetOrdering(S), FiniteSubsetsOf(S))
    BY FS_StrictSubsetOrderingWellFounded
  <2>3. PICK T \in X : \A U \in X : ~ (<<U, T>> \in StrictSubsetOrdering(S))
    BY <2>1, <2>2, WFMin
  <2>4. T \in SUBSET S /\ iter[T] # g[T]
    OBVIOUS
  <2>5. T # {}
    BY <1>4, <2>4 DEF Additive
  <2> HIDE DEF Pick
  <2>6. T \ {Pick(T)} \in SUBSET S /\ T \ {Pick(T)} # T /\ T \ {Pick(T)} \subseteq T
    BY <1>2, <2>4, <2>5
  <2>7. <<T \ {Pick(T)}, T>> \in StrictSubsetOrdering(S)
    BY <2>4, <2>6 DEF StrictSubsetOrdering
  <2>8. iter[T \ {Pick(T)}] = g[T \ {Pick(T)}]
    BY <2>3, <2>6, <2>7
  <2>9. iter[T] = g[T]
    BY <1>3, <1>4, <2>4, <2>5, <2>8
  <2> QED BY <2>4, <2>9
<1>6. iter[S] = g[S]
  <2> HIDE DEF iter
  <2> QED BY <1>5
<1> HIDE DEF iter
<1> QED BY <1>1, <1>6

(* A function of integers, and what its sums are.                              *)
LEMMA TotalOfSome ==
    ASSUME NEW S, IsFiniteSet(S), NEW f, \A x \in S : f[x] \in Int
    PROVE  /\ Total(f, {}) = 0
           /\ \A T \in SUBSET S : Total(f, T) \in Int
           /\ \A T \in SUBSET S : \A x \in S \ T : Total(f, T \cup {x}) = Total(f, T) + f[x]
<1>1. PICK g : Additive(g, f, S)
    BY SumExists
<1>2. ASSUME NEW T \in SUBSET S PROVE Total(f, T) = g[T]
  <2> DEFINE h == [U \in SUBSET T |-> g[U]]
  <2>1. IsFiniteSet(T)
    BY FS_Subset
  <2>2. Additive(h, f, T)
    <3>1. h \in [SUBSET T -> Int] /\ h[{}] = 0
      BY <1>1 DEF Additive
    <3>2. ASSUME NEW U \in SUBSET T, NEW x \in T \ U PROVE h[U \cup {x}] = h[U] + f[x]
      <4>1. U \in SUBSET S /\ x \in S \ U /\ U \cup {x} \in SUBSET T
        OBVIOUS
      <4>2. g[U \cup {x}] = g[U] + f[x]
        BY <1>1, <4>1 DEF Additive
      <4> QED BY <4>1, <4>2
    <3>3. \A x \in T : f[x] \in Int
      OBVIOUS
    <3> HIDE DEF h
    <3> QED BY <3>1, <3>2, <3>3 DEF Additive
  <2> HIDE DEF h
  <2>3. Total(f, T) = h[T]
    BY <2>1, <2>2, TotalIsSum
  <2> QED BY <2>3 DEF h
<1>3. {} \in SUBSET S /\ \A T \in SUBSET S : \A x \in S \ T : T \cup {x} \in SUBSET S
    OBVIOUS
<1>4. Total(f, {}) = 0
    BY <1>1, <1>2, <1>3 DEF Additive
<1>5. ASSUME NEW T \in SUBSET S PROVE Total(f, T) \in Int
    BY <1>1, <1>2 DEF Additive
<1>6. ASSUME NEW T \in SUBSET S, NEW x \in S \ T PROVE Total(f, T \cup {x}) = Total(f, T) + f[x]
  <2>1. g[T \cup {x}] = g[T] + f[x]
    BY <1>1 DEF Additive
  <2> QED BY <1>2, <1>3, <2>1
<1> QED BY <1>4, <1>5, <1>6

LEMMA Distributes ==
    \A a, b, c \in Int : a * c \in Int /\ b * c \in Int /\ (a + b) * c = a * c + b * c
OBVIOUS

LEMMA TotalsAdd ==
    ASSUME NEW S, IsFiniteSet(S), NEW f, NEW g, NEW h,
           \A x \in S : f[x] \in Int /\ g[x] \in Int /\ h[x] = f[x] + g[x]
    PROVE  \A T \in SUBSET S : Total(h, T) = Total(f, T) + Total(g, T)
<1> DEFINE G == {T \in SUBSET S : Total(h, T) = Total(f, T) + Total(g, T)}
<1>1. \A x \in S : h[x] \in Int
    OBVIOUS
<1>2. {} \in G
    BY <1>1, TotalOfSome
<1>3. ASSUME NEW T \in SUBSET S, NEW x \in S \ T, T \in G PROVE T \cup {x} \in G
  <2>1. /\ Total(f, T) \in Int /\ Total(f, T \cup {x}) = Total(f, T) + f[x]
        /\ Total(g, T) \in Int /\ Total(g, T \cup {x}) = Total(g, T) + g[x]
        /\ Total(h, T) \in Int /\ Total(h, T \cup {x}) = Total(h, T) + h[x]
    BY <1>1, TotalOfSome
  <2>2. f[x] \in Int /\ g[x] \in Int /\ h[x] = f[x] + g[x]
    OBVIOUS
  <2>3. Total(h, T) = Total(f, T) + Total(g, T)
    BY <1>3
  <2> QED BY <2>1, <2>2, <2>3
<1>4. \A T \in SUBSET S : T \in G
  <2> HIDE DEF G
  <2> QED BY <1>2, <1>3, SetInduction
<1> QED BY <1>4

(* Two functions are as d to c.                                                *)
AsTo(h, f, d, c, S) == \A x \in S : f[x] \in Int /\ h[x] \in Int /\ h[x] * c = f[x] * d

LEMMA TotalsScale ==
    ASSUME NEW S, IsFiniteSet(S), NEW f, NEW h, NEW c \in Int, NEW d \in Int,
           AsTo(h, f, d, c, S)
    PROVE  \A T \in SUBSET S : Total(h, T) * c = Total(f, T) * d
<1> DEFINE G == {T \in SUBSET S : Total(h, T) * c = Total(f, T) * d}
<1>1. {} \in G
  <2>1. \A x \in S : f[x] \in Int /\ h[x] \in Int
    BY DEF AsTo
  <2>2. Total(f, {}) = 0 /\ Total(h, {}) = 0
    BY <2>1, TotalOfSome
  <2> QED BY <2>2
<1>2. ASSUME NEW T \in SUBSET S, NEW x \in S \ T, T \in G PROVE T \cup {x} \in G
  <2>1. /\ Total(f, T) \in Int /\ Total(f, T \cup {x}) = Total(f, T) + f[x]
        /\ Total(h, T) \in Int /\ Total(h, T \cup {x}) = Total(h, T) + h[x]
    <3>1. \A y \in S : f[y] \in Int /\ h[y] \in Int
      BY DEF AsTo
    <3> QED BY <3>1, TotalOfSome
  <2>2. f[x] \in Int /\ h[x] \in Int /\ h[x] * c = f[x] * d
    BY DEF AsTo
  <2>3. Total(h, T) * c = Total(f, T) * d
    BY <1>2
  <2>4. /\ (Total(h, T) + h[x]) * c = Total(h, T) * c + h[x] * c
        /\ (Total(f, T) + f[x]) * d = Total(f, T) * d + f[x] * d
    BY <2>1, <2>2, Distributes
  <2>5. (Total(h, T) + h[x]) * c = (Total(f, T) + f[x]) * d
    BY <2>2, <2>3, <2>4
  <2> QED BY <2>1, <2>5
<1>3. \A T \in SUBSET S : T \in G
  <2> HIDE DEF G
  <2> QED BY <1>1, <1>2, SetInduction
<1> QED BY <1>3

LEMMA TotalOfTwo ==
    ASSUME NEW S, IsFiniteSet(S), NEW f, \A x \in S : f[x] \in Int, NEW R \in SUBSET S
    PROVE  \A T \in SUBSET (S \ R) : Total(f, R \cup T) = Total(f, R) + Total(f, T)
<1> DEFINE Q == S \ R
           G == {T \in SUBSET Q : Total(f, R \cup T) = Total(f, R) + Total(f, T)}
<1>1. {} \in G
  <2>1. R \cup {} = R /\ {} \in SUBSET Q
    OBVIOUS
  <2>2. Total(f, R) \in Int /\ Total(f, {}) = 0
    BY TotalOfSome
  <2> QED BY <2>1, <2>2
<1>2. ASSUME NEW T \in SUBSET Q, NEW x \in Q \ T, T \in G PROVE T \cup {x} \in G
  <2>1. /\ T \in SUBSET S /\ R \cup T \in SUBSET S
        /\ x \in S \ T /\ x \in S \ (R \cup T)
        /\ R \cup (T \cup {x}) = (R \cup T) \cup {x}
    OBVIOUS
  <2>2. \A U \in SUBSET S : /\ Total(f, U) \in Int
                             /\ \A y \in S \ U : Total(f, U \cup {y}) = Total(f, U) + f[y]
    BY TotalOfSome
  <2>3. /\ Total(f, R \cup T) = Total(f, R) + Total(f, T)
        /\ f[x] \in Int
    BY <1>2
  <2> HIDE DEF Q, G
  <2>4. /\ Total(f, T) \in Int /\ Total(f, T \cup {x}) = Total(f, T) + f[x]
        /\ Total(f, R \cup T) \in Int /\ Total(f, R) \in Int
        /\ Total(f, (R \cup T) \cup {x}) = Total(f, R \cup T) + f[x]
    BY <2>1, <2>2
  <2>5. Total(f, R \cup (T \cup {x})) = Total(f, (R \cup T) \cup {x})
    BY <2>1
  <2>6. Total(f, R \cup (T \cup {x})) = Total(f, R) + Total(f, T \cup {x})
    BY <2>3, <2>4, <2>5
  <2>7. T \cup {x} \in SUBSET Q
    OBVIOUS
  <2> QED BY <2>6, <2>7 DEF G
<1>3. IsFiniteSet(Q)
    BY FS_Subset
<1>4. \A T \in SUBSET Q : T \in G
  <2> HIDE DEF G, Q
  <2> QED BY <1>1, <1>2, <1>3, SetInduction
<1> QED BY <1>4

LEMMA TotalBounded ==
    ASSUME NEW S, IsFiniteSet(S), NEW f, NEW e \in Int,
           \A x \in S : f[x] \in Int /\ f[x] <= e
    PROVE  \A T \in SUBSET S : Total(f, T) <= Cardinality(T) * e
<1> DEFINE G == {T \in SUBSET S : Total(f, T) <= Cardinality(T) * e}
<1>1. {} \in G
    BY TotalOfSome, FS_EmptySet
<1>2. ASSUME NEW T \in SUBSET S, NEW x \in S \ T, T \in G PROVE T \cup {x} \in G
  <2>1. Total(f, T) \in Int /\ Total(f, T \cup {x}) = Total(f, T) + f[x]
    BY TotalOfSome
  <2>2. IsFiniteSet(T) /\ Cardinality(T) \in Nat /\ Cardinality(T \cup {x}) = Cardinality(T) + 1
    BY FS_Subset, FS_CardinalityType, FS_AddElement
  <2>3. f[x] \in Int /\ f[x] <= e
    OBVIOUS
  <2>4. Total(f, T) <= Cardinality(T) * e
    BY <1>2
  <2>5. (Cardinality(T) + 1) * e = Cardinality(T) * e + e /\ Cardinality(T) * e \in Int
    <3>1. \A n \in Nat : (n + 1) * e = n * e + e /\ n * e \in Int
      OBVIOUS
    <3> QED BY <2>2, <3>1
  <2> QED BY <2>1, <2>2, <2>3, <2>4, <2>5
<1>3. \A T \in SUBSET S : T \in G
  <2> HIDE DEF G
  <2> QED BY <1>1, <1>2, SetInduction
<1> QED BY <1>3

LEMMA TotalNotNegative ==
    ASSUME NEW S, IsFiniteSet(S), NEW f, \A x \in S : f[x] \in Int /\ f[x] >= 0
    PROVE  \A T \in SUBSET S : Total(f, T) >= 0
<1> DEFINE G == {T \in SUBSET S : Total(f, T) >= 0}
<1>1. {} \in G
    BY TotalOfSome
<1>2. ASSUME NEW T \in SUBSET S, NEW x \in S \ T, T \in G PROVE T \cup {x} \in G
  <2>1. Total(f, T) \in Int /\ Total(f, T \cup {x}) = Total(f, T) + f[x]
    BY TotalOfSome
  <2>2. f[x] \in Int /\ f[x] >= 0
    OBVIOUS
  <2> QED BY <1>2, <2>1, <2>2
<1>3. \A T \in SUBSET S : T \in G
  <2> HIDE DEF G
  <2> QED BY <1>1, <1>2, SetInduction
<1> QED BY <1>3

(* Where a function has its largest value on a finite set.                     *)
LEMMA Largest ==
    ASSUME NEW S, IsFiniteSet(S), S # {}, NEW f, \A x \in S : f[x] \in Int
    PROVE  \E x \in S : \A y \in S : f[y] <= f[x]
<1> DEFINE Tops(T) == \E x \in T : \A y \in T : f[y] <= f[x]
           G == {T \in SUBSET S : T # {} => Tops(T)}
<1>1. {} \in G
    OBVIOUS
<1>2. ASSUME NEW T \in SUBSET S, NEW x \in S \ T, T \in G PROVE T \cup {x} \in G
  <2>1. CASE T = {}
    <3>1. \A y \in T \cup {x} : f[y] <= f[x]
      BY <2>1
    <3> QED BY <3>1
  <2>2. CASE T # {}
    <3>1. PICK z \in T : \A y \in T : f[y] <= f[z]
      BY <1>2, <2>2
    <3>2. CASE f[x] <= f[z]
      BY <3>1, <3>2
    <3>3. CASE ~ (f[x] <= f[z])
      <4>1. \A y \in T \cup {x} : f[y] <= f[x]
        BY <3>1, <3>3
      <4> QED BY <4>1
    <3> QED BY <3>2, <3>3
  <2> QED BY <2>1, <2>2
<1>3. \A T \in SUBSET S : T \in G
  <2> HIDE DEF G
  <2> QED BY <1>1, <1>2, SetInduction
<1> QED BY <1>3

LEMMA Exchange ==
    ASSUME NEW s \in Nat, NEW n \in Nat, NEW u \in Nat, NEW m \in Nat, m > 0, u > 0,
           NEW A \in Int, NEW B \in Int, NEW C \in Int,
           2 * B >= -(s * ((u - 1) * (n - u + 1))),
           2 * C >= 2 * s - s * ((u + m) * (n - u - m)),
           C <= A + m * (A - B)
    PROVE  2 * (A - s) >= -(s * (u * (n - u)))
<1> DEFINE x == 2 * (A - s) + s * (u * (n - u))
<1>1. x \in Int /\ m + 1 \in Int
    OBVIOUS
<1>2. 2 * ((m + 1) * A) >= 2 * C + 2 * (m * B)
    OBVIOUS
<1>3. 2 * (m * B) >= -(m * (s * ((u - 1) * (n - u + 1))))
  <2> DEFINE k == s * ((u - 1) * (n - u + 1))
  <2>1. 2 * B + k >= 0 /\ k \in Int
    OBVIOUS
  <2> HIDE DEF k
  <2>2. m * (2 * B + k) >= 0
    BY <2>1
  <2>3. m * (2 * B + k) = 2 * (m * B) + m * k
    BY <2>1
  <2>4. m * (2 * B + k) \in Int /\ m * B \in Int /\ m * k \in Int
    BY <2>1
  <2>5. 2 * (m * B) >= -(m * k)
    BY <2>2, <2>3, <2>4
  <2> QED BY <2>5 DEF k
<1>4. (m + 1) * x >= s * (m * (m - 1))
  <2>1. (m + 1) * x = 2 * ((m + 1) * A) - 2 * (s * (m + 1)) + (m + 1) * (s * (u * (n - u)))
    OBVIOUS
  <2>2. (m + 1) * (s * (u * (n - u))) - s * ((u + m) * (n - u - m))
            - m * (s * ((u - 1) * (n - u + 1))) = s * (m * (m + 1))
    OBVIOUS
  <2> QED BY <1>2, <1>3, <2>1, <2>2
<1>5. m * (m - 1) >= 0
    OBVIOUS
<1>6. s * (m * (m - 1)) >= 0
    BY <1>5
<1>7. (m + 1) * x >= 0
    BY <1>4, <1>6
<1>8. x >= 0
  <2> HIDE DEF x
  <2>1. ASSUME x < 0 PROVE FALSE
    <3>1. (m + 1) * x < 0
      BY <1>1, <2>1
    <3> QED BY <1>1, <1>7, <3>1
  <2> QED BY <1>1, <2>1
<1> QED BY <1>8
(***************************************************************************)
(* The deficits.                                                           *)
(***************************************************************************)

LEMMA Candidates ==
    /\ IsFiniteSet(Targets) /\ Targets # {} /\ Cardinality(Targets) \in Nat
    /\ \A t \in Targets : Weight[t] \in Nat /\ Rank[t] \in Nat
    /\ \A S \in SUBSET Targets : IsFiniteSet(S) /\ Cardinality(S) \in Nat
    /\ Scale \in Nat /\ Scale \in Int
<1>1. /\ IsFiniteSet(Targets) /\ Targets # {}
      /\ Weight \in [Targets -> Nat] /\ Rank \in [Targets -> Nat]
    BY TargetsAssumption
<1>2. Scale \in Nat /\ Scale \in Int
    BY LimitsAssumption
<1>3. \A S \in SUBSET Targets : IsFiniteSet(S)
    BY <1>1, FS_Subset
<1> QED BY <1>1, <1>2, <1>3, FS_CardinalityType

(* How far the deficits of some of the targets may fall, together: half a unit *)
(* for each of them and each of the others.                                    *)
Floor(U) ==
    -(Scale * (Cardinality(U) * (Cardinality(Targets) - Cardinality(U))))

Balanced ==
    /\ deficit \in [Targets -> Int]
    /\ Total(deficit, Targets) = 0
    /\ \A U \in SUBSET Targets : 2 * Total(deficit, U) >= Floor(U)

LEMMA Divides ==
    ASSUME NEW a \in Nat, NEW d \in Nat, d > 0, a % d = 0
    PROVE  a \div d \in Nat /\ (a \div d) * d = a
OBVIOUS

(* What the candidates of a contested selection earn adds up to one unit.      *)
LEMMA QuantaAreOne ==
    ASSUME NEW S \in SUBSET Targets, Contested(S),
           NEW q, q = [t \in Targets |-> (Weight[t] * Scale) \div TotalWeight(S)]
    PROVE  /\ \A t \in S : q[t] \in Nat
           /\ Total(q, S) = Scale
<1> DEFINE w == TotalWeight(S)
<1>1. IsFiniteSet(S) /\ Scale \in Int /\ \A t \in S : Weight[t] \in Nat /\ Weight[t] \in Int
    BY Candidates
<1>2. w = Total(Weight, S)
    BY DEF TotalWeight, Total
<1>3. w \in Int /\ w > 0
    BY <1>1, <1>2, TotalOfSome DEF Contested
<1> HIDE DEF w
<1>4. ASSUME NEW t \in S
      PROVE  q[t] \in Nat /\ Weight[t] \in Int /\ q[t] * w = Weight[t] * Scale
  <2>1. (Weight[t] * Scale) % w = 0
    BY <1>3, LimitsAssumption DEF w, TotalWeight
  <2>2. Weight[t] * Scale \in Nat /\ Weight[t] \in Int
    <3>1. Weight[t] \in Nat /\ Scale \in Nat
      BY Candidates
    <3> QED BY <3>1
  <2>3. q[t] = (Weight[t] * Scale) \div w
    BY DEF w
  <2> QED BY <1>3, <2>1, <2>2, <2>3, Divides
<1>5. \A T \in SUBSET S : Total(q, T) * w = Total(Weight, T) * Scale
  <2>1. AsTo(q, Weight, Scale, w, S)
    BY <1>4 DEF AsTo
  <2> QED BY <1>1, <1>3, <2>1, TotalsScale
<1>6. Total(q, S) * w = w * Scale
    BY <1>2, <1>5
<1>7. Total(q, S) \in Int
  <2>1. \A t \in S : q[t] \in Int
    BY <1>4
  <2> QED BY <1>1, <2>1, TotalOfSome
<1>8. \A a, b, c \in Int : b > 0 /\ a * b = b * c => a = c
  <2> SUFFICES ASSUME NEW a \in Int, NEW b \in Int, NEW c \in Int, b > 0, a * b = b * c
               PROVE  a = c
    OBVIOUS
  <2>1. (a - c) * b = 0
    OBVIOUS
  <2> QED BY <2>1
<1>9. Scale \in Int
    BY LimitsAssumption
<1> QED BY <1>3, <1>4, <1>6, <1>7, <1>8, <1>9

(* Those who compete are candidates, and there are some.                       *)
LEMMA SomeCompete == WithRoom \in SUBSET Targets /\ WithRoom # {} /\ IsFiniteSet(WithRoom)
<1>1. Eligible \subseteq Targets /\ Eligible # {}
    BY TargetsAssumption DEF Eligible, Unsaturated
<1>2. WithRoom \in SUBSET Targets /\ WithRoom # {}
    BY <1>1 DEF WithRoom
<1> QED BY <1>2, TargetsAssumption, FS_Subset

(* The list has a first, whichever of its members are left.                    *)
LEMMA FirstOfList ==
    ASSUME NEW S \in SUBSET Targets, S # {}
    PROVE  First(S) \in S
<1> DEFINE f == [t \in Targets |-> -Rank[t]]
<1>1. IsFiniteSet(S) /\ \A t \in S : Rank[t] \in Nat /\ f[t] \in Int /\ f[t] = -Rank[t]
    BY Candidates
<1> HIDE DEF f
<1>2. PICK t \in S : \A u \in S : f[u] <= f[t]
    BY <1>1, Largest
<1>3. \A u \in S : Rank[t] <= Rank[u]
    BY <1>1, <1>2
<1> QED BY <1>3 DEF First

LEMMA EarnsIntegers ==
    ASSUME Balanced, NEW S \in SUBSET Targets, Contested(S)
    PROVE  \A t \in S : Earned(S)[t] \in Int
<1> DEFINE q == [t \in Targets |-> (Weight[t] * Scale) \div TotalWeight(S)]
<1>1. \A t \in S : q[t] \in Nat
    BY QuantaAreOne
<1>2. \A t \in S : Earned(S)[t] = deficit[t] + q[t] /\ deficit[t] \in Int
    BY DEF Earned, Balanced
<1> HIDE DEF q
<1> QED BY <1>1, <1>2

(* Who pays is the richest of those who compete.                               *)
LEMMA RichestPays ==
    ASSUME NEW S \in SUBSET Targets, Contested(S), \A t \in S : Earned(S)[t] \in Int
    PROVE  Richest(S) \in S /\ \A u \in S : Earned(S)[u] <= Earned(S)[Richest(S)]
<1> DEFINE e == Earned(S)
           M == {t \in S : \A u \in S : e[t] >= e[u]}
<1>1. IsFiniteSet(S) /\ S # {} /\ \A t \in S : e[t] \in Int
  <2>1. S # {}
    BY FS_EmptySet DEF Contested
  <2> QED BY <2>1, Candidates
<1> HIDE DEF e
<1>2. PICK t \in S : \A u \in S : e[u] <= e[t]
    BY <1>1, Largest
<1>3. M \in SUBSET Targets /\ M # {}
    BY <1>1, <1>2
<1>4. First(M) \in M
    BY <1>3, FirstOfList
<1>5. Richest(S) = First(M)
    BY DEF Richest, e
<1>6. Richest(S) \in S /\ \A u \in S : e[u] <= e[Richest(S)]
    BY <1>1, <1>4, <1>5
<1> QED BY <1>6 DEF e

LEMMA PaidBalanced ==
    ASSUME Balanced, NEW S \in SUBSET Targets, deficit' = Paid(S)
    PROVE  Balanced'
<1>1. CASE ~ Contested(S)
  <2>1. deficit' = deficit
    BY <1>1 DEF Paid
  <2> QED BY <2>1 DEF Balanced, Floor
<1>2. CASE Contested(S)
  <2> DEFINE q == [t \in Targets |-> (Weight[t] * Scale) \div TotalWeight(S)]
             p == [t \in Targets |-> IF t \in S THEN q[t] ELSE 0]
             e == Earned(S)
             r == Richest(S)
             d == deficit
             dd == [e EXCEPT ![r] = @ - Scale]
             n == Cardinality(Targets)
  <2>1. /\ IsFiniteSet(Targets) /\ IsFiniteSet(S) /\ n \in Nat
        /\ Scale \in Nat /\ Scale \in Int
        /\ \A t \in Targets : d[t] \in Int
        /\ \A U \in SUBSET Targets : IsFiniteSet(U) /\ Cardinality(U) \in Nat
    BY Candidates DEF Balanced
  <2>2. (\A t \in S : q[t] \in Nat) /\ Total(q, S) = Scale
    BY <1>2, QuantaAreOne
  <2>3. \A t \in Targets : /\ p[t] \in Nat /\ (t \in S => p[t] = q[t]) /\ (t \notin S => p[t] = 0)
    <3> HIDE DEF q
    <3> QED BY <2>2
  <2>4. \A t \in Targets : e[t] \in Int /\ e[t] = d[t] + p[t]
    <3>1. ASSUME NEW t \in Targets PROVE e[t] = IF t \in S THEN d[t] + q[t] ELSE d[t]
      BY <1>2 DEF Earned
    <3> HIDE DEF e, p, q
    <3> QED BY <2>1, <2>3, <3>1
  <2>5. r \in S /\ \A u \in S : e[u] <= e[r]
    BY <1>2, <2>4, RichestPays
  <2>6. deficit' = dd /\ DOMAIN e = Targets
    BY <1>2 DEF Paid, Earned
  <2> HIDE DEF q, p, e, r, n
  <2>7. \A t \in Targets : dd[t] \in Int /\ dd[t] = IF t = r THEN e[t] - Scale ELSE e[t]
    BY <2>1, <2>4, <2>6
  <2>8. dd \in [Targets -> Int]
    BY <2>6, <2>7
  <2> HIDE DEF dd
  \* sums of what is earned
  <2>9. \A U \in SUBSET Targets :
            /\ Total(d, U) \in Int /\ Total(p, U) \in Int /\ Total(e, U) \in Int
            /\ Total(dd, U) \in Int
            /\ Total(e, U) = Total(d, U) + Total(p, U)
            /\ Total(p, U) >= 0
    <3>1. \A t \in Targets : /\ d[t] \in Int /\ p[t] \in Int /\ p[t] >= 0
                             /\ e[t] \in Int /\ dd[t] \in Int /\ e[t] = d[t] + p[t]
      BY <2>1, <2>3, <2>4, <2>7
    <3>2. \A U \in SUBSET Targets :
              Total(d, U) \in Int /\ Total(p, U) \in Int /\ Total(e, U) \in Int
      BY <2>1, <3>1, TotalOfSome
    <3>3. \A U \in SUBSET Targets : Total(dd, U) \in Int
      BY <2>1, <3>1, TotalOfSome
    <3>4. \A U \in SUBSET Targets : Total(e, U) = Total(d, U) + Total(p, U)
      BY <2>1, <3>1, TotalsAdd
    <3>5. \A U \in SUBSET Targets : Total(p, U) >= 0
      BY <2>1, <3>1, TotalNotNegative
    <3> QED BY <3>2, <3>3, <3>4, <3>5
  \* who competes earns a unit
  <2>10. \A U \in SUBSET Targets : S \subseteq U => Total(p, U) = Scale
    <3>1. Total(p, S) = Scale
      <4>1. \A t \in S : q[t] \in Int /\ p[t] \in Int /\ p[t] = q[t]
        BY <2>2, <2>3
      <4>2. AsTo(p, q, 1, 1, S)
        BY <4>1 DEF AsTo
      <4>3. Total(p, S) * 1 = Total(q, S) * 1
        BY <2>1, <4>2, TotalsScale
      <4>4. Total(q, S) = Scale /\ Total(p, S) \in Int
        BY <2>2, <2>9
      <4> QED BY <2>1, <4>3, <4>4
    <3> TAKE U \in SUBSET Targets
    <3> HAVE S \subseteq U
    <3> DEFINE V == U \ S
    <3>2. V \in SUBSET (Targets \ S) /\ U = S \cup V /\ V \in SUBSET Targets
      OBVIOUS
    <3>3. \A t \in Targets : p[t] \in Int
      BY <2>3
    <3>4. Total(p, U) = Total(p, S) + Total(p, V)
      BY <2>1, <3>2, <3>3, TotalOfTwo
    <3>5. Total(p, V) <= Cardinality(V) * 0
      <4>1. \A t \in V : p[t] \in Int /\ p[t] <= 0
        BY <2>3
      <4> QED BY <2>1, <3>2, <4>1, TotalBounded
    <3>6. Total(p, V) = 0
      BY <2>1, <2>9, <3>2, <3>5
    <3> QED BY <2>1, <3>1, <3>4, <3>6
  \* who pays, pays a unit
  <2>11. \A U \in SUBSET Targets :
             Total(dd, U) = IF r \in U THEN Total(e, U) - Scale ELSE Total(e, U)
    <3> DEFINE b == [t \in Targets |-> IF t = r THEN -Scale ELSE 0]
    <3>1. \A t \in Targets : e[t] \in Int /\ b[t] \in Int /\ dd[t] = e[t] + b[t]
      BY <2>1, <2>4, <2>7
    <3>2. \A U \in SUBSET Targets : Total(dd, U) = Total(e, U) + Total(b, U)
      <4> HIDE DEF b
      <4> QED BY <2>1, <3>1, TotalsAdd
    <3>3. ASSUME NEW U \in SUBSET Targets, r \notin U PROVE Total(b, U) = 0
      <4>1. \A t \in U : b[t] = 0 /\ b[t] \in Int
        BY <3>3
      <4> HIDE DEF b
      <4>2. \A t \in U : b[t] \in Int /\ b[t] <= 0 /\ b[t] >= 0
        BY <4>1
      <4>3. IsFiniteSet(U) /\ U \in SUBSET U /\ Cardinality(U) \in Nat
        BY <2>1
      <4>4. Total(b, U) <= Cardinality(U) * 0
        BY <4>2, <4>3, TotalBounded
      <4>5. Total(b, U) >= 0
        BY <4>2, <4>3, TotalNotNegative
      <4>6. Total(b, U) \in Int
        BY <4>2, <4>3, TotalOfSome
      <4> QED BY <4>3, <4>4, <4>5, <4>6
    <3>4. ASSUME NEW U \in SUBSET Targets, r \in U PROVE Total(b, U) = -Scale
      <4> DEFINE V == U \ {r}
      <4>1. V \in SUBSET Targets /\ r \notin V /\ V \cup {r} = U /\ r \in Targets \ V
        BY <3>4
      <4>2. Total(b, V) = 0
        BY <3>3, <4>1
      <4>3. b[r] = -Scale
        BY <4>1
      <4> HIDE DEF V, b
      <4>4. Total(b, V \cup {r}) = Total(b, V) + b[r]
        BY <2>1, <3>1, <4>1, TotalOfSome
      <4> QED BY <2>1, <4>1, <4>2, <4>3, <4>4
    <3> HIDE DEF b
    <3> QED BY <2>1, <2>9, <3>2, <3>3, <3>4
  <2>12. Total(dd, Targets) = 0
    <3>1. r \in Targets /\ S \subseteq Targets
      BY <2>5
    <3>2. Total(d, Targets) = 0
      BY DEF Balanced
    <3> QED BY <2>1, <2>9, <2>10, <2>11, <3>1, <3>2
  <2>13. ASSUME NEW U \in SUBSET Targets PROVE 2 * Total(dd, U) >= Floor(U)
    <3>1. Floor(U) \in Int /\ 2 * Total(d, U) >= Floor(U)
      BY <2>1 DEF Balanced, Floor, n
    <3>2. CASE r \notin U
      BY <2>9, <2>11, <3>1, <3>2
    <3>3. CASE S \subseteq U
      <4>1. Total(dd, U) = Total(d, U)
        BY <2>1, <2>5, <2>9, <2>10, <2>11, <3>3
      <4> QED BY <3>1, <4>1
    <3>4. CASE r \in U /\ ~ (S \subseteq U)
      <4> DEFINE B == U \ {r}
                 O == S \ U
                 C == U \cup O
                 u == Cardinality(U)
                 m == Cardinality(O)
      <4>1. /\ B \in SUBSET Targets /\ O \in SUBSET Targets /\ C \in SUBSET Targets
            /\ O \in SUBSET (Targets \ U) /\ O \in SUBSET S /\ O # {} /\ S \subseteq C
            /\ r \in Targets \ B /\ B \cup {r} = U /\ U \cap O = {}
        BY <3>4
      <4>2. u \in Nat /\ m \in Nat /\ u > 0 /\ m > 0
        BY <2>1, <3>4, <4>1, FS_EmptySet
      <4>3. Cardinality(B) = u - 1 /\ Cardinality(C) = u + m
        <5>1. Cardinality(B) = u - 1
          BY <2>1, <3>4, FS_RemoveElement
        <5>2. Cardinality(C) = u + m - Cardinality(U \cap O)
          BY <2>1, <4>1, FS_Union
        <5>3. Cardinality(U \cap O) = 0
          BY <4>1, FS_EmptySet
        <5> HIDE DEF B, C
        <5> QED BY <4>2, <5>1, <5>2, <5>3
      <4> HIDE DEF B, O, C, u, m
      <4>4. Total(e, U) = Total(e, B) + e[r]
        <5>1. Total(e, B \cup {r}) = Total(e, B) + e[r]
          BY <2>1, <2>4, <4>1, TotalOfSome
        <5> QED BY <4>1, <5>1
      <4>5. Total(e, C) = Total(e, U) + Total(e, O)
        <5>1. \A t \in Targets : e[t] \in Int
          BY <2>4
        <5> QED BY <2>1, <4>1, <5>1, TotalOfTwo DEF C
      <4>6. Total(e, O) <= m * e[r]
        <5>1. e[r] \in Int /\ \A t \in O : e[t] \in Int /\ e[t] <= e[r]
          BY <2>4, <2>5, <4>1
        <5>2. \A T \in SUBSET O : Total(e, T) <= Cardinality(T) * e[r]
          BY <2>1, <4>1, <5>1, TotalBounded
        <5> QED BY <5>2 DEF m
      <4>7. 2 * Total(e, B) >= -(Scale * ((u - 1) * (n - u + 1)))
        <5>1. 2 * Total(d, B) >= -(Scale * ((u - 1) * (n - (u - 1))))
          BY <4>1, <4>3 DEF Balanced, Floor, n
        <5>2. n - (u - 1) = n - u + 1
          BY <2>1, <4>2
        <5>3. Total(e, B) >= Total(d, B) /\ Total(e, B) \in Int /\ Total(d, B) \in Int
          BY <2>9, <4>1
        <5>4. -(Scale * ((u - 1) * (n - u + 1))) \in Int
          BY <2>1, <4>2
        <5> QED BY <5>1, <5>2, <5>3, <5>4
      <4>8. 2 * Total(e, C) >= 2 * Scale - Scale * ((u + m) * (n - u - m))
        <5>1. 2 * Total(d, C) >= -(Scale * ((u + m) * (n - (u + m))))
          BY <4>1, <4>3 DEF Balanced, Floor, n
        <5>2. n - (u + m) = n - u - m
          BY <2>1, <4>2
        <5>3. Total(e, C) = Total(d, C) + Scale /\ Total(e, C) \in Int /\ Total(d, C) \in Int
          BY <2>9, <2>10, <4>1
        <5>4. Scale * ((u + m) * (n - u - m)) \in Int
          BY <2>1, <4>2
        <5> QED BY <2>1, <5>1, <5>2, <5>3, <5>4
      <4>9. Total(e, C) <= Total(e, U) + m * (Total(e, U) - Total(e, B))
        <5>1. e[r] = Total(e, U) - Total(e, B)
          BY <2>4, <2>9, <4>1, <4>4
        <5>2. m * e[r] \in Int
          BY <2>4, <4>1, <4>2
        <5> QED BY <2>9, <4>1, <4>5, <4>6, <5>1, <5>2
      <4>10. 2 * (Total(e, U) - Scale) >= -(Scale * (u * (n - u)))
        <5>1. Total(e, U) \in Int /\ Total(e, B) \in Int /\ Total(e, C) \in Int
          BY <2>9, <4>1
        <5> HIDE DEF e
        <5> QED BY <2>1, <4>2, <4>7, <4>8, <4>9, <5>1, Exchange
      <4> QED BY <2>11, <3>4, <4>10 DEF Floor, n, u
    <3> QED BY <3>2, <3>3, <3>4
  <2> QED BY <2>6, <2>8, <2>12, <2>13 DEF Balanced, Floor
<1> QED BY <1>1, <1>2

LEMMA NothingIsBalanced ==
    ASSUME NEW f, f = [t \in Targets |-> 0], NEW U \in SUBSET Targets
    PROVE  Total(f, U) = 0 /\ Floor(U) <= 0
<1>1. /\ IsFiniteSet(Targets) /\ IsFiniteSet(U) /\ U \in SUBSET U
      /\ Cardinality(U) \in Nat /\ Cardinality(Targets) \in Nat
      /\ Cardinality(U) <= Cardinality(Targets)
    BY TargetsAssumption, FS_Subset, FS_CardinalityType
<1>2. \A t \in U : f[t] \in Int /\ f[t] <= 0 /\ f[t] >= 0
    OBVIOUS
<1>3. Total(f, U) \in Int /\ Total(f, U) <= Cardinality(U) * 0 /\ Total(f, U) >= 0
    BY <1>1, <1>2, TotalOfSome, TotalBounded, TotalNotNegative
<1>4. \A s, u, n \in Nat : u <= n => -(s * (u * (n - u))) <= 0
  <2> SUFFICES ASSUME NEW s \in Nat, NEW u \in Nat, NEW n \in Nat, u <= n
               PROVE  s * (u * (n - u)) >= 0
    OBVIOUS
  <2>1. u * (n - u) \in Nat
    OBVIOUS
  <2> QED BY <2>1
<1>5. Scale \in Nat
    BY LimitsAssumption
<1> QED BY <1>1, <1>3, <1>4, <1>5 DEF Floor

LEMMA EmptyIsBalanced == deficit = [t \in Targets |-> 0] => Balanced
<1> SUFFICES ASSUME deficit = [t \in Targets |-> 0] PROVE Balanced
    OBVIOUS
<1>1. \A U \in SUBSET Targets : Total(deficit, U) = 0 /\ Floor(U) <= 0
    BY NothingIsBalanced
<1> QED BY <1>1 DEF Balanced

LEMMA BalancedShares == Balanced => SharesBalance
<1> SUFFICES ASSUME Balanced PROVE SharesBalance
    OBVIOUS
<1> DEFINE n == Cardinality(Targets)
           most == Scale * (n - 1)
<1>1. IsFiniteSet(Targets) /\ n \in Nat /\ Scale \in Nat /\ \A t \in Targets : deficit[t] \in Int
    BY TargetsAssumption, LimitsAssumption, FS_CardinalityType DEF Balanced
<1>2. MapThenSumSet(LAMBDA t : deficit[t], Targets) = 0
    BY DEF Balanced, Total
<1>3. ASSUME NEW t \in Targets PROVE 2 * deficit[t] \in -most..most
  <2> DEFINE others == Targets \ {t}
  <2>1. /\ {} \in SUBSET Targets /\ t \in Targets \ {} /\ {} \cup {t} = {t}
        /\ others \in SUBSET Targets /\ t \in Targets \ others /\ others \cup {t} = Targets
        /\ {t} \in SUBSET Targets
    OBVIOUS
  <2>2. Cardinality({t}) = 1 /\ Cardinality(others) = n - 1
    BY <1>1, FS_Singleton, FS_RemoveElement
  <2> HIDE DEF others, n
  <2>3. Total(deficit, {t}) = deficit[t]
    <3>1. Total(deficit, {} \cup {t}) = Total(deficit, {}) + deficit[t] /\ Total(deficit, {}) = 0
      BY <1>1, <2>1, TotalOfSome
    <3> QED BY <1>1, <2>1, <3>1
  <2>4. Total(deficit, others) = -deficit[t]
    <3>1. /\ Total(deficit, others \cup {t}) = Total(deficit, others) + deficit[t]
          /\ Total(deficit, others) \in Int
      BY <1>1, <2>1, TotalOfSome
    <3>2. Total(deficit, others \cup {t}) = 0
      BY <2>1 DEF Balanced
    <3> QED BY <1>1, <3>1, <3>2
  <2>5. 2 * deficit[t] >= -(Scale * (1 * (n - 1)))
    BY <2>1, <2>2, <2>3 DEF Balanced, Floor, n
  <2>6. 2 * (-deficit[t]) >= -(Scale * ((n - 1) * (n - (n - 1))))
    BY <2>1, <2>2, <2>4 DEF Balanced, Floor, n
  <2>7. 1 * (n - 1) = n - 1 /\ (n - 1) * (n - (n - 1)) = n - 1 /\ most \in Int
    BY <1>1
  <2> QED BY <1>1, <2>5, <2>6, <2>7
<1> QED BY <1>2, <1>3 DEF SharesBalance, n

(***************************************************************************)
(* Types.                                                                  *)
(***************************************************************************)

(* A selection takes one of the candidates.                                    *)
LEMMA PicksCandidate == Balanced => Picked(WithRoom) \in Targets
<1> SUFFICES ASSUME Balanced PROVE Picked(WithRoom) \in Targets
    OBVIOUS
<1> DEFINE S == WithRoom
<1>1. S \in SUBSET Targets /\ S # {}
    BY SomeCompete
<1>2. Richest(S) \in S
  <2>1. CASE Contested(S)
    <3>1. \A t \in S : Earned(S)[t] \in Int
      BY <1>1, <2>1, EarnsIntegers
    <3> QED BY <1>1, <2>1, <3>1, RichestPays
  <2>2. CASE ~ Contested(S)
    BY <1>1, <2>2, FirstOfList DEF Richest
  <2> QED BY <2>1, <2>2
<1>3. S # {Richest(S)} => First(S \ {Richest(S)}) \in S
  <2>1. ASSUME S # {Richest(S)} PROVE S \ {Richest(S)} # {} /\ S \ {Richest(S)} \in SUBSET Targets
    BY <1>1, <1>2, <2>1
  <2> QED BY <2>1, FirstOfList
<1> HIDE DEF S
<1>4. Picked(S) \in Targets
    BY <1>1, <1>2, <1>3 DEF Picked
<1> QED BY <1>4 DEF S

LEMMA Leases == Lease \in Nat /\ Lease > 0
<1>1. Lease \in Nat \ {0}
    BY LimitsAssumption
<1> QED BY <1>1

LEMMA BalancedStep == Balanced /\ [Next]_vars => Balanced'
<1> SUFFICES ASSUME Balanced, [Next]_vars PROVE Balanced'
    OBVIOUS
<1>1. ASSUME NEW r \in Requests, Select(r) PROVE Balanced'
  <2>1. deficit' = Paid(WithRoom)
    BY <1>1 DEF Select
  <2> QED BY <2>1, SomeCompete, PaidBalanced
<1>2. CASE Evict
  <2>1. \A U \in SUBSET Targets : Total(deficit', U) = 0 /\ Floor(U) <= 0
    BY <1>2, NothingIsBalanced DEF Evict
  <2>2. deficit' \in [Targets -> Int]
    BY <1>2 DEF Evict
  <2> QED BY <2>1, <2>2 DEF Balanced, Floor
<1>3. CASE UNCHANGED deficit
    BY <1>3 DEF Balanced, Floor
<1> QED BY <1>1, <1>2, <1>3 DEF Next, Release, Drop, Saturate, Reopen, Tick, vars

(* The parts of TypeOK.                                                        *)
Record == [state : States, conn : Conns \cup {""}, lease : 0..Lease]

Numbers ==
    /\ count \in [Conns -> Nat]
    /\ left \in [Conns -> 0..Lease]
    /\ \A c \in Conns : count[c] > 0 <=> left[c] > 0

Parts ==
    /\ saturated \subseteq Conns
    /\ Numbers
    /\ request \in [Requests -> Record]

LEMMA TypeIsParts == TypeOK <=> deficit \in [Targets -> Int] /\ Parts
BY Zenon DEF TypeOK, Parts, Numbers, Record

LEMMA Records ==
    /\ Idle \in Record
    /\ \A c \in Conns \cup {""} : [state |-> "held", conn |-> c, lease |-> Lease] \in Record
    /\ \A c \in Conns \cup {""} : [state |-> "late", conn |-> c, lease |-> 0] \in Record
    /\ \A q \in Record : q.conn \in Conns \cup {""}
    /\ \A q \in Record : [q EXCEPT !.state = "dropped"] \in Record
    /\ \A q \in Record : [q EXCEPT !.lease = Less(@)] \in Record
<1>1. \A n \in 0..Lease : Less(n) \in 0..Lease
    BY Leases DEF Less
<1>2. Lease \in 0..Lease /\ 0 \in 0..Lease
    BY Leases
<1>3. "" \in Conns \cup {""}
    OBVIOUS
<1> DEFINE Names == Conns \cup {""}
           Leased == 0..Lease
<1> HIDE DEF Names, Leased
<1>4. Record = [state : States, conn : Names, lease : Leased]
    BY DEF Record, Names, Leased
<1>5. Idle \in [state : States, conn : Names, lease : Leased]
    BY <1>2, <1>3 DEF Idle, States, Names, Leased
<1>6. \A c \in Names : [state |-> "held", conn |-> c, lease |-> Lease] \in Record
    BY <1>2, <1>4 DEF States, Leased
<1>7. \A c \in Names : [state |-> "late", conn |-> c, lease |-> 0] \in Record
    BY <1>2, <1>4 DEF States, Leased
<1>8. \A q \in Record : q.conn \in Names
    BY <1>4
<1>9. \A q \in Record : [q EXCEPT !.state = "dropped"] \in Record
    BY <1>4 DEF States
<1>10. \A q \in Record : [q EXCEPT !.lease = Less(@)] \in Record
    BY <1>1, <1>4 DEF Leased
<1> QED BY <1>4, <1>5, <1>6, <1>7, <1>8, <1>9, <1>10 DEF Names

LEMMA PartsStep == Parts /\ Balanced /\ [Next]_vars => Parts'
<1> SUFFICES ASSUME Parts, Balanced, [Next]_vars PROVE Parts'
    OBVIOUS
<1>1. saturated \subseteq Conns /\ Numbers /\ request \in [Requests -> Record]
    BY DEF Parts
<1>2. ASSUME NEW r \in Requests, Select(r) PROVE Parts'
  <2> DEFINE c == Conn[Picked(WithRoom)]
             q == [state |-> "held", conn |-> c, lease |-> Lease]
  <2>1. q \in Record
    <3>1. c \in Conns \cup {""}
      BY PicksCandidate, TargetsAssumption
    <3> HIDE DEF c
    <3> QED BY <3>1, Records
  <2>2. /\ count' = [d \in Conns |-> IF d = c THEN count[d] + 1 ELSE count[d]]
        /\ left' = [d \in Conns |-> IF d = c THEN Lease ELSE left[d]]
        /\ request' = [request EXCEPT ![r] = q]
        /\ saturated' = saturated
    BY <1>2 DEF Select, Increment
  <2> HIDE DEF c, q
  <2>3. request' \in [Requests -> Record]
    BY <1>1, <2>1, <2>2
  <2>4. Numbers'
    BY <1>1, <2>2, Leases DEF Numbers
  <2> QED BY <1>1, <2>2, <2>3, <2>4 DEF Parts
<1>3. ASSUME NEW r \in Requests, Release(r) PROVE Parts'
  <2> DEFINE c == request[r].conn
             late == [state |-> "late", conn |-> c, lease |-> 0]
  <2>1. late \in Record /\ Idle \in Record
    <3>1. c \in Conns \cup {""}
      BY <1>1, Records
    <3> HIDE DEF c
    <3> QED BY <3>1, Records
  <2>2. /\ count' = [d \in Conns |-> IF d = c /\ count[d] > 0 THEN count[d] - 1 ELSE count[d]]
        /\ left' = [d \in Conns |-> IF d = c /\ count[d] <= 1 THEN 0 ELSE left[d]]
        /\ \/ request' = [request EXCEPT ![r] = late]
           \/ request' = [request EXCEPT ![r] = Idle]
        /\ saturated' = saturated
    BY <1>3 DEF Release, Decrement
  <2> HIDE DEF c, late
  <2>3. request' \in [Requests -> Record]
    BY <1>1, <2>1, <2>2
  <2>4. Numbers'
    BY <1>1, <2>2, Leases DEF Numbers
  <2> QED BY <1>1, <2>2, <2>3, <2>4 DEF Parts
<1>4. ASSUME NEW r \in Requests, Drop(r) PROVE Parts'
  <2> DEFINE q == [request[r] EXCEPT !.state = "dropped"]
  <2>1. request' = [request EXCEPT ![r] = q] /\ UNCHANGED <<saturated, count, left>>
    BY <1>4 DEF Drop
  <2>2. q \in Record
    BY <1>1, Records
  <2> HIDE DEF q
  <2>3. request' \in [Requests -> Record]
    BY <1>1, <2>1, <2>2
  <2> QED BY <1>1, <2>1, <2>3 DEF Parts, Numbers
<1>5. ASSUME NEW c \in Conns, Saturate(c) \/ Reopen(c) PROVE Parts'
  <2>1. saturated' \subseteq Conns /\ UNCHANGED <<count, left, request>>
    BY <1>1, <1>5 DEF Saturate, Reopen
  <2> QED BY <1>1, <2>1 DEF Parts, Numbers
<1>6. CASE Evict
    BY <1>1, <1>6 DEF Evict, Parts, Numbers
<1>7. CASE Tick
  <2> DEFINE aged(r) == [request[r] EXCEPT !.lease = Less(@)]
  <2>1. /\ left' = [c \in Conns |-> Less(left[c])]
        /\ count' = [c \in Conns |-> IF left[c] <= 1 THEN 0 ELSE count[c]]
        /\ request' = [r \in Requests |-> IF Forgotten(r) THEN Idle ELSE aged(r)]
        /\ saturated' = saturated
    BY <1>7 DEF Tick
  <2>2. \A r \in Requests : aged(r) \in Record /\ Idle \in Record
    BY <1>1, Records
  <2> HIDE DEF aged
  <2>3. request' \in [Requests -> Record]
    BY <2>1, <2>2
  <2>4. Numbers'
    BY <1>1, <2>1, Leases DEF Numbers, Less
  <2> QED BY <1>1, <2>1, <2>3, <2>4 DEF Parts
<1>8. CASE UNCHANGED vars
    BY <1>1, <1>8 DEF vars, Parts, Numbers
<1> QED BY <1>2, <1>3, <1>4, <1>5, <1>6, <1>7, <1>8 DEF Next

LEMMA TypeStep == TypeOK /\ Balanced /\ [Next]_vars => TypeOK'
<1> SUFFICES ASSUME TypeOK, Balanced, [Next]_vars PROVE TypeOK'
    OBVIOUS
<1>1. Parts' /\ Balanced'
    BY TypeIsParts, PartsStep, BalancedStep
<1>2. TypeOK' <=> deficit' \in [Targets -> Int] /\ Parts'
    BY Zenon DEF TypeOK, Parts, Numbers, Record
<1> QED BY <1>1, <1>2 DEF Balanced

LEMMA Bookkeeping == Spec => [](TypeOK /\ Balanced)
<1>1. Init => TypeOK /\ Balanced
  <2>1. ASSUME Init PROVE TypeOK
    <3>1. /\ request = [r \in Requests |-> Idle] /\ saturated = {}
          /\ deficit \in [Targets -> Int]
      BY <2>1 DEF Init
    <3>2. Numbers
      BY <2>1, Leases DEF Init, Numbers
    <3> QED BY <3>1, <3>2, Records, TypeIsParts DEF Parts
  <2>2. Init => Balanced
    BY EmptyIsBalanced DEF Init
  <2> QED BY <2>1, <2>2
<1>2. TypeOK /\ Balanced /\ [Next]_vars => (TypeOK /\ Balanced)'
    BY BalancedStep, TypeStep
<1> QED BY <1>1, <1>2, PTL DEF Spec

(* Every variable keeps its type; a connection has a count exactly while its   *)
(* slot is live (inflight.py increment, decrement, _prune_locked).             *)
THEOREM TypeCorrect == Spec => []TypeOK
<1> QED BY Bookkeeping, PTL

(* What the targets of a group have earned and paid adds up to nothing after   *)
(* every selection, and none is ahead or behind by more than half a unit for   *)
(* each of the others: for any targets and weights, and whichever of them are  *)
(* left to compete each time.                                                  *)
THEOREM SharesStayBalanced == Spec => []SharesBalance
<1> QED BY Bookkeeping, BalancedShares, PTL
=============================================================================
