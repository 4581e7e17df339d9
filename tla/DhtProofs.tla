----------------------------- MODULE DhtProofs -----------------------------
(***************************************************************************)
(* For any nodes, connections, lifetimes, delays and faults: a node that   *)
(* has stopped is forgotten in time, one search yields a peer at most once *)
(* and never the searcher itself, and in a small rendezvous all nodes are  *)
(* connected three rounds after the last fault.                            *)
(***************************************************************************)
EXTENDS Dht, FiniteSetTheorems, TLAPS

----------------------------------------------------------------------------
(* Records and time.                                                       *)

Table == [Nodes -> [Nodes -> Nat]]
Advert == [src : Nodes, dst : Nodes, at : Nat]

\* The latest time at which a record of p can be stored.
LastStored(p) == IF Up(p) THEN now ELSE stopped[p] + MaxDelay

\* An advertisement is not older than the delay allows, and none is sent by a
\* node that has stopped.
AdvertOK(m) ==
    /\ m.at <= now /\ now <= m.at + MaxDelay
    /\ ~Up(m.src) => m.at <= stopped[m.src]

TimeInv ==
    /\ now \in Nat \ {0} /\ stopped \in [Nodes -> Nat]
    /\ providers \in Table
    /\ adverts \subseteq Advert
    /\ \A m \in adverts : AdvertOK(m)
    /\ \A n, p \in Nodes : providers[n][p] <= LastStored(p) + RecordTTL

\* One record of a table is replaced.
Stored(P, n, p, t) == [P EXCEPT ![n][p] = t]

\* The others stay as they are.
LEMMA StoreAt ==
    ASSUME NEW P \in Table, NEW n \in Nodes, NEW p \in Nodes, NEW t \in Nat
    PROVE  /\ Stored(P, n, p, t) \in Table
           /\ \A m, q \in Nodes : \/ Stored(P, n, p, t)[m][q] = P[m][q]
                                  \/ q = p /\ Stored(P, n, p, t)[m][q] = t
<1> DEFINE R == [P[n] EXCEPT ![p] = t]
<1>1. P[n] \in [Nodes -> Nat]
  BY DEF Table
<1>2. R \in [Nodes -> Nat] /\ \A q \in Nodes : R[q] = IF q = p THEN t ELSE P[n][q]
  BY <1>1
<1>3. Stored(P, n, p, t) = [P EXCEPT ![n] = R]
  BY DEF Stored
<1> HIDE DEF R
<1> QED BY <1>2, <1>3 DEF Table

\* getLocalProviders only drops records.
LEMMA PruneDrops ==
    ASSUME providers \in Table, NEW n \in Nodes
    PROVE  /\ Prune(n) \in Table
           /\ \A m, q \in Nodes : Prune(n)[m][q] \in {0, providers[m][q]}
<1> DEFINE R == [p \in Nodes |-> IF p \in LocalProviders(n) THEN providers[n][p] ELSE 0]
<1>1. providers[n] \in [Nodes -> Nat]
  BY DEF Table
<1>2. R \in [Nodes -> Nat] /\ \A q \in Nodes : R[q] \in {0, providers[n][q]}
  BY <1>1
<1>3. Prune(n) = [providers EXCEPT ![n] = R]
  BY DEF Prune
<1> HIDE DEF R
<1> QED BY <1>2, <1>3 DEF Table

\* A step in which time stands still and no node stops: it may drop records and
\* advertisements, and store a record of a node that may still be stored.
LEMMA TimeFrame ==
    ASSUME TimeInv, UNCHANGED <<now, stopped>>, providers' \in Table, adverts' \subseteq Advert,
           \A m \in adverts' : m \in adverts \/ (m.at = now /\ Up(m.src)),
           \A n, p \in Nodes : \/ providers'[n][p] \in {0, providers[n][p]}
                               \/ providers'[n][p] <= LastStored(p) + RecordTTL
    PROVE  TimeInv'
<1>1. \A p \in Nodes : LastStored(p)' = LastStored(p) /\ LastStored(p) \in Nat
  BY DhtAssumption DEF TimeInv, LastStored, Up
<1>2. \A m \in adverts' : AdvertOK(m)'
  <2> SUFFICES ASSUME NEW m \in adverts'
               PROVE  AdvertOK(m)'
    OBVIOUS
  <2>1. CASE m \in adverts
    BY <2>1 DEF TimeInv, AdvertOK, Up
  <2>2. CASE m.at = now /\ Up(m.src)
    BY <2>2, DhtAssumption DEF TimeInv, AdvertOK, Up
  <2> QED BY <2>1, <2>2
<1>3. \A n, p \in Nodes : providers'[n][p] <= LastStored(p) + RecordTTL
  BY <1>1, DhtAssumption DEF TimeInv
<1> QED BY <1>1, <1>2, <1>3 DEF TimeInv

LEMMA RoundTime ==
    ASSUME TimeInv, NEW n \in Nodes, Round(n)
    PROVE  TimeInv'
<1>1. Up(n) /\ UNCHANGED <<now, stopped>> /\ now + RecordTTL \in Nat
  BY DhtAssumption DEF Round, BeginRound, nodeVars, TimeInv
<1>2. PICK t \in Nat : t = now + RecordTTL
  BY <1>1
<1>3. PICK P \in Table : P = Prune(n) /\ \A m, q \in Nodes : P[m][q] \in {0, providers[m][q]}
  BY PruneDrops DEF TimeInv
<1>4. providers' = [P EXCEPT ![n][n] = t]
  BY <1>2, <1>3 DEF Round
<1>5. /\ providers' \in Table
      /\ \A m, q \in Nodes : \/ providers'[m][q] = P[m][q]
                             \/ q = n /\ providers'[m][q] = t
  <2>1. PICK Q : Q = providers'
    OBVIOUS
  <2>2. Q = Stored(P, n, n, t)
    BY <1>4, <2>1 DEF Stored
  <2>3. Q \in Table
    BY <2>2, StoreAt
  <2>4. \A m, q \in Nodes : Q[m][q] = P[m][q] \/ (q = n /\ Q[m][q] = t)
    BY <2>2, StoreAt
  <2> QED BY <2>1, <2>3, <2>4
<1>6. t <= LastStored(n) + RecordTTL
  BY <1>1, <1>2, DhtAssumption DEF LastStored, TimeInv
<1>7. \A m, q \in Nodes : \/ providers'[m][q] \in {0, providers[m][q]}
                          \/ providers'[m][q] <= LastStored(q) + RecordTTL
  BY <1>3, <1>5, <1>6
<1>8. PICK new : new = {[src |-> n, dst |-> p, at |-> now] : p \in Neighbours(n)}
  OBVIOUS
<1>9. adverts' = adverts \cup new
  BY <1>8 DEF Round, Advertise
<1>10. \A m \in new : m \in Advert /\ m.at = now /\ m.src = n
  <2> SUFFICES ASSUME NEW p \in Neighbours(n), NEW m, m = [src |-> n, dst |-> p, at |-> now]
               PROVE  m \in Advert /\ m.at = now /\ m.src = n
    BY <1>8
  <2>1. p \in Nodes /\ now \in Nat
    BY DEF Neighbours, TimeInv
  <2> QED BY <2>1 DEF Advert
<1> QED BY <1>1, <1>5, <1>7, <1>9, <1>10, TimeFrame DEF TimeInv

LEMMA HandleAdvertiseTime ==
    ASSUME TimeInv, NEW m \in adverts, HandleAdvertise(m)
    PROVE  TimeInv'
<1>1. m \in Advert /\ m.src \in Nodes /\ m.dst \in Nodes /\ m.at \in Nat /\ AdvertOK(m)
  BY DEF TimeInv, Advert
<1>2. UNCHANGED <<now, stopped>> /\ adverts' = adverts \ {m} /\ now + RecordTTL \in Nat
  BY DhtAssumption DEF HandleAdvertise, nodeVars, TimeInv
<1>3. PICK t \in Nat : t = now + RecordTTL
  BY <1>2
<1>4. providers' = [providers EXCEPT ![m.dst][m.src] = t]
  BY <1>3 DEF HandleAdvertise, StoreProvider
<1>5. /\ providers' \in Table
      /\ \A n, q \in Nodes : \/ providers'[n][q] = providers[n][q]
                             \/ q = m.src /\ providers'[n][q] = t
  <2>1. PICK P \in Table, d \in Nodes, s \in Nodes : P = providers /\ d = m.dst /\ s = m.src
    BY <1>1 DEF TimeInv
  <2>2. PICK Q : Q = providers'
    OBVIOUS
  <2>3. Q = Stored(P, d, s, t)
    BY <1>4, <2>1, <2>2 DEF Stored
  <2>4. Q \in Table
    BY <2>3, StoreAt
  <2>5. \A n, q \in Nodes : Q[n][q] = P[n][q] \/ (q = s /\ Q[n][q] = t)
    BY <2>3, StoreAt
  <2> QED BY <2>1, <2>2, <2>4, <2>5
<1>6. t <= LastStored(m.src) + RecordTTL
  <2>1. now \in Nat /\ stopped[m.src] \in Nat /\ MaxDelay \in Nat /\ RecordTTL \in Nat
    BY <1>1, DhtAssumption DEF TimeInv
  <2> QED BY <1>1, <1>3, <2>1 DEF LastStored, AdvertOK
<1>7. \A n, q \in Nodes : \/ providers'[n][q] \in {0, providers[n][q]}
                          \/ providers'[n][q] <= LastStored(q) + RecordTTL
  BY <1>5, <1>6
<1> QED BY <1>2, <1>5, <1>7, TimeFrame DEF TimeInv

\* Time passes only while no advertisement is late.
LEMMA TickTime ==
    ASSUME TimeInv, Tick
    PROVE  TimeInv'
<1>1. /\ now \in Nat \ {0} /\ now' \in {now, now + 1} /\ UNCHANGED <<stopped, providers, adverts>>
      /\ \A m \in adverts : now < m.at + MaxDelay
  BY DEF Tick, TimeInv
<1>2. \A m \in adverts : AdvertOK(m)'
  BY <1>1, DhtAssumption DEF TimeInv, AdvertOK, Up, Advert
<1>3. \A n, p \in Nodes : providers[n][p] <= LastStored(p)' + RecordTTL
  <2> SUFFICES ASSUME NEW n \in Nodes, NEW p \in Nodes
               PROVE  providers[n][p] <= LastStored(p)' + RecordTTL
    OBVIOUS
  <2>1. providers[n][p] \in Nat /\ stopped[p] \in Nat
    BY DEF TimeInv, Table
  <2>2. providers[n][p] <= LastStored(p) + RecordTTL
    BY DEF TimeInv
  <2> QED BY <1>1, <2>1, <2>2, DhtAssumption DEF LastStored, Up
<1> QED BY <1>1, <1>2, <1>3 DEF TimeInv

LEMMA StopTime ==
    ASSUME TimeInv, NEW n \in Nodes, Stop(n)
    PROVE  TimeInv'
<1>1. /\ Up(n) /\ now \in Nat \ {0} /\ now' = now /\ adverts' = adverts
      /\ stopped' = [stopped EXCEPT ![n] = now]
      /\ providers' = [providers EXCEPT ![n] = [p \in Nodes |-> 0]]
  BY DEF Stop, TimeInv
<1>2. providers' \in Table /\ \A m, q \in Nodes : providers'[m][q] \in {0, providers[m][q]}
  BY <1>1 DEF TimeInv, Table
<1>3. stopped' \in [Nodes -> Nat] /\ stopped'[n] = now /\ \A q \in Nodes \ {n} : stopped'[q] = stopped[q]
  BY <1>1 DEF TimeInv
<1>4. \A m \in adverts : AdvertOK(m)'
  <2> SUFFICES ASSUME NEW m \in adverts
               PROVE  AdvertOK(m)'
    OBVIOUS
  <2>1. m.src \in Nodes /\ m.at \in Nat /\ AdvertOK(m)
    BY DEF TimeInv, Advert
  <2> QED BY <1>1, <1>3, <2>1 DEF AdvertOK, Up
<1>5. \A q \in Nodes : LastStored(q)' \in Nat /\ LastStored(q) \in Nat /\ LastStored(q) <= LastStored(q)'
  BY <1>1, <1>3, DhtAssumption DEF LastStored, Up, TimeInv
<1>6. \A m, q \in Nodes : providers'[m][q] <= LastStored(q)' + RecordTTL
  <2> SUFFICES ASSUME NEW m \in Nodes, NEW q \in Nodes
               PROVE  providers'[m][q] <= LastStored(q)' + RecordTTL
    OBVIOUS
  <2>1. providers[m][q] \in Nat /\ providers[m][q] <= LastStored(q) + RecordTTL
    BY DEF TimeInv, Table
  <2> QED BY <1>2, <1>5, <2>1, DhtAssumption
<1> QED BY <1>1, <1>2, <1>3, <1>4, <1>6 DEF TimeInv

LEMMA TimeStep == TimeInv /\ [Next]_vars => TimeInv'
<1> SUFFICES ASSUME TimeInv, [Next]_vars
             PROVE  TimeInv'
  OBVIOUS
<1>1. ASSUME UNCHANGED <<now, stopped>>, adverts' \subseteq adverts,
             providers' = providers \/ \E p \in Nodes : providers' = Prune(p)
      PROVE  TimeInv'
  <2>1. providers' \in Table /\ \A m, q \in Nodes : providers'[m][q] \in {0, providers[m][q]}
    BY <1>1, PruneDrops DEF TimeInv
  <2> QED BY <1>1, <2>1, TimeFrame DEF TimeInv
<1>2. ASSUME NEW n \in Nodes, DiscoverPeer(n) \/ LoopEnds(n) \/ Close(n)
      PROVE  TimeInv'
  <2>1. UNCHANGED <<now, stopped, adverts, providers>>
    BY <1>2 DEF DiscoverPeer, LoopEnds, Close, nodeVars
  <2> QED BY <1>1, <2>1
<1>3. ASSUME NEW n \in Nodes, NEW p \in find[n].waiting, QueryFails(n, p)
      PROVE  TimeInv'
  <2>1. UNCHANGED <<now, stopped, adverts, providers>>
    BY <1>3 DEF QueryFails, nodeVars
  <2> QED BY <1>1, <2>1
<1>4. ASSUME NEW n \in Nodes, NEW p \in find[n].waiting, QueryAnswered(n, p)
      PROVE  TimeInv'
  <2>1. UNCHANGED <<now, stopped, adverts>> /\ providers' = Prune(p)
    BY <1>4 DEF QueryAnswered, nodeVars
  <2>2. CASE p \in Nodes
    BY <1>1, <2>1, <2>2
  <2>3. CASE p \notin Nodes
    <3>1. Prune(p) = providers
      BY <2>3 DEF Prune, TimeInv, Table
    <3> QED BY <1>1, <2>1, <3>1
  <2> QED BY <2>2, <2>3
<1>5. ASSUME NEW m \in adverts, AdvertLost(m)
      PROVE  TimeInv'
  <2>1. UNCHANGED <<now, stopped, providers>> /\ adverts' \subseteq adverts
    BY <1>5 DEF AdvertLost, nodeVars
  <2> QED BY <1>1, <2>1
<1>6. CASE UNCHANGED vars
  BY <1>1, <1>6 DEF vars, nodeVars
<1> QED BY <1>2, <1>3, <1>4, <1>5, <1>6, RoundTime, HandleAdvertiseTime, TickTime, StopTime
        DEF Next, LoopStep, Query, Deliver

LEMMA TimeStart == Init => TimeInv
<1> SUFFICES ASSUME Init
             PROVE  TimeInv
  OBVIOUS
<1>1. now = 1 /\ stopped = [n \in Nodes |-> 0] /\ adverts = {}
  BY DEF Init
<1>2. providers \in Table /\ \A n, p \in Nodes : providers[n][p] = 0
  BY DEF Init, Table
<1>3. \A p \in Nodes : LastStored(p) = 1
  BY <1>1 DEF LastStored, Up
<1> QED BY <1>1, <1>2, <1>3, DhtAssumption DEF TimeInv

\* A node that has stopped is offered by nobody once its last advertisement has
\* arrived and the lifetime of its records is over, although nodes go on telling
\* each other what they know.
THEOREM AlwaysForgets == Spec => []ForgetsTheGone
<1>1. TimeInv => ForgetsTheGone
  <2> SUFFICES ASSUME TimeInv, NEW n \in Nodes, NEW p \in Nodes, ~Up(p),
                      now > stopped[p] + MaxDelay + RecordTTL
               PROVE  p \notin LocalProviders(n)
    BY DEF ForgetsTheGone
  <2>1. providers[n][p] \in Nat /\ stopped[p] \in Nat /\ now \in Nat
    BY DEF TimeInv, Table
  <2>2. providers[n][p] <= stopped[p] + MaxDelay + RecordTTL
    BY DEF TimeInv, LastStored
  <2> QED BY <2>1, <2>2, DhtAssumption DEF LocalProviders
<1> QED BY <1>1, TimeStart, TimeStep, PTL DEF Spec

----------------------------------------------------------------------------
(* One search.                                                             *)

FindCall == [waiting : SUBSET Nodes, seen : SUBSET Nodes, out : [Nodes -> Nat], got : SUBSET Nodes]

\* What is or was in the channel has been marked as seen, and so has the searcher,
\* at the latest when the first goroutine starts.
FindOK(n, f) ==
    /\ f \in FindCall
    /\ f.out[n] = 0
    /\ \A p \in Nodes : f.out[p] <= (IF p \in f.got THEN 0 ELSE 1)
    /\ \A p \in Nodes : f.out[p] > 0 \/ p \in f.got => p \in f.seen
    /\ f.waiting # {} => n \in f.seen

FindInv ==
    /\ find \in [Nodes -> FindCall]
    /\ \A n \in Nodes : FindOK(n, find[n])

LEMMA NoFindOK == ASSUME NEW n \in Nodes PROVE FindOK(n, NoFind)
<1>1. Empty \in [Nodes -> Nat] /\ \A p \in Nodes : Empty[p] = 0
  BY DEF Empty
<1>2. /\ NoFind \in FindCall /\ NoFind.waiting = {} /\ NoFind.seen = {}
      /\ NoFind.out = Empty /\ NoFind.got = {}
  BY <1>1 DEF NoFind, FindCall
<1> QED BY <1>1, <1>2 DEF FindOK

LEMMA FreshOK ==
    ASSUME NEW n \in Nodes, NEW found \in SUBSET (Nodes \ {n}), NEW W \in SUBSET Nodes, NEW f,
           f = [waiting |-> W, seen |-> found \cup {n}, out |-> Put(Empty, found), got |-> {}]
    PROVE  FindOK(n, f)
<1>1. /\ Put(Empty, found) \in [Nodes -> Nat]
      /\ \A p \in Nodes : Put(Empty, found)[p] = IF p \in found THEN 1 ELSE 0
  BY DEF Put, Empty
<1>2. /\ f \in FindCall /\ f.waiting = W /\ f.seen = found \cup {n}
      /\ f.out = Put(Empty, found) /\ f.got = {}
  <2> DEFINE O == Put(Empty, found)
  <2>1. O \in [Nodes -> Nat] /\ f = [waiting |-> W, seen |-> found \cup {n}, out |-> O, got |-> {}]
    BY <1>1
  <2> HIDE DEF O
  <2>2. f \in FindCall /\ f.waiting = W /\ f.seen = found \cup {n} /\ f.out = O /\ f.got = {}
    BY <2>1 DEF FindCall
  <2> QED BY <2>2 DEF O
<1> QED BY <1>1, <1>2 DEF FindOK

\* A goroutine that ends without an answer changes nothing else.
LEMMA WaitLess ==
    ASSUME NEW n \in Nodes, NEW f, FindOK(n, f), NEW p, NEW g, g = [f EXCEPT !.waiting = @ \ {p}]
    PROVE  FindOK(n, g) /\ g.seen = f.seen
<1>1. f \in FindCall
  BY DEF FindOK
<1>2. g \in FindCall /\ g.waiting \subseteq f.waiting /\ g.seen = f.seen /\ g.out = f.out /\ g.got = f.got
  BY <1>1 DEF FindCall
<1> QED BY <1>2 DEF FindOK

\* An answer puts into the channel only what was not seen before.
LEMMA MergeOK ==
    ASSUME NEW n \in Nodes, NEW f, FindOK(n, f), n \in f.seen, NEW found \in SUBSET Nodes
    PROVE  FindOK(n, Merge(n, f, found))
<1> DEFINE g == Merge(n, f, found)
           O == Put(f.out, found \ f.seen)
<1>1. f \in FindCall /\ f.out \in [Nodes -> Nat]
  BY DEF FindOK, FindCall
<1>2. /\ O \in [Nodes -> Nat]
      /\ \A p \in Nodes : O[p] = IF p \in found \ f.seen THEN f.out[p] + 1 ELSE f.out[p]
  BY <1>1 DEF Put
<1>3. g = [f EXCEPT !.out = O, !.seen = @ \cup found]
  BY DEF Merge
<1> HIDE DEF g, O
<1>4. /\ g \in FindCall /\ g.waiting = f.waiting /\ g.seen = f.seen \cup found
      /\ g.out = O /\ g.got = f.got
  BY <1>1, <1>2, <1>3 DEF FindCall
<1>5. \A p \in Nodes : p \notin f.seen => f.out[p] = 0 /\ p \notin f.got
  BY <1>1 DEF FindOK
<1>6. g.out[n] = 0
  BY <1>2, <1>4 DEF FindOK
<1>7. \A p \in Nodes : g.out[p] <= (IF p \in g.got THEN 0 ELSE 1)
  BY <1>1, <1>2, <1>4, <1>5 DEF FindOK
<1>8. \A p \in Nodes : g.out[p] > 0 \/ p \in g.got => p \in g.seen
  BY <1>1, <1>2, <1>4 DEF FindOK
<1>9. FindOK(n, g)
  BY <1>4, <1>6, <1>7, <1>8 DEF FindOK
<1> QED BY <1>9 DEF g

\* The loop takes a peer from the channel.
Taken(f, p) == [f EXCEPT !.out[p] = @ - 1, !.got = @ \cup {p}]

LEMMA ReadOK ==
    ASSUME NEW n \in Nodes, NEW f, FindOK(n, f), NEW p \in Nodes, f.out[p] > 0
    PROVE  FindOK(n, Taken(f, p))
<1> DEFINE O == [f.out EXCEPT ![p] = @ - 1]
<1>0. PICK g : g = Taken(f, p)
  OBVIOUS
<1>1. f \in FindCall /\ f.out \in [Nodes -> Nat] /\ f.out[p] = 1 /\ p \in f.seen
  <2>1. f \in FindCall /\ f.out \in [Nodes -> Nat] /\ p \in f.seen
    BY DEF FindOK, FindCall
  <2>2. f.out[p] \in Nat /\ f.out[p] <= 1
    BY <2>1 DEF FindOK
  <2> QED BY <2>1, <2>2
<1>2. O \in [Nodes -> Nat] /\ O[p] = 0 /\ \A q \in Nodes \ {p} : O[q] = f.out[q]
  BY <1>1
<1>3. g = [f EXCEPT !.out = O, !.got = @ \cup {p}]
  BY <1>0 DEF Taken
<1> HIDE DEF O
<1>4. /\ g \in FindCall /\ g.waiting = f.waiting /\ g.seen = f.seen
      /\ g.out = O /\ g.got = f.got \cup {p}
  <2>1. f \in FindCall /\ O \in [Nodes -> Nat]
    BY <1>1, <1>2
  <2> QED BY <2>1, <1>3 DEF FindCall
<1>5. \A q \in Nodes : g.out[q] <= (IF q \in g.got THEN 0 ELSE 1)
  BY <1>1, <1>2, <1>4 DEF FindOK
<1>6. \A q \in Nodes : g.out[q] > 0 \/ q \in g.got => q \in g.seen
  BY <1>1, <1>2, <1>4 DEF FindOK
<1>7. FindOK(n, g)
  BY <1>1, <1>2, <1>4, <1>5, <1>6 DEF FindOK
<1> QED BY <1>0, <1>7

LEMMA SetFindOK ==
    ASSUME FindInv, NEW n \in Nodes, NEW f, FindOK(n, f), SetFind(n, f)
    PROVE  FindInv'
<1>1. PICK g \in {NoFind, f} : find' = [find EXCEPT ![n] = g]
  BY DEF SetFind
<1>2. FindOK(n, g)
  BY <1>1, NoFindOK
<1>3. g \in FindCall
  BY <1>2 DEF FindOK
<1> QED BY <1>1, <1>2, <1>3 DEF FindInv

LEMMA FindStep == FindInv /\ [Next]_vars => FindInv'
<1> SUFFICES ASSUME FindInv, [Next]_vars
             PROVE  FindInv'
  OBVIOUS
<1>1. ASSUME find' = find
      PROVE  FindInv'
  BY <1>1 DEF FindInv
<1>2. ASSUME NEW n \in Nodes, Round(n)
      PROVE  FindInv'
  <2>1. PICK found \in SUBSET (LocalProviders(n) \ {n}), W \in {{}, Neighbours(n)} :
            SetFind(n, [waiting |-> W, seen |-> found \cup {n},
                        out |-> Put(Empty, found), got |-> {}])
    BY <1>2 DEF Round, FindLocal
  <2>2. found \in SUBSET (Nodes \ {n}) /\ W \in SUBSET Nodes
    BY <2>1 DEF LocalProviders, Neighbours
  <2>3. PICK f : f = [waiting |-> W, seen |-> found \cup {n},
                      out |-> Put(Empty, found), got |-> {}]
    OBVIOUS
  <2>4. FindOK(n, f)
    BY <2>2, <2>3, FreshOK
  <2> QED BY <2>1, <2>3, <2>4, SetFindOK
<1>3. ASSUME NEW n \in Nodes, NEW p \in find[n].waiting, QueryAnswered(n, p) \/ QueryFails(n, p)
      PROVE  FindInv'
  <2>1. FindOK(n, find[n]) /\ n \in find[n].seen
    BY DEF FindInv, FindOK
  <2>2. PICK f : f = find[n]
    OBVIOUS
  <2>3. PICK g : g = [f EXCEPT !.waiting = @ \ {p}]
    OBVIOUS
  <2>4. FindOK(n, g) /\ n \in g.seen
    BY <2>1, <2>2, <2>3, WaitLess
  <2>5. CASE QueryFails(n, p)
    BY <2>2, <2>3, <2>4, <2>5, SetFindOK DEF QueryFails
  <2>6. CASE QueryAnswered(n, p)
    <3>1. SetFind(n, Merge(n, g, LocalProviders(p)))
      BY <2>2, <2>3, <2>6 DEF QueryAnswered
    <3>2. FindOK(n, Merge(n, g, LocalProviders(p)))
      <4>1. LocalProviders(p) \in SUBSET Nodes
        BY DEF LocalProviders
      <4> QED BY <2>4, <4>1, MergeOK
    <3> QED BY <3>1, <3>2, SetFindOK
  <2> QED BY <1>3, <2>5, <2>6
<1>4. ASSUME NEW n \in Nodes, DiscoverPeer(n)
      PROVE  FindInv'
  <2>1. PICK p \in Nodes : /\ find[n].out[p] > 0
                           /\ SetFind(n, [find[n] EXCEPT !.out[p] = @ - 1, !.got = @ \cup {p}])
    BY <1>4 DEF DiscoverPeer
  <2>2. FindOK(n, find[n])
    BY DEF FindInv
  <2>3. FindOK(n, Taken(find[n], p))
    BY <2>1, <2>2, ReadOK
  <2>4. SetFind(n, Taken(find[n], p))
    BY <2>1 DEF Taken
  <2> QED BY <2>3, <2>4, SetFindOK
<1>5. ASSUME NEW n \in Nodes, Stop(n)
      PROVE  FindInv'
  <2>1. find' = [find EXCEPT ![n] = NoFind]
    BY <1>5 DEF Stop
  <2>2. FindOK(n, NoFind) /\ NoFind \in FindCall
    BY NoFindOK DEF FindOK
  <2> QED BY <2>1, <2>2 DEF FindInv
<1>6. ASSUME NEW n \in Nodes, LoopEnds(n) \/ Close(n)
      PROVE  FindInv'
  BY <1>1, <1>6 DEF LoopEnds, Close, loopVars
<1>7. CASE Deliver \/ Tick \/ UNCHANGED vars
  BY <1>1, <1>7 DEF Deliver, HandleAdvertise, AdvertLost, Tick, vars, loopVars
<1> QED BY <1>2, <1>3, <1>4, <1>5, <1>6, <1>7 DEF Next, LoopStep, Query

LEMMA FindStart == Init => FindInv
<1> SUFFICES ASSUME Init
             PROVE  FindInv
  OBVIOUS
<1>1. find = [n \in Nodes |-> NoFind]
  BY DEF Init
<1>2. \A n \in Nodes : FindOK(n, NoFind) /\ NoFind \in FindCall
  BY NoFindOK DEF FindOK
<1> QED BY <1>1, <1>2 DEF FindInv

\* One FindPeers call yields a peer at most once and never its caller, whatever
\* the neighbours answer and in whichever order the answers are merged and read.
THEOREM AlwaysFoundOnce == Spec => []FoundOnce
<1>1. FindInv => FoundOnce
  BY DEF FindInv, FindOK, FoundOnce
<1> QED BY <1>1, FindStart, FindStep, PTL DEF Spec

----------------------------------------------------------------------------
(* Time and the loop.                                                      *)

\* A tick is handled in time, and outside a round there is no FindPeers call.
LoopInv ==
    /\ age \in [Nodes -> 0..MaxDelay]
    /\ loop \in [Nodes -> {"select", "query", "ended"}]
    /\ \A n \in Nodes : loop[n] # "query" => find[n] = NoFind

\* What SetFind leaves behind, at its node and at the others.
LEMMA SetFindAt ==
    ASSUME FindInv, LoopInv, NEW n \in Nodes, NEW f, SetFind(n, f)
    PROVE  /\ \/ loop'[n] = "query" /\ age'[n] = age[n] /\ find'[n] = f
              \/ /\ loop'[n] = "select" /\ age'[n] = 0 /\ find'[n] = NoFind
                 /\ f.waiting = {} /\ f.out = Empty
           /\ \A m \in Nodes \ {n} :
                 loop'[m] = loop[m] /\ age'[m] = age[m] /\ find'[m] = find[m]
<1>1. /\ find \in [Nodes -> FindCall] /\ age \in [Nodes -> 0..MaxDelay]
      /\ loop \in [Nodes -> {"select", "query", "ended"}]
  BY DEF FindInv, LoopInv
<1>2. CASE f.waiting = {} /\ f.out = Empty
  <2>1. /\ find' = [find EXCEPT ![n] = NoFind] /\ loop' = [loop EXCEPT ![n] = "select"]
        /\ age' = [age EXCEPT ![n] = 0]
    BY <1>2 DEF SetFind
  <2> QED BY <1>1, <1>2, <2>1
<1>3. CASE ~(f.waiting = {} /\ f.out = Empty)
  <2>1. /\ find' = [find EXCEPT ![n] = f] /\ loop' = [loop EXCEPT ![n] = "query"]
        /\ age' = [age EXCEPT ![n] = @]
    BY <1>3 DEF SetFind
  <2> QED BY <1>1, <2>1
<1> QED BY <1>2, <1>3

LEMMA SetFindLoop ==
    ASSUME FindInv, LoopInv, NEW n \in Nodes, NEW f, SetFind(n, f)
    PROVE  LoopInv'
<1>1. PICK s \in {"select", "query"}, a \in 0..MaxDelay, g \in {NoFind, f} :
          /\ loop' = [loop EXCEPT ![n] = s] /\ age' = [age EXCEPT ![n] = a]
          /\ find' = [find EXCEPT ![n] = g] /\ (s # "query" => g = NoFind)
  <2>1. age[n] \in 0..MaxDelay /\ 0 \in 0..MaxDelay
    BY DhtAssumption DEF LoopInv
  <2> QED BY <2>1 DEF SetFind
<1>2. find \in [Nodes -> FindCall]
  BY DEF FindInv
<1>3. age' \in [Nodes -> 0..MaxDelay] /\ loop' \in [Nodes -> {"select", "query", "ended"}]
  BY <1>1 DEF LoopInv
<1>4. \A m \in Nodes : loop'[m] # "query" => find'[m] = NoFind
  BY <1>1, <1>2 DEF LoopInv
<1> QED BY <1>3, <1>4 DEF LoopInv

LEMMA LoopHolds == FindInv /\ LoopInv /\ [Next]_vars => LoopInv'
<1> SUFFICES ASSUME FindInv, LoopInv, [Next]_vars
             PROVE  LoopInv'
  OBVIOUS
<1>1. ASSUME UNCHANGED <<loop, age, find>>
      PROVE  LoopInv'
  BY <1>1 DEF LoopInv
<1>2. ASSUME NEW n \in Nodes, \E f : SetFind(n, f)
      PROVE  LoopInv'
  BY <1>2, SetFindLoop
<1>3. ASSUME NEW n \in Nodes, Round(n) \/ DiscoverPeer(n) \/ Query(n)
      PROVE  LoopInv'
  BY <1>2, <1>3 DEF Round, FindLocal, DiscoverPeer, Query, QueryAnswered, QueryFails
<1>4. ASSUME NEW n \in Nodes, loop' = [loop EXCEPT ![n] = "ended"], age' = [age EXCEPT ![n] = 0],
             (find' = find /\ find[n] = NoFind) \/ find' = [find EXCEPT ![n] = NoFind]
      PROVE  LoopInv'
  <2>1. age' \in [Nodes -> 0..MaxDelay] /\ loop' \in [Nodes -> {"select", "query", "ended"}]
    BY <1>4, DhtAssumption DEF LoopInv
  <2>2. \A m \in Nodes : loop'[m] # "query" => find'[m] = NoFind
    BY <1>4 DEF LoopInv, FindInv
  <2> QED BY <2>1, <2>2 DEF LoopInv
<1>5. ASSUME NEW n \in Nodes, LoopEnds(n)
      PROVE  LoopInv'
  <2>1. find[n] = NoFind
    BY <1>5 DEF LoopEnds, LoopInv
  <2> QED BY <1>4, <1>5, <2>1 DEF LoopEnds
<1>6. ASSUME NEW n \in Nodes, Stop(n)
      PROVE  LoopInv'
  BY <1>4, <1>6 DEF Stop
<1>7. CASE Tick
  <2>1. age' \in [Nodes -> 0..MaxDelay]
    BY <1>7, DhtAssumption DEF Tick, LoopInv
  <2> QED BY <1>7, <2>1 DEF Tick, LoopInv
<1>8. ASSUME NEW n \in Nodes, Close(n)
      PROVE  LoopInv'
  BY <1>1, <1>8 DEF Close, loopVars
<1>9. CASE Deliver \/ UNCHANGED vars
  BY <1>1, <1>9 DEF Deliver, HandleAdvertise, AdvertLost, vars, loopVars
<1> QED BY <1>3, <1>5, <1>6, <1>7, <1>8, <1>9 DEF Next, LoopStep

\* Whoever waits for an answer or has a peer in the channel is in a round.
LEMMA InRound ==
    ASSUME LoopInv, NEW n \in Nodes,
           find[n].waiting # {} \/ \E p \in Nodes : find[n].out[p] > 0
    PROVE  loop[n] = "query"
<1>1. NoFind.waiting = {} /\ NoFind.out = Empty /\ \A p \in Nodes : Empty[p] = 0
  BY DEF NoFind, Empty
<1> QED BY <1>1 DEF LoopInv

----------------------------------------------------------------------------
(* Convergence.                                                            *)

AllServe == \A n \in Nodes : Serves(n)

\* n has not begun a round since the clock reached t: it is still in the round
\* before, or that ended and the tick has not been taken.
NotYet(n, t) ==
    /\ n \in due
    /\ IF loop[n] = "query" THEN now + 1 <= t + age[n] ELSE now <= t + MaxDelay + age[n]

\* The first tick after the faults, and the first one at which everything that was
\* advertised in the round after it has arrived.
First == LastFault + 1
Second == First + 1 + 3 * MaxDelay

\* q knows p, or will without fail.
Remembered(p, q) ==
    \/ NotYet(p, First)
    \/ \E m \in adverts : m.src = p /\ m.dst = q /\ First <= m.at /\ m.at <= First + 2 * MaxDelay
    \/ First + RecordTTL <= providers[q][p]

\* The search f finds every peer that n is not connected to: it is in the channel, or
\* a neighbour that knows it has still to answer.
Yields(n, f, ls) ==
    \A p \in Nodes \ {n} :
        \/ {n, p} \in ls
        \/ f.out[p] > 0
        \/ /\ p \notin f.seen
           /\ \E q \in f.waiting : q # p /\ {{n, q}, {q, p}} \subseteq InitLinks

Knows(n) == \A p \in Nodes \ {n} : {n, p} \in links

Searching(n) ==
    /\ loop[n] = "query" /\ now <= Second + MaxDelay + age[n]
    /\ Yields(n, find[n], links)

Meets(n) == NotYet(n, Second) \/ Searching(n) \/ Knows(n)

Spread ==
    First <= now /\ now <= Second + 2 * MaxDelay =>
        \A p, q \in Nodes : p # q /\ {p, q} \in InitLinks => Remembered(p, q)

Convergence ==
    /\ InitLinks \subseteq links
    /\ \A n \in Nodes : loop[n] # "ended"
    /\ Spread
    /\ Second <= now => \A n \in Nodes : Meets(n)

\* As long as no node leaves.
ConvInv == SmallRendezvous /\ AllServe => Convergence

Types == TimeInv /\ FindInv /\ LoopInv

LEMMA Bounds ==
    /\ MaxDelay \in Nat /\ First \in Nat \ {0} /\ Second \in Nat \ {0} /\ RecordTTL \in Nat
    /\ Second = First + 1 + 3 * MaxDelay
    /\ SmallRendezvous => Second + 2 * MaxDelay <= First + RecordTTL
BY DhtAssumption DEF First, Second, SmallRendezvous

\* No node comes back, so if all serve now they always did.
LEMMA ServedBefore ==
    ASSUME TimeInv, [Next]_vars, AllServe'
    PROVE  AllServe /\ UNCHANGED <<stopped, closing>>
<1>1. ASSUME UNCHANGED <<stopped, closing>>
      PROVE  AllServe /\ UNCHANGED <<stopped, closing>>
  BY <1>1 DEF AllServe, Serves, Up
<1>2. ASSUME NEW n \in Nodes, Stop(n)
      PROVE  FALSE
  <2>1. stopped' = [stopped EXCEPT ![n] = now] /\ now # 0 /\ stopped \in [Nodes -> Nat]
    BY <1>2 DEF Stop, TimeInv
  <2>2. stopped'[n] = now
    BY <2>1
  <2> QED BY <2>1, <2>2 DEF AllServe, Serves, Up
<1>3. ASSUME NEW n \in Nodes, Close(n)
      PROVE  FALSE
  BY <1>3 DEF Close, AllServe, Serves
<1>4. ASSUME NEW n \in Nodes, LoopStep(n) \/ Query(n)
      PROVE  UNCHANGED <<stopped, closing>>
  BY <1>4 DEF LoopStep, Round, DiscoverPeer, LoopEnds, Query, QueryAnswered, QueryFails, nodeVars
<1>5. CASE Deliver \/ Tick \/ UNCHANGED vars
  <2>1. UNCHANGED <<stopped, closing>>
    BY <1>5 DEF Deliver, HandleAdvertise, AdvertLost, Tick, vars, nodeVars
  <2> QED BY <1>1, <2>1
<1> QED BY <1>1, <1>2, <1>3, <1>4, <1>5 DEF Next

\* The tick is taken within 2 * MaxDelay.
LEMMA NotYetEnds ==
    ASSUME TimeInv, LoopInv, NEW n \in Nodes, NEW t \in Nat \ {0}, NotYet(n, t)
    PROVE  now <= t + 2 * MaxDelay
<1>1. age[n] \in 0..MaxDelay /\ now \in Nat
  BY DEF TimeInv, LoopInv
<1> QED BY <1>1, Bounds DEF NotYet

\* What does not begin a round does not take the tick.
LEMMA NotYetKept ==
    ASSUME TimeInv, LoopInv, NEW n \in Nodes, NEW t \in Nat \ {0}, NotYet(n, t),
           now' = now, n \in due',
           \/ loop'[n] = loop[n] /\ age'[n] = age[n]
           \/ loop[n] = "query" /\ loop'[n] = "select" /\ age'[n] = 0
    PROVE  NotYet(n, t)'
<1>1. age[n] \in 0..MaxDelay /\ now \in Nat
  BY DEF TimeInv, LoopInv
<1> QED BY <1>1, Bounds DEF NotYet

\* When everything advertised has arrived, neighbours know each other's records.
LEMMA AllStored ==
    ASSUME Types, SmallRendezvous, Convergence, Second <= now, now <= Second + 2 * MaxDelay,
           NEW p \in Nodes, NEW q \in Nodes, p # q, {p, q} \in InitLinks
    PROVE  p \in LocalProviders(q)
<1>1. now \in Nat /\ First <= now /\ providers[q][p] \in Nat
  BY Bounds DEF Types, TimeInv, Table
<1>2. Remembered(p, q)
  BY <1>1 DEF Convergence, Spread
<1>3. ~NotYet(p, First)
  BY <1>1, Bounds, NotYetEnds DEF Types
<1>4. ASSUME NEW m \in adverts, First <= m.at, m.at <= First + 2 * MaxDelay
      PROVE  FALSE
  <2>1. m.at \in Nat /\ now <= m.at + MaxDelay
    BY DEF Types, TimeInv, AdvertOK, Advert
  <2> QED BY <1>1, <1>4, <2>1, Bounds
<1>5. First + RecordTTL <= providers[q][p]
  BY <1>2, <1>3, <1>4 DEF Remembered
<1> QED BY <1>1, <1>5, Bounds DEF LocalProviders

\* More connections, fewer peers to be found.
LEMMA YieldsMore ==
    ASSUME NEW n \in Nodes, NEW f, NEW ls, NEW ms, ls \subseteq ms, Yields(n, f, ls)
    PROVE  Yields(n, f, ms)
BY DEF Yields

\* Nothing of its own changes at n.
LEMMA MeetsKept ==
    ASSUME Types, NEW n \in Nodes, Meets(n), now' = now, links \subseteq links',
           n \in due => n \in due',
           loop'[n] = loop[n], age'[n] = age[n], find'[n] = find[n]
    PROVE  Meets(n)'
<1>1. CASE NotYet(n, Second)
  BY <1>1, NotYetKept, Bounds DEF Types, Meets, NotYet
<1>2. CASE Searching(n)
  <2>1. PICK f, ls, ms : f = find[n] /\ ls = links /\ ms = links'
    OBVIOUS
  <2>2. Yields(n, f, ms)
    BY <1>2, <2>1, YieldsMore DEF Searching
  <2> QED BY <1>2, <2>1, <2>2 DEF Searching, Meets
<1>3. CASE Knows(n)
  BY <1>3 DEF Knows, Meets
<1> QED BY <1>1, <1>2, <1>3 DEF Meets

\* A search that yields everything goes on, or it is over and all peers are known.
LEMMA SearchOn ==
    ASSUME Types, NEW n \in Nodes, NEW f, SetFind(n, f), now' = now,
           now <= Second + MaxDelay + age[n], Yields(n, f, links')
    PROVE  Meets(n)'
<1>1. CASE loop'[n] = "query" /\ age'[n] = age[n] /\ find'[n] = f
  BY <1>1 DEF Searching, Meets
<1>2. CASE f.waiting = {} /\ f.out = Empty
  <2>1. \A p \in Nodes : ~(f.out[p] > 0)
    BY <1>2 DEF Empty
  <2> QED BY <1>2, <2>1 DEF Yields, Knows, Meets
<1> QED BY <1>1, <1>2, SetFindAt DEF Types

\* A step of a search in progress.
LEMMA MeetsSearch ==
    ASSUME Types, NEW n \in Nodes, Meets(n), now' = now, links \subseteq links', due' = due,
           loop[n] = "query", NEW f, SetFind(n, f), Searching(n) => Yields(n, f, links')
    PROVE  Meets(n)'
<1>1. CASE NotYet(n, Second)
  <2>1. \/ loop'[n] = loop[n] /\ age'[n] = age[n]
        \/ loop[n] = "query" /\ loop'[n] = "select" /\ age'[n] = 0
    BY SetFindAt DEF Types
  <2> QED BY <1>1, <2>1, NotYetKept, Bounds DEF Types, Meets, NotYet
<1>2. CASE Searching(n)
  BY <1>2, SearchOn DEF Searching
<1>3. CASE Knows(n)
  BY <1>3 DEF Knows, Meets
<1> QED BY <1>1, <1>2, <1>3 DEF Meets

\* The search of a new round: what is not known here is known by a neighbour that
\* is asked, as the limit does not cut the search short.
LEMMA YieldsFresh ==
    ASSUME SmallRendezvous, Convergence, NEW n \in Nodes, NEW local \in SUBSET (Nodes \ {n}),
           NEW found \in SUBSET local,
           IF Cardinality(local) <= Limit THEN found = local ELSE Cardinality(found) = Limit,
           NEW W, W = (IF Cardinality(found) >= Limit THEN {} ELSE Neighbours(n)),
           NEW f, f = [waiting |-> W, seen |-> found \cup {n},
                       out |-> Put(Empty, found), got |-> {}]
    PROVE  Yields(n, f, links)
<1>1. IsFiniteSet(Nodes \ {n}) /\ Cardinality(Nodes \ {n}) <= Limit /\ Limit \in Nat
  <2>1. IsFiniteSet(Nodes) /\ Cardinality(Nodes) \in Nat /\ Cardinality(Nodes) <= Limit + 1
    BY FS_CardinalityType DEF SmallRendezvous
  <2>2. IsFiniteSet(Nodes \ {n}) /\ Cardinality(Nodes \ {n}) = Cardinality(Nodes) - 1
    BY <2>1, FS_RemoveElement
  <2> QED BY <2>1, <2>2, DhtAssumption
<1>2. found = local
  <2>1. IsFiniteSet(local) /\ Cardinality(local) <= Cardinality(Nodes \ {n})
    BY <1>1, FS_Subset
  <2>2. Cardinality(local) \in Nat /\ Cardinality(Nodes \ {n}) \in Nat
    BY <1>1, <2>1, FS_CardinalityType
  <2> QED BY <1>1, <2>1, <2>2
<1>3. f.waiting = W /\ f.seen = found \cup {n} /\ f.out = Put(Empty, found)
  OBVIOUS
<1>4. \A p \in found : f.out[p] > 0
  BY <1>3 DEF Put, Empty
<1>5. CASE Cardinality(found) >= Limit
  <2>1. IsFiniteSet(found) /\ Cardinality(found) <= Cardinality(Nodes \ {n})
        /\ (Cardinality(found) = Cardinality(Nodes \ {n}) => found = Nodes \ {n})
    BY <1>1, FS_Subset
  <2>2. Cardinality(found) \in Nat /\ Cardinality(Nodes \ {n}) \in Nat
    BY <1>1, <2>1, FS_CardinalityType
  <2>3. found = Nodes \ {n}
    BY <1>1, <1>5, <2>1, <2>2
  <2> QED BY <1>4, <2>3 DEF Yields
<1>6. CASE ~(Cardinality(found) >= Limit)
  <2> SUFFICES ASSUME NEW p \in Nodes \ {n}, {n, p} \notin links, p \notin found
               PROVE  /\ p \notin f.seen
                      /\ \E q \in f.waiting : q # p /\ {{n, q}, {q, p}} \subseteq InitLinks
    BY <1>4 DEF Yields
  <2>1. {n, p} \notin InitLinks
    BY DEF Convergence
  <2>2. PICK q \in Nodes : {{n, q}, {q, p}} \subseteq InitLinks
    BY <2>1 DEF SmallRendezvous
  <2>3. q # p /\ q # n /\ {n, q} \in links
    BY <2>1, <2>2 DEF Convergence
  <2>4. q \in Neighbours(n)
    BY <2>3 DEF Neighbours
  <2> QED BY <1>3, <1>6, <2>2, <2>3, <2>4
<1> QED BY <1>5, <1>6

\* An answer that holds what the neighbour knows loses nothing.
LEMMA YieldsMerge ==
    ASSUME NEW n \in Nodes, NEW f \in FindCall, NEW ls, Yields(n, f, ls), NEW r,
           NEW found \in SUBSET Nodes,
           \A p \in Nodes \ {n} : p # r /\ {r, p} \in InitLinks => p \in found,
           NEW g, g = [f EXCEPT !.waiting = @ \ {r}]
    PROVE  Yields(n, Merge(n, g, found), ls)
<1> DEFINE O == Put(f.out, found \ f.seen)
<1>1. PICK h : h = Merge(n, g, found)
  OBVIOUS
<1>2. /\ O \in [Nodes -> Nat] /\ f.out \in [Nodes -> Nat]
      /\ \A p \in Nodes : O[p] = IF p \in found \ f.seen THEN f.out[p] + 1 ELSE f.out[p]
  BY DEF Put, FindCall
<1>3. g \in FindCall /\ g.waiting = f.waiting \ {r} /\ g.seen = f.seen /\ g.out = f.out
  BY DEF FindCall
<1>4. h = [g EXCEPT !.out = O, !.seen = @ \cup found]
  BY <1>1, <1>3 DEF Merge
<1> HIDE DEF O
<1>5. h.waiting = f.waiting \ {r} /\ h.seen = f.seen \cup found /\ h.out = O
  BY <1>2, <1>3, <1>4 DEF FindCall
<1>6. ASSUME NEW p \in Nodes \ {n}, {n, p} \notin ls, ~(h.out[p] > 0)
      PROVE  /\ p \notin h.seen
             /\ \E q \in h.waiting : q # p /\ {{n, q}, {q, p}} \subseteq InitLinks
  <2>1. ~(f.out[p] > 0) /\ p \notin found \ f.seen
    <3>1. O[p] \in Nat /\ f.out[p] \in Nat /\ ~(O[p] > 0)
      BY <1>2, <1>5, <1>6
    <3> QED BY <1>2, <3>1
  <2>2. p \notin f.seen /\ \E q \in f.waiting : q # p /\ {{n, q}, {q, p}} \subseteq InitLinks
    BY <1>6, <2>1 DEF Yields
  <2>3. PICK q \in f.waiting : q # p /\ {{n, q}, {q, p}} \subseteq InitLinks
    BY <2>2
  <2>4. q # r
    BY <2>1, <2>2, <2>3
  <2> QED BY <1>5, <2>1, <2>2, <2>3, <2>4
<1>7. Yields(n, h, ls)
  BY <1>6 DEF Yields
<1> QED BY <1>1, <1>7

\* A goroutine that ends without an answer loses nothing if it did not ask one of
\* the first neighbours.
LEMMA YieldsLess ==
    ASSUME NEW n \in Nodes, NEW f \in FindCall, NEW ls, Yields(n, f, ls), NEW r,
           {n, r} \notin InitLinks, NEW g, g = [f EXCEPT !.waiting = @ \ {r}]
    PROVE  Yields(n, g, ls)
<1>1. g.waiting = f.waiting \ {r} /\ g.seen = f.seen /\ g.out = f.out
  BY DEF FindCall
<1> QED BY <1>1 DEF Yields

\* A peer taken from the channel is connected to.
LEMMA YieldsTaken ==
    ASSUME NEW n \in Nodes, NEW f \in FindCall, NEW ls, Yields(n, f, ls), NEW p \in Nodes
    PROVE  Yields(n, Taken(f, p), ls \cup {{n, p}})
<1> DEFINE O == [f.out EXCEPT ![p] = @ - 1]
<1>1. PICK g : g = Taken(f, p)
  OBVIOUS
<1>2. f.out \in [Nodes -> Nat] /\ \A q \in Nodes \ {p} : O[q] = f.out[q]
  BY DEF FindCall
<1>3. g = [f EXCEPT !.out = O, !.got = @ \cup {p}]
  BY <1>1 DEF Taken
<1> HIDE DEF O
<1>4. g.waiting = f.waiting /\ g.seen = f.seen /\ g.out = O
  BY <1>3 DEF FindCall
<1>5. Yields(n, g, ls \cup {{n, p}})
  BY <1>2, <1>4 DEF Yields
<1> QED BY <1>1, <1>5

\* getLocalProviders keeps what has not expired.
LEMMA PruneKeeps ==
    ASSUME TimeInv, NEW n \in Nodes, NEW m \in Nodes, NEW q \in Nodes, providers[m][q] >= now
    PROVE  Prune(n)[m][q] = providers[m][q]
<1> DEFINE R == [p \in Nodes |-> IF p \in LocalProviders(n) THEN providers[n][p] ELSE 0]
<1>1. Prune(n) = [providers EXCEPT ![n] = R] /\ providers \in Table /\ now \in Nat \ {0}
  BY DEF Prune, TimeInv
<1>2. CASE m = n
  <2>1. providers[n][q] \in Nat
    BY <1>1 DEF Table
  <2>2. q \in LocalProviders(n)
    BY <1>1, <1>2, <2>1 DEF LocalProviders
  <2>3. R[q] = providers[n][q]
    BY <2>2
  <2> HIDE DEF R
  <2> QED BY <1>1, <1>2, <2>3 DEF Table
<1>3. CASE m # n
  <2> HIDE DEF R
  <2> QED BY <1>1, <1>3 DEF Table
<1> QED BY <1>2, <1>3

\* No time passes: who was remembered still is, if the ticks not taken, the
\* advertisements and the records are kept, or what takes their place is as good.
LEMMA SpreadKept ==
    ASSUME Types, SmallRendezvous, Convergence, now' = now,
           ASSUME First <= now, NEW p \in Nodes, NEW q \in Nodes, p # q, {p, q} \in InitLinks
           PROVE  /\ NotYet(p, First) => Remembered(p, q)'
                  /\ \A m \in adverts : m.src = p /\ m.dst = q => m \in adverts' \/ Remembered(p, q)'
                  /\ First + RecordTTL <= providers[q][p] /\ now <= First + RecordTTL
                        => First + RecordTTL <= providers'[q][p]
    PROVE  Spread'
<1> SUFFICES ASSUME First <= now, now <= Second + 2 * MaxDelay,
                    NEW p \in Nodes, NEW q \in Nodes, p # q, {p, q} \in InitLinks
             PROVE  Remembered(p, q)'
  BY DEF Spread
<1>1. Remembered(p, q)
  BY DEF Convergence, Spread
<1>2. now <= First + RecordTTL
  BY Bounds DEF Types, TimeInv
<1>3. CASE NotYet(p, First)
  BY <1>3
<1>4. ASSUME NEW m \in adverts, m.src = p, m.dst = q, First <= m.at, m.at <= First + 2 * MaxDelay
      PROVE  Remembered(p, q)'
  BY <1>4 DEF Remembered
<1>5. CASE First + RecordTTL <= providers[q][p]
  BY <1>2, <1>5 DEF Remembered
<1> QED BY <1>1, <1>3, <1>4, <1>5 DEF Remembered

\* Records are the same, or those of one node have been pruned.
LEMMA RecordsKept ==
    ASSUME Types, NEW p \in Nodes, NEW q \in Nodes,
           providers' = providers \/ \E n \in Nodes : providers' = Prune(n),
           First + RecordTTL <= providers[q][p], now <= First + RecordTTL
    PROVE  First + RecordTTL <= providers'[q][p]
<1>1. providers[q][p] \in Nat /\ now \in Nat
  BY DEF Types, TimeInv, Table
<1>2. providers[q][p] >= now
  BY <1>1, Bounds
<1>3. CASE providers' = providers
  BY <1>3
<1>4. ASSUME NEW n \in Nodes, providers' = Prune(n)
      PROVE  First + RecordTTL <= providers'[q][p]
  BY <1>2, <1>4, PruneKeeps DEF Types
<1> QED BY <1>3, <1>4

\* n takes the tick: it advertises itself to its neighbours and begins a search.
LEMMA RoundConv ==
    ASSUME Types, SmallRendezvous, Convergence, NEW n \in Nodes, Round(n)
    PROVE  Convergence'
<1>1. /\ now' = now /\ links' = links /\ due' = due \ {n} /\ loop[n] = "select" /\ n \in due
  BY DEF Round, BeginRound, nodeVars
<1>2. PICK local \in SUBSET (Nodes \ {n}) : local = LocalProviders(n) \ {n}
  BY DEF LocalProviders
<1>3. PICK found \in SUBSET local :
        /\ IF Cardinality(local) <= Limit THEN found = local ELSE Cardinality(found) = Limit
        /\ SetFind(n, [waiting |-> IF Cardinality(found) >= Limit THEN {} ELSE Neighbours(n),
                       seen |-> found \cup {n}, out |-> Put(Empty, found), got |-> {}])
  BY <1>2 DEF Round, FindLocal
<1>4. PICK W : W = (IF Cardinality(found) >= Limit THEN {} ELSE Neighbours(n))
  OBVIOUS
<1>5. PICK f : f = [waiting |-> W, seen |-> found \cup {n}, out |-> Put(Empty, found), got |-> {}]
  OBVIOUS
<1>6. SetFind(n, f)
  BY <1>3, <1>4, <1>5
<1>7. Yields(n, f, links)
  <2>1. IF Cardinality(local) <= Limit THEN found = local ELSE Cardinality(found) = Limit
    BY <1>3
  <2> QED BY <1>4, <1>5, <2>1, YieldsFresh
<1>8. /\ loop'[n] # "ended"
      /\ \A m \in Nodes \ {n} : loop'[m] = loop[m] /\ age'[m] = age[m] /\ find'[m] = find[m]
  BY <1>6, SetFindAt DEF Types
<1>9. ASSUME First <= now, NEW p \in Nodes, NEW q \in Nodes, p # q, {p, q} \in InitLinks
      PROVE  /\ NotYet(p, First) => Remembered(p, q)'
             /\ \A m \in adverts : m.src = p /\ m.dst = q => m \in adverts' \/ Remembered(p, q)'
             /\ First + RecordTTL <= providers[q][p] /\ now <= First + RecordTTL
                   => First + RecordTTL <= providers'[q][p]
  <2>1. NotYet(p, First) => Remembered(p, q)'
    <3>1. CASE p = n
      <4>1. ASSUME NotYet(n, First)
            PROVE  Remembered(n, q)'
        <5>1. now \in Nat /\ now <= First + 2 * MaxDelay
          BY <4>1, NotYetEnds, Bounds DEF Types, TimeInv
        <5>2. q \in Neighbours(n)
          BY <1>9, <3>1 DEF Neighbours, Convergence
        <5>3. PICK m : m = [src |-> n, dst |-> q, at |-> now]
          OBVIOUS
        <5>4. m \in adverts'
          BY <5>2, <5>3 DEF Round, Advertise
        <5>5. m.src = n /\ m.dst = q /\ m.at = now
          BY <5>3
        <5> QED BY <1>9, <5>1, <5>4, <5>5 DEF Remembered
      <4> QED BY <3>1, <4>1
    <3>2. CASE p # n
      <4>1. ASSUME NotYet(p, First)
            PROVE  NotYet(p, First)'
        <5>1. p \in due'
          BY <1>1, <3>2, <4>1 DEF NotYet
        <5> QED BY <1>1, <1>8, <3>2, <4>1, <5>1, NotYetKept, Bounds DEF Types
      <4> QED BY <4>1 DEF Remembered
    <3> QED BY <3>1, <3>2
  <2>2. adverts \subseteq adverts'
    BY DEF Round, Advertise
  <2>3. ASSUME First + RecordTTL <= providers[q][p], now <= First + RecordTTL
        PROVE  First + RecordTTL <= providers'[q][p]
    <3>1. PICK P \in Table : P = Prune(n)
      BY PruneDrops DEF Types, TimeInv
    <3>2. PICK t : t = now + RecordTTL
      OBVIOUS
    <3>3. providers' = [P EXCEPT ![n][n] = t]
      BY <3>1, <3>2 DEF Round
    <3>4. providers'[q][p] = P[q][p]
      BY <1>9, <3>1, <3>3 DEF Table
    <3>5. providers[q][p] \in Nat /\ now \in Nat
      BY DEF Types, TimeInv, Table
    <3>6. providers[q][p] >= now
      BY <2>3, <3>5, Bounds
    <3>7. P[q][p] = providers[q][p]
      BY <3>1, <3>6, PruneKeeps DEF Types
    <3> QED BY <2>3, <3>4, <3>7
  <2> QED BY <2>1, <2>2, <2>3
<1>10. Spread'
  BY <1>1, <1>9, SpreadKept
<1>11. ASSUME Second <= now, NEW m \in Nodes
       PROVE  Meets(m)'
  <2>1. Meets(m)
    BY <1>11 DEF Convergence
  <2>2. CASE m # n
    BY <1>1, <1>8, <2>1, <2>2, MeetsKept
  <2>3. CASE m = n
    <3>1. CASE Knows(n)
      BY <1>1, <2>3, <3>1 DEF Knows, Meets
    <3>2. CASE NotYet(n, Second)
      <4>1. now <= Second + MaxDelay + age[n]
        BY <1>1, <3>2 DEF NotYet
      <4> QED BY <1>1, <1>6, <1>7, <2>3, <4>1, SearchOn
    <3> QED BY <1>1, <2>1, <2>3, <3>1, <3>2 DEF Meets, Searching
  <2> QED BY <2>2, <2>3
<1> QED BY <1>1, <1>8, <1>10, <1>11 DEF Convergence

\* A step of n's search that does not lose a peer.
LEMMA SearchConv ==
    ASSUME Types, SmallRendezvous, Convergence, NEW n \in Nodes, loop[n] = "query",
           NEW f, SetFind(n, f), Second <= now /\ Searching(n) => Yields(n, f, links'),
           now' = now, links \subseteq links', due' = due, adverts' = adverts,
           providers' = providers \/ \E m \in Nodes : providers' = Prune(m)
    PROVE  Convergence'
<1>1. \A m \in Nodes : \/ loop'[m] = loop[m] /\ age'[m] = age[m]
                       \/ loop[m] = "query" /\ loop'[m] = "select" /\ age'[m] = 0
  BY SetFindAt DEF Types
<1>2. ASSUME NEW p \in Nodes, NEW q \in Nodes, NotYet(p, First)
      PROVE  Remembered(p, q)'
  <2>1. p \in due'
    BY <1>2 DEF NotYet
  <2>2. NotYet(p, First)'
    BY <1>1, <1>2, <2>1, NotYetKept, Bounds DEF Types
  <2> QED BY <2>2 DEF Remembered
<1>3. Spread'
  <2>1. ASSUME NEW p \in Nodes, NEW q \in Nodes
        PROVE  First + RecordTTL <= providers[q][p] /\ now <= First + RecordTTL
                  => First + RecordTTL <= providers'[q][p]
    BY RecordsKept
  <2> QED BY <1>2, <2>1, SpreadKept
<1>4. ASSUME Second <= now, NEW m \in Nodes
      PROVE  Meets(m)'
  <2>1. Meets(m)
    BY <1>4 DEF Convergence
  <2>2. CASE m = n
    BY <1>4, <2>1, <2>2, MeetsSearch
  <2>3. CASE m # n
    <3>1. loop'[m] = loop[m] /\ age'[m] = age[m] /\ find'[m] = find[m]
      BY <2>3, SetFindAt DEF Types
    <3> QED BY <2>1, <3>1, MeetsKept
  <2> QED BY <2>2, <2>3
<1>5. \A m \in Nodes : loop'[m] # "ended"
  BY <1>1 DEF Convergence
<1>6. InitLinks \subseteq links'
  BY DEF Convergence
<1> QED BY <1>3, <1>4, <1>5, <1>6 DEF Convergence

\* While all nodes serve and after the last fault, a call fails only for want of a
\* connection.
LEMMA NoBadLuck ==
    ASSUME TimeInv, First <= now, NEW r \in BOOLEAN, Fails(r)
    PROVE  r
<1>1. LastFault \in Nat /\ now \in Nat
  BY DhtAssumption DEF TimeInv
<1> QED BY <1>1 DEF Fails, FaultPossible, First

LEMMA QueryConv ==
    ASSUME Types, SmallRendezvous, AllServe, Convergence, NEW n \in Nodes,
           NEW r \in find[n].waiting, QueryAnswered(n, r) \/ QueryFails(n, r)
    PROVE  Convergence'
<1>1. /\ now' = now /\ links' = links /\ due' = due /\ adverts' = adverts
  BY DEF QueryAnswered, QueryFails, nodeVars
<1>2. find[n] \in FindCall /\ r \in Nodes
  BY DEF Types, FindInv, FindCall
<1>3. loop[n] = "query"
  BY InRound DEF Types
<1>4. PICK f \in FindCall : f = find[n]
  BY <1>2
<1>5. PICK g : g = [f EXCEPT !.waiting = @ \ {r}]
  OBVIOUS
<1>6. CASE QueryAnswered(n, r)
  <2>1. PICK found \in SUBSET Nodes : found = LocalProviders(r)
    BY DEF LocalProviders
  <2>2. PICK h : h = Merge(n, g, found)
    OBVIOUS
  <2>3. SetFind(n, h) /\ providers' = Prune(r)
    BY <1>4, <1>5, <1>6, <2>1, <2>2 DEF QueryAnswered
  <2>4. ASSUME Second <= now, Searching(n)
        PROVE  Yields(n, h, links)
    <3>1. now <= Second + 2 * MaxDelay
      <4>1. age[n] \in 0..MaxDelay /\ now \in Nat
        BY DEF Types, TimeInv, LoopInv
      <4> QED BY <2>4, <4>1, Bounds DEF Searching
    <3>2. \A p \in Nodes \ {n} : p # r /\ {r, p} \in InitLinks => p \in found
      <4> SUFFICES ASSUME NEW p \in Nodes \ {n}, p # r, {r, p} \in InitLinks
                   PROVE  p \in found
        OBVIOUS
      <4>1. {p, r} \in InitLinks
        <5>1. {p, r} = {r, p}
          OBVIOUS
        <5> QED BY <5>1
      <4> QED BY <1>2, <2>1, <2>4, <3>1, <4>1, AllStored
    <3>3. Yields(n, f, links)
      BY <1>4, <2>4 DEF Searching
    <3> QED BY <1>5, <2>2, <3>2, <3>3, YieldsMerge
  <2> QED BY <1>1, <1>2, <1>3, <2>3, <2>4, SearchConv
<1>7. CASE QueryFails(n, r)
  <2>1. SetFind(n, g) /\ providers' = providers /\ Fails(~Reachable(r, n))
    BY <1>4, <1>5, <1>7 DEF QueryFails
  <2>2. ASSUME Second <= now, Searching(n)
        PROVE  Yields(n, g, links)
    <3>1. First <= now
      BY <2>2, Bounds DEF Types, TimeInv
    <3>2. ~Reachable(r, n)
      BY <2>1, <3>1, NoBadLuck DEF Types
    <3>3. {n, r} \notin InitLinks
      BY <1>2, <3>2 DEF Reachable, AllServe, Convergence
    <3>4. Yields(n, f, links)
      BY <1>4, <2>2 DEF Searching
    <3> QED BY <1>5, <3>3, <3>4, YieldsLess
  <2> QED BY <1>1, <1>3, <2>1, <2>2, SearchConv
<1> QED BY <1>6, <1>7

LEMMA DiscoverConv ==
    ASSUME Types, SmallRendezvous, AllServe, Convergence, NEW n \in Nodes, DiscoverPeer(n)
    PROVE  Convergence'
<1>1. UNCHANGED <<now, due, adverts, providers>>
  BY DEF DiscoverPeer
<1>2. PICK p \in Nodes : /\ find[n].out[p] > 0
                         /\ SetFind(n, [find[n] EXCEPT !.out[p] = @ - 1, !.got = @ \cup {p}])
                         /\ OnPeerFound(n, p)
  BY DEF DiscoverPeer
<1>3. loop[n] = "query"
  BY <1>2, InRound DEF Types
<1>4. PICK f \in FindCall : f = find[n]
  BY DEF Types, FindInv
<1>5. PICK g : g = Taken(f, p)
  OBVIOUS
<1>6. SetFind(n, g)
  BY <1>2, <1>4, <1>5 DEF Taken
<1>7. links \subseteq links'
  BY <1>2 DEF OnPeerFound
<1>8. ASSUME Second <= now, Searching(n)
      PROVE  Yields(n, g, links')
  <2>1. First <= now
    BY <1>8, Bounds DEF Types, TimeInv
  <2>2. Up(p)
    BY DEF AllServe, Serves
  <2>3. links' = links \cup {{n, p}}
    <3>1. CASE Fails(~Up(p))
      BY <2>1, <2>2, <3>1, NoBadLuck DEF Types
    <3> QED BY <1>2, <3>1 DEF OnPeerFound
  <2>4. Yields(n, f, links)
    BY <1>4, <1>8 DEF Searching
  <2>5. PICK ls : ls = links
    OBVIOUS
  <2>6. Yields(n, g, ls \cup {{n, p}})
    BY <1>5, <2>4, <2>5, YieldsTaken
  <2> QED BY <2>3, <2>5, <2>6
<1> QED BY <1>1, <1>3, <1>6, <1>7, <1>8, SearchConv

\* An advertisement arrives; after the faults none is lost between neighbours.
LEMMA DeliverConv ==
    ASSUME Types, SmallRendezvous, AllServe, Convergence, NEW m \in adverts,
           HandleAdvertise(m) \/ AdvertLost(m)
    PROVE  Convergence'
<1>1. UNCHANGED <<now, links, due, loop, age, find>> /\ adverts' = adverts \ {m}
  BY DEF HandleAdvertise, AdvertLost, nodeVars, loopVars
<1>2. m.src \in Nodes /\ m.dst \in Nodes /\ now \in Nat /\ providers \in Table
  BY DEF Types, TimeInv, Advert
<1>3. ASSUME First <= now, NEW p \in Nodes, NEW q \in Nodes, p # q, {p, q} \in InitLinks
      PROVE  /\ NotYet(p, First) => Remembered(p, q)'
             /\ \A a \in adverts : a.src = p /\ a.dst = q => a \in adverts' \/ Remembered(p, q)'
             /\ First + RecordTTL <= providers[q][p] /\ now <= First + RecordTTL
                   => First + RecordTTL <= providers'[q][p]
  <2>1. NotYet(p, First) => Remembered(p, q)'
    BY <1>1 DEF NotYet, Remembered
  <2>2. CASE HandleAdvertise(m)
    <3>1. PICK t \in Nat : t = now + RecordTTL
      BY <1>2, Bounds
    <3>2. First + RecordTTL <= t
      BY <1>2, <1>3, <3>1, Bounds
    <3>3. providers' = [providers EXCEPT ![m.dst][m.src] = t]
      BY <2>2, <3>1 DEF HandleAdvertise, StoreProvider
    <3>4. providers'[q][p] = IF q = m.dst /\ p = m.src THEN t ELSE providers[q][p]
      BY <1>2, <3>3 DEF Table
    <3>5. ASSUME m.src = p, m.dst = q
          PROVE  Remembered(p, q)'
      BY <3>2, <3>4, <3>5 DEF Remembered
    <3>6. First + RecordTTL <= providers[q][p] => First + RecordTTL <= providers'[q][p]
      BY <3>2, <3>4
    <3> QED BY <1>1, <2>1, <3>5, <3>6
  <2>3. CASE AdvertLost(m)
    <3>1. providers' = providers
      BY <2>3 DEF AdvertLost
    <3>2. ~Reachable(m.dst, m.src)
      BY <1>3, <2>3, NoBadLuck DEF AdvertLost, Types
    <3>3. ~(m.src = p /\ m.dst = q)
      BY <1>3, <3>2 DEF Reachable, AllServe, Convergence
    <3> QED BY <1>1, <2>1, <3>1, <3>3
  <2> QED BY <2>2, <2>3
<1>4. Spread'
  BY <1>1, <1>3, SpreadKept
<1>5. ASSUME Second <= now, NEW n \in Nodes
      PROVE  Meets(n)'
  <2>1. Meets(n)
    BY <1>5 DEF Convergence
  <2> QED BY <1>1, <2>1, MeetsKept
<1> QED BY <1>1, <1>4, <1>5 DEF Convergence

\* A tick brings every node into a round it has not begun, and leaves who is late later.
LEMMA TickNotYet ==
    ASSUME Types, AllServe, Convergence, Tick, NEW n \in Nodes, NEW t \in Nat \ {0},
           (now + 1 = t /\ now' = t) \/ NotYet(n, t)
    PROVE  NotYet(n, t)'
<1>1. /\ now \in Nat /\ age[n] \in 0..MaxDelay /\ now' \in {now, now + 1} /\ loop' = loop
      /\ age'[n] = IF Unhandled(n) THEN age[n] + 1 ELSE 0
  BY DEF Tick, Types, TimeInv, LoopInv
<1>2. Up(n) /\ loop[n] # "ended" /\ n \in due'
  BY DEF AllServe, Serves, Convergence, Tick
<1>3. n \in due \/ loop[n] = "query" => age'[n] = age[n] + 1
  BY <1>1, <1>2 DEF Unhandled
<1>4. CASE NotYet(n, t)
  BY <1>1, <1>2, <1>3, <1>4, Bounds DEF NotYet
<1>5. CASE now + 1 = t /\ now' = t
  BY <1>1, <1>2, <1>3, <1>5, Bounds DEF NotYet
<1> QED BY <1>4, <1>5

LEMMA TickConv ==
    ASSUME Types, SmallRendezvous, AllServe, Convergence, Tick
    PROVE  Convergence'
<1>1. now \in Nat /\ now' \in {now, now + 1} /\ UNCHANGED <<links, loop, find, adverts, providers>>
  BY DEF Tick, Types, TimeInv
<1>2. Spread'
  <2> SUFFICES ASSUME First <= now', now' <= Second + 2 * MaxDelay,
                      NEW p \in Nodes, NEW q \in Nodes, p # q, {p, q} \in InitLinks
               PROVE  Remembered(p, q)'
    BY DEF Spread
  <2>1. CASE First <= now
    <3>1. Remembered(p, q)
      BY <1>1, <2>1, Bounds DEF Convergence, Spread
    <3>2. NotYet(p, First) => NotYet(p, First)'
      BY TickNotYet, Bounds
    <3> QED BY <1>1, <3>1, <3>2 DEF Remembered
  <2>2. CASE ~(First <= now)
    <3>1. now + 1 = First /\ now' = First
      BY <1>1, <2>2, Bounds
    <3> QED BY <3>1, TickNotYet, Bounds DEF Remembered
  <2> QED BY <2>1, <2>2
<1>3. ASSUME Second <= now', NEW n \in Nodes
      PROVE  Meets(n)'
  <2>1. CASE ~(Second <= now)
    <3>1. now + 1 = Second /\ now' = Second
      BY <1>1, <1>3, <2>1, Bounds
    <3> QED BY <3>1, TickNotYet, Bounds DEF Meets
  <2>2. CASE Second <= now
    <3>1. Meets(n)
      BY <2>2 DEF Convergence
    <3>2. CASE NotYet(n, Second)
      BY <3>2, TickNotYet, Bounds DEF Meets
    <3>3. CASE Knows(n)
      BY <1>1, <3>3 DEF Knows, Meets
    <3>4. CASE Searching(n)
      <4>1. age[n] \in 0..MaxDelay /\ age'[n] = age[n] + 1
        BY <3>4 DEF Tick, Unhandled, Searching, AllServe, Serves, Types, LoopInv
      <4>2. now' <= Second + MaxDelay + age'[n]
        BY <1>1, <3>4, <4>1, Bounds DEF Searching
      <4> QED BY <1>1, <3>4, <4>2 DEF Searching, Meets
    <3> QED BY <3>1, <3>2, <3>3, <3>4 DEF Meets
  <2> QED BY <2>1, <2>2
<1> QED BY <1>1, <1>2, <1>3 DEF Convergence

LEMMA ConvStep == Types /\ ConvInv /\ [Next]_vars => ConvInv'
<1> SUFFICES ASSUME Types, ConvInv, [Next]_vars, SmallRendezvous, AllServe'
             PROVE  Convergence'
  BY DEF ConvInv, SmallRendezvous
<1>1. AllServe /\ UNCHANGED <<stopped, closing>>
  BY ServedBefore DEF Types
<1>2. Convergence
  BY <1>1 DEF ConvInv
<1>3. ASSUME NEW n \in Nodes, Stop(n) \/ Close(n) \/ LoopEnds(n)
      PROVE  FALSE
  <2>1. stopped[n] = 0 /\ n \notin closing /\ now # 0
    BY <1>1 DEF AllServe, Serves, Up, Types, TimeInv
  <2>2. CASE Stop(n)
    <3>1. stopped' = [stopped EXCEPT ![n] = now] /\ stopped \in [Nodes -> Nat]
      BY <2>2 DEF Stop, Types, TimeInv
    <3> QED BY <1>1, <2>1, <3>1
  <2> QED BY <1>1, <1>3, <2>1, <2>2 DEF Close, LoopEnds
<1>4. CASE UNCHANGED vars
  <2>1. UNCHANGED <<now, links, due, loop, age, find, adverts, providers>>
    BY <1>4 DEF vars, nodeVars, loopVars
  <2> QED BY <1>2, <2>1 DEF Convergence, Spread, Remembered, NotYet, Meets, Searching, Knows
<1> QED BY <1>1, <1>2, <1>3, <1>4, RoundConv, QueryConv, DiscoverConv, DeliverConv, TickConv
        DEF Next, LoopStep, Query, Deliver

LEMMA ConvStart == Init => LoopInv /\ ConvInv
<1> SUFFICES ASSUME Init
             PROVE  LoopInv /\ ConvInv
  OBVIOUS
<1>1. /\ now = 1 /\ links = InitLinks /\ due = Nodes /\ loop = [n \in Nodes |-> "select"]
      /\ age = [n \in Nodes |-> 0] /\ find = [n \in Nodes |-> NoFind]
  BY DEF Init
<1>2. LoopInv
  BY <1>1, DhtAssumption DEF LoopInv
<1>3. \A t \in Nat \ {0}, n \in Nodes : NotYet(n, t)
  BY <1>1, Bounds DEF NotYet
<1>4. Spread /\ \A n \in Nodes : Meets(n)
  BY <1>3, Bounds DEF Spread, Remembered, Meets
<1>5. InitLinks \subseteq links /\ \A n \in Nodes : loop[n] # "ended"
  BY <1>1
<1> QED BY <1>2, <1>4, <1>5 DEF ConvInv, Convergence

\* All peers of a small rendezvous are connected in the third round after the last
\* fault: after a first round every node's record is with its neighbours, after a
\* second one every search has found what they know, whatever the order of the
\* messages and however late a round begins within the delay.
THEOREM AlwaysConvergesInTime == Spec => []ConvergesInTime
<1>1. Init => Types /\ ConvInv
  BY TimeStart, FindStart, ConvStart DEF Types
<1>2. Types /\ [Next]_vars => Types'
  BY TimeStep, FindStep, LoopHolds DEF Types
<1>3. Types /\ ConvInv => ConvergesInTime
  <2> SUFFICES ASSUME Types, ConvInv, SmallRendezvous, AllServe,
                      now >= LastFault + 3 + 5 * MaxDelay,
                      NEW n \in Nodes, NEW p \in Nodes, n # p
               PROVE  {n, p} \in links
    BY DEF ConvergesInTime, AllServe
  <2>1. now \in Nat /\ age[n] \in 0..MaxDelay /\ now > Second + 2 * MaxDelay
    BY DhtAssumption DEF Types, TimeInv, LoopInv, First, Second
  <2>2. Meets(n)
    BY <2>1, Bounds DEF ConvInv, Convergence
  <2>3. ~NotYet(n, Second)
    BY <2>1, NotYetEnds, Bounds DEF Types
  <2>4. ~Searching(n)
    BY <2>1, Bounds DEF Searching
  <2> QED BY <2>2, <2>3, <2>4 DEF Meets, Knows
<1> QED BY <1>1, <1>2, <1>3, ConvStep, PTL DEF Spec
=============================================================================
