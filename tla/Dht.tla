-------------------------------- MODULE Dht --------------------------------
(***************************************************************************)
(* p2p.DHTManager at every node: the rendezvous of peers over the peers    *)
(* they are already connected to.  In every round of its loop a node       *)
(* advertises itself to its neighbours, collects the providers it knows    *)
(* and those its neighbours know (FindPeers, one goroutine per neighbour), *)
(* and connects to what it finds.  A provider record expires RecordTTL     *)
(* after its receiver stored it.                                           *)
(*                                                                         *)
(* One namespace; every host has an address.  The clock counts poll        *)
(* intervals.  A request, an advertisement or a dial fails when the other  *)
(* node has stopped, and now and then for another reason.                  *)
(* The routing table (AddPeer) is left out: the program only writes it, as *)
(* nothing sends the FIND_NODE request whose answer is read from it.       *)
(***************************************************************************)
EXTENDS Naturals, FiniteSets

CONSTANTS Nodes,
          InitLinks,    \* connections at the start, as sets of two nodes
          RecordTTL, MaxDelay, Limit,
          MaxTime,      \* bound: the clock stops there, the tickers do not
          MaxFaults,    \* bound: nodes that stop or close their DHTManager, and
                        \* calls between running nodes that fail, together
          LastFault     \* bound: the last time at which that happens

ASSUME DhtAssumption ==
    /\ \A l \in InitLinks : l \subseteq Nodes
    /\ RecordTTL \in Nat \ {0} /\ MaxDelay \in Nat /\ Limit \in Nat \ {0}
    /\ MaxTime \in Nat \ {0} /\ {MaxFaults, LastFault} \subseteq Nat

VARIABLES
    now,
    stopped,    \* stopped[n]: when n stopped, or 0 while it runs
    closing,    \* nodes whose DHTManager.Close was called
    links,      \* connections
    providers,  \* providers[n][p]: when p's record at n expires; 0: no record
    adverts,    \* ADVERTISE messages on their way
    due,        \* nodes whose ticker has fired (a ticker keeps one tick)
    loop,       \* loop[n]: "select", "query" or "ended"
    age,        \* age[n]: poll intervals since the tick that n has to handle
    find,       \* find[n]: the FindPeers call of n
    failures    \* calls between running nodes that failed

nodeVars == <<now, stopped, closing, links>>
loopVars == <<due, loop, age, find>>
vars == <<nodeVars, providers, adverts, loopVars, failures>>

\* Peers are put in the channel in the order of a Go map, and neighbours answer in
\* any order, so the order of the channel is left open.
Empty == [p \in Nodes |-> 0]
Put(ch, found) == [p \in Nodes |-> IF p \in found THEN ch[p] + 1 ELSE ch[p]]

\* waiting: the neighbours whose goroutine has not ended; out[p]: how often p is in
\* the channel that FindPeers returned; got, a history: what was read from it.
NoFind == [waiting |-> {}, seen |-> {}, out |-> Empty, got |-> {}]

Up(n) == stopped[n] = 0
Neighbours(n) == {p \in Nodes \ {n} : {n, p} \in links}
\* Close removes the stream handler.
Serves(n) == Up(n) /\ n \notin closing
Reachable(p, n) == Serves(p) /\ {n, p} \in links

FaultPossible ==
    /\ now <= LastFault
    /\ Cardinality({n \in Nodes : ~Up(n)}) + Cardinality(closing) + failures < MaxFaults

\* A call that goes wrong: for the reason given, or by bad luck.
Fails(reason) ==
    /\ reason \/ FaultPossible
    /\ failures' = IF reason THEN failures ELSE failures + 1

TypeOK ==
    /\ now \in 1..MaxTime
    /\ stopped \in [Nodes -> 0..MaxTime]
    /\ closing \subseteq Nodes /\ failures \in 0..MaxFaults
    /\ links \subseteq {{n, p} : n, p \in Nodes} /\ (\A l \in links : \A n \in l : Up(n))
    /\ providers \in [Nodes -> [Nodes -> 0..MaxTime + RecordTTL]]
    /\ adverts \subseteq [src : Nodes, dst : Nodes, at : 1..MaxTime]
    /\ due \subseteq Nodes
    /\ loop \in [Nodes -> {"select", "query", "ended"}]
    /\ age \in [Nodes -> 0..MaxDelay]
    /\ find \in [Nodes -> [waiting : SUBSET Nodes, seen : SUBSET Nodes,
                            out : [Nodes -> Nat], got : SUBSET Nodes]]

Init ==
    /\ now = 1 /\ stopped = [n \in Nodes |-> 0] /\ links = InitLinks
    /\ closing = {} /\ failures = 0
    /\ providers = [n \in Nodes |-> [p \in Nodes |-> 0]]
    /\ adverts = {}
    /\ due = Nodes
    /\ loop = [n \in Nodes |-> "select"]
    /\ age = [n \in Nodes |-> 0]
    /\ find = [n \in Nodes |-> NoFind]

----------------------------------------------------------------------------
(* The tables.                                                             *)

StoreProvider(n, p) == [providers EXCEPT ![n][p] = now + RecordTTL]

LocalProvidersUnchecked(n) == {p \in Nodes : providers[n][p] # 0}
\* getLocalProviders: the records that have not expired; the others are dropped.
LocalProviders(n) == {p \in Nodes : providers[n][p] # 0 /\ providers[n][p] >= now}
Prune(n) == [providers EXCEPT ![n] =
                [p \in Nodes |-> IF p \in LocalProviders(n) THEN @[p] ELSE 0]]

----------------------------------------------------------------------------
(* The loop of a node.                                                     *)

\* The call goes on, or it is over: every goroutine has ended, the channel is
\* closed and empty, and the loop goes back to its select.
SetFind(n, f) ==
    LET over == f.waiting = {} /\ f.out = Empty IN
    /\ find' = [find EXCEPT ![n] = IF over THEN NoFind ELSE f]
    /\ loop' = [loop EXCEPT ![n] = IF over THEN "select" ELSE "query"]
    /\ age' = [age EXCEPT ![n] = IF over THEN 0 ELSE @]

\* The first round runs at once, the others when the ticker fires; the select
\* may take the ticker though dm.ctx is done.
BeginRound(n) ==
    /\ Up(n) /\ loop[n] = "select" /\ n \in due
    /\ due' = due \ {n}

Advertise(n) ==
    adverts' = adverts \cup {[src |-> n, dst |-> p, at |-> now] : p \in Neighbours(n)}

\* The local part of FindPeers: known providers first; the limit ends the
\* search here and only here.
FindLocal(n) ==
    LET local == LocalProviders(n) \ {n} IN
    \E found \in SUBSET local :
        /\ IF Cardinality(local) <= Limit THEN found = local ELSE Cardinality(found) = Limit
        /\ SetFind(n, [waiting |-> IF Cardinality(found) >= Limit THEN {} ELSE Neighbours(n),
                       seen |-> found \cup {n}, out |-> Put(Empty, found), got |-> {}])

\* Advertise and the local search are one step, and the neighbours, which the code
\* lists once for each, are those of that moment.  A connection made in between is
\* used in the next round; none breaks while both of its nodes run.
Round(n) ==
    /\ BeginRound(n)
    /\ Advertise(n)
    /\ FindLocal(n)
    /\ providers' = [Prune(n) EXCEPT ![n][n] = now + RecordTTL]
    /\ UNCHANGED <<nodeVars, failures>>

\* One goroutine per neighbour asks it (HandleFindProviders) and merges the
\* answer under the mutex.  Merging at the moment p answers loses nothing: what
\* reads the channel may still be late.
MergeUnseen(n, f, found) ==
    [f EXCEPT !.out = Put(@, found \ {n}), !.seen = @ \cup found]
Merge(n, f, found) ==
    [f EXCEPT !.out = Put(@, found \ f.seen), !.seen = @ \cup found]

QueryAnswered(n, p) ==
    /\ Up(n) /\ p \in find[n].waiting /\ Reachable(p, n)
    /\ SetFind(n, Merge(n, [find[n] EXCEPT !.waiting = @ \ {p}], LocalProviders(p)))
    /\ providers' = Prune(p)
    /\ UNCHANGED <<nodeVars, adverts, due, failures>>

\* The request, or the wait for the answer, fails or times out after 4 seconds.
QueryFails(n, p) ==
    /\ Up(n) /\ p \in find[n].waiting
    /\ Fails(~Reachable(p, n))
    /\ SetFind(n, [find[n] EXCEPT !.waiting = @ \ {p}])
    /\ UNCHANGED <<nodeVars, providers, adverts, due>>

\* The callback of startNetworkServices: node.Connect, whose error is logged.
OnPeerFound(n, p) ==
    \/ Up(p) /\ links' = links \cup {{n, p}} /\ UNCHANGED failures
    \/ Fails(~Up(p)) /\ UNCHANGED links

\* discoverOnce takes a peer from the channel.
DiscoverPeer(n) ==
    /\ Up(n)
    /\ \E p \in Nodes :
        /\ find[n].out[p] > 0
        /\ SetFind(n, [find[n] EXCEPT !.out[p] = @ - 1, !.got = @ \cup {p}])
        /\ OnPeerFound(n, p)
    /\ UNCHANGED <<now, stopped, closing, providers, adverts, due>>

\* The select sees that dm.ctx is done.  Its other context is that of main, which
\* the signal that ends the process cancels: Stop stands for it.
LoopEnds(n) ==
    /\ Up(n) /\ loop[n] = "select" /\ n \in closing
    /\ loop' = [loop EXCEPT ![n] = "ended"]
    /\ due' = due \ {n}
    /\ age' = [age EXCEPT ![n] = 0]
    /\ UNCHANGED <<nodeVars, providers, adverts, find, failures>>

----------------------------------------------------------------------------
(* handleStream.                                                           *)

HandleAdvertiseRoutesOnly(m) ==
    /\ m \in adverts /\ Serves(m.dst)
    /\ adverts' = adverts \ {m}
    /\ UNCHANGED <<nodeVars, providers, loopVars, failures>>
HandleAdvertise(m) ==
    /\ m \in adverts /\ Serves(m.dst)
    /\ adverts' = adverts \ {m}
    /\ providers' = StoreProvider(m.dst, m.src)
    /\ UNCHANGED <<nodeVars, loopVars, failures>>

AdvertLost(m) ==
    /\ m \in adverts
    /\ Fails(~Reachable(m.dst, m.src))
    /\ adverts' = adverts \ {m}
    /\ UNCHANGED <<nodeVars, providers, loopVars>>

----------------------------------------------------------------------------
(* The surroundings.                                                       *)

\* PollInterval (30 seconds) passes.  RPCs and the search of a round are given up
\* after some seconds, but connecting to a found peer can last: an advertisement
\* is on its way, and a tick waits for its round to end, for at most MaxDelay ticks.
Unhandled(n) == Up(n) /\ (n \in due \/ loop[n] = "query")

Tick ==
    /\ \A m \in adverts : now < m.at + MaxDelay
    /\ \A n \in Nodes : Unhandled(n) => age[n] < MaxDelay
    /\ now' = IF now < MaxTime THEN now + 1 ELSE now
    /\ due' = {n \in Nodes : Up(n) /\ loop[n] # "ended"}
    /\ age' = [n \in Nodes |-> IF Unhandled(n) THEN age[n] + 1 ELSE 0]
    /\ UNCHANGED <<stopped, closing, links, providers, adverts, loop, find, failures>>

\* The process ends: its memory is gone, and with it its connections.
Stop(n) ==
    /\ Up(n) /\ FaultPossible
    /\ stopped' = [stopped EXCEPT ![n] = now]
    /\ links' = {l \in links : n \notin l}
    /\ providers' = [providers EXCEPT ![n] = [p \in Nodes |-> 0]]
    /\ loop' = [loop EXCEPT ![n] = "ended"]
    /\ age' = [age EXCEPT ![n] = 0]
    /\ find' = [find EXCEPT ![n] = NoFind]
    /\ due' = due \ {n}
    /\ UNCHANGED <<now, closing, adverts, failures>>

\* DHTManager.Close: cancel, remove the handler, wait for the loop.
Close(n) ==
    /\ Serves(n) /\ FaultPossible
    /\ closing' = closing \cup {n}
    /\ UNCHANGED <<now, stopped, links, providers, adverts, loopVars, failures>>

\* The goroutine of the loop.
LoopStep(n) == Round(n) \/ DiscoverPeer(n) \/ LoopEnds(n)

\* The goroutines of FindPeers, each asking one neighbour, and those of Advertise,
\* each writing to one.
Query(n) == \E p \in find[n].waiting : QueryAnswered(n, p) \/ QueryFails(n, p)
Deliver == \E m \in adverts : HandleAdvertise(m) \/ AdvertLost(m)

Next ==
    \/ \E n \in Nodes : LoopStep(n) \/ Query(n) \/ Stop(n) \/ Close(n)
    \/ Deliver
    \/ Tick

Spec == Init /\ [][Next]_vars

----------------------------------------------------------------------------
(* Properties.                                                             *)

\* A peer that has stopped is forgotten: once its last advertisement has
\* arrived and the record's lifetime is over, no node offers it to another,
\* although nodes keep passing records on and connecting to what they are told.
ForgetsTheGone ==
    \A n, p \in Nodes :
        ~Up(p) /\ now > stopped[p] + MaxDelay + RecordTTL => p \notin LocalProviders(n)

\* One FindPeers call yields a peer at most once and never the caller itself,
\* though the local records and the answers of several neighbours overlap and
\* each answer is merged by a goroutine of its own.
FoundOnce ==
    \A n \in Nodes :
        /\ find[n].out[n] = 0
        /\ \A p \in Nodes : find[n].out[p] <= (IF p \in find[n].got THEN 0 ELSE 1)

\* A rendezvous in which FindPeers is not cut short, two nodes know each other or
\* share a neighbour from the start, and records outlive a few rounds.
SmallRendezvous ==
    /\ IsFiniteSet(Nodes) /\ Cardinality(Nodes) <= Limit + 1
    /\ \A n, p \in Nodes : n # p =>
         {n, p} \in InitLinks \/ \E q \in Nodes : {{n, q}, {q, p}} \subseteq InitLinks
    /\ RecordTTL >= 1 + 5 * MaxDelay

\* The peers of a small rendezvous find each other: in the third round after the
\* last fault at the latest all nodes are connected, whatever the order in which
\* they advertise, ask and connect, as long as no node leaves.
ConvergesInTime ==
    /\ SmallRendezvous
    /\ now >= LastFault + 3 + 5 * MaxDelay /\ (\A n \in Nodes : Serves(n))
    => \A n, p \in Nodes : n # p => {n, p} \in links
=============================================================================
