-------------------------- MODULE TcpServerProofs --------------------------
(***************************************************************************)
(* For every set of connections and of IDs, every limit and clients that   *)
(* join as often and under whatever ID they like: what s.peers says of the *)
(* connections, however the goroutines of the server interleave, panics    *)
(* included.                                                               *)
(***************************************************************************)
EXTENDS TcpServer, FiniteSetTheorems, TLAPS

\* A reader between the halves of enqueue or of removeClient has a recipient, and
\* one that registers has an ID; a connection that is not served yet has no
\* goroutines.
Fresh(c) == c \notin open \/ c = serve
Prepared ==
    \A c \in Conns :
        /\ Fresh(c) => reader[c].at = "none" /\ writer[c] = "none"
        /\ c = serve => c \in open
        /\ reader[c].at \in {"send", "removed"} => reader[c].target \in Conns
        /\ reader[c].at = "register" => peerId[c] \in PeerIds

\* maxConnections bounds the clients that the server serves.
ClientsBounded == Cardinality(clients) <= MaxConns

\* Only the accept loop adds clients, so what it counted is still an upper bound
\* when it adds.
CountHolds ==
    /\ IsFiniteSet(clients) /\ Cardinality(clients) <= MaxConns
    /\ serve \in Conns /\ stage = "counted" => Cardinality(clients) < MaxConns

TypeInv == TypeOK /\ Prepared
RouteInv == RoutesAreServed /\ RoutesAreKept
IInv == TypeInv /\ RouteInv

Live(c) == reader[c].at \notin {"none", "ending", "ended"}

\* A connection that is being removed stays so until it is closed.
GoesOn(c) == Closing(c) => Closing(c)' \/ c \in closed'

----------------------------------------------------------------------------
(* The helpers of the model.                                               *)

\* The record a goroutine starts or goes on with.
LEMMA IdleType ==
    ASSUME NEW at \in {"none", "read", "register", "route", "reply", "sendReply", "ending", "ended"},
           NEW to \in PeerIds \cup {All}
    PROVE  /\ Idle(at) \in Reader /\ Idle(at).at = at
           /\ [Idle(at) EXCEPT !.to = to] \in Reader /\ [Idle(at) EXCEPT !.to = to].at = at
BY Zenon DEF Idle, Reader

\* After one recipient the reader runs on, and is not sending.
LEMMA AfterType ==
    ASSUME TypeOK, NEW c \in Conns, NEW r, NEW ok \in BOOLEAN
    PROVE  After(c, r, ok) \in Reader /\ After(c, r, ok).at \in {"reply", "read", "deliver"}
<1> DEFINE left == reader[c].todo \ {r}
           next == [reader[c] EXCEPT !.at = "deliver", !.todo = left, !.target = None]
<1>1. reader[c] \in Reader
  BY DEF TypeOK
<1>2. left \in SUBSET Conns
  BY <1>1 DEF Reader
<1>3. After(c, r, ok) \in {Idle("reply"), Idle("read"), next}
  BY DEF After
<1> HIDE DEF left
<1>4. next \in Reader /\ next.at = "deliver"
  BY <1>1, <1>2 DEF Reader
<1> QED BY <1>3, <1>4, IdleType

\* A step that leaves routes and IDs alone and every reader running that ran.
LEMMA ReadersRunOn ==
    ASSUME IInv, UNCHANGED <<peers, latest, peerId>>, closed \subseteq closed',
           \A c \in Conns : (Live(c) => Live(c)') /\ GoesOn(c)
    PROVE  RouteInv'
<1>1. RoutesAreServed'
  BY DEF IInv, TypeInv, RouteInv, RoutesAreServed, TypeOK, Live
<1>2. RoutesAreKept'
  <2> SUFFICES ASSUME NEW i \in PeerIds, latest'[i] # None, latest'[i] \notin closed', ~Closing(latest[i])'
               PROVE  peers'[i] = latest'[i]
    BY DEF RoutesAreKept
  <2>1. latest[i] \in Conns
    BY DEF IInv, TypeInv, TypeOK
  <2>2. ~Closing(latest[i]) /\ latest[i] \notin closed
    BY <2>1 DEF GoesOn
  <2> QED BY <2>1, <2>2 DEF IInv, RouteInv, RoutesAreKept
<1> QED BY <1>1, <1>2 DEF RouteInv

\* removeClient takes the route of the connection away, and no other.
LEMMA RemoveClientRoutes ==
    ASSUME IInv, NEW r \in Conns, RemoveClient(r), UNCHANGED <<latest, peerId, closed>>, Closing(r)',
           \A c \in Conns : (Live(c) => Live(c)' \/ c = r) /\ GoesOn(c)
    PROVE  /\ clients' \subseteq Conns /\ peers' \in [PeerIds -> Conns \cup {None}]
           /\ RouteInv'
<1>1. clients' \subseteq Conns /\ peers' \in [PeerIds -> Conns \cup {None}]
  BY DEF IInv, TypeInv, TypeOK, RemoveClient
<1>2. \A i \in PeerIds : peers'[i] = IF i = peerId[r] /\ peers[i] = r THEN None ELSE peers[i]
  BY DEF RemoveClient
<1>3. RoutesAreServed'
  <2> SUFFICES ASSUME NEW i \in PeerIds, peers'[i] # None, peerId'[peers'[i]] = i
               PROVE  Live(peers[i])' /\ peers'[i] = peers[i]
    BY DEF RoutesAreServed, Live
  <2>1. peers'[i] = peers[i] /\ peers[i] # r /\ peers[i] \in Conns
    BY <1>2 DEF IInv, TypeInv, TypeOK
  <2>2. Live(peers[i])
    BY <2>1 DEF IInv, RouteInv, RoutesAreServed, Live
  <2> QED BY <2>1, <2>2
<1>4. RoutesAreKept'
  <2> SUFFICES ASSUME NEW i \in PeerIds, latest'[i] # None, latest'[i] \notin closed', ~Closing(latest[i])'
               PROVE  peers'[i] = latest'[i]
    BY DEF RoutesAreKept
  <2>1. latest[i] \in Conns /\ latest[i] # r
    BY DEF IInv, TypeInv, TypeOK
  <2>2. ~Closing(latest[i]) /\ latest[i] \notin closed
    BY <2>1 DEF GoesOn
  <2>3. peers[i] = latest[i]
    BY <2>1, <2>2 DEF IInv, RouteInv, RoutesAreKept
  <2> QED BY <1>2, <2>1, <2>3
<1> QED BY <1>1, <1>3, <1>4 DEF RouteInv

\* A step that does not touch readers and writers.
LEMMA NobodyMoves ==
    ASSUME UNCHANGED <<reader, writer>>
    PROVE  \A c \in Conns : (Live(c) => Live(c)') /\ (Closing(c) => Closing(c)') /\ GoesOn(c)
BY DEF Live, Closing, GoesOn

\* A step of one reader.
LEMMA ReaderMoves ==
    ASSUME TypeInv, NEW c \in Conns, NEW r \in Reader, reader' = [reader EXCEPT ![c] = r],
           r.at \in {"send", "removed"} => r.target \in Conns,
           r.at = "register" => peerId'[c] \in PeerIds,
           \A d \in Conns \ {c} : peerId'[d] = peerId[d],
           reader[c].at # "none", UNCHANGED <<serveVars, writer>>
    PROVE  /\ reader' \in [Conns -> Reader] /\ Prepared'
           /\ reader'[c] = r /\ \A d \in Conns \ {c} : reader'[d] = reader[d]
<1>1. /\ reader' \in [Conns -> Reader]
      /\ reader'[c] = r /\ \A d \in Conns \ {c} : reader'[d] = reader[d]
  BY DEF TypeInv, TypeOK
<1>2. Prepared'
  BY <1>1 DEF TypeInv, Prepared, Fresh, serveVars
<1> QED BY <1>1, <1>2

\* A reader that runs on and was not removing anybody.
LEMMA ReaderRuns ==
    ASSUME NEW c \in Conns, \A d \in Conns \ {c} : reader'[d] = reader[d], UNCHANGED writer,
           reader'[c].at \notin {"none", "ending", "ended"}, reader[c].at \notin {"removed", "ending"}
    PROVE  \A d \in Conns : (Live(d) => Live(d)') /\ (Closing(d) => Closing(d)') /\ GoesOn(d)
<1>1. \A d \in Conns : Live(d) => Live(d)'
  BY DEF Live
<1>2. \A d \in Conns : Closing(d) => Closing(d)'
  BY DEF Closing
<1> QED BY <1>1, <1>2 DEF GoesOn

----------------------------------------------------------------------------
(* The accept loop.                                                        *)

LEMMA ServeKeeps ==
    ASSUME IInv, ServeStep
    PROVE  IInv'
<1> USE DEF IInv
<1>1. ASSUME NEW c \in Conns, Accept(c) PROVE IInv'
  <2>1. TypeInv'
    BY <1>1 DEF Accept, TypeInv, TypeOK, Prepared, Fresh, mapVars, connVars, shutVars
  <2> QED BY <1>1, <2>1, ReadersRunOn, NobodyMoves DEF Accept, mapVars, connVars
<1>2. ASSUME AcceptFails PROVE IInv'
  <2>1. TypeInv'
    BY <1>2, ServerAssumption DEF AcceptFails, TypeInv, TypeOK, Prepared, Fresh, mapVars, connVars, shutVars
  <2> QED BY <1>2, <2>1, ReadersRunOn, NobodyMoves DEF AcceptFails, mapVars, connVars
<1>3. ASSUME CheckLimit PROVE IInv'
  <2>1. TypeInv'
    BY <1>3, ServerAssumption DEF CheckLimit, TypeInv, TypeOK, Prepared, Fresh, mapVars, connVars, shutVars
  <2> QED BY <1>3, <2>1, ReadersRunOn, NobodyMoves DEF CheckLimit, mapVars, connVars
<1>4. ASSUME AddClient PROVE IInv'
  <2>1. TypeInv'
    BY <1>4 DEF AddClient, TypeInv, TypeOK, Prepared, Fresh, connVars, shutVars
  <2> QED BY <1>4, <2>1, ReadersRunOn, NobodyMoves DEF AddClient, connVars
<1>5. ASSUME Spawn PROVE IInv'
  <2>1. Idle("read") \in Reader /\ Idle("read").at = "read" /\ serve \in Conns
    BY <1>5, IdleType DEF Spawn
  <2>1a. "accept" \notin Conns /\ serve \in Conns /\ serve' = "accept" /\ Fresh(serve)
    BY <1>5, ServerAssumption DEF Spawn, Fresh
  <2>2. /\ reader' \in [Conns -> Reader]
        /\ reader'[serve] = Idle("read") /\ \A d \in Conns \ {serve} : reader'[d] = reader[d]
        /\ writer' \in [Conns -> {"none", "running", "ending", "ended"}]
        /\ writer'[serve] = "running" /\ \A d \in Conns \ {serve} : writer'[d] = writer[d]
    BY <1>5, <2>1 DEF Spawn, TypeInv, TypeOK
  <2>2a. Prepared'
    <3>1. \A d \in Conns : d # serve' /\ (Fresh(d)' => Fresh(d) /\ d # serve)
      BY <1>5, <2>1a DEF Spawn, Fresh, TypeInv, Prepared
    <3> QED BY <1>5, <2>1, <2>2, <3>1 DEF Spawn, TypeInv, Prepared
  <2>3. TypeInv'
    BY <1>5, <2>2, <2>2a DEF Spawn, TypeInv, TypeOK, mapVars, shutVars
  <2>4. \A c \in Conns : (Live(c) => Live(c)') /\ GoesOn(c)
    <3>1. \A c \in Conns : Live(c) => Live(c)'
      BY <2>1, <2>2 DEF Live
    <3>2. reader[serve].at = "none" /\ writer[serve] = "none"
      BY <2>1a DEF TypeInv, Prepared
    <3> QED BY <2>1, <2>2, <3>1, <3>2 DEF Closing, GoesOn
  <2> QED BY <1>5, <2>3, <2>4, ReadersRunOn DEF Spawn, mapVars
<1> QED BY <1>1, <1>2, <1>3, <1>4, <1>5 DEF ServeStep

----------------------------------------------------------------------------
(* readLoop.                                                               *)

LEMMA ReadKeeps ==
    ASSUME IInv, NEW c \in Conns, NEW id \in PeerIds \cup {None}, NEW to \in PeerIds \cup {All},
           Read(c, id, to)
    PROVE  IInv'
<1> USE DEF IInv
<1>1. PICK at : at = IF id = None THEN "route" ELSE "register"
  OBVIOUS
<1>2. PICK r : r = [Idle(at) EXCEPT !.to = to]
  OBVIOUS
<1>3. r \in Reader /\ r.at = at /\ at \in {"route", "register"}
  BY <1>1, <1>2, IdleType
<1>4. reader' = [reader EXCEPT ![c] = r] /\ reader[c].at = "read"
  BY <1>1, <1>2 DEF Read
<1>5. /\ peerId' \in [Conns -> PeerIds \cup {None}] /\ \A d \in Conns \ {c} : peerId'[d] = peerId[d]
      /\ at = "register" => peerId'[c] \in PeerIds
  BY <1>1 DEF Read, TypeInv, TypeOK
<1>6. /\ reader' \in [Conns -> Reader] /\ Prepared'
      /\ reader'[c] = r /\ \A d \in Conns \ {c} : reader'[d] = reader[d]
  BY <1>3, <1>4, <1>5, ReaderMoves DEF Read
<1>7. TypeInv'
  BY <1>5, <1>6, ServerAssumption DEF Read, TypeInv, TypeOK, serveVars, mapVars, shutVars
<1>8. \A d \in Conns : (Live(d) => Live(d)') /\ GoesOn(d)
  BY <1>3, <1>4, <1>6, ReaderRuns DEF Read
<1>9. UNCHANGED <<peers, latest, closed>> /\ Live(c)'
  BY <1>3, <1>6 DEF Read, mapVars, Live
<1>10. RoutesAreServed'
  <2> SUFFICES ASSUME NEW i \in PeerIds, peers'[i] # None, peerId'[peers'[i]] = i
               PROVE  Live(peers[i])' /\ peers'[i] = peers[i]
    BY DEF RoutesAreServed, Live
  <2>1. peers[i] \in Conns /\ peers'[i] = peers[i]
    BY <1>9 DEF TypeInv, TypeOK
  <2>2. peers[i] # c => Live(peers[i])
    BY <1>5, <2>1 DEF RouteInv, RoutesAreServed, Live
  <2> QED BY <1>8, <1>9, <2>1, <2>2
<1>11. RoutesAreKept'
  <2> SUFFICES ASSUME NEW i \in PeerIds, latest'[i] # None, latest'[i] \notin closed', ~Closing(latest[i])'
               PROVE  peers'[i] = latest'[i]
    BY DEF RoutesAreKept
  <2>1. latest[i] \in Conns
    BY <1>9 DEF TypeInv, TypeOK
  <2>2. ~Closing(latest[i]) /\ latest[i] \notin closed
    BY <1>8, <1>9, <2>1 DEF GoesOn
  <2> QED BY <1>9, <2>1, <2>2 DEF RouteInv, RoutesAreKept
<1> QED BY <1>7, <1>10, <1>11 DEF RouteInv

LEMMA RegisterPeerKeeps ==
    ASSUME IInv, NEW c \in Conns, RegisterPeer(c)
    PROVE  IInv'
<1> USE DEF IInv
<1>1. PICK r : r = [reader[c] EXCEPT !.at = "route"]
  OBVIOUS
<1>2. PICK j : j = peerId[c]
  OBVIOUS
<1>3. j \in PeerIds /\ reader[c] \in Reader /\ reader[c].at = "register" /\ c # None
  BY <1>2, ServerAssumption DEF RegisterPeer, TypeInv, TypeOK, Prepared
<1>4. r \in Reader /\ r.at = "route" /\ reader' = [reader EXCEPT ![c] = r]
  BY <1>1, <1>3 DEF RegisterPeer, TypeInv, TypeOK, Reader
<1>5. /\ reader' \in [Conns -> Reader] /\ Prepared'
      /\ reader'[c] = r /\ \A d \in Conns \ {c} : reader'[d] = reader[d]
  BY <1>3, <1>4, ReaderMoves DEF RegisterPeer
<1>6. \A d \in Conns : (Live(d) => Live(d)') /\ GoesOn(d)
  BY <1>3, <1>4, <1>5, ReaderRuns DEF RegisterPeer
<1>7. /\ peers' = [peers EXCEPT ![j] = c] /\ latest' = [latest EXCEPT ![j] = c]
      /\ UNCHANGED <<peerId, closed>>
  BY <1>2 DEF RegisterPeer
<1>8. TypeInv'
  <2>1. peers' \in [PeerIds -> Conns \cup {None}] /\ latest' \in [PeerIds -> Conns \cup {None}]
    BY <1>3, <1>7 DEF TypeInv, TypeOK
  <2> QED BY <1>5, <1>7, <2>1 DEF RegisterPeer, TypeInv, TypeOK, serveVars, shutVars
<1>9. RoutesAreServed'
  <2> SUFFICES ASSUME NEW i \in PeerIds, NEW d, d = peers'[i], d # None, peerId'[d] = i
               PROVE  Live(d)'
    BY DEF RoutesAreServed, Live
  <2>1. d \in Conns /\ (d = c \/ d = peers[i])
    BY <1>3, <1>7, <1>8 DEF TypeInv, TypeOK
  <2>2. Live(c)
    BY <1>3 DEF Live
  <2>3. Live(d)
    BY <1>7, <2>1, <2>2 DEF RouteInv, RoutesAreServed, Live
  <2> QED BY <1>6, <2>1, <2>3
<1>10. RoutesAreKept'
  <2> SUFFICES ASSUME NEW i \in PeerIds, NEW d, d = latest'[i], d # None, d \notin closed', ~Closing(d)'
               PROVE  peers'[i] = d
    BY DEF RoutesAreKept, Closing
  <2>1. CASE i = j
    BY <1>3, <1>7, <2>1 DEF TypeInv, TypeOK
  <2>2. CASE i # j
    <3>1. d = latest[i] /\ peers'[i] = peers[i] /\ d \in Conns
      BY <1>3, <1>7, <2>2 DEF TypeInv, TypeOK
    <3>2. ~Closing(d) /\ d \notin closed
      BY <1>6, <1>7, <3>1 DEF GoesOn
    <3> QED BY <3>1, <3>2 DEF RouteInv, RoutesAreKept
  <2> QED BY <2>1, <2>2
<1> QED BY <1>8, <1>9, <1>10 DEF RouteInv

\* A reader that ends takes its route with it ...
LEMMA ReadFailsKeeps ==
    ASSUME IInv, NEW c \in Conns, ReadFails(c)
    PROVE  IInv'
<1> USE DEF IInv
<1>1. Idle("ending") \in Reader /\ Idle("ending").at = "ending"
  BY IdleType
<1>2. /\ reader' \in [Conns -> Reader] /\ Prepared'
      /\ reader'[c] = Idle("ending") /\ \A d \in Conns \ {c} : reader'[d] = reader[d]
  BY <1>1, ReaderMoves DEF ReadFails
<1>3. reader[c].at = "read" /\ UNCHANGED writer
  BY DEF ReadFails
<1>4. Closing(c)' /\ \A d \in Conns : (Live(d) => Live(d)' \/ d = c) /\ (Closing(d) => Closing(d)')
  BY <1>1, <1>2, <1>3 DEF Live, Closing
<1>5. clients' \subseteq Conns /\ peers' \in [PeerIds -> Conns \cup {None}] /\ RouteInv'
  BY <1>4, RemoveClientRoutes DEF ReadFails, GoesOn
<1>6. TypeInv'
  BY <1>2, <1>5 DEF ReadFails, TypeInv, TypeOK, serveVars, shutVars
<1> QED BY <1>5, <1>6

\* ... and then closes.
LEMMA ReaderEndsKeeps ==
    ASSUME IInv, NEW c \in Conns, ReaderEnds(c)
    PROVE  IInv'
<1> USE DEF IInv
<1>1. Idle("ended") \in Reader /\ Idle("ended").at = "ended"
  BY IdleType
<1>2. /\ reader' \in [Conns -> Reader] /\ Prepared'
      /\ reader'[c] = Idle("ended") /\ \A d \in Conns \ {c} : reader'[d] = reader[d]
  BY <1>1, ReaderMoves DEF ReaderEnds
<1>3. reader[c].at = "ending" /\ UNCHANGED writer /\ closed' = closed \cup {c}
  BY DEF ReaderEnds
<1>4. \A d \in Conns : (Live(d) => Live(d)') /\ GoesOn(d)
  BY <1>1, <1>2, <1>3 DEF Live, Closing, GoesOn
<1>5. TypeInv'
  BY <1>2, <1>3 DEF ReaderEnds, TypeInv, TypeOK, serveVars, mapVars, shutVars
<1> QED BY <1>3, <1>4, <1>5, ReadersRunOn DEF ReaderEnds, mapVars

LEMMA RouteKeeps ==
    ASSUME IInv, NEW c \in Conns, Route(c)
    PROVE  IInv'
<1> USE DEF IInv
<1>1. PICK rcpts : rcpts = IF reader[c].to = All THEN clients \ {c} ELSE {peers[reader[c].to]} \ {None}
  OBVIOUS
<1>2. PICK next : next = [reader[c] EXCEPT !.at = "deliver", !.todo = rcpts]
  OBVIOUS
<1>3. PICK r : r = IF rcpts # {} THEN next ELSE Idle(IF reader[c].to = All THEN "read" ELSE "reply")
  OBVIOUS
<1>4. reader[c] \in Reader /\ reader[c].to \in PeerIds \cup {All}
  BY DEF TypeInv, TypeOK, Reader
<1>5. rcpts \in SUBSET Conns
  BY <1>1, <1>4 DEF TypeInv, TypeOK
<1>6. next \in Reader /\ next.at = "deliver"
  BY <1>2, <1>4, <1>5 DEF Reader
<1>7. r \in Reader /\ r.at \in {"deliver", "read", "reply"}
  BY <1>3, <1>6, IdleType
<1>8. reader' = [reader EXCEPT ![c] = r] /\ reader[c].at = "route"
  BY <1>1, <1>2, <1>3 DEF Route
<1>9. /\ reader' \in [Conns -> Reader] /\ Prepared'
      /\ reader'[c] = r /\ \A d \in Conns \ {c} : reader'[d] = reader[d]
  BY <1>7, <1>8, ReaderMoves DEF Route
<1>10. TypeInv'
  BY <1>9 DEF Route, TypeInv, TypeOK, serveVars, mapVars, shutVars
<1>11. \A d \in Conns : (Live(d) => Live(d)') /\ GoesOn(d)
  BY <1>7, <1>8, <1>9, ReaderRuns DEF Route
<1> QED BY <1>10, <1>11, ReadersRunOn DEF Route, mapVars

\* A delivery that failed: the recipient is removed.
LEMMA FailedKeeps ==
    ASSUME IInv, NEW c \in Conns, NEW r \in Conns, RemoveClient(r), NEW new \in Reader,
           new.at = "removed", new.target = r, reader' = [reader EXCEPT ![c] = new],
           reader[c].at \in {"deliver", "send"},
           UNCHANGED <<serveVars, peerId, closed, queue, writer, shutVars, msgs, latest, panicked>>
    PROVE  IInv'
<1> USE DEF IInv
<1>1. /\ reader' \in [Conns -> Reader] /\ Prepared'
      /\ reader'[c] = new /\ \A d \in Conns \ {c} : reader'[d] = reader[d]
  BY ReaderMoves
<1>2. \A d \in Conns : (Live(d) => Live(d)') /\ GoesOn(d)
  BY <1>1, ReaderRuns
<1>3. Closing(r)'
  BY <1>1 DEF Closing
<1>4. clients' \subseteq Conns /\ peers' \in [PeerIds -> Conns \cup {None}] /\ RouteInv'
  BY <1>2, <1>3, RemoveClientRoutes
<1>5. TypeInv'
  BY <1>1, <1>4 DEF TypeInv, TypeOK, serveVars, shutVars
<1> QED BY <1>4, <1>5

LEMMA EnqueueKeeps ==
    ASSUME IInv, NEW c \in Conns, NEW r \in Conns, Enqueue(c, r)
    PROVE  IInv'
<1> USE DEF IInv
<1>1. reader[c] \in Reader /\ reader[c].at = "deliver"
  BY DEF Enqueue, TypeInv, TypeOK
<1>2. CASE r \in closed
  <2>1. PICK new : new = [reader[c] EXCEPT !.at = "removed", !.target = r]
    OBVIOUS
  <2>2. new \in Reader /\ new.at = "removed" /\ new.target = r
    BY <1>1, <2>1 DEF Reader
  <2>3. RemoveClient(r) /\ reader' = [reader EXCEPT ![c] = new]
    BY <1>2, <2>1 DEF Enqueue, TypeInv, TypeOK
  <2> QED BY <1>1, <2>2, <2>3, FailedKeeps DEF Enqueue
<1>3. CASE r \notin closed
  <2>1. PICK new : new = [reader[c] EXCEPT !.at = "send", !.target = r]
    OBVIOUS
  <2>2. new \in Reader /\ new.at = "send" /\ new.target = r
    BY <1>1, <2>1 DEF Reader
  <2>3. reader' = [reader EXCEPT ![c] = new] /\ UNCHANGED mapVars
    BY <1>3, <2>1 DEF Enqueue, TypeInv, TypeOK
  <2>4. /\ reader' \in [Conns -> Reader] /\ Prepared'
        /\ reader'[c] = new /\ \A d \in Conns \ {c} : reader'[d] = reader[d]
    BY <1>1, <2>2, <2>3, ReaderMoves DEF Enqueue
  <2>5. TypeInv'
    BY <2>3, <2>4 DEF Enqueue, TypeInv, TypeOK, serveVars, mapVars, shutVars
  <2>6. \A d \in Conns : (Live(d) => Live(d)') /\ GoesOn(d)
    BY <1>1, <2>2, <2>4, ReaderRuns DEF Enqueue
  <2> QED BY <2>3, <2>5, <2>6, ReadersRunOn DEF Enqueue, mapVars
<1> QED BY <1>2, <1>3

LEMMA SendKeeps ==
    ASSUME IInv, NEW c \in Conns, Send(c)
    PROVE  IInv'
<1> USE DEF IInv
<1>1. PICK r : r = reader[c].target
  OBVIOUS
<1>2. r \in Conns /\ reader[c] \in Reader /\ reader[c].at = "send"
  BY <1>1 DEF Send, TypeInv, Prepared, TypeOK
<1>3. CASE panicked' = TRUE /\ UNCHANGED <<mapVars, queue, reader>>
  <2>1. TypeInv'
    BY <1>3 DEF Send, TypeInv, TypeOK, Prepared, Fresh, serveVars, mapVars, shutVars
  <2> QED BY <1>3, <2>1, ReadersRunOn, NobodyMoves DEF Send, mapVars
<1>4. CASE /\ queue[r] < QueueLen /\ queue' = [queue EXCEPT ![r] = @ + 1]
           /\ reader' = [reader EXCEPT ![c] = After(c, r, TRUE)]
           /\ UNCHANGED <<mapVars, panicked>>
  <2>1. After(c, r, TRUE) \in Reader /\ After(c, r, TRUE).at \in {"reply", "read", "deliver"}
    BY AfterType DEF TypeInv
  <2>2. /\ reader' \in [Conns -> Reader] /\ Prepared'
        /\ reader'[c] = After(c, r, TRUE) /\ \A d \in Conns \ {c} : reader'[d] = reader[d]
    BY <1>2, <1>4, <2>1, ReaderMoves DEF Send
  <2>3. queue' \in [Conns -> 0..QueueLen]
    BY <1>2, <1>4, ServerAssumption DEF TypeInv, TypeOK
  <2>4. TypeInv'
    BY <1>4, <2>2, <2>3 DEF Send, TypeInv, TypeOK, serveVars, mapVars, shutVars
  <2>5. \A d \in Conns : (Live(d) => Live(d)') /\ GoesOn(d)
    BY <1>2, <2>1, <2>2, ReaderRuns DEF Send
  <2> QED BY <1>4, <2>4, <2>5, ReadersRunOn DEF mapVars, Send
<1>5. CASE /\ RemoveClient(r) /\ reader' = [reader EXCEPT ![c].at = "removed"]
           /\ UNCHANGED <<queue, panicked>>
  <2>1. PICK new : new = [reader[c] EXCEPT !.at = "removed"]
    OBVIOUS
  <2>2. new \in Reader /\ new.at = "removed" /\ new.target = r
    BY <1>1, <1>2, <2>1 DEF Reader
  <2>3. reader' = [reader EXCEPT ![c] = new]
    BY <1>5, <2>1 DEF TypeInv, TypeOK
  <2> QED BY <1>2, <1>5, <2>2, <2>3, FailedKeeps DEF Send
<1> QED BY <1>1, <1>3, <1>4, <1>5 DEF Send

LEMMA CloseRemovedKeeps ==
    ASSUME IInv, NEW c \in Conns, CloseRemoved(c)
    PROVE  IInv'
<1> USE DEF IInv
<1>1. PICK r : r = reader[c].target
  OBVIOUS
<1>2. r \in Conns /\ reader[c].at = "removed" /\ closed' = closed \cup {r} /\ UNCHANGED writer
  BY <1>1 DEF CloseRemoved, TypeInv, Prepared
<1>3. After(c, r, FALSE) \in Reader /\ After(c, r, FALSE).at \in {"reply", "read", "deliver"}
  BY AfterType DEF TypeInv
<1>4. /\ reader' \in [Conns -> Reader] /\ Prepared'
      /\ reader'[c] = After(c, r, FALSE) /\ \A d \in Conns \ {c} : reader'[d] = reader[d]
  BY <1>1, <1>2, <1>3, ReaderMoves DEF CloseRemoved
<1>5. TypeInv'
  BY <1>2, <1>4 DEF CloseRemoved, TypeInv, TypeOK, serveVars, mapVars, shutVars
<1>6. \A d \in Conns : Live(d) => Live(d)'
  BY <1>3, <1>4 DEF Live
<1>7. \A d \in Conns : GoesOn(d)
  BY <1>1, <1>2, <1>3, <1>4 DEF Closing, GoesOn
<1> QED BY <1>2, <1>5, <1>6, <1>7, ReadersRunOn DEF CloseRemoved, mapVars

LEMMA ReplyKeeps ==
    ASSUME IInv, NEW c \in Conns, Reply(c)
    PROVE  IInv'
<1> USE DEF IInv
<1>1. PICK r : r = Idle(IF c \in closed THEN "read" ELSE "sendReply")
  OBVIOUS
<1>2. r \in Reader /\ r.at \in {"read", "sendReply"}
  BY <1>1, IdleType
<1>3. reader' = [reader EXCEPT ![c] = r] /\ reader[c].at = "reply"
  BY <1>1 DEF Reply
<1>4. /\ reader' \in [Conns -> Reader] /\ Prepared'
      /\ reader'[c] = r /\ \A d \in Conns \ {c} : reader'[d] = reader[d]
  BY <1>2, <1>3, ReaderMoves DEF Reply
<1>5. TypeInv'
  BY <1>4 DEF Reply, TypeInv, TypeOK, serveVars, mapVars, shutVars
<1>6. \A d \in Conns : (Live(d) => Live(d)') /\ GoesOn(d)
  BY <1>2, <1>3, <1>4, ReaderRuns DEF Reply
<1> QED BY <1>5, <1>6, ReadersRunOn DEF Reply, mapVars

LEMMA SendReplyKeeps ==
    ASSUME IInv, NEW c \in Conns, SendReply(c)
    PROVE  IInv'
<1> USE DEF IInv
<1>1. CASE c \in closed
  <2>1. TypeInv'
    BY <1>1 DEF SendReply, TypeInv, TypeOK, Prepared, Fresh, serveVars, mapVars, shutVars
  <2> QED BY <1>1, <2>1, ReadersRunOn, NobodyMoves DEF SendReply, mapVars
<1>2. CASE c \notin closed
  <2>1. Idle("read") \in Reader /\ Idle("read").at = "read" /\ reader[c].at = "sendReply"
    BY IdleType DEF SendReply
  <2>2. /\ reader' \in [Conns -> Reader] /\ Prepared'
        /\ reader'[c] = Idle("read") /\ \A d \in Conns \ {c} : reader'[d] = reader[d]
    BY <1>2, <2>1, ReaderMoves DEF SendReply
  <2>3. queue' \in [Conns -> 0..QueueLen]
    BY <1>2, ServerAssumption DEF SendReply, TypeInv, TypeOK
  <2>4. TypeInv'
    BY <1>2, <2>2, <2>3 DEF SendReply, TypeInv, TypeOK, serveVars, mapVars, shutVars
  <2>5. \A d \in Conns : (Live(d) => Live(d)') /\ GoesOn(d)
    BY <2>1, <2>2, ReaderRuns DEF SendReply
  <2> QED BY <1>2, <2>4, <2>5, ReadersRunOn DEF mapVars, SendReply
<1> QED BY <1>1, <1>2

----------------------------------------------------------------------------
(* writeLoop and Shutdown.                                                 *)

LEMMA WriterKeeps ==
    ASSUME IInv, NEW c \in Conns, WriterStep(c)
    PROVE  IInv'
<1> USE DEF IInv
<1>1. CASE Write(c)
  <2>1. queue' \in [Conns -> 0..QueueLen]
    BY <1>1, ServerAssumption DEF Write, TypeInv, TypeOK
  <2>2. TypeInv'
    BY <1>1, <2>1 DEF Write, TypeInv, TypeOK, Prepared, Fresh, serveVars, mapVars, shutVars
  <2> QED BY <1>1, <2>2, ReadersRunOn, NobodyMoves DEF Write, mapVars
<1>2. ASSUME NEW w \in {"ending", "ended"}, writer' = [writer EXCEPT ![c] = w],
             writer[c] # "none", UNCHANGED <<reader, peerId, serveVars>>
      PROVE  /\ writer' \in [Conns -> {"none", "running", "ending", "ended"}] /\ Prepared'
             /\ writer'[c] = w /\ \A d \in Conns \ {c} : writer'[d] = writer[d]
  BY <1>2 DEF TypeInv, TypeOK, Prepared, Fresh, serveVars
<1>3. CASE WriteFails(c)
  <2>1. /\ writer' \in [Conns -> {"none", "running", "ending", "ended"}] /\ Prepared'
        /\ writer'[c] = "ending" /\ \A d \in Conns \ {c} : writer'[d] = writer[d]
    BY <1>2, <1>3 DEF WriteFails
  <2>2. reader' = reader /\ writer[c] = "running"
    BY <1>3 DEF WriteFails
  <2>3. Closing(c)' /\ \A d \in Conns : (Live(d) => Live(d)') /\ GoesOn(d)
    BY <2>1, <2>2 DEF Closing, GoesOn, Live
  <2>4. clients' \subseteq Conns /\ peers' \in [PeerIds -> Conns \cup {None}] /\ RouteInv'
    BY <1>3, <2>3, RemoveClientRoutes DEF WriteFails
  <2>5. TypeInv'
    BY <1>3, <2>1, <2>4 DEF WriteFails, TypeInv, TypeOK, serveVars, shutVars
  <2> QED BY <2>4, <2>5
<1>4. CASE WriterEnds(c)
  <2>1. /\ writer' \in [Conns -> {"none", "running", "ending", "ended"}] /\ Prepared'
        /\ writer'[c] = "ended" /\ \A d \in Conns \ {c} : writer'[d] = writer[d]
    BY <1>2, <1>4 DEF WriterEnds
  <2>2. reader' = reader /\ closed' = closed \cup {c}
    BY <1>4 DEF WriterEnds
  <2>3. \A d \in Conns : (Live(d) => Live(d)') /\ GoesOn(d)
    BY <2>1, <2>2 DEF Closing, GoesOn, Live
  <2>4. TypeInv'
    BY <1>4, <2>1, <2>2 DEF WriterEnds, TypeInv, TypeOK, serveVars, mapVars, shutVars
  <2> QED BY <1>4, <2>2, <2>3, <2>4, ReadersRunOn DEF WriterEnds, mapVars
<1> QED BY <1>1, <1>3, <1>4 DEF WriterStep

LEMMA ShutdownKeeps ==
    ASSUME IInv, Shutdown \/ ShutdownStep
    PROVE  IInv'
<1> USE DEF IInv
<1>1. /\ UNCHANGED <<serveVars, mapVars, peerId, queue, reader, writer, msgs, latest, panicked>>
      /\ shut' \in {"snapshot", "closing", "waiting", "returned"}
      /\ toClose' \subseteq Conns /\ closed' \subseteq Conns /\ closed \subseteq closed'
  BY DEF Shutdown, ShutdownStep, CloseListener, CloseClient, ClosedAll, WaitReturns,
         TypeInv, TypeOK, connVars
<1>2. TypeInv'
  BY <1>1 DEF TypeInv, TypeOK, Prepared, Fresh, serveVars, mapVars
<1> QED BY <1>1, <1>2, ReadersRunOn, NobodyMoves DEF mapVars

----------------------------------------------------------------------------
(* The theorems.                                                           *)

LEMMA InitInv == Init => IInv
<1> SUFFICES ASSUME Init PROVE IInv
  OBVIOUS
<1>1. Idle("none") \in Reader /\ Idle("none").at = "none"
  BY IdleType
<1>2. TypeOK
  <2>1. panicked \in BOOLEAN
    BY Zenon DEF Init
  <2>2. /\ peers \in [PeerIds -> Conns \cup {None}] /\ latest \in [PeerIds -> Conns \cup {None}]
        /\ peerId \in [Conns -> PeerIds \cup {None}]
    BY DEF Init
  <2>3. reader \in [Conns -> Reader] /\ writer \in [Conns -> {"none", "running", "ending", "ended"}]
    BY <1>1 DEF Init
  <2>4. /\ serve \in Conns \cup {"accept", "returned"} /\ stage \in {"accepted", "counted", "added"}
        /\ shut \in {"no", "snapshot", "closing", "waiting", "returned"}
        /\ open \subseteq Conns /\ clients \subseteq Conns /\ closed \subseteq Conns
        /\ toClose \subseteq Conns /\ msgs \in 0..MaxMsgs /\ queue \in [Conns -> 0..QueueLen]
    BY ServerAssumption DEF Init
  <2> QED BY <2>1, <2>2, <2>3, <2>4 DEF TypeOK
<1>3. Prepared
  BY <1>1, ServerAssumption DEF Init, Prepared, Fresh
<1>4. RouteInv
  BY DEF Init, RouteInv, RoutesAreServed, RoutesAreKept
<1> QED BY <1>2, <1>3, <1>4 DEF IInv, TypeInv

LEMMA NextInv == IInv /\ [Next]_vars => IInv'
<1> SUFFICES ASSUME IInv, [Next]_vars PROVE IInv'
  OBVIOUS
<1>1. CASE ServeStep
  BY <1>1, ServeKeeps
<1>2. CASE Shutdown \/ ShutdownStep
  BY <1>2, ShutdownKeeps
<1>3. ASSUME NEW c \in Conns, ReaderStep(c) PROVE IInv'
  BY <1>3, ReadKeeps, RegisterPeerKeeps, ReadFailsKeeps, ReaderEndsKeeps, RouteKeeps, EnqueueKeeps,
     SendKeeps, CloseRemovedKeeps, ReplyKeeps, SendReplyKeeps DEF ReaderStep
<1>4. ASSUME NEW c \in Conns, WriterStep(c) PROVE IInv'
  BY <1>4, WriterKeeps
<1>5. CASE UNCHANGED vars
  <2>1. TypeInv'
    BY <1>5 DEF vars, serveVars, mapVars, connVars, shutVars, IInv, TypeInv, TypeOK, Prepared, Fresh
  <2> QED BY <1>5, <2>1, ReadersRunOn, NobodyMoves DEF vars, mapVars, connVars, IInv
<1> QED BY <1>1, <1>2, <1>3, <1>4, <1>5 DEF Next

\* The server's state keeps its type: in particular no queue outgrows writeCh.
THEOREM ServerTypes == Spec => []TypeOK
BY InitInv, NextInv, PTL DEF Spec, IInv, TypeInv

\* A connection takes its route with it: what registerPeer enters under the ID
\* that the connection has, removeClient takes out before the reader ends, in
\* whatever order the goroutines of the connection, of its senders and of Shutdown
\* run and however often clients join.  An ID given up by a later join is not
\* covered: its entry stays.
THEOREM AlwaysServed == Spec => []RoutesAreServed
BY InitInv, NextInv, PTL DEF Spec, IInv, RouteInv

\* The connection that joined last under an ID is routed to until it is removed:
\* no removal of another one takes the route away, whatever IDs it had.
THEOREM AlwaysKept == Spec => []RoutesAreKept
BY InitInv, NextInv, PTL DEF Spec, IInv, RouteInv

\* The server never serves more than maxConnections clients, although Serve
\* counts them in one critical section and adds in the next: readers, writers
\* and Shutdown in between only take clients away.
THEOREM ClientsAlwaysBounded == Spec => []ClientsBounded
<1>1. Init => CountHolds
  BY FS_EmptySet, ServerAssumption DEF Init, CountHolds
<1>2. CountHolds /\ [Next]_vars => CountHolds'
  <2> SUFFICES ASSUME CountHolds, [Next]_vars PROVE CountHolds'
    OBVIOUS
  <2>1. Cardinality(clients) \in Nat
    BY FS_CardinalityType DEF CountHolds
  <2>2. ASSUME clients' \subseteq clients,
               UNCHANGED <<serve, stage>> \/ serve' \notin Conns \/ stage' # "counted"
        PROVE  CountHolds'
    <3>1. /\ IsFiniteSet(clients') /\ Cardinality(clients') \in Nat
          /\ Cardinality(clients') <= Cardinality(clients)
      BY <2>2, FS_Subset, FS_CardinalityType DEF CountHolds
    <3> QED BY <2>1, <2>2, <3>1, ServerAssumption DEF CountHolds
  <2>3. CASE CheckLimit
    BY <2>1, <2>3, ServerAssumption DEF CheckLimit, mapVars, CountHolds
  <2>4. CASE AddClient
    <3>1. /\ IsFiniteSet(clients \cup {serve}) /\ stage' = "added"
          /\ Cardinality(clients \cup {serve}) \in {Cardinality(clients), Cardinality(clients) + 1}
      BY <2>4, FS_AddElement DEF CountHolds, AddClient
    <3> QED BY <2>1, <2>4, <3>1, ServerAssumption DEF AddClient, CountHolds
  <2>5. ASSUME NEW c \in Conns, ReaderStep(c) \/ WriterStep(c) PROVE CountHolds'
    <3>1. clients' \subseteq clients /\ UNCHANGED <<serve, stage>>
      BY <2>5 DEF ReaderStep, Read, RegisterPeer, ReadFails, ReaderEnds, Route, Enqueue, Send, CloseRemoved,
                  Reply, SendReply, WriterStep, Write, WriteFails, WriterEnds, RemoveClient, mapVars, serveVars
    <3> QED BY <2>2, <3>1
  <2>6. CASE Shutdown \/ ShutdownStep \/ UNCHANGED vars
    <3>1. UNCHANGED <<clients, serve, stage>>
      BY <2>6 DEF Shutdown, ShutdownStep, CloseListener, CloseClient, ClosedAll, WaitReturns,
                  mapVars, serveVars, vars
    <3> QED BY <2>2, <3>1
  <2>7. CASE (\E c \in Conns : Accept(c)) \/ AcceptFails \/ Spawn
    <3>1. UNCHANGED clients /\ (stage' # "counted" \/ serve' \notin Conns)
      BY <2>7, ServerAssumption DEF Accept, AcceptFails, Spawn, mapVars
    <3> QED BY <2>2, <3>1
  <2> QED BY <2>3, <2>4, <2>5, <2>6, <2>7 DEF Next, ServeStep
<1> QED BY <1>1, <1>2, PTL DEF Spec, CountHolds, ClientsBounded
=============================================================================
