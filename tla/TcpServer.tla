----------------------------- MODULE TcpServer -----------------------------
(***************************************************************************)
(* network.Server: one goroutine accepts connections, and every connection *)
(* has a reader, which routes what it reads, and a writer, which empties   *)
(* the connection's queue.  A reader hands a message to another connection *)
(* by enqueue, which looks whether that connection is closed and then      *)
(* sends on its channel; close() may come between the two, and a send on a *)
(* closed channel panics.                                                  *)
(*                                                                         *)
(* A client may join at any time, under any ID, and again under another    *)
(* one; a join is then broadcast like every message.  Of a message that is *)
(* queued only that it is there matters.                                   *)
(***************************************************************************)
EXTENDS Naturals, FiniteSets

CONSTANTS Conns,     \* connections clients may open, each once
          PeerIds,   \* the IDs that clients join under
          All, None, \* no recipient: everybody; no connection, no ID
          MaxConns,  \* maxConnections
          QueueLen,  \* capacity of writeCh
          MaxMsgs    \* bound: messages read by the server

ASSUME ServerAssumption ==
    /\ {None, "accept", "returned"} \cap Conns = {} /\ {None, All} \cap PeerIds = {}
    /\ MaxConns \in Nat /\ QueueLen \in Nat /\ MaxMsgs \in Nat

VARIABLES
    serve,    \* the accept loop: "accept", "returned" or the connection at hand
    stage,    \* "accepted", "counted" or "added": how far serve is with it
    open,     \* connections that clients have opened and the server accepted
    clients,  \* s.clients
    peers,    \* s.peers, None where there is no entry
    peerId,   \* peerId[c]: c.peerID, None before the first join
    closed,   \* connections whose close() has run
    queue,    \* queue[c]: how many messages are in writeCh
    reader,   \* reader[c]: readLoop
    writer,   \* writer[c]: "none", "running", "ending" or "ended"
    shut,     \* Shutdown: "no", "snapshot", "closing", "waiting" or "returned"
    toClose,  \* connections Shutdown has still to close
    msgs,     \* messages read
    latest,   \* history: latest[i]: the last connection that registered as i
    panicked  \* the process has died

mapVars == <<clients, peers>>
serveVars == <<serve, stage, open>>
shutVars == <<shut, toClose>>
connVars == <<peerId, closed, queue, reader, writer>>
vars == <<serveVars, mapVars, connVars, shutVars, msgs, latest, panicked>>

Idle(at) == [at |-> at, todo |-> {}, to |-> All, target |-> None]
Reader == [at : {"none", "read", "register", "route", "deliver", "send", "removed",
                 "reply", "sendReply", "ending", "ended"},
           todo : SUBSET Conns,            \* recipients left
           to : PeerIds \cup {All},
           target : Conns \cup {None}]     \* enqueue found it open, or it is to be closed

TypeOK ==
    /\ serve \in Conns \cup {"accept", "returned"}
    /\ stage \in {"accepted", "counted", "added"}
    /\ open \subseteq Conns
    /\ clients \subseteq Conns
    /\ peers \in [PeerIds -> Conns \cup {None}]
    /\ peerId \in [Conns -> PeerIds \cup {None}]
    /\ closed \subseteq Conns
    /\ queue \in [Conns -> 0..QueueLen]
    /\ reader \in [Conns -> Reader]
    /\ writer \in [Conns -> {"none", "running", "ending", "ended"}]
    /\ shut \in {"no", "snapshot", "closing", "waiting", "returned"}
    /\ toClose \subseteq Conns
    /\ msgs \in 0..MaxMsgs
    /\ latest \in [PeerIds -> Conns \cup {None}]
    /\ panicked \in BOOLEAN

Init ==
    /\ serve = "accept" /\ stage = "accepted" /\ open = {}
    /\ clients = {} /\ peers = [i \in PeerIds |-> None]
    /\ peerId = [c \in Conns |-> None] /\ closed = {}
    /\ queue = [c \in Conns |-> 0]
    /\ reader = [c \in Conns |-> Idle("none")]
    /\ writer = [c \in Conns |-> "none"]
    /\ shut = "no" /\ toClose = {}
    /\ msgs = 0 /\ latest = [i \in PeerIds |-> None] /\ panicked = FALSE

\* A panic ends the process.
Alive == ~panicked

----------------------------------------------------------------------------
(* Serve.                                                                  *)

\* The listener is open until Shutdown closes it.
Listening == shut \in {"no", "snapshot"}

Accept(c) ==
    /\ Alive /\ serve = "accept" /\ Listening /\ c \notin open
    /\ serve' = c /\ stage' = "accepted" /\ open' = open \cup {c}
    /\ UNCHANGED <<mapVars, connVars, shutVars, msgs, latest, panicked>>

AcceptFails ==
    /\ Alive /\ serve = "accept" /\ ~Listening
    /\ serve' = "returned"
    /\ UNCHANGED <<stage, open, mapVars, connVars, shutVars, msgs, latest, panicked>>

\* At the limit the connection is closed; the count is taken under the lock, ...
CheckLimit ==
    /\ Alive /\ serve \in Conns /\ stage = "accepted"
    /\ IF Cardinality(clients) >= MaxConns
       THEN serve' = "accept" /\ UNCHANGED stage
       ELSE stage' = "counted" /\ UNCHANGED serve
    /\ UNCHANGED <<open, mapVars, connVars, shutVars, msgs, latest, panicked>>

\* ... and addClient takes the lock again.
AddClient ==
    /\ Alive /\ serve \in Conns /\ stage = "counted"
    /\ clients' = clients \cup {serve} /\ stage' = "added"
    /\ UNCHANGED <<serve, open, peers, connVars, shutVars, msgs, latest, panicked>>

\* wg.Add(2) and the two goroutines.
Spawn ==
    /\ Alive /\ serve \in Conns /\ stage = "added"
    /\ reader' = [reader EXCEPT ![serve] = Idle("read")]
    /\ writer' = [writer EXCEPT ![serve] = "running"]
    /\ serve' = "accept"
    /\ UNCHANGED <<stage, open, mapVars, peerId, closed, queue, shutVars, msgs, latest, panicked>>

----------------------------------------------------------------------------
(* removeClient: the maps, under the lock; then close(), a step later.     *)

RemoveKeepsRoute(c) ==
    /\ clients' = clients \ {c}
    /\ UNCHANGED peers
RemoveAnyRoute(c) ==
    /\ clients' = clients \ {c}
    /\ peers' = [i \in PeerIds |-> IF i = peerId[c] THEN None ELSE peers[i]]
\* The entry under the ID of the last join goes, if it is still this connection's.
RemoveClient(c) ==
    /\ clients' = clients \ {c}
    /\ peers' = [i \in PeerIds |-> IF i = peerId[c] /\ peers[i] = c THEN None ELSE peers[i]]

\* Somebody is between the two halves of removing c.
Closing(c) ==
    \/ reader[c].at = "ending" \/ writer[c] = "ending"
    \/ \E d \in Conns : reader[d].at = "removed" /\ reader[d].target = c

\* A reader after one recipient: a directed message that failed is answered.
After(c, r, ok) ==
    LET left == reader[c].todo \ {r} IN
    IF reader[c].to # All /\ ~ok THEN Idle("reply")
    ELSE IF left = {} THEN Idle("read")
    ELSE [reader[c] EXCEPT !.at = "deliver", !.todo = left, !.target = None]

----------------------------------------------------------------------------
(* readLoop.                                                               *)

\* A message, with or without a recipient; a join, id # None, sets the peerID.
Read(c, id, to) ==
    /\ Alive /\ reader[c].at = "read" /\ msgs < MaxMsgs
    /\ msgs' = msgs + 1
    /\ peerId' = IF id = None THEN peerId ELSE [peerId EXCEPT ![c] = id]
    /\ reader' = [reader EXCEPT ![c] = [Idle(IF id = None THEN "route" ELSE "register") EXCEPT !.to = to]]
    /\ UNCHANGED <<serveVars, mapVars, closed, queue, writer, shutVars, latest, panicked>>

RegisterPeer(c) ==
    /\ Alive /\ reader[c].at = "register"
    /\ peers' = [peers EXCEPT ![peerId[c]] = c]
    /\ latest' = [latest EXCEPT ![peerId[c]] = c]
    /\ reader' = [reader EXCEPT ![c].at = "route"]
    /\ UNCHANGED <<serveVars, clients, peerId, closed, queue, writer, shutVars, msgs, panicked>>

\* EOF, a closed connection, or 30 seconds without a message.
ReadFailsNoDeadline(c) ==
    /\ Alive /\ reader[c].at = "read" /\ c \in closed
    /\ reader' = [reader EXCEPT ![c] = Idle("ending")]
    /\ RemoveClient(c)
    /\ UNCHANGED <<serveVars, peerId, closed, queue, writer, shutVars, msgs, latest, panicked>>
ReadFails(c) ==
    /\ Alive /\ reader[c].at = "read"
    /\ reader' = [reader EXCEPT ![c] = Idle("ending")]
    /\ RemoveClient(c)
    /\ UNCHANGED <<serveVars, peerId, closed, queue, writer, shutVars, msgs, latest, panicked>>

ReaderEnds(c) ==
    /\ Alive /\ reader[c].at = "ending"
    /\ closed' = closed \cup {c}
    /\ reader' = [reader EXCEPT ![c] = Idle("ended")]
    /\ UNCHANGED <<serveVars, mapVars, peerId, queue, writer, shutVars, msgs, latest, panicked>>

\* broadcast: the recipients are looked up under the lock.
Route(c) ==
    /\ Alive /\ reader[c].at = "route"
    /\ LET to == reader[c].to
           rcpts == IF to = All THEN clients \ {c} ELSE {peers[to]} \ {None}
       IN reader' = [reader EXCEPT ![c] =
             IF rcpts # {} THEN [@ EXCEPT !.at = "deliver", !.todo = rcpts]
             ELSE Idle(IF to = All THEN "read" ELSE "reply")]
    /\ UNCHANGED <<serveVars, mapVars, peerId, closed, queue, writer, shutVars, msgs, latest, panicked>>

\* enqueue, first half: is the recipient closed?  Then it is removed.
Enqueue(c, r) ==
    /\ Alive /\ reader[c].at = "deliver" /\ r \in reader[c].todo
    /\ \/ r \in closed /\ RemoveClient(r) /\ reader' = [reader EXCEPT ![c].at = "removed", ![c].target = r]
       \/ r \notin closed /\ UNCHANGED mapVars /\ reader' = [reader EXCEPT ![c].at = "send", ![c].target = r]
    /\ UNCHANGED <<serveVars, peerId, closed, queue, writer, shutVars, msgs, latest, panicked>>

\* enqueue, second half: the send.  A full queue costs the recipient its
\* connection.
Send(c) ==
    /\ Alive /\ reader[c].at = "send"
    /\ LET r == reader[c].target IN
       \/ /\ r \in closed
          /\ panicked' = TRUE
          /\ UNCHANGED <<mapVars, queue, reader>>
       \/ /\ r \notin closed /\ queue[r] < QueueLen
          /\ queue' = [queue EXCEPT ![r] = @ + 1]
          /\ reader' = [reader EXCEPT ![c] = After(c, r, TRUE)]
          /\ UNCHANGED <<mapVars, panicked>>
       \/ /\ r \notin closed /\ queue[r] = QueueLen
          /\ RemoveClient(r)
          /\ reader' = [reader EXCEPT ![c].at = "removed"]
          /\ UNCHANGED <<queue, panicked>>
    /\ UNCHANGED <<serveVars, peerId, closed, writer, shutVars, msgs, latest>>

CloseRemoved(c) ==
    /\ Alive /\ reader[c].at = "removed"
    /\ closed' = closed \cup {reader[c].target}
    /\ reader' = [reader EXCEPT ![c] = After(c, reader[c].target, FALSE)]
    /\ UNCHANGED <<serveVars, mapVars, peerId, queue, writer, shutVars, msgs, latest, panicked>>

\* "delivery failed", to the sender's own queue; the result is ignored.
Reply(c) ==
    /\ Alive /\ reader[c].at = "reply"
    /\ reader' = [reader EXCEPT ![c] = Idle(IF c \in closed THEN "read" ELSE "sendReply")]
    /\ UNCHANGED <<serveVars, mapVars, peerId, closed, queue, writer, shutVars, msgs, latest, panicked>>

SendReply(c) ==
    /\ Alive /\ reader[c].at = "sendReply"
    /\ IF c \in closed
       THEN panicked' = TRUE /\ UNCHANGED <<queue, reader>>
       ELSE /\ queue' = [queue EXCEPT ![c] = IF @ < QueueLen THEN @ + 1 ELSE @]
            /\ reader' = [reader EXCEPT ![c] = Idle("read")]
            /\ UNCHANGED panicked
    /\ UNCHANGED <<serveVars, mapVars, peerId, closed, writer, shutVars, msgs, latest>>

----------------------------------------------------------------------------
(* writeLoop.                                                              *)

Write(c) ==
    /\ Alive /\ writer[c] = "running" /\ queue[c] > 0
    /\ queue' = [queue EXCEPT ![c] = @ - 1]
    /\ UNCHANGED <<serveVars, mapVars, peerId, closed, reader, writer, shutVars, msgs, latest, panicked>>

\* The connection was closed, or a write fails.
WriteFails(c) ==
    /\ Alive /\ writer[c] = "running" /\ (c \in closed \/ queue[c] > 0)
    /\ writer' = [writer EXCEPT ![c] = "ending"]
    /\ RemoveClient(c)
    /\ UNCHANGED <<serveVars, peerId, closed, queue, reader, shutVars, msgs, latest, panicked>>

WriterEnds(c) ==
    /\ Alive /\ writer[c] = "ending"
    /\ closed' = closed \cup {c}
    /\ writer' = [writer EXCEPT ![c] = "ended"]
    /\ UNCHANGED <<serveVars, mapVars, peerId, queue, reader, shutVars, msgs, latest, panicked>>

----------------------------------------------------------------------------
(* Shutdown.                                                               *)

Shutdown ==
    /\ Alive /\ shut = "no"
    /\ shut' = "snapshot" /\ toClose' = clients
    /\ UNCHANGED <<serveVars, mapVars, connVars, msgs, latest, panicked>>

CloseListener ==
    /\ Alive /\ shut = "snapshot"
    /\ shut' = "closing"
    /\ UNCHANGED <<serveVars, mapVars, connVars, toClose, msgs, latest, panicked>>

CloseClient(c) ==
    /\ Alive /\ shut = "closing" /\ c \in toClose
    /\ closed' = closed \cup {c}
    /\ toClose' = toClose \ {c}
    /\ UNCHANGED <<serveVars, mapVars, peerId, queue, reader, writer, shut, msgs, latest, panicked>>

ClosedAll ==
    /\ Alive /\ shut = "closing" /\ toClose = {}
    /\ shut' = "waiting"
    /\ UNCHANGED <<serveVars, mapVars, connVars, toClose, msgs, latest, panicked>>

\* wg.Wait: every goroutine that was counted has ended.
WaitReturns ==
    /\ Alive /\ shut = "waiting"
    /\ \A c \in Conns : reader[c].at \in {"none", "ended"} /\ writer[c] \in {"none", "ended"}
    /\ shut' = "returned"
    /\ UNCHANGED <<serveVars, mapVars, connVars, toClose, msgs, latest, panicked>>

ServeStep == (\E c \in Conns : Accept(c)) \/ AcceptFails \/ CheckLimit \/ AddClient \/ Spawn

ReaderStep(c) ==
    \/ \E id \in PeerIds \cup {None}, to \in PeerIds \cup {All} : Read(c, id, to)
    \/ RegisterPeer(c) \/ ReadFails(c) \/ ReaderEnds(c) \/ Route(c)
    \/ (\E r \in Conns : Enqueue(c, r))
    \/ Send(c) \/ CloseRemoved(c) \/ Reply(c) \/ SendReply(c)

WriterStep(c) == Write(c) \/ WriteFails(c) \/ WriterEnds(c)

ShutdownStep == CloseListener \/ (\E c \in Conns : CloseClient(c)) \/ ClosedAll \/ WaitReturns

Next ==
    \/ ServeStep \/ Shutdown \/ ShutdownStep
    \/ \E c \in Conns : ReaderStep(c) \/ WriterStep(c)

Spec == Init /\ [][Next]_vars

\* While some goroutine can run, one of them does; a read ends after 30 seconds
\* of silence.  A connection opens once and MaxMsgs makes the clients fall silent
\* in the end, so no goroutine starves another for ever.
FairSpec ==
    /\ Spec
    /\ WF_vars(\/ ServeStep \/ ShutdownStep
               \/ \E c \in Conns : ReaderStep(c) \/ WriterStep(c))

----------------------------------------------------------------------------
(* Properties.                                                             *)

\* A connection takes its route with it: what registerPeer entered under the ID
\* that the connection has, is gone when its reader is, however a removal by
\* another goroutine falls between setting peerID and registerPeer.  Only an ID
\* that a later join of the connection gave up keeps its entry.
RoutesAreServed ==
    \A i \in PeerIds : peers[i] # None /\ peerId[peers[i]] = i
        => reader[peers[i]].at \notin {"none", "ending", "ended"}

\* A client that joins again on a new connection keeps its route when the old
\* connection goes away, in whatever order the goroutines of the two get to
\* s.peers: the connection that registered last is routed to until it is removed,
\* whatever IDs the connections joined under before and after.
RoutesAreKept ==
    \A i \in PeerIds : latest[i] # None /\ latest[i] \notin closed /\ ~Closing(latest[i])
        => peers[i] = latest[i]

\* Shutdown does not wait for ever once the clients are silent.
ShutdownReturns == shut # "no" ~> shut = "returned" \/ panicked

\* "the server refuses connections once it reaches maxConnections and does not
\* panic or deadlock" (tcp_security_test.go).
NoPanic == ~panicked
=============================================================================
