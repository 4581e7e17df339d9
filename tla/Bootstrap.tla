----------------------------- MODULE Bootstrap -----------------------------
(***************************************************************************)
(* p2p.BootstrapManager: ConnectAll at start, then maintainLoop, which     *)
(* every 10 seconds looks whether any bootstrap peer is connected and, if  *)
(* none is, sleeps for the backoff delay and dials the peers that were     *)
(* disconnected when it looked.  The network changes at any time.          *)
(***************************************************************************)
EXTENDS Backoff

CONSTANT BootstrapPeers

ASSUME BootstrapAssumption == BootstrapPeers # {}

VARIABLES loop,         \* "connectAll", "select", "sleep", "dial" or "ended"
          todo,         \* peers still to be dialed
          reconnected,
          linked,       \* peers with an open connection
          reachable,    \* peers that answer a dial
          failedRounds, \* history: rounds of dials begun since a dial succeeded or a
                        \* bootstrap peer was seen connected, up to AttemptsCap
          startDone,    \* the context given to Start is cancelled
          bmDone        \* Close has cancelled bm.ctx

netVars == <<linked, reachable>>
bootstrapVars == <<backoffVars, loop, todo, reconnected, netVars, failedRounds, startDone, bmDone>>

BootstrapTypeOK ==
    /\ BackoffTypeOK
    /\ loop \in {"connectAll", "select", "sleep", "dial", "ended"}
    /\ todo \subseteq BootstrapPeers
    /\ reconnected \in BOOLEAN
    /\ linked \subseteq reachable /\ reachable \subseteq BootstrapPeers
    /\ failedRounds \in 0..AttemptsCap
    /\ startDone \in BOOLEAN /\ bmDone \in BOOLEAN

BootstrapInit ==
    /\ BackoffInit
    /\ loop = "connectAll" /\ todo = BootstrapPeers /\ reconnected = FALSE
    /\ linked = {} /\ reachable \in SUBSET BootstrapPeers
    /\ failedRounds = 0
    /\ startDone = FALSE /\ bmDone = FALSE

\* host.Connect: of one goroutine of ConnectAll, or of maintainLoop.
DialPeer(p) ==
    /\ loop \in {"connectAll", "dial"} /\ p \in todo
    /\ todo' = todo \ {p}
    /\ LET ok == /\ p \in reachable
                 /\ loop = "connectAll" => ~startDone
                 /\ loop = "dial" => ~bmDone
       IN  /\ linked' = IF ok THEN linked \cup {p} ELSE linked
           /\ reconnected' = (reconnected \/ (ok /\ loop = "dial"))
           /\ failedRounds' = IF ok /\ loop = "dial" THEN 0 ELSE failedRounds
    /\ UNCHANGED <<backoffVars, loop, reachable, startDone, bmDone>>

\* ConnectAll returns; Start launches the loop.
Start ==
    /\ loop = "connectAll" /\ todo = {}
    /\ loop' = "select"
    /\ UNCHANGED <<backoffVars, todo, reconnected, netVars, failedRounds, startDone, bmDone>>

\* The ticker fires: connected to at least one bootstrap peer, ...
TickConnected ==
    /\ loop = "select" /\ linked # {}
    /\ Reset
    /\ failedRounds' = 0
    /\ UNCHANGED <<loop, todo, reconnected, netVars, startDone, bmDone>>

\* ... or to none: Sleep begins, ...
TickLost ==
    /\ loop = "select" /\ linked = {} /\ HasNext
    /\ NextDelay
    /\ loop' = "sleep" /\ todo' = BootstrapPeers /\ reconnected' = FALSE
    /\ failedRounds' = IF failedRounds < AttemptsCap THEN failedRounds + 1 ELSE failedRounds
    /\ UNCHANGED <<netVars, startDone, bmDone>>

\* ... or returns ErrMaxRetriesReached, and the loop with it.
TickGiveUp ==
    /\ loop = "select" /\ linked = {} /\ ~HasNext
    /\ loop' = "ended"
    /\ UNCHANGED <<backoffVars, todo, reconnected, netVars, failedRounds, startDone, bmDone>>

Wake ==
    /\ loop = "sleep"
    /\ loop' = "dial"
    /\ UNCHANGED <<backoffVars, todo, reconnected, netVars, failedRounds, startDone, bmDone>>

WakeCancelled ==
    /\ loop = "sleep" /\ bmDone
    /\ loop' = "ended"
    /\ UNCHANGED <<backoffVars, todo, reconnected, netVars, failedRounds, startDone, bmDone>>

DialsDoneNoReset ==
    /\ loop = "dial" /\ todo = {}
    /\ loop' = "select"
    /\ UNCHANGED <<backoffVars, todo, reconnected, netVars, failedRounds, startDone, bmDone>>
DialsDone ==
    /\ loop = "dial" /\ todo = {}
    /\ IF reconnected THEN Reset ELSE UNCHANGED backoffVars
    /\ loop' = "select"
    /\ UNCHANGED <<todo, reconnected, netVars, failedRounds, startDone, bmDone>>

\* The select sees one of the two contexts.
SelectIgnoresContexts ==
    /\ loop = "select" /\ bmDone /\ startDone
    /\ loop' = "ended"
    /\ UNCHANGED <<backoffVars, todo, reconnected, netVars, failedRounds, startDone, bmDone>>
SelectDone ==
    /\ loop = "select" /\ (bmDone \/ startDone)
    /\ loop' = "ended"
    /\ UNCHANGED <<backoffVars, todo, reconnected, netVars, failedRounds, startDone, bmDone>>

Loop ==
    \/ \E p \in BootstrapPeers : DialPeer(p)
    \/ Start \/ TickConnected \/ TickLost \/ TickGiveUp
    \/ Wake \/ WakeCancelled \/ DialsDone \/ SelectDone

----------------------------------------------------------------------------
(* The surroundings.                                                       *)

\* A peer appears or goes away, and its connection with it.
Reach(p) ==
    /\ reachable' = reachable \cup {p}
    /\ UNCHANGED <<backoffVars, loop, todo, reconnected, linked, failedRounds, startDone, bmDone>>

Unreach(p) ==
    /\ reachable' = reachable \ {p}
    /\ linked' = linked \ {p}
    /\ UNCHANGED <<backoffVars, loop, todo, reconnected, failedRounds, startDone, bmDone>>

\* A connection breaks, or one is made by somebody else: the peer itself,
\* connectPeerTargets, the DHT.
Unlink(p) ==
    /\ linked' = linked \ {p}
    /\ UNCHANGED <<backoffVars, loop, todo, reconnected, reachable, failedRounds, startDone, bmDone>>

Link(p) ==
    /\ p \in reachable
    /\ linked' = linked \cup {p}
    /\ UNCHANGED <<backoffVars, loop, todo, reconnected, reachable, failedRounds, startDone, bmDone>>

CancelStart ==
    /\ startDone' = TRUE
    /\ UNCHANGED <<backoffVars, loop, todo, reconnected, netVars, failedRounds, bmDone>>

\* Close cancels bm.ctx and waits for the loop; runtime exists after Start.
Close ==
    /\ loop # "connectAll"
    /\ bmDone' = TRUE
    /\ UNCHANGED <<backoffVars, loop, todo, reconnected, netVars, failedRounds, startDone>>

BootstrapNext ==
    \/ Loop
    \/ \E p \in BootstrapPeers : Reach(p) \/ Unreach(p) \/ Unlink(p) \/ Link(p)
    \/ CancelStart \/ Close

\* The loop's timers fire and its dials end (5 seconds each); a select whose
\* context is done does not choose the ticker for ever.
BootstrapSpec ==
    /\ BootstrapInit /\ [][BootstrapNext]_bootstrapVars
    /\ WF_bootstrapVars(Loop) /\ SF_bootstrapVars(SelectDone)

----------------------------------------------------------------------------
(* Properties.                                                             *)

\* The manager "continuously maintains bootstrap connectivity using exponential
\* backoff retry" (bootstrap.go): as long as nobody stops it, it dials again
\* after every loss, so that a bootstrap peer that comes back and stays is
\* connected again and again, however long it was away.  This is so only with
\* unlimited retries: see EndsForAReason.
Maintains ==
    \/ maxRetries > 0
    \/ <>(bmDone \/ startDone)
    \/ \A p \in BootstrapPeers : <>[](p \in reachable) => []<>(linked # {})

\* The loop ends only when it is told to, or when MaxRetries rounds in a row have
\* failed, with no dial that succeeded and no bootstrap peer seen connected in
\* between: no interleaving of losses, rounds that were already under way and
\* connections made by others uses the retries up early, or grants one more.
EndsForAReason ==
    loop = "ended" => \/ bmDone \/ startDone
                      \/ maxRetries > 0 /\ failedRounds = maxRetries

\* Close does not hang in wg.Wait, and an interrupt ends the loop as well,
\* although its sleeps and dials do not watch that context.
StopsWhenTold == (bmDone \/ startDone) ~> loop = "ended"
=============================================================================
