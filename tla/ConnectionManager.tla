------------------------- MODULE ConnectionManager -------------------------
(***************************************************************************)
(* connection.Manager: the map m.peers under one mutex, and a goroutine    *)
(* run per dial attempt.  run is given the *peerState it was started for,  *)
(* but markState looks the entry up by peer ID again, so an attempt that   *)
(* ends late writes to whatever entry the peer has by then.                *)
(***************************************************************************)
EXTENDS Naturals, FiniteSets

CONSTANTS Peers,
          Attempts   \* bound: dial attempts that run at the same time

VARIABLES entry,  \* entry[p]: m.peers[p].status.State, or "absent"
          dial    \* dial[a]: the run goroutine in slot a, or NoDial

connVars == <<entry, dial>>

NoDial == [at |-> "none"]
Dial == [at : {"dialing", "ok", "error"},
         peer : Peers,
         cancelled : BOOLEAN,  \* its context is cancelled
         own : BOOLEAN]        \* the peer's entry is the one it was started for

ConnTypeOK ==
    /\ entry \in [Peers -> {"absent", "connecting", "connected", "failed"}]
    /\ dial \in [Attempts -> Dial \cup {NoDial}]

ConnInit ==
    /\ entry = [p \in Peers |-> "absent"]
    /\ dial = [a \in Attempts |-> NoDial]

\* The entry of p is removed or replaced: its attempts write to a stranger.
Disown(p) ==
    [a \in Attempts |-> IF dial[a] # NoDial /\ dial[a].peer = p
                        THEN [dial[a] EXCEPT !.own = FALSE] ELSE dial[a]]

ConnectForgetsToRun(p, ctxDone) ==
    IF entry[p] \in {"connecting", "connected"} THEN UNCHANGED connVars
    ELSE /\ entry' = [entry EXCEPT ![p] = "connecting"]
         /\ dial' = Disown(p)
\* Connect: nothing to do when connecting or connected; otherwise a new entry
\* and a goroutine.  ctxDone: the caller's context is cancelled already.
Connect(p, ctxDone) ==
    IF entry[p] \in {"connecting", "connected"} THEN UNCHANGED connVars
    ELSE \E a \in Attempts :
            /\ dial[a] = NoDial
            /\ entry' = [entry EXCEPT ![p] = "connecting"]
            /\ dial' = [Disown(p) EXCEPT ![a] =
                    [at |-> "dialing", peer |-> p, cancelled |-> ctxDone, own |-> TRUE]]

\* run: DialContext returns a connection, which is closed again, ...
DialSucceeds(a) ==
    /\ dial[a].at = "dialing" /\ ~dial[a].cancelled
    /\ dial' = [dial EXCEPT ![a].at = "ok"]
    /\ UNCHANGED entry

\* ... or an error: refused, the timeout of 5 seconds, a cancelled context.
DialFails(a) ==
    /\ dial[a].at = "dialing"
    /\ dial' = [dial EXCEPT ![a].at = "error"]
    /\ UNCHANGED entry

MarkStateOnlySuccess(a) ==
    /\ dial[a].at \in {"ok", "error"}
    /\ dial' = [dial EXCEPT ![a] = NoDial]
    /\ entry' = [entry EXCEPT ![dial[a].peer] =
            IF @ = "absent" \/ dial[a].at = "error" THEN @ ELSE "connected"]
\* markState, under the mutex: a peer that has no entry any more gets none.
MarkState(a) ==
    /\ dial[a].at \in {"ok", "error"}
    /\ dial' = [dial EXCEPT ![a] = NoDial]
    /\ entry' = [entry EXCEPT ![dial[a].peer] =
            IF @ = "absent" THEN @
            ELSE IF dial[a].at = "ok" THEN "connected" ELSE "failed"]

\* Disconnect cancels the attempt of the entry that it removes.
Disconnect(p) ==
    /\ entry' = [entry EXCEPT ![p] = "absent"]
    /\ dial' = [a \in Attempts |->
            IF dial[a] # NoDial /\ dial[a].peer = p /\ dial[a].own
            THEN [dial[a] EXCEPT !.own = FALSE, !.cancelled = TRUE]
            ELSE Disown(p)[a]]

\* Forget removes the entry and lets its attempt run on.
Forget(p) ==
    /\ entry[p] # "absent"
    /\ entry' = [entry EXCEPT ![p] = "absent"]
    /\ dial' = Disown(p)

\* The context that was given to Connect is cancelled.
CancelContext(a) ==
    /\ dial[a] # NoDial
    /\ dial' = [dial EXCEPT ![a].cancelled = TRUE]
    /\ UNCHANGED entry

RunStep(a) == DialSucceeds(a) \/ DialFails(a) \/ MarkState(a)

ConnNext ==
    \/ \E p \in Peers : Connect(p, FALSE) \/ Disconnect(p) \/ Forget(p)
    \/ \E a \in Attempts : RunStep(a) \/ CancelContext(a)

\* A dial ends: it has a timeout.
ConnSpec ==
    /\ ConnInit /\ [][ConnNext]_connVars
    /\ \A a \in Attempts : WF_connVars(RunStep(a))

----------------------------------------------------------------------------
(* Properties.                                                             *)

\* No peer is left "connecting" with nobody at work on it, which would make
\* every later Connect a no-op: the attempt that an entry was made for still
\* runs, whatever Disconnect, Forget and late attempts did in between.
ConnectingHasDial ==
    \A p \in Peers : entry[p] = "connecting" =>
        \E a \in Attempts : dial[a] # NoDial /\ dial[a].peer = p /\ dial[a].own

\* Once "connecting", a peer gets to a result or loses its entry.
ConnectingEnds ==
    \A p \in Peers : entry[p] = "connecting" ~> entry[p] # "connecting"
=============================================================================
