----------------------------- MODULE Discovery -----------------------------
(***************************************************************************)
(* `skall discover`: MDNSDiscovery finds peers by polling, sends what has  *)
(* changed since the last scan over a buffered channel, and the Connector  *)
(* drives the connection manager from it.                                  *)
(*                                                                         *)
(* A scan collects answers for at most two seconds and may miss peers that *)
(* are there, so its result is any set of names.  applyDiff sends without  *)
(* blocking while the Connector receives, so each send is a step; an event *)
(* that finds the channel full is dropped, but d.entries records it.       *)
(***************************************************************************)
EXTENDS ConnectionManager, Sequences

CONSTANTS Local,      \* the local peer, which sees its own announcement
          Invalid,    \* peers whose announcement has no host (PeerInfo.IsValid)
          EventsBuf   \* capacity of d.events

ASSUME DiscoveryAssumption ==
    Local \in Peers /\ Invalid \subseteq Peers /\ EventsBuf \in Nat \ {0}

VARIABLES scanner,    \* "starting": before the first scan of Start; "idle",
                      \* "applying": in applyDiff; "stopped"
          seen,       \* seenSet of the scan that is applied
          entries,    \* d.entries
          events,     \* d.events
          connector,  \* "waiting" for Start to return, "running" or "stopped"
          ctxDone,    \* the context of runDiscover is cancelled
          dropped     \* history: an event found the channel full

vars == <<connVars, scanner, seen, entries, events, connector, ctxDone, dropped>>

Remote == Peers \ ({Local} \cup Invalid)
Event == [type : {"added", "removed"}, peer : Remote]

TypeOK ==
    /\ ConnTypeOK
    /\ scanner \in {"starting", "idle", "applying", "stopped"}
    /\ seen \subseteq Remote
    /\ entries \subseteq Remote
    /\ events \in Seq(Event) /\ Len(events) <= EventsBuf
    /\ connector \in {"waiting", "running", "stopped"}
    /\ ctxDone \in BOOLEAN /\ dropped \in BOOLEAN

Init ==
    /\ ConnInit
    /\ scanner = "starting" /\ seen = {} /\ entries = {} /\ events = <<>>
    /\ connector = "waiting"
    /\ ctxDone = FALSE /\ dropped = FALSE

----------------------------------------------------------------------------
(* MDNSDiscovery.                                                          *)

SeenSet(found) == {p \in found : p # Local /\ p \notin Invalid}

\* scan: Browse has delivered what it found.  A cancelled context ends the scan
\* too, with what there is by then.
Scan(found) ==
    /\ scanner \in {"starting", "idle"}
    /\ seen' = SeenSet(found)
    /\ scanner' = "applying"
    /\ UNCHANGED <<connVars, entries, events, connector, ctxDone, dropped>>

\* select { case d.events <- ev: default: }
SendEvent(type, p) ==
    IF Len(events) < EventsBuf
    THEN events' = Append(events, [type |-> type, peer |-> p]) /\ UNCHANGED dropped
    ELSE dropped' = TRUE /\ UNCHANGED events

\* applyDiff, first loop.
ApplyAdded(p) ==
    /\ scanner = "applying" /\ p \in seen \ entries
    /\ entries' = entries \cup {p}
    /\ SendEvent("added", p)
    /\ UNCHANGED <<connVars, scanner, seen, connector, ctxDone>>

\* applyDiff, second loop.
ApplyRemovedSilently(p) ==
    /\ scanner = "applying" /\ seen \subseteq entries /\ p \in entries \ seen
    /\ entries' = entries \ {p}
    /\ UNCHANGED <<connVars, scanner, seen, events, connector, ctxDone, dropped>>
ApplyRemoved(p) ==
    /\ scanner = "applying" /\ seen \subseteq entries /\ p \in entries \ seen
    /\ entries' = entries \ {p}
    /\ SendEvent("removed", p)
    /\ UNCHANGED <<connVars, scanner, seen, connector, ctxDone>>

\* applyDiff returns; after the first scan Start returns, and runDiscover
\* starts the Connector.
ScanDone ==
    /\ scanner = "applying" /\ seen = entries
    /\ scanner' = "idle" /\ seen' = {}
    /\ connector' = IF connector = "waiting" THEN "running" ELSE connector
    /\ UNCHANGED <<connVars, entries, events, ctxDone, dropped>>

LoopReturns ==
    /\ scanner = "idle" /\ ctxDone
    /\ scanner' = "stopped"
    /\ UNCHANGED <<connVars, seen, entries, events, connector, ctxDone, dropped>>

----------------------------------------------------------------------------
(* The Connector.                                                          *)

\* handle: one event.  The select may still choose an event after ctx.Done().
Handle ==
    /\ connector = "running" /\ events # <<>>
    /\ events' = Tail(events)
    /\ LET ev == Head(events) IN
       IF ev.type = "added" THEN Connect(ev.peer, ctxDone) ELSE Disconnect(ev.peer)
    /\ UNCHANGED <<scanner, seen, entries, connector, ctxDone, dropped>>

ConnectorReturns ==
    /\ connector = "running" /\ ctxDone
    /\ connector' = "stopped"
    /\ UNCHANGED <<connVars, scanner, seen, entries, events, ctxDone, dropped>>

----------------------------------------------------------------------------

Run(a) ==
    /\ RunStep(a)
    /\ UNCHANGED <<scanner, seen, entries, events, connector, ctxDone, dropped>>

\* Interrupt: the context and those derived from it are cancelled.
Interrupt ==
    /\ ~ctxDone
    /\ ctxDone' = TRUE
    /\ dial' = [a \in Attempts |-> IF dial[a] = NoDial THEN NoDial
                                   ELSE [dial[a] EXCEPT !.cancelled = TRUE]]
    /\ UNCHANGED <<entry, scanner, seen, entries, events, connector, dropped>>

Next ==
    \/ \E found \in SUBSET Peers : Scan(found)
    \/ \E p \in Peers : ApplyAdded(p) \/ ApplyRemoved(p)
    \/ ScanDone \/ LoopReturns
    \/ Handle \/ ConnectorReturns
    \/ \E a \in Attempts : Run(a)
    \/ Interrupt

\* A dial ends: it has a timeout.
Spec == Init /\ [][Next]_vars /\ \A a \in Attempts : WF_vars(Run(a))

----------------------------------------------------------------------------
(* Properties.                                                             *)

\* Whether the Connector will track p once it has read the channel.
WillTrack(p) ==
    LET about == {i \in DOMAIN events : events[i].peer = p} IN
    IF about = {} THEN entry[p] # "absent"
    ELSE \A i \in about : (\A j \in about : j <= i) => events[i].type = "added"

\* As long as no event was dropped and the Connector runs, the peers that the
\* manager tracks are the discovered ones, up to the events still in the
\* channel: no order of scans, late dials and reads makes a lost peer come
\* back or an announced one be overlooked (applyDiff, Connector.handle, markState).
TracksDiscovered ==
    ~dropped /\ connector # "stopped" =>
        \A p \in Remote : p \in entries <=> WillTrack(p)
=============================================================================
