------------------------------ MODULE EventBus ------------------------------
(***************************************************************************)
(* The subscriber fan-out of chat.P2PService: buffered Go channels in      *)
(* s.subs, all handled under subsMu, so each operation is one step.        *)
(* publish drops an event for a subscriber whose buffer is full.           *)
(***************************************************************************)
EXTENDS Naturals, Sequences, FiniteSets

CONSTANTS Chans,          \* identities of channels: each is made at most once
          Events,         \* what publish sends
          MaxSubs,        \* maxSubs
          SubscriberBuf   \* subscriberBuf

ASSUME BusAssumption == MaxSubs \in Nat /\ SubscriberBuf \in Nat \ {0}

VARIABLES made,    \* channels that Subscribe has returned
          closed,  \* channels that were closed
          subs,    \* s.subs
          buf,     \* buf[ch]: the events buffered in ch
          svcDown  \* Close was called

busVars == <<made, closed, subs, buf, svcDown>>

BusTypeOK ==
    /\ made \in SUBSET Chans
    /\ closed \in SUBSET Chans
    /\ subs \in SUBSET Chans
    /\ buf \in [Chans -> Seq(Events)]
    /\ svcDown \in BOOLEAN

BusInit ==
    /\ made = {} /\ closed = {} /\ subs = {}
    /\ buf = [ch \in Chans |-> <<>>]
    /\ svcDown = FALSE

\* At the cap the caller gets a channel that is already closed.
Subscribe(ch) ==
    /\ ch \notin made
    /\ made' = made \cup {ch}
    /\ IF Cardinality(subs) >= MaxSubs
       THEN closed' = closed \cup {ch} /\ UNCHANGED subs
       ELSE subs' = subs \cup {ch} /\ UNCHANGED closed
    /\ UNCHANGED <<buf, svcDown>>

\* At the cap the caller gets an error and no channel.
SubscribeE(ch) ==
    /\ ch \notin made
    /\ Cardinality(subs) < MaxSubs
    /\ made' = made \cup {ch}
    /\ subs' = subs \cup {ch}
    /\ UNCHANGED <<closed, buf, svcDown>>

\* A channel that is not in s.subs any more is left alone.
Unsubscribe(ch) ==
    /\ ch \in subs
    /\ subs' = subs \ {ch}
    /\ closed' = closed \cup {ch}
    /\ UNCHANGED <<made, buf, svcDown>>

Publish(ev) ==
    /\ buf' = [ch \in Chans |->
                IF ch \in subs /\ Len(buf[ch]) < SubscriberBuf
                THEN Append(buf[ch], ev) ELSE buf[ch]]
    /\ UNCHANGED <<made, closed, subs, svcDown>>

\* A subscriber takes the next event; a closed channel still hands out what
\* is buffered in it.
Receive(ch) ==
    /\ ch \in made /\ buf[ch] # <<>>
    /\ buf' = [buf EXCEPT ![ch] = Tail(@)]
    /\ UNCHANGED <<made, closed, subs, svcDown>>

\* Close may be called again; inbound handlers may still publish after it.
CloseTwice ==
    /\ closed' = closed \cup subs
    /\ svcDown' = TRUE
    /\ UNCHANGED <<made, subs, buf>>
CloseService ==
    /\ closed' = closed \cup subs
    /\ subs' = {}
    /\ svcDown' = TRUE
    /\ UNCHANGED <<made, buf>>

BusNext ==
    \/ \E ch \in Chans : Subscribe(ch) \/ SubscribeE(ch) \/ Unsubscribe(ch) \/ Receive(ch)
    \/ \E ev \in Events : Publish(ev)
    \/ CloseService

BusSpec == BusInit /\ [][BusNext]_busVars

----------------------------------------------------------------------------
\* A channel is open exactly while it is registered in s.subs: publish and
\* Close never touch a closed channel (a Go panic), and no subscriber is left
\* waiting on an open channel that nobody will ever write to or close.
OpenIffSubscribed == made \ closed = subs

\* The cap of maxSubs holds however subscriptions come and go.
SubsBounded == Cardinality(subs) <= MaxSubs

\* No subscriber, however slow, holds more than its buffer, and publish never
\* writes to a channel that was not handed out.
BuffersBounded == \A ch \in Chans : Len(buf[ch]) <= (IF ch \in made THEN SubscriberBuf ELSE 0)
=============================================================================
