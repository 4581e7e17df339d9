-------------------------- MODULE DiscoveryProofs --------------------------
(***************************************************************************)
(* For every set of peers, any number of dial attempts and any capacity of *)
(* the event channel: a peer that is "connecting" has an attempt of its    *)
(* own at work on it, and the manager tracks the peers that discovery has  *)
(* found, up to the events in the channel.  And for every set of bootstrap *)
(* peers and every configuration of the backoff: its delays are            *)
(* exponential, and the bootstrap loop ends only for a reason.             *)
(***************************************************************************)
EXTENDS Discovery, Bootstrap, TLAPS

\* The attempt that the entry of p was made for.
OwnDial(p, a) == dial[a] # NoDial /\ dial[a].peer = p /\ dial[a].own

ConnInv == ConnTypeOK /\ ConnectingHasDial

LEMMA NoDialIsNone == NoDial \notin Dial
BY DEF NoDial, Dial

\* Disown keeps the type, and every other peer's attempts.
LEMMA DisownType ==
    ASSUME ConnTypeOK, NEW p \in Peers
    PROVE  /\ Disown(p) \in [Attempts -> Dial \cup {NoDial}]
           /\ \A a \in Attempts : dial[a] = NoDial => Disown(p)[a] = NoDial
           /\ \A a \in Attempts, q \in Peers \ {p} : OwnDial(q, a) => Disown(p)[a] = dial[a]
BY NoDialIsNone DEF ConnTypeOK, Disown, Dial, OwnDial

\* Connect, with a context that may be cancelled already.
LEMMA ConnectKeeps ==
    ASSUME ConnInv, NEW p \in Peers, NEW done \in BOOLEAN, Connect(p, done)
    PROVE  ConnInv'
<1> USE DEF ConnInv
<1>1. CASE entry[p] \in {"connecting", "connected"}
  BY <1>1 DEF Connect, connVars, ConnTypeOK, ConnectingHasDial
<1>2. CASE entry[p] \notin {"connecting", "connected"}
  <2> DEFINE new == [at |-> "dialing", peer |-> p, cancelled |-> done, own |-> TRUE]
  <2>1. PICK a \in Attempts :
           /\ dial[a] = NoDial
           /\ entry' = [entry EXCEPT ![p] = "connecting"]
           /\ dial' = [Disown(p) EXCEPT ![a] = new]
    BY <1>2 DEF Connect
  <2>2. new \in Dial /\ new # NoDial
    <3>1. new \in Dial
      BY Zenon DEF Dial
    <3> QED BY <3>1, NoDialIsNone
  <2>3. ConnTypeOK'
    BY <2>1, <2>2, DisownType DEF ConnTypeOK
  <2>4. ASSUME NEW q \in Peers, entry'[q] = "connecting"
        PROVE  \E b \in Attempts : OwnDial(q, b)'
    <3>1. CASE q = p
      <4>1. dial'[a] = new
        BY <2>1, DisownType
      <4> QED BY <3>1, <4>1, <2>2 DEF OwnDial
    <3>2. CASE q # p
      <4>1. entry[q] = "connecting"
        BY <2>1, <2>4, <3>2 DEF ConnTypeOK
      <4>2. PICK b \in Attempts : OwnDial(q, b)
        BY <4>1 DEF ConnectingHasDial, OwnDial
      <4>3. b # a
        BY <4>2, <2>1 DEF OwnDial
      <4>4. dial'[b] = dial[b]
        BY <2>1, <4>2, <4>3, <3>2, DisownType
      <4> QED BY <4>2, <4>4 DEF OwnDial
    <3> QED BY <3>1, <3>2
  <2> QED BY <2>3, <2>4 DEF ConnectingHasDial, OwnDial
<1> QED BY <1>1, <1>2

LEMMA DisconnectKeeps ==
    ASSUME ConnInv, NEW p \in Peers, Disconnect(p)
    PROVE  ConnInv'
<1> USE DEF ConnInv
<1>1. ConnTypeOK'
  <2> DEFINE cut(a) == [dial[a] EXCEPT !.own = FALSE, !.cancelled = TRUE]
  <2>1. \A a \in Attempts : dial[a] # NoDial => cut(a) \in Dial
    BY DEF ConnTypeOK, Dial
  <2>2. \A a \in Attempts : Disown(p)[a] \in Dial \cup {NoDial}
    BY DisownType
  <2>3. dial' = [a \in Attempts |->
                    IF dial[a] # NoDial /\ dial[a].peer = p /\ dial[a].own
                    THEN cut(a) ELSE Disown(p)[a]]
    BY DEF Disconnect
  <2> HIDE DEF cut
  <2>4. dial' \in [Attempts -> Dial \cup {NoDial}]
    BY <2>1, <2>2, <2>3
  <2> QED BY <2>4 DEF Disconnect, ConnTypeOK
<1>2. ASSUME NEW q \in Peers, entry'[q] = "connecting"
      PROVE  \E b \in Attempts : OwnDial(q, b)'
  <2>1. q # p /\ entry[q] = "connecting"
    BY <1>2 DEF Disconnect, ConnTypeOK
  <2>2. PICK b \in Attempts : OwnDial(q, b)
    BY <2>1 DEF ConnectingHasDial, OwnDial
  <2>3. dial'[b] = dial[b]
    BY <2>1, <2>2, DisownType DEF Disconnect, OwnDial
  <2> QED BY <2>2, <2>3 DEF OwnDial
<1> QED BY <1>1, <1>2 DEF ConnectingHasDial, OwnDial

LEMMA ForgetKeeps ==
    ASSUME ConnInv, NEW p \in Peers, Forget(p)
    PROVE  ConnInv'
<1> USE DEF ConnInv
<1>1. ConnTypeOK'
  BY DisownType DEF Forget, ConnTypeOK
<1>2. ASSUME NEW q \in Peers, entry'[q] = "connecting"
      PROVE  \E b \in Attempts : OwnDial(q, b)'
  <2>1. q # p /\ entry[q] = "connecting"
    BY <1>2 DEF Forget, ConnTypeOK
  <2>2. PICK b \in Attempts : OwnDial(q, b)
    BY <2>1 DEF ConnectingHasDial, OwnDial
  <2>3. dial'[b] = dial[b]
    BY <2>1, <2>2, DisownType DEF Forget
  <2> QED BY <2>2, <2>3 DEF OwnDial
<1> QED BY <1>1, <1>2 DEF ConnectingHasDial, OwnDial

LEMMA DialKeeps ==
    ASSUME ConnInv, NEW a \in Attempts, DialSucceeds(a) \/ DialFails(a) \/ CancelContext(a)
    PROVE  ConnInv'
<1> USE DEF ConnInv
<1>1. dial[a] \in Dial
  BY DEF ConnTypeOK, DialSucceeds, DialFails, CancelContext, NoDial
<1>2. /\ entry' = entry
      /\ \E d \in Dial : /\ d.peer = dial[a].peer /\ d.own = dial[a].own
                         /\ dial' = [dial EXCEPT ![a] = d]
  BY <1>1 DEF DialSucceeds, DialFails, CancelContext, Dial
<1>3. ConnTypeOK'
  BY <1>2 DEF ConnTypeOK
<1>4. \A q \in Peers, b \in Attempts : OwnDial(q, b) => OwnDial(q, b)'
  BY <1>1, <1>2, NoDialIsNone DEF OwnDial, ConnTypeOK
<1> QED BY <1>2, <1>3, <1>4 DEF ConnectingHasDial, OwnDial

LEMMA MarkStateKeeps ==
    ASSUME ConnInv, NEW a \in Attempts, MarkState(a)
    PROVE  ConnInv'
<1> USE DEF ConnInv
<1>1. dial[a] \in Dial
  BY DEF ConnTypeOK, MarkState, NoDial
<1>2. ConnTypeOK'
  BY <1>1 DEF MarkState, ConnTypeOK
<1>3. ASSUME NEW q \in Peers, entry'[q] = "connecting"
      PROVE  \E b \in Attempts : OwnDial(q, b)'
  <2>1. q # dial[a].peer /\ entry[q] = "connecting"
    BY <1>1, <1>3 DEF MarkState, ConnTypeOK, Dial
  <2>2. PICK b \in Attempts : OwnDial(q, b)
    BY <2>1 DEF ConnectingHasDial, OwnDial
  <2>3. dial'[b] = dial[b]
    BY <2>1, <2>2 DEF MarkState, OwnDial, ConnTypeOK
  <2> QED BY <2>2, <2>3 DEF OwnDial
<1> QED BY <1>2, <1>3 DEF ConnectingHasDial, OwnDial

\* A peer's entry is "connecting" only while the attempt that Connect started
\* for it runs: Disconnect, Forget, cancelled contexts and attempts that end
\* late never leave it with an entry that makes every later Connect a no-op.
THEOREM AlwaysHasDial == ConnSpec => [](ConnTypeOK /\ ConnectingHasDial)
<1>1. ConnInit => ConnInv
  BY DEF ConnInit, ConnInv, ConnTypeOK, ConnectingHasDial
<1>2. ConnInv /\ [ConnNext]_connVars => ConnInv'
  <2> SUFFICES ASSUME ConnInv, [ConnNext]_connVars
               PROVE  ConnInv'
    OBVIOUS
  <2>1. CASE UNCHANGED connVars
    BY <2>1 DEF connVars, ConnInv, ConnTypeOK, ConnectingHasDial
  <2> QED
    BY <2>1, ConnectKeeps, DisconnectKeeps, ForgetKeeps, DialKeeps, MarkStateKeeps DEF ConnNext, RunStep
<1> QED
  BY <1>1, <1>2, PTL DEF ConnSpec, ConnInv

----------------------------------------------------------------------------
(* Discovery drives the manager.                                           *)

\* There is an event about p in the channel, and the last one announces it.
Pending(p) == \E i \in 1..Len(events) : events[i].peer = p
LastAdded(p) ==
    \A i \in 1..Len(events) :
        events[i].peer = p /\ (\A j \in 1..Len(events) : events[j].peer = p => j <= i)
            => events[i].type = "added"

LEMMA WillTrackMeans ==
    ASSUME TypeOK, NEW p
    PROVE  /\ Pending(p) => (WillTrack(p) <=> LastAdded(p))
           /\ ~Pending(p) => (WillTrack(p) <=> entry[p] # "absent")
<1>1. DOMAIN events = 1..Len(events)
  BY DEF TypeOK
<1> QED BY <1>1 DEF WillTrack, Pending, LastAdded

\* The same, of the next state.
LEMMA WillTrackMeansNext ==
    ASSUME TypeOK', NEW p
    PROVE  /\ Pending(p)' => (WillTrack(p)' <=> LastAdded(p)')
           /\ ~Pending(p)' => (WillTrack(p)' <=> entry'[p] # "absent")
<1>1. DOMAIN events' = 1..Len(events')
  BY DEF TypeOK
<1> QED BY <1>1 DEF WillTrack, Pending, LastAdded

DiscoveryInv == TypeOK /\ ConnectingHasDial /\ TracksDiscovered

\* An event that is sent decides for its peer, and for no other.
LEMMA SendDecides ==
    ASSUME TypeOK, TypeOK', NEW p \in Remote, NEW type \in {"added", "removed"},
           Len(events) < EventsBuf, SendEvent(type, p), entry' = entry
    PROVE  /\ WillTrack(p)' <=> type = "added"
           /\ \A q \in Remote \ {p} : WillTrack(q)' <=> WillTrack(q)
<1> DEFINE ev == [type |-> type, peer |-> p]
<1>1. events' = Append(events, ev) /\ events \in Seq(Event)
  BY DEF SendEvent, TypeOK
<1>2. ev.type = type /\ ev.peer = p
  OBVIOUS
<1> HIDE DEF ev
<1>3. PICK n : n = Len(events)
  OBVIOUS
<1>4. /\ n \in Nat /\ Len(events') = n + 1 /\ events'[n + 1] = ev
      /\ \A i \in 1..n : events'[i] = events[i]
  BY <1>1, <1>3
<1>5. WillTrack(p)' <=> type = "added"
  <2>1. Pending(p)'
    BY <1>2, <1>4 DEF Pending
  <2>2. LastAdded(p)' <=> type = "added"
    BY <1>2, <1>4 DEF LastAdded
  <2> QED BY <2>1, <2>2, WillTrackMeansNext
<1>6. ASSUME NEW q \in Remote \ {p}
      PROVE  WillTrack(q)' <=> WillTrack(q)
  <2>1. Pending(q)' <=> Pending(q)
    BY <1>2, <1>3, <1>4, <1>6 DEF Pending
  <2>2. LastAdded(q)' <=> LastAdded(q)
    BY <1>2, <1>3, <1>4, <1>6 DEF LastAdded
  <2> QED BY <2>1, <2>2, WillTrackMeans, WillTrackMeansNext
<1> QED BY <1>5, <1>6

\* The Connector takes an event: another about its peer still decides, and
\* without one the event decides now.
LEMMA TakeDecides ==
    ASSUME TypeOK, TypeOK', events # <<>>, events' = Tail(events),
           \A q \in Remote : q # Head(events).peer => (entry'[q] = "absent" <=> entry[q] = "absent"),
           entry'[Head(events).peer] = "absent" <=> Head(events).type # "added"
    PROVE  \A q \in Remote : WillTrack(q)' <=> WillTrack(q)
<1>1. PICK n : n = Len(events)
  OBVIOUS
<1>2. PICK ev : ev = Head(events)
  OBVIOUS
<1>3. /\ n \in Nat /\ n >= 1 /\ events[1] = ev /\ Len(events') = n - 1
      /\ \A i \in 1..(n - 1) : events'[i] = events[i + 1]
  BY <1>1, <1>2 DEF TypeOK
<1> SUFFICES ASSUME NEW q \in Remote
             PROVE  WillTrack(q)' <=> WillTrack(q)
  OBVIOUS
<1>4. CASE Pending(q)'
  <2>1. PICK k \in 1..(n - 1) : events[k + 1].peer = q
    BY <1>3, <1>4 DEF Pending
  <2>2. Pending(q)
    BY <1>1, <1>3, <2>1 DEF Pending
  <2>3. ASSUME LastAdded(q)
        PROVE  LastAdded(q)'
    <3> SUFFICES ASSUME NEW i \in 1..(n - 1), events[i + 1].peer = q,
                        \A j \in 1..(n - 1) : events[j + 1].peer = q => j <= i
                 PROVE  events[i + 1].type = "added"
      BY <1>3 DEF LastAdded
    <3>1. \A j \in 1..n : events[j].peer = q => j <= i + 1
      <4>1. ASSUME NEW j \in 1..n, events[j].peer = q, j # 1
            PROVE  j <= i + 1
        <5>1. j - 1 \in 1..(n - 1) /\ events[(j - 1) + 1].peer = q
          BY <1>3, <4>1
        <5>2. j - 1 <= i
          BY <5>1
        <5> QED BY <1>3, <5>2
      <4> QED BY <1>3, <4>1
    <3> QED BY <1>1, <1>3, <2>3, <3>1 DEF LastAdded
  <2>4. ASSUME LastAdded(q)'
        PROVE  LastAdded(q)
    <3> SUFFICES ASSUME NEW i \in 1..n, events[i].peer = q,
                        \A j \in 1..n : events[j].peer = q => j <= i
                 PROVE  events[i].type = "added"
      BY <1>1 DEF LastAdded
    <3>1. k + 1 <= i
      BY <1>3, <2>1
    <3>2. PICK m : m = i - 1
      OBVIOUS
    <3>3. m \in 1..(n - 1) /\ i = m + 1
      BY <1>3, <3>1, <3>2
    <3>4. events'[m].peer = q /\ \A j \in 1..(n - 1) : events'[j].peer = q => j <= m
      BY <1>3, <3>3
    <3> QED BY <1>3, <2>4, <3>3, <3>4 DEF LastAdded
  <2> QED BY <1>4, <2>2, <2>3, <2>4, WillTrackMeans, WillTrackMeansNext
<1>5. CASE ~Pending(q)'
  <2>1. \A k \in 1..(n - 1) : events[k + 1].peer # q
    BY <1>3, <1>5 DEF Pending
  <2>2. \A i \in 1..n : i # 1 => events[i].peer # q
    <3>1. \A i \in 1..n : i # 1 => i - 1 \in 1..(n - 1) /\ (i - 1) + 1 = i
      BY <1>3
    <3> QED BY <2>1, <3>1
  <2>3. CASE ev.peer = q
    <3>1. Pending(q) /\ (LastAdded(q) <=> ev.type = "added")
      BY <1>1, <1>3, <2>2, <2>3 DEF Pending, LastAdded
    <3> QED BY <1>2, <1>5, <2>3, <3>1, WillTrackMeans, WillTrackMeansNext
  <2>4. CASE ev.peer # q
    <3>1. ~Pending(q)
      BY <1>1, <1>3, <2>2, <2>4 DEF Pending
    <3> QED BY <1>2, <1>5, <2>4, <3>1, WillTrackMeans, WillTrackMeansNext
  <2> QED BY <2>3, <2>4
<1> QED BY <1>4, <1>5

\* A step that leaves the channel and d.entries alone.
LEMMA TrackFrame ==
    ASSUME TypeOK, TypeOK', TracksDiscovered, UNCHANGED <<entries, events, dropped>>,
           connector = "stopped" => connector' = "stopped",
           \A q \in Remote : entry'[q] = "absent" <=> entry[q] = "absent"
    PROVE  TracksDiscovered'
<1>1. \A q \in Remote : WillTrack(q)' <=> WillTrack(q)
  <2> SUFFICES ASSUME NEW q \in Remote
               PROVE  WillTrack(q)' <=> WillTrack(q)
    OBVIOUS
  <2>1. (Pending(q)' <=> Pending(q)) /\ (LastAdded(q)' <=> LastAdded(q))
    BY DEF Pending, LastAdded
  <2> QED BY <2>1, WillTrackMeans, WillTrackMeansNext
<1> QED BY <1>1 DEF TracksDiscovered

\* What Connect and Disconnect leave of the peers that are tracked.
LEMMA ConnectTracks ==
    ASSUME ConnTypeOK, NEW p \in Peers, NEW done, Connect(p, done)
    PROVE  /\ entry'[p] # "absent"
           /\ \A q \in Peers : q # p => entry'[q] = entry[q]
<1>1. CASE entry[p] \in {"connecting", "connected"}
  BY <1>1 DEF Connect, connVars
<1>2. CASE entry[p] \notin {"connecting", "connected"}
  BY <1>2 DEF Connect, ConnTypeOK
<1> QED BY <1>1, <1>2

LEMMA DisconnectTracks ==
    ASSUME ConnTypeOK, NEW p \in Peers, Disconnect(p)
    PROVE  /\ entry'[p] = "absent"
           /\ \A q \in Peers : q # p => entry'[q] = entry[q]
BY DEF Disconnect, ConnTypeOK

\* An attempt that ends late gives no entry to a peer that has none.
LEMMA RunTracks ==
    ASSUME ConnTypeOK, NEW a \in Attempts, RunStep(a)
    PROVE  \A q \in Peers : entry'[q] = "absent" <=> entry[q] = "absent"
<1>1. CASE DialSucceeds(a) \/ DialFails(a)
  BY <1>1 DEF DialSucceeds, DialFails
<1>2. CASE MarkState(a)
  BY <1>2 DEF MarkState, ConnTypeOK
<1> QED BY <1>1, <1>2 DEF RunStep

LEMMA HandleKeeps ==
    ASSUME DiscoveryInv, Handle
    PROVE  DiscoveryInv'
<1>1. PICK ev : ev = Head(events)
  OBVIOUS
<1>2. ev \in Event /\ ev.peer \in Remote /\ ev.peer \in Peers /\ events' \in Seq(Event) /\ Len(events') <= EventsBuf
  <2>1. ev \in Event
    BY <1>1 DEF DiscoveryInv, TypeOK, Handle
  <2> QED BY <2>1, DiscoveryAssumption DEF DiscoveryInv, TypeOK, Handle, Event, Remote
<1>3. /\ ConnInv'
      /\ entry'[ev.peer] = "absent" <=> ev.type # "added"
      /\ \A q \in Peers : q # ev.peer => entry'[q] = entry[q]
  <2>1. CASE ev.type = "added"
    <3>1. Connect(ev.peer, ctxDone) /\ ctxDone \in BOOLEAN
      BY <1>1, <2>1 DEF Handle, DiscoveryInv, TypeOK
    <3>2. PICK done \in BOOLEAN : done = ctxDone
      BY <3>1
    <3>3. Connect(ev.peer, done)
      BY <3>1, <3>2
    <3> QED BY <1>2, <2>1, <3>3, ConnectKeeps, ConnectTracks DEF DiscoveryInv, TypeOK, ConnInv
  <2>2. CASE ev.type # "added"
    <3>1. Disconnect(ev.peer)
      BY <1>1, <2>2 DEF Handle
    <3> QED BY <1>2, <2>2, <3>1, DisconnectKeeps, DisconnectTracks DEF DiscoveryInv, TypeOK, ConnInv
  <2> QED BY <2>1, <2>2
<1>4. TypeOK'
  BY <1>2, <1>3 DEF Handle, DiscoveryInv, TypeOK, ConnInv
<1>5. \A q \in Remote : WillTrack(q)' <=> WillTrack(q)
  <2>1. \A q \in Remote : q # ev.peer => (entry'[q] = "absent" <=> entry[q] = "absent")
    BY <1>3 DEF Remote
  <2> QED BY <1>1, <1>3, <1>4, <2>1, TakeDecides DEF DiscoveryInv, Handle
<1>6. TracksDiscovered'
  BY <1>5 DEF DiscoveryInv, TracksDiscovered, Handle
<1> QED BY <1>3, <1>4, <1>6 DEF DiscoveryInv, ConnInv

\* applyDiff: d.entries and the channel change together.
LEMMA ApplyKeeps ==
    ASSUME DiscoveryInv, NEW p \in Peers, ApplyAdded(p) \/ ApplyRemoved(p)
    PROVE  DiscoveryInv'
<1>1. p \in Remote /\ UNCHANGED <<entry, dial, connector>>
  BY DEF ApplyAdded, ApplyRemoved, DiscoveryInv, TypeOK, connVars
<1>2. PICK type \in {"added", "removed"} :
        /\ SendEvent(type, p)
        /\ entries' = IF type = "added" THEN entries \cup {p} ELSE entries \ {p}
  BY DEF ApplyAdded, ApplyRemoved
<1>3. [type |-> type, peer |-> p] \in Event
  BY <1>1 DEF Event
<1>4. PICK ev \in Event : ev = [type |-> type, peer |-> p]
  BY <1>3
<1>5. events' \in Seq(Event) /\ Len(events') <= EventsBuf /\ dropped' \in BOOLEAN
  <2>1. /\ events \in Seq(Event) /\ Len(events) <= EventsBuf /\ EventsBuf \in Nat
        /\ dropped \in BOOLEAN
    BY DiscoveryAssumption DEF DiscoveryInv, TypeOK
  <2>2. CASE Len(events) < EventsBuf
    <3>1. events' = Append(events, ev) /\ dropped' = dropped
      BY <1>2, <1>4, <2>2 DEF SendEvent
    <3>2. events' \in Seq(Event) /\ Len(events') <= EventsBuf
      BY <2>1, <2>2, <3>1
    <3> QED BY <2>1, <3>1, <3>2
  <2>3. CASE ~(Len(events) < EventsBuf)
    <3>1. events' = events /\ dropped' = TRUE
      BY <1>2, <2>3 DEF SendEvent
    <3>2. dropped' \in BOOLEAN
      BY <3>1, Zenon
    <3> QED BY <2>1, <3>1, <3>2
  <2> QED BY <2>2, <2>3
<1>6. TypeOK'
  BY <1>1, <1>2, <1>5 DEF ApplyAdded, ApplyRemoved, DiscoveryInv, TypeOK, ConnTypeOK
<1>7. ConnectingHasDial'
  BY <1>1 DEF DiscoveryInv, ConnectingHasDial
<1>8. TracksDiscovered'
  <2>1. CASE Len(events) < EventsBuf
    <3>1. dropped' = dropped
      BY <1>2, <2>1 DEF SendEvent
    <3>2. /\ WillTrack(p)' <=> type = "added"
          /\ \A q \in Remote \ {p} : WillTrack(q)' <=> WillTrack(q)
      BY <1>1, <1>2, <1>6, <2>1, SendDecides DEF DiscoveryInv
    <3> QED BY <1>1, <1>2, <3>1, <3>2 DEF DiscoveryInv, TracksDiscovered
  <2>2. CASE ~(Len(events) < EventsBuf)
    BY <1>2, <2>2 DEF SendEvent, TracksDiscovered
  <2> QED BY <2>1, <2>2
<1> QED BY <1>6, <1>7, <1>8 DEF DiscoveryInv

\* A cancelled context leaves every attempt with its peer and its entry.
LEMMA InterruptKeeps ==
    ASSUME DiscoveryInv, Interrupt
    PROVE  DiscoveryInv'
<1>1. /\ UNCHANGED <<entry, scanner, seen, entries, events, connector, dropped>> /\ ctxDone' = TRUE
      /\ dial' = [a \in Attempts |-> IF dial[a] = NoDial THEN NoDial
                                     ELSE [dial[a] EXCEPT !.cancelled = TRUE]]
  BY DEF Interrupt
<1>2. ASSUME NEW a \in Attempts, dial[a] # NoDial
      PROVE  dial'[a] \in Dial /\ dial'[a].peer = dial[a].peer /\ dial'[a].own = dial[a].own
  <2>1. dial[a] \in Dial
    BY <1>2 DEF DiscoveryInv, TypeOK, ConnTypeOK
  <2>2. dial'[a] = [dial[a] EXCEPT !.cancelled = TRUE]
    BY <1>1, <1>2
  <2> QED BY <2>1, <2>2 DEF Dial
<1>3. dial' \in [Attempts -> Dial \cup {NoDial}]
  BY <1>1, <1>2
<1>4. TypeOK'
  BY <1>1, <1>3 DEF DiscoveryInv, TypeOK, ConnTypeOK
<1>5. ConnectingHasDial'
  <2> SUFFICES ASSUME NEW p \in Peers, entry[p] = "connecting"
               PROVE  \E a \in Attempts : dial'[a] # NoDial /\ dial'[a].peer = p /\ dial'[a].own
    BY <1>1 DEF ConnectingHasDial
  <2>1. PICK a \in Attempts : dial[a] # NoDial /\ dial[a].peer = p /\ dial[a].own
    BY DEF DiscoveryInv, ConnectingHasDial
  <2> QED BY <1>2, <2>1, NoDialIsNone
<1>6. TracksDiscovered'
  BY <1>1, <1>4, TrackFrame DEF DiscoveryInv
<1> QED BY <1>4, <1>5, <1>6 DEF DiscoveryInv

LEMMA DiscoveryHolds == Spec => []DiscoveryInv
<1>1. Init => DiscoveryInv
  <2> SUFFICES ASSUME Init
               PROVE  DiscoveryInv
    OBVIOUS
  <2>1. ConnTypeOK /\ ConnectingHasDial /\ \A p \in Peers : entry[p] = "absent"
    BY DEF Init, ConnInit, ConnTypeOK, ConnectingHasDial
  <2>2. events = <<>> /\ events \in Seq(Event) /\ Len(events) = 0
    BY DEF Init
  <2>3. TypeOK
    <3>1. ctxDone \in BOOLEAN /\ dropped \in BOOLEAN
      BY Zenon DEF Init
    <3>2. Len(events) <= EventsBuf
      BY <2>2, DiscoveryAssumption
    <3>3. /\ scanner \in {"starting", "idle", "applying", "stopped"} /\ seen \subseteq Remote
          /\ entries \subseteq Remote /\ connector \in {"waiting", "running", "stopped"}
      BY DEF Init
    <3> QED BY <2>1, <2>2, <3>1, <3>2, <3>3 DEF TypeOK
  <2>4. TracksDiscovered
    BY <2>1, <2>2 DEF Init, TracksDiscovered, WillTrack, Remote
  <2> QED BY <2>1, <2>3, <2>4 DEF DiscoveryInv
<1>2. DiscoveryInv /\ [Next]_vars => DiscoveryInv'
  <2> SUFFICES ASSUME DiscoveryInv, [Next]_vars
               PROVE  DiscoveryInv'
    OBVIOUS
  <2>1. ASSUME \/ \E found \in SUBSET Peers : Scan(found)
               \/ ScanDone \/ LoopReturns \/ ConnectorReturns \/ UNCHANGED vars
        PROVE  DiscoveryInv'
    <3>1. UNCHANGED <<entry, dial, entries, events, dropped, ctxDone>>
      BY <2>1 DEF Scan, ScanDone, LoopReturns, ConnectorReturns, vars, connVars
    <3>2. /\ scanner' \in {"starting", "idle", "applying", "stopped"} /\ seen' \subseteq Remote
          /\ connector' \in {"waiting", "running", "stopped"}
          /\ connector = "stopped" => connector' = "stopped"
      BY <2>1 DEF Scan, SeenSet, Remote, ScanDone, LoopReturns, ConnectorReturns, vars, connVars,
                  DiscoveryInv, TypeOK
    <3>3. TypeOK'
      BY <3>1, <3>2 DEF DiscoveryInv, TypeOK, ConnTypeOK
    <3>4. ConnectingHasDial'
      BY <3>1 DEF DiscoveryInv, ConnectingHasDial
    <3> QED BY <3>1, <3>2, <3>3, <3>4, TrackFrame DEF DiscoveryInv
  <2>2. ASSUME NEW a \in Attempts, Run(a)
        PROVE  DiscoveryInv'
    <3>1. RunStep(a) /\ UNCHANGED <<scanner, seen, entries, events, connector, ctxDone, dropped>>
      BY <2>2 DEF Run
    <3>2. ConnInv'
      BY <3>1, DialKeeps, MarkStateKeeps DEF RunStep, DiscoveryInv, TypeOK, ConnInv
    <3>3. TypeOK'
      BY <3>1, <3>2 DEF DiscoveryInv, TypeOK, ConnInv
    <3>4. \A q \in Remote : entry'[q] = "absent" <=> entry[q] = "absent"
      BY <3>1, RunTracks DEF DiscoveryInv, TypeOK, Remote
    <3> QED BY <3>1, <3>2, <3>3, <3>4, TrackFrame DEF DiscoveryInv, ConnInv
  <2> QED BY <2>1, <2>2, HandleKeeps, ApplyKeeps, InterruptKeeps DEF Next
<1> QED BY <1>1, <1>2, PTL DEF Spec

\* While no event was dropped the manager tracks exactly the peers that were
\* found, up to the events in the channel, and no interleaving of scans, reads
\* and late dials changes that.
THEOREM AlwaysTracks == Spec => []TracksDiscovered
<1>1. DiscoveryInv => TracksDiscovered
  BY DEF DiscoveryInv
<1> QED BY <1>1, DiscoveryHolds, PTL

\* The manager keeps its promise also when discovery drives it and an interrupt
\* cancels every attempt.
THEOREM DrivenHasDial == Spec => []ConnectingHasDial
<1>1. DiscoveryInv => ConnectingHasDial
  BY DEF DiscoveryInv
<1> QED BY <1>1, DiscoveryHolds, PTL

----------------------------------------------------------------------------
(* The backoff.                                                            *)

\* The counter stays below its cap, and below the limit if there is one; the
\* delay stays between its bounds; and the power that the reference definition
\* speaks of is a number.
BackoffInv ==
    /\ maxRetries \in RetryLimits
    /\ attempts \in 0..AttemptsCap
    /\ maxRetries > 0 => attempts <= maxRetries
    /\ currentDelay \in Nat
    /\ Multiplier ^ attempts \in Nat \ {0}
    /\ DelayIsExponential

\* One more attempt: exponential growth that stops at the maximum, step by step.
LEMMA CappedProduct ==
    ASSUME NEW m \in Nat, m > 1, NEW p \in Nat, NEW max \in Nat \ {0},
           NEW d \in Nat, d = IF p > max THEN max ELSE p
    PROVE  (IF d * m > max THEN max ELSE d * m) = (IF p * m > max THEN max ELSE p * m)
<1>1. \A x \in Nat : x * m \in Nat /\ x * m >= x
  OBVIOUS
<1>2. max * m > max
  OBVIOUS
<1>3. CASE p > max
  <2>1. p * m > max
    BY <1>1, <1>3
  <2> QED
    BY <1>2, <1>3, <2>1
<1>4. CASE ~(p > max)
  BY <1>4
<1> QED
  BY <1>3, <1>4

LEMMA StartDelay ==
    ASSUME attempts' = 0, currentDelay' = InitialInterval, maxRetries' = maxRetries,
           maxRetries \in RetryLimits
    PROVE  BackoffInv'
<1>1. Multiplier ^ 0 = 1
  BY PowerAssumption
<1>2. InitialInterval \in Nat \ {0} /\ MaxDelay \in Nat \ {0} /\ InitialInterval <= MaxDelay
  BY BackoffAssumption DEF MaxDelay
<1>3. DelayIsExponential'
  BY <1>1, <1>2 DEF DelayIsExponential, MaxDelay
<1>4. Multiplier ^ attempts' \in Nat \ {0}
  BY <1>1
<1> QED
  BY <1>2, <1>3, <1>4, BackoffAssumption DEF BackoffInv

LEMMA InitBackoffInv == BackoffInit => BackoffInv
<1> SUFFICES ASSUME BackoffInit PROVE BackoffInv
  OBVIOUS
<1>1. Multiplier ^ 0 = 1 /\ attempts = 0 /\ currentDelay = InitialInterval /\ maxRetries \in RetryLimits
  BY PowerAssumption DEF BackoffInit
<1>2. InitialInterval \in Nat \ {0} /\ MaxDelay \in Nat \ {0} /\ InitialInterval <= MaxDelay
  BY BackoffAssumption DEF MaxDelay
<1>3. DelayIsExponential
  BY <1>1, <1>2 DEF DelayIsExponential
<1>4. Multiplier ^ attempts \in Nat \ {0}
  BY <1>1
<1> QED
  BY <1>1, <1>2, <1>3, <1>4, BackoffAssumption DEF BackoffInv

LEMMA NextDelayKeeps ==
    ASSUME BackoffInv, HasNext, NextDelay
    PROVE  BackoffInv'
<1>1. /\ maxRetries' = maxRetries
      /\ attempts' = IF attempts < AttemptsCap THEN attempts + 1 ELSE attempts
      /\ currentDelay' = IF currentDelay * Multiplier > MaxDelay THEN MaxDelay
                         ELSE currentDelay * Multiplier
  BY DEF NextDelay
<1>2. MaxDelay \in Nat \ {0} /\ Multiplier \in Nat /\ Multiplier > 1 /\ InitialInterval \in Nat \ {0}
      /\ AttemptsCap \in Nat /\ maxRetries \in Nat
  BY BackoffAssumption DEF MaxDelay, BackoffInv
<1>3. attempts' \in 0..AttemptsCap /\ (maxRetries > 0 => attempts' <= maxRetries)
  BY <1>1, <1>2 DEF BackoffInv, HasNext
<1>4. PICK d \in Nat : d = currentDelay
  BY DEF BackoffInv
<1>5. d * Multiplier \in Nat
  BY <1>2
<1>6. currentDelay' \in Nat
  BY <1>1, <1>2, <1>4, <1>5
<1>7. PICK P \in Nat \ {0} : P = Multiplier ^ attempts
  BY DEF BackoffInv
<1>8. CASE attempts < AttemptsCap
  <2>1. Multiplier ^ (attempts + 1) = Multiplier * P
    BY <1>2, <1>7, PowerAssumption DEF BackoffInv
  <2>2. Multiplier * P \in Nat \ {0}
    BY <1>2
  <2>3. Multiplier ^ attempts' \in Nat \ {0}
    BY <1>1, <1>8, <2>1, <2>2
  <2>4. PICK p \in Nat : p = InitialInterval * P
    BY <1>2
  <2>5. InitialInterval * (Multiplier * P) = p * Multiplier
    BY <1>2, <2>4
  <2>6. d = IF p > MaxDelay THEN MaxDelay ELSE p
    BY <1>4, <1>7, <1>8, <2>4 DEF BackoffInv, DelayIsExponential
  <2>7. PICK max \in Nat \ {0} : max = MaxDelay
    BY <1>2
  <2>8. currentDelay' = IF p * Multiplier > MaxDelay THEN MaxDelay ELSE p * Multiplier
    BY <1>1, <1>2, <1>4, <2>6, <2>7, CappedProduct
  <2>9. PICK n : n = attempts'
    OBVIOUS
  <2>10. InitialInterval * Multiplier ^ n = p * Multiplier
    BY <1>1, <1>8, <2>1, <2>5, <2>9
  <2>11. MaxDelay' = MaxDelay
    BY DEF MaxDelay
  <2>12. DelayIsExponential'
    BY <2>8, <2>9, <2>10, <2>11 DEF DelayIsExponential
  <2> QED
    BY <1>1, <1>3, <1>6, <2>3, <2>12 DEF BackoffInv
<1>9. CASE ~(attempts < AttemptsCap)
  <2>1. attempts' = attempts
    BY <1>1, <1>9
  <2>2. DelayIsExponential'
    BY <1>9, <2>1 DEF DelayIsExponential
  <2>3. Multiplier ^ attempts' \in Nat \ {0}
    BY <2>1 DEF BackoffInv
  <2> QED
    BY <1>1, <1>3, <1>6, <2>2, <2>3 DEF BackoffInv
<1> QED
  BY <1>8, <1>9

LEMMA BackoffFrame ==
    ASSUME BackoffInv, UNCHANGED backoffVars
    PROVE  BackoffInv'
<1>1. UNCHANGED <<maxRetries, attempts, currentDelay>>
  BY DEF backoffVars
<1>2. DelayIsExponential' /\ Multiplier ^ attempts' \in Nat \ {0}
  BY <1>1 DEF BackoffInv, DelayIsExponential, MaxDelay
<1> QED
  BY <1>1, <1>2 DEF BackoffInv

----------------------------------------------------------------------------
(* The bootstrap loop.                                                     *)

\* The code's counter is the number of failed rounds, but for a round that has
\* reconnected and not yet reset it.
CountsRounds ==
    /\ loop = "sleep" => ~reconnected
    /\ failedRounds = IF loop = "dial" /\ reconnected THEN 0 ELSE attempts
BootstrapInv == BackoffInv /\ CountsRounds /\ EndsForAReason

LEMMA BootstrapStep == BootstrapInv /\ [BootstrapNext]_bootstrapVars => BootstrapInv'
<1> SUFFICES ASSUME BootstrapInv, [BootstrapNext]_bootstrapVars PROVE BootstrapInv'
  OBVIOUS
<1>1. CASE TickConnected \/ (DialsDone /\ reconnected)
  <2>1. Reset /\ loop' = "select"
    BY <1>1 DEF TickConnected, DialsDone
  <2>2. BackoffInv'
    BY <2>1, StartDelay DEF Reset, BootstrapInv, BackoffInv
  <2>3. failedRounds' = 0
    BY <1>1 DEF TickConnected, DialsDone, BootstrapInv, CountsRounds
  <2> QED
    BY <2>1, <2>2, <2>3 DEF BootstrapInv, EndsForAReason, CountsRounds, Reset
<1>2. CASE TickLost
  <2>1. BackoffInv'
    BY <1>2, NextDelayKeeps DEF TickLost, BootstrapInv
  <2>2. loop = "select" /\ loop' = "sleep" /\ reconnected' = FALSE
    BY <1>2 DEF TickLost
  <2>3. failedRounds' = attempts'
    BY <1>2 DEF TickLost, NextDelay, BootstrapInv, CountsRounds
  <2> QED
    BY <2>1, <2>2, <2>3 DEF BootstrapInv, EndsForAReason, CountsRounds
<1>3. CASE TickGiveUp
  <2>1. UNCHANGED <<backoffVars, failedRounds>> /\ ~HasNext /\ loop = "select" /\ loop' = "ended"
    BY <1>3 DEF TickGiveUp
  <2>2. maxRetries \in Nat /\ attempts \in Nat
    BY BackoffAssumption DEF BootstrapInv, BackoffInv
  <2>3. maxRetries > 0 /\ attempts = maxRetries
    BY <2>1, <2>2 DEF HasNext, BootstrapInv, BackoffInv
  <2>4. BackoffInv'
    BY <2>1, BackoffFrame DEF BootstrapInv
  <2> QED
    BY <2>1, <2>3, <2>4 DEF BootstrapInv, EndsForAReason, CountsRounds, backoffVars
<1>4. ASSUME UNCHANGED <<backoffVars, failedRounds>>, CountsRounds',
             loop' # "ended" \/ bmDone' \/ startDone'
             \/ (loop' = loop /\ (bmDone => bmDone') /\ (startDone => startDone'))
      PROVE  BootstrapInv'
  <2>1. BackoffInv'
    BY <1>4, BackoffFrame DEF BootstrapInv
  <2>2. EndsForAReason'
    BY <1>4 DEF BootstrapInv, EndsForAReason, backoffVars
  <2> QED
    BY <1>4, <2>1, <2>2 DEF BootstrapInv
<1>5. ASSUME UNCHANGED <<backoffVars, failedRounds, reconnected>>,
             loop' = loop \/ (loop # "dial" /\ loop' \notin {"sleep", "dial"})
      PROVE  CountsRounds'
  BY <1>5 DEF CountsRounds, BootstrapInv, backoffVars
<1>6. CASE DialsDone /\ ~reconnected
  <2>1. UNCHANGED <<backoffVars, failedRounds>> /\ loop' = "select" /\ failedRounds = attempts
    BY <1>6 DEF DialsDone, CountsRounds, BootstrapInv
  <2> QED
    BY <1>4, <2>1 DEF CountsRounds, backoffVars
<1>7. ASSUME NEW p \in BootstrapPeers, DialPeer(p) PROVE BootstrapInv'
  <2>1. PICK ok \in BOOLEAN :
          /\ reconnected' = (reconnected \/ (ok /\ loop = "dial"))
          /\ failedRounds' = IF ok /\ loop = "dial" THEN 0 ELSE failedRounds
    BY <1>7 DEF DialPeer
  <2>2. UNCHANGED <<backoffVars, loop, bmDone, startDone>> /\ loop \in {"connectAll", "dial"}
    BY <1>7 DEF DialPeer
  <2>3. CountsRounds'
    <3>1. CASE ok /\ loop = "dial"
      BY <2>1, <2>2, <3>1 DEF CountsRounds
    <3>2. CASE ~(ok /\ loop = "dial")
      <4>1. failedRounds' = failedRounds /\ (reconnected' <=> reconnected)
        BY <2>1, <3>2
      <4> QED
        BY <2>2, <4>1 DEF CountsRounds, BootstrapInv, backoffVars
    <3> QED
      BY <3>1, <3>2
  <2>4. BackoffInv'
    BY <2>2, BackoffFrame DEF BootstrapInv
  <2>5. EndsForAReason'
    BY <2>2 DEF EndsForAReason
  <2> QED
    BY <2>3, <2>4, <2>5 DEF BootstrapInv
<1>8. ASSUME NEW p \in BootstrapPeers, Reach(p) \/ Unreach(p) \/ Unlink(p) \/ Link(p)
      PROVE  BootstrapInv'
  <2>1. UNCHANGED <<backoffVars, failedRounds, reconnected, loop, bmDone, startDone>>
    BY <1>8 DEF Reach, Unreach, Unlink, Link
  <2>2. CountsRounds'
    BY <1>5, <2>1
  <2> QED
    BY <1>4, <2>1, <2>2
<1>9. CASE Start \/ WakeCancelled \/ SelectDone
  <2>1. /\ UNCHANGED <<backoffVars, failedRounds, reconnected, bmDone, startDone>>
        /\ loop # "dial" /\ loop' \notin {"sleep", "dial"}
        /\ loop' # "ended" \/ bmDone \/ startDone
    BY <1>9 DEF Start, WakeCancelled, SelectDone
  <2>2. CountsRounds'
    BY <1>5, <2>1
  <2> QED
    BY <1>4, <2>1, <2>2
<1>10. CASE Wake
  <2>1. UNCHANGED <<backoffVars, failedRounds, reconnected>> /\ loop = "sleep" /\ loop' = "dial"
    BY <1>10 DEF Wake
  <2>2. CountsRounds'
    BY <2>1 DEF CountsRounds, BootstrapInv, backoffVars
  <2> QED
    BY <1>4, <2>1, <2>2
<1>11. CASE CancelStart \/ Close
  <2>1. /\ UNCHANGED <<backoffVars, failedRounds, reconnected, loop>>
        /\ bmDone => bmDone'
        /\ startDone => startDone'
    BY <1>11 DEF CancelStart, Close
  <2>2. CountsRounds'
    BY <1>5, <2>1
  <2> QED
    BY <1>4, <2>1, <2>2
<1>12. CASE UNCHANGED bootstrapVars
  <2>1. UNCHANGED <<backoffVars, failedRounds, reconnected, loop, bmDone, startDone>>
    BY <1>12 DEF bootstrapVars
  <2>2. CountsRounds'
    BY <1>5, <2>1
  <2> QED
    BY <1>4, <2>1, <2>2
<1> QED
  BY <1>1, <1>2, <1>3, <1>6, <1>7, <1>8, <1>9, <1>10, <1>11, <1>12 DEF BootstrapNext, Loop

LEMMA InitBootstrapInv == BootstrapInit => BootstrapInv
BY InitBackoffInv DEF BootstrapInit, BackoffInit, BootstrapInv, EndsForAReason, CountsRounds

\* Whatever the interval, its maximum, the factor and the limit are, and however
\* rounds, losses and resets alternate: the delay before a retry is the initial
\* one times a power of the factor, up to the maximum.
THEOREM DelaysAreExponential == BootstrapSpec => []DelayIsExponential
<1>1. BootstrapInv => DelayIsExponential
  BY DEF BootstrapInv, BackoffInv
<1> QED
  BY <1>1, InitBootstrapInv, BootstrapStep, PTL DEF BootstrapSpec

\* The bootstrap loop ends only when it is told to or when MaxRetries rounds in a
\* row have failed since the last success, for any bootstrap peers and any limit:
\* the counter is reset wherever it has to be.
THEOREM LoopEndsForAReason == BootstrapSpec => []EndsForAReason
<1>1. BootstrapInv => EndsForAReason
  BY DEF BootstrapInv
<1> QED
  BY <1>1, InitBootstrapInv, BootstrapStep, PTL DEF BootstrapSpec
=============================================================================
