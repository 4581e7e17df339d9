---------------------------- MODULE ChatUiProofs ----------------------------
(***************************************************************************)
(* The event bus, for any channels, events and limits; the same while the  *)
(* application is its subscriber; the text that the user types, which      *)
(* stays in its conversation; the cursor, which stays in its list; and the *)
(* messages, which are shown where they belong and not overlooked.         *)
(***************************************************************************)
EXTENDS ChatUi, TLAPS, FiniteSetTheorems, SequenceTheorems

----------------------------------------------------------------------------
(* The bus by itself.                                                      *)

\* The cap is about a finite set: s.subs grows by one channel at a time.
BusInv ==
    /\ BusTypeOK
    /\ OpenIffSubscribed /\ closed \subseteq made
    /\ IsFiniteSet(subs) /\ SubsBounded
    /\ BuffersBounded

LEMMA InitBusInv == BusInit => BusInv
  <1> SUFFICES ASSUME BusInit PROVE BusInv
    OBVIOUS
  <1>1. IsFiniteSet(subs) /\ SubsBounded
    BY FS_EmptySet, BusAssumption DEF BusInit, SubsBounded
  <1>2. BusTypeOK
    <2>1. <<>> \in Seq(Events)
      OBVIOUS
    <2> QED
      BY <2>1 DEF BusInit, BusTypeOK
  <1>3. OpenIffSubscribed /\ closed \subseteq made
    BY DEF BusInit, OpenIffSubscribed
  <1>4. BuffersBounded
    BY DEF BusInit, BuffersBounded
  <1> QED
    BY <1>1, <1>2, <1>3, <1>4 DEF BusInv

\* One more subscriber below the cap.
LEMMA AddSubscriber ==
  ASSUME IsFiniteSet(subs), Cardinality(subs) < MaxSubs, NEW ch
  PROVE  IsFiniteSet(subs \cup {ch}) /\ Cardinality(subs \cup {ch}) <= MaxSubs
  BY FS_AddElement, FS_CardinalityType, BusAssumption

LEMMA NextBusInv == BusInv /\ [BusNext]_busVars => BusInv'
  <1> SUFFICES ASSUME BusInv, [BusNext]_busVars PROVE BusInv'
    OBVIOUS
  <1> USE BusAssumption DEF BusInv, BusTypeOK, OpenIffSubscribed, SubsBounded, BuffersBounded
  <1>1. ASSUME NEW ch \in Chans, SubscribeE(ch) PROVE BusInv'
    <2>1. IsFiniteSet(subs') /\ Cardinality(subs') <= MaxSubs
      BY <1>1, AddSubscriber DEF SubscribeE
    <2> QED
      BY <1>1, <2>1 DEF SubscribeE
  <1>2. ASSUME NEW ch \in Chans, Subscribe(ch) PROVE BusInv'
    <2>1. CASE Cardinality(subs) >= MaxSubs
      BY <1>2, <2>1 DEF Subscribe
    <2>2. CASE ~(Cardinality(subs) >= MaxSubs)
      <3>1. Cardinality(subs) < MaxSubs
        BY <2>2, FS_CardinalityType
      <3>2. SubscribeE(ch)
        BY <1>2, <2>2, <3>1 DEF Subscribe, SubscribeE
      <3> QED
        BY <1>1, <3>2
    <2> QED
      BY <2>1, <2>2
  <1>3. ASSUME NEW ch \in Chans, Unsubscribe(ch) PROVE BusInv'
    <2>1. IsFiniteSet(subs') /\ Cardinality(subs') <= MaxSubs
      <3>1. Cardinality(subs) \in Nat
        BY FS_CardinalityType
      <3>2. IsFiniteSet(subs \ {ch}) /\ Cardinality(subs \ {ch}) = Cardinality(subs) - 1
        BY <1>3, FS_RemoveElement DEF Unsubscribe
      <3> QED
        BY <1>3, <3>1, <3>2 DEF Unsubscribe
    <2> QED
      BY <1>3, <2>1 DEF Unsubscribe
  <1>4. ASSUME NEW ch \in Chans, Receive(ch) PROVE BusInv'
    BY <1>4 DEF Receive
  <1>5. ASSUME NEW ev \in Events, Publish(ev) PROVE BusInv'
    BY <1>5 DEF Publish
  <1>6. CASE CloseService
    BY <1>6, FS_EmptySet DEF CloseService
  <1>7. CASE UNCHANGED busVars
    BY <1>7 DEF busVars
  <1> QED
    BY <1>1, <1>2, <1>3, <1>4, <1>5, <1>6, <1>7 DEF BusNext

\* However subscribers come and go while events are published and the service
\* closes: a channel is open exactly while it is registered, the cap of
\* subscribers holds, and no buffer overflows.
THEOREM BusSafe == BusSpec => [](OpenIffSubscribed /\ SubsBounded /\ BuffersBounded)
  <1>1. BusInv => OpenIffSubscribed /\ SubsBounded /\ BuffersBounded
    BY DEF BusInv
  <1> QED
    BY <1>1, InitBusInv, NextBusInv, PTL DEF BusSpec

\* The bus's variables keep their types.
THEOREM BusTypeCorrect == BusSpec => []BusTypeOK
  <1>1. BusInv => BusTypeOK
    BY DEF BusInv
  <1> QED
    BY <1>1, InitBusInv, NextBusInv, PTL DEF BusSpec

----------------------------------------------------------------------------
(* The application on the bus.                                             *)

\* monitorPeers publishes nothing but its own events.
AnnounceInv == announcing \in Seq(OtherEvents)

LEMMA FreshIsChan == \A used : FreshChan(used) \subseteq Chans
  BY DEF FreshChan

LEMMA InitUiBus == Init => BusInv /\ AnnounceInv
  <1> SUFFICES ASSUME Init PROVE BusInv /\ AnnounceInv
    OBVIOUS
  <1>1. PICK ch \in Chans : made = {ch} /\ subs = {ch}
    BY FreshIsChan DEF Init
  <1>2. closed = {} /\ buf = [c \in Chans |-> <<>>] /\ svcDown = FALSE /\ announcing = <<>>
    BY DEF Init
  <1>3. IsFiniteSet(subs) /\ SubsBounded
    <2>1. IsFiniteSet({ch}) /\ Cardinality({ch}) = 1
      BY FS_Singleton
    <2> QED
      BY <1>1, <2>1, BusAssumption, ChatUiAssumption DEF SubsBounded
  <1>4. BusTypeOK
    <2>1. buf \in [Chans -> Seq(Events)]
      BY <1>2
    <2>2. svcDown \in BOOLEAN
      BY <1>2, Zenon
    <2> QED
      BY <1>1, <1>2, <2>1, <2>2 DEF BusTypeOK
  <1>5. OpenIffSubscribed /\ closed \subseteq made
    BY <1>1, <1>2 DEF OpenIffSubscribed
  <1>6. BuffersBounded
    BY <1>2, BusAssumption DEF BuffersBounded
  <1> QED
    BY <1>2, <1>3, <1>4, <1>5, <1>6 DEF BusInv, AnnounceInv

\* Every step of the application and its service is a step of the bus, or leaves
\* it alone: what is published is an event that the bus knows.
LEMMA UiStepsOnBus ==
  ASSUME BusTypeOK, AnnounceInv, [Next]_vars
  PROVE  [BusNext]_busVars /\ AnnounceInv'
  <1>1. \A e \in Messages \cup OtherEvents : Announce(e) => BusNext
    BY ChatUiAssumption DEF Announce, BusNext
  <1>2. ASSUME NEW m \in Messages, HandleInbound(m) \/ PublishMessage(m) \/ SendDone(m) \/ SendFails(m)
        PROVE  [BusNext]_busVars /\ AnnounceInv'
    BY <1>1, <1>2 DEF HandleInbound, PublishMessage, SendDone, SendFails, AnnounceInv
  <1>3. ASSUME NEW connected \in SUBSET Peers, NEW id \in 1..MaxOther, MonitorRound(connected, id)
        PROVE  [BusNext]_busVars /\ AnnounceInv'
    <2> DEFINE n == Cardinality(connected)
               status == [kind |-> "status", conv |-> None, id |-> id]
               peers == [kind |-> "peers", conv |-> None, id |-> id]
               first == IF (n > 0) # (count > 0) THEN <<status>> ELSE <<>>
               second == IF n # count THEN <<peers>> ELSE <<>>
    <2>1. status \in OtherEvents /\ peers \in OtherEvents
      BY Zenon DEF OtherEvents
    <2>2. announcing' = first \o second /\ UNCHANGED busVars
      BY <1>3 DEF MonitorRound
    <2> HIDE DEF status, peers
    <2>3. first \in Seq(OtherEvents) /\ second \in Seq(OtherEvents)
      BY <2>1
    <2> HIDE DEF first, second
    <2> QED
      BY <2>2, <2>3 DEF AnnounceInv
  <1>4. CASE PublishOther
    <2>1. Head(announcing) \in OtherEvents /\ Tail(announcing) \in Seq(OtherEvents)
      BY <1>4 DEF PublishOther, AnnounceInv
    <2> QED
      BY <1>1, <1>4, <2>1 DEF PublishOther, AnnounceInv
  <1>5. ASSUME NEW r \in requests, DoSend(r)
        PROVE  [BusNext]_busVars /\ AnnounceInv'
    BY <1>5 DEF DoSend, AnnounceInv
  <1>6. CASE ListenerReceives
    <2>1. Receive(listening) /\ announcing' = announcing
      BY <1>6 DEF ListenerReceives
    <2>2. listening \in Chans
      BY <2>1 DEF Receive, BusTypeOK
    <2> QED
      BY <2>1, <2>2 DEF BusNext, AnnounceInv
  <1>7. CASE ListenerEnds
    BY <1>7 DEF ListenerEnds, serviceVars, AnnounceInv
  <1>8. CASE UpdateEvent
    BY <1>8, FreshIsChan DEF UpdateEvent, serviceVars, AnnounceInv, BusNext
  <1>9. CASE UpdateNewMessage \/ UpdateLists \/ UpdateListsFails
    BY <1>9 DEF UpdateNewMessage, UpdateLists, UpdateListsFails, serviceVars, AnnounceInv
  <1>10. CASE OpenSelected \/ OpenSelectedFails \/ KeyFocus \/ KeySidebar \/ KeyType \/ KeySend
    BY <1>10 DEF OpenSelected, OpenSelectedFails, KeyFocus, KeySidebar, KeyType, KeySend, KeyPressed, serviceVars, AnnounceInv
  <1>11. CASE Quit
    BY <1>11 DEF Quit, serviceVars, AnnounceInv, BusNext
  <1>12. CASE UNCHANGED vars
    BY <1>12 DEF vars, serviceVars, AnnounceInv
  <1> QED
    BY <1>2, <1>3, <1>4, <1>5, <1>6, <1>7, <1>8, <1>9, <1>10, <1>11, <1>12 DEF Next

\* While the application subscribes anew for every event, messages arrive, are
\* sent and the program ends: a channel is open exactly while it is registered,
\* the cap of subscribers holds and no buffer overflows.
THEOREM UiBusSafe == Spec => [](OpenIffSubscribed /\ SubsBounded /\ BuffersBounded)
  <1>1. BusInv /\ AnnounceInv /\ [Next]_vars => BusInv' /\ AnnounceInv'
    <2>1. BusInv => BusTypeOK
      BY DEF BusInv
    <2> QED
      BY <2>1, UiStepsOnBus, NextBusInv
  <1>2. BusInv => OpenIffSubscribed /\ SubsBounded /\ BuffersBounded
    BY DEF BusInv
  <1> QED
    BY <1>1, <1>2, InitUiBus, PTL DEF Spec

----------------------------------------------------------------------------
(* The input line.                                                         *)

\* A step that neither types nor opens nor sends.
LEMMA TextFrame ==
  ASSUME TextStaysInConversation, UNCHANGED <<openConv, input>>, requests' \subseteq requests
  PROVE  TextStaysInConversation'
  BY DEF TextStaysInConversation

LEMMA TextStep == TextStaysInConversation /\ [Next]_vars => TextStaysInConversation'
  <1> SUFFICES ASSUME TextStaysInConversation, [Next]_vars PROVE TextStaysInConversation'
    OBVIOUS
  <1>1. CASE OpenSelected \/ OpenSelectedFails
    <2>1. input' = NoText /\ UNCHANGED requests
      BY <1>1 DEF OpenSelected, OpenSelectedFails, LoadConversation
    <2> QED
      BY <2>1 DEF TextStaysInConversation
  <1>2. CASE KeyType
    BY <1>2 DEF KeyType, TextStaysInConversation
  <1>3. CASE KeySend
    <2>1. PICK r : r = [text |-> texts, typed |-> input, conv |-> openConv]
      OBVIOUS
    <2>2. r.typed = input /\ r.conv = openConv
      BY <2>1
    <2>3. /\ requests' = requests \cup {r} /\ input' = NoText /\ input # NoText
          /\ UNCHANGED openConv
      BY <1>3, <2>1 DEF KeySend
    <2> QED
      BY <2>2, <2>3 DEF TextStaysInConversation
  <1>4. CASE Quit
    BY <1>4 DEF Quit, TextStaysInConversation
  <1>5. ASSUME NEW r \in requests, DoSend(r) PROVE TextStaysInConversation'
    <2>1. UNCHANGED <<openConv, input>> /\ requests' \subseteq requests
      BY <1>5 DEF DoSend, keyVars, chatVars
    <2> QED
      BY <2>1, TextFrame
  <1>6. ASSUME NEW m \in Messages, HandleInbound(m) \/ PublishMessage(m) \/ SendDone(m) \/ SendFails(m)
        PROVE  TextStaysInConversation'
    <2>1. UNCHANGED <<openConv, input, requests>>
      BY <1>6 DEF HandleInbound, PublishMessage, SendDone, SendFails, uiVars, keyVars, chatVars
    <2> QED
      BY <2>1, TextFrame
  <1>7. ASSUME \/ \E connected \in SUBSET Peers, id \in 1..MaxOther : MonitorRound(connected, id)
               \/ PublishOther \/ ListenerReceives \/ ListenerEnds \/ UNCHANGED vars
        PROVE  TextStaysInConversation'
    <2>1. UNCHANGED <<openConv, input, requests>>
      BY <1>7 DEF MonitorRound, PublishOther, ListenerReceives, ListenerEnds, vars, uiVars, keyVars, chatVars
    <2> QED
      BY <2>1, TextFrame
  <1>8. CASE UpdateEvent \/ UpdateNewMessage \/ UpdateLists \/ UpdateListsFails \/ KeyFocus \/ KeySidebar
    <2>1. UNCHANGED <<openConv, input, requests>>
      BY <1>8 DEF UpdateEvent, UpdateNewMessage, UpdateLists, UpdateListsFails, KeyFocus, KeySidebar, keyVars, chatVars
    <2> QED
      BY <2>1, TextFrame
  <1> QED
    BY <1>1, <1>2, <1>3, <1>4, <1>5, <1>6, <1>7, <1>8 DEF Next

\* Whatever the user opens between typing and enter, or between enter and the
\* send: a text goes to the conversation it was typed in, or nowhere.
THEOREM TextAlwaysStays == Spec => []TextStaysInConversation
  <1>1. Init => TextStaysInConversation
    BY DEF Init, TextStaysInConversation
  <1> QED
    BY <1>1, TextStep, PTL DEF Spec

----------------------------------------------------------------------------
(* The lists of the sidebar.                                               *)

\* The conversations that the user can name: those with a peer in the store and
\* those of a group.  A list shows what the service would answer now, or less,
\* because peers are only ever added to the store; the open conversation and the
\* requests to send come from a list.
Reachable == known \cup Groups
ListInv ==
    /\ known \subseteq Peers
    /\ tab \in 1..3 /\ cursor \in Nat
    /\ list \in [{"conversations", "groups", "peers"} -> SUBSET Convs]
    /\ list.conversations \subseteq ListConversations(known)
    /\ list.groups \subseteq ListGroups
    /\ list.peers \subseteq ListPeers(known)
    /\ openConv \in Reachable \cup {None}
    /\ \A r \in requests : r.conv \in Reachable \cup {None}

LEMMA TabNames == ToSet(Tabs) = {"conversations", "groups", "peers"} /\ Len(Tabs) = 3
                  /\ Tabs[1] = "conversations" /\ Tabs[2] = "groups" /\ Tabs[3] = "peers"
  BY DEF Tabs, ToSet

LEMMA InitListInv == Init => ListInv
  <1> SUFFICES ASSUME Init PROVE ListInv
    OBVIOUS
  <1>1. /\ known = {} /\ tab = 1 /\ cursor = 0 /\ list = [t \in ToSet(Tabs) |-> {}]
        /\ openConv = None /\ requests = {}
    BY DEF Init, SidebarInit
  <1> QED
    BY <1>1, TabNames DEF ListInv

\* A step that reads no list anew and opens nothing, while the store may get more peers.
LEMMA ListFrame ==
  ASSUME ListInv, known \subseteq known', known' \subseteq Peers,
         UNCHANGED <<tab, cursor, list, openConv>>, requests' \subseteq requests
  PROVE  ListInv'
  BY DEF ListInv, Reachable, ListConversations, ListPeers, ListGroups

LEMMA ListStep == ListInv /\ [Next]_vars => ListInv'
  <1> SUFFICES ASSUME ListInv, [Next]_vars PROVE ListInv'
    OBVIOUS
  <1> USE DEF uiVars, keyVars, chatVars, sidebarVars
  <1>1. ASSUME NEW m \in Messages, HandleInbound(m) PROVE ListInv'
    <2>1. known' = known \cup ({m.peer} \cap Peers) /\ UNCHANGED <<tab, cursor, list, openConv, requests>>
      BY <1>1 DEF HandleInbound
    <2> QED
      BY <2>1, ListFrame DEF ListInv
  <1>2. ASSUME NEW m \in Messages, PublishMessage(m) \/ SendDone(m) \/ SendFails(m) PROVE ListInv'
    <2>1. UNCHANGED <<known, tab, cursor, list, openConv, requests>>
      BY <1>2 DEF PublishMessage, SendDone, SendFails
    <2> QED
      BY <2>1, ListFrame DEF ListInv
  <1>3. ASSUME NEW connected \in SUBSET Peers, NEW id \in 1..MaxOther, MonitorRound(connected, id)
        PROVE  ListInv'
    <2>1. /\ \E upserted \in SUBSET connected : known' = known \cup upserted
          /\ UNCHANGED <<tab, cursor, list, openConv, requests>>
      BY <1>3 DEF MonitorRound
    <2> QED
      BY <2>1, ListFrame DEF ListInv
  <1>4. CASE PublishOther \/ ListenerReceives
    <2>1. UNCHANGED <<known, tab, cursor, list, openConv, requests>>
      BY <1>4 DEF PublishOther, ListenerReceives
    <2> QED
      BY <2>1, ListFrame DEF ListInv
  <1>5. ASSUME NEW r \in requests, DoSend(r) PROVE ListInv'
    <2>1. UNCHANGED <<known, tab, cursor, list, openConv>> /\ requests' \subseteq requests
      BY <1>5 DEF DoSend
    <2> QED
      BY <2>1, ListFrame DEF ListInv
  <1>6. CASE ListenerEnds \/ UpdateEvent \/ UpdateNewMessage \/ UNCHANGED vars
    <2>1. UNCHANGED <<known, tab, cursor, list, openConv, requests>>
      BY <1>6 DEF ListenerEnds, UpdateEvent, UpdateNewMessage, serviceVars, vars
    <2> QED
      BY <2>1, ListFrame DEF ListInv
  <1>7. CASE UpdateLists \/ UpdateListsFails
    <2>1. UNCHANGED <<known, tab, cursor, openConv, requests>>
      BY <1>7 DEF UpdateLists, UpdateListsFails, SetConversations, SetList, serviceVars
    <2>2. \/ list' = [list EXCEPT !.conversations = ListConversations(known), !.groups = ListGroups]
          \/ list' = [list EXCEPT !["peers"] = ListPeers(known)]
          \/ list' = [list EXCEPT !["groups"] = ListGroups]
          \/ list' = list
      BY <1>7 DEF UpdateLists, UpdateListsFails, SetConversations, SetList
    <2>3. /\ list' \in [{"conversations", "groups", "peers"} -> SUBSET Convs]
          /\ list'.conversations \subseteq ListConversations(known)
          /\ list'.groups \subseteq ListGroups
          /\ list'.peers \subseteq ListPeers(known)
      BY <2>2 DEF ListInv, ListConversations, ListPeers, ListGroups, Convs
    <2> QED
      BY <2>1, <2>3 DEF ListInv, Reachable, ListConversations, ListPeers, ListGroups
  <1>8. CASE OpenSelected \/ OpenSelectedFails
    <2>1. UNCHANGED <<known, tab, cursor, list, requests>>
      BY <1>8 DEF OpenSelected, OpenSelectedFails, KeyPressed, serviceVars
    <2>2. openConv' \in list[Tabs[tab]]
      BY <1>8 DEF OpenSelected, OpenSelectedFails, LoadConversation, Selected, ActiveList
    <2>3. openConv' \in Reachable
      BY <2>2, TabNames DEF ListInv, Reachable, ListConversations, ListPeers, ListGroups
    <2> QED
      BY <2>1, <2>3 DEF ListInv, Reachable
  <1>9. CASE KeyFocus \/ KeyType
    <2>1. UNCHANGED <<known, tab, cursor, list, openConv, requests>>
      BY <1>9 DEF KeyFocus, KeyType, KeyPressed, serviceVars
    <2> QED
      BY <2>1, ListFrame DEF ListInv
  <1>10. CASE KeySidebar
    <2>1. UNCHANGED <<known, list, openConv, requests>> /\ (KeyTab \/ KeyMove)
      BY <1>10 DEF KeySidebar, KeyTab, KeyMove, KeyPressed, serviceVars
    <2>2. tab' \in 1..3 /\ cursor' \in Nat
      <3>1. CASE KeyTab
        BY <3>1, TabNames DEF KeyTab, ListInv
      <3>2. CASE KeyMove
        BY <3>2 DEF KeyMove, ListInv
      <3> QED
        BY <2>1, <3>1, <3>2
    <2> QED
      BY <2>1, <2>2 DEF ListInv, Reachable
  <1>11. CASE KeySend
    <2>1. UNCHANGED <<known, tab, cursor, list, openConv>>
      BY <1>11 DEF KeySend, KeyPressed, serviceVars
    <2>2. requests' = requests \cup {[text |-> texts, typed |-> input, conv |-> openConv]}
      BY <1>11 DEF KeySend
    <2>3. \A r \in requests' : r.conv \in Reachable \cup {None}
      BY <2>2 DEF ListInv
    <2> QED
      BY <2>1, <2>3 DEF ListInv, Reachable
  <1>12. CASE Quit
    <2>1. /\ known' = known /\ tab' = 1 /\ cursor' = 0 /\ list' = [t \in ToSet(Tabs) |-> {}]
          /\ openConv' = None /\ requests' = {}
      BY <1>12 DEF Quit, serviceVars
    <2> QED
      BY <2>1, TabNames DEF ListInv
  <1> QED
    BY <1>1, <1>2, <1>3, <1>4, <1>5, <1>6, <1>7, <1>8, <1>9, <1>10, <1>11, <1>12 DEF Next
\* A list of the sidebar is finite, and grows when its entries do.
LEMMA ListsGrow ==
  ASSUME NEW A \in SUBSET Convs, NEW B \in SUBSET A
  PROVE  Cardinality(B) \in Nat /\ Cardinality(A) \in Nat /\ Cardinality(B) <= Cardinality(A)
  <1>1. IsFiniteSet(Convs)
    BY SidebarAssumption, FS_Union DEF Convs
  <1>2. IsFiniteSet(A)
    BY <1>1, FS_Subset
  <1> QED
    BY <1>2, FS_Subset, FS_CardinalityType

LEMMA CursorFrame ==
  ASSUME CursorInList, UNCHANGED <<tab, cursor, list>>
  PROVE  CursorInList'
  BY DEF CursorInList, ActiveList

LEMMA CursorStep == ListInv /\ CursorInList /\ [Next]_vars => CursorInList'
  <1> SUFFICES ASSUME ListInv, CursorInList, [Next]_vars PROVE CursorInList'
    OBVIOUS
  <1> USE DEF uiVars, keyVars, sidebarVars
  <1>1. CASE UpdateLists \/ UpdateListsFails
    <2>1. UNCHANGED <<tab, cursor>>
      BY <1>1 DEF UpdateLists, UpdateListsFails, SetConversations, SetList
    <2>2. \/ list' = [list EXCEPT !.conversations = ListConversations(known), !.groups = ListGroups]
          \/ list' = [list EXCEPT !["peers"] = ListPeers(known)]
          \/ list' = [list EXCEPT !["groups"] = ListGroups]
          \/ list' = list
      BY <1>1 DEF UpdateLists, UpdateListsFails, SetConversations, SetList
    <2>3. Tabs[tab] \in {"conversations", "groups", "peers"}
      BY TabNames DEF ListInv
    <2>4. PICK t \in {"conversations", "groups", "peers"} : t = Tabs[tab]
      BY <2>3
    <2>5. list[t] \subseteq list'[t] /\ list'[t] \subseteq Convs
      BY <2>2 DEF ListInv, ListConversations, ListPeers, ListGroups, Convs
    <2>6. /\ Cardinality(list[t]) \in Nat /\ Cardinality(list'[t]) \in Nat
          /\ Cardinality(list[t]) <= Cardinality(list'[t])
      BY <2>5, ListsGrow
    <2> QED
      BY <2>1, <2>4, <2>6 DEF CursorInList, ActiveList, ListInv
  <1>2. CASE KeySidebar
    <2>1. CASE KeyTab
      BY <2>1 DEF KeyTab, CursorInList
    <2>2. CASE KeyMove
      <3>1. UNCHANGED <<tab, list>>
        BY <2>2 DEF KeyMove
      <3>2. Cardinality(ActiveList) \in Nat
        <4>1. Tabs[tab] \in {"conversations", "groups", "peers"}
          BY TabNames DEF ListInv
        <4>2. ActiveList \subseteq Convs
          BY <4>1 DEF ListInv, ActiveList
        <4> QED
          BY <4>2, ListsGrow
      <3>3. ActiveList' = ActiveList
        BY <3>1 DEF ActiveList
      <3>4. PICK n \in Nat : n = Cardinality(ActiveList)
        BY <3>2
      <3>5. cursor = 0 \/ cursor < n
        BY <3>4 DEF CursorInList
      <3>6. cursor' = 0 \/ cursor' < n
        BY <2>2, <3>1, <3>4, <3>5 DEF KeyMove, ListInv
      <3> QED
        BY <3>3, <3>4, <3>6 DEF CursorInList
    <2> QED
      BY <1>2, <2>1, <2>2 DEF KeySidebar
  <1>3. CASE Quit
    BY <1>3 DEF Quit, CursorInList
  <1>4. ASSUME NEW m \in Messages, HandleInbound(m) \/ PublishMessage(m) \/ SendDone(m) \/ SendFails(m)
        PROVE  CursorInList'
    <2>1. UNCHANGED <<tab, cursor, list>>
      BY <1>4 DEF HandleInbound, PublishMessage, SendDone, SendFails
    <2> QED
      BY <2>1, CursorFrame
  <1>5. ASSUME \/ \E connected \in SUBSET Peers, id \in 1..MaxOther : MonitorRound(connected, id)
               \/ PublishOther \/ (\E r \in requests : DoSend(r))
               \/ ListenerReceives \/ ListenerEnds \/ UpdateEvent \/ UpdateNewMessage
        PROVE  CursorInList'
    <2>1. UNCHANGED <<tab, cursor, list>>
      BY <1>5 DEF MonitorRound, PublishOther, DoSend, ListenerReceives, ListenerEnds, UpdateEvent, UpdateNewMessage
    <2> QED
      BY <2>1, CursorFrame
  <1>6. CASE OpenSelected \/ OpenSelectedFails \/ KeyFocus \/ KeyType \/ KeySend \/ UNCHANGED vars
    <2>1. UNCHANGED <<tab, cursor, list>>
      BY <1>6 DEF OpenSelected, OpenSelectedFails, KeyFocus, KeyType, KeySend, vars
    <2> QED
      BY <2>1, CursorFrame
  <1> QED
    BY <1>1, <1>2, <1>3, <1>4, <1>5, <1>6 DEF Next

\* Although lists are replaced under the cursor and clampCursor is never reached,
\* the cursor stays in the list it is in: for any peers and groups, no list ever
\* gets shorter, because peers stay in the store.
THEOREM CursorStaysInList == Spec => []CursorInList
  <1>1. Init => CursorInList
    BY DEF Init, SidebarInit, CursorInList
  <1> QED
    BY <1>1, InitListInv, ListStep, CursorStep, PTL DEF Spec

----------------------------------------------------------------------------
(* The messages of the service.                                            *)

\* What was announced, or will be, was taken up by the service; and the sender
\* that a message names is in the peers table.
StoreInv ==
    /\ handled \subseteq Messages /\ IsFiniteSet(handled)
    /\ publishing \subseteq handled /\ sending \subseteq handled
    /\ emitted \cap Messages \subseteq handled
    /\ \A m \in handled : m.peer \in known \cup {None}

LEMMA FiniteRows ==
  ASSUME IsFiniteSet(handled), NEW c
  PROVE  IsFiniteSet(Rows(c)) /\ Cardinality(Rows(c)) \in Nat
  BY FS_Subset, FS_CardinalityType DEF Rows

LEMMA StoreFrame ==
  ASSUME StoreInv, handled' = handled, known \subseteq known',
         publishing' \subseteq publishing, sending' \subseteq sending,
         emitted' \subseteq emitted \cup publishing \cup sending \cup OtherEvents
  PROVE  StoreInv'
  <1>1. \A e \in OtherEvents : e \notin Messages
    BY DEF OtherEvents, Messages
  <1>2. publishing' \subseteq handled' /\ sending' \subseteq handled' /\ emitted' \cap Messages \subseteq handled'
    BY <1>1 DEF StoreInv
  <1> QED
    BY <1>2 DEF StoreInv

LEMMA StoreStep == AnnounceInv /\ ListInv /\ StoreInv /\ [Next]_vars => StoreInv'
  <1> SUFFICES ASSUME AnnounceInv, ListInv, StoreInv, [Next]_vars PROVE StoreInv'
    OBVIOUS
  <1> USE DEF serviceVars
  <1>1. ASSUME NEW m \in Messages, HandleInbound(m) PROVE StoreInv'
    <2>1. /\ handled' = handled \cup {m} /\ publishing' = publishing \cup {m}
          /\ known' = known \cup ({m.peer} \cap Peers)
          /\ UNCHANGED <<sending, emitted>>
      BY <1>1 DEF HandleInbound
    <2>2. m.peer \in Peers \cup {None}
      BY DEF Messages
    <2>3. \A x \in handled' : x.peer \in known' \cup {None}
      BY <2>1, <2>2 DEF StoreInv
    <2>4. handled' \subseteq Messages /\ IsFiniteSet(handled')
      BY <2>1, FS_AddElement DEF StoreInv
    <2>5. /\ publishing' \subseteq handled' /\ sending' \subseteq handled'
          /\ emitted' \cap Messages \subseteq handled'
      BY <2>1 DEF StoreInv
    <2> QED
      BY <2>3, <2>4, <2>5 DEF StoreInv
  <1>2. ASSUME NEW r \in requests, DoSend(r) PROVE StoreInv'
    <2>1. UNCHANGED <<known, publishing, emitted>>
      BY <1>2 DEF DoSend
    <2>2. CASE handled' = handled /\ sending' = sending
      BY <2>1, <2>2, StoreFrame
    <2>3. ASSUME NEW m \in Messages, m.peer = None,
                 handled' = handled \cup {m}, sending' = sending \cup {m}
          PROVE  StoreInv'
      <3>1. \A x \in handled' : x.peer \in known' \cup {None}
        BY <2>1, <2>3 DEF StoreInv
      <3>2. handled' \subseteq Messages /\ IsFiniteSet(handled')
        BY <2>3, FS_AddElement DEF StoreInv
      <3>3. /\ publishing' \subseteq handled' /\ sending' \subseteq handled'
            /\ emitted' \cap Messages \subseteq handled'
        BY <2>1, <2>3 DEF StoreInv
      <3> QED
        BY <3>1, <3>2, <3>3 DEF StoreInv
    <2> QED
      BY <1>2, <2>2, <2>3 DEF DoSend
  <1>3. ASSUME NEW m \in Messages, PublishMessage(m) \/ SendDone(m) \/ SendFails(m) PROVE StoreInv'
    <2>1. /\ UNCHANGED <<handled, known>> /\ publishing' \subseteq publishing /\ sending' \subseteq sending
          /\ emitted' \subseteq emitted \cup publishing \cup sending
      BY <1>3 DEF PublishMessage, SendDone, SendFails, Announce
    <2> QED
      BY <2>1, StoreFrame
  <1>4. ASSUME NEW connected \in SUBSET Peers, NEW id \in 1..MaxOther, MonitorRound(connected, id)
        PROVE  StoreInv'
    <2>1. known \subseteq known' /\ UNCHANGED <<handled, publishing, sending, emitted>>
      BY <1>4 DEF MonitorRound
    <2> QED
      BY <2>1, StoreFrame
  <1>5. CASE PublishOther
    <2>1. Head(announcing) \in OtherEvents
      BY <1>5 DEF PublishOther, AnnounceInv
    <2>2. UNCHANGED <<handled, known, publishing, sending>> /\ emitted' = emitted \cup {Head(announcing)}
      BY <1>5 DEF PublishOther, Announce
    <2> QED
      BY <2>1, <2>2, StoreFrame
  <1>6. CASE \/ ListenerReceives \/ ListenerEnds \/ UpdateEvent \/ UpdateNewMessage
             \/ UpdateLists \/ UpdateListsFails
    <2>1. UNCHANGED <<handled, known, publishing, sending, emitted>>
      BY <1>6 DEF ListenerReceives, ListenerEnds, UpdateEvent, UpdateNewMessage, UpdateLists, UpdateListsFails
    <2> QED
      BY <2>1, StoreFrame
  <1>7. CASE \/ OpenSelected \/ OpenSelectedFails \/ KeyFocus \/ KeySidebar \/ KeyType \/ KeySend
             \/ Quit \/ UNCHANGED vars
    <2>1. UNCHANGED <<handled, known, publishing, sending, emitted>>
      BY <1>7 DEF OpenSelected, OpenSelectedFails, KeyFocus, KeySidebar, KeyType, KeySend, KeyPressed, Quit, vars
    <2> QED
      BY <2>1, StoreFrame
  <1> QED
    BY <1>1, <1>2, <1>3, <1>4, <1>5, <1>6, <1>7 DEF Next

----------------------------------------------------------------------------
(* The listener.                                                           *)

\* The application waits on a channel or handles an event, never both, and one
\* event at a time: listenEvents is called again only when its event is handled.
Announced == Messages \cup OtherEvents
ListenInv ==
    /\ buf \in [Chans -> Seq(Announced)]
    /\ listening \in Chans \cup {None}
    /\ \A u \in updates : u[1] = "event" =>
         /\ listening = None /\ u \in {"event"} \X Announced
         /\ \A v \in updates : v[1] = "event" => v = u

\* What handleServiceEvent makes of an event is not an event again.
LEMMA CommandOf ==
  ASSUME NEW e \in Announced
  PROVE  /\ \A u \in Command(e) : u[1] # "event"
         /\ e \in Messages => Command(e) = {<<"new", e>>}
  <1>1. e.kind \in {"message", "status", "peers"} /\ (e \in Messages => e.kind = "message")
    BY DEF Announced, Messages, OtherEvents
  <1>2. CASE e.kind = "message"
    BY <1>2 DEF Command
  <1>3. CASE e.kind = "peers"
    BY <1>1, <1>3 DEF Command
  <1>4. CASE e.kind = "status"
    BY <1>1, <1>4 DEF Command
  <1> QED
    BY <1>1, <1>2, <1>3, <1>4

LEMMA InitListenInv == Init => ListenInv
  <1> SUFFICES ASSUME Init PROVE ListenInv
    OBVIOUS
  <1>1. buf \in [Chans -> Seq(Announced)]
    BY DEF Init
  <1>2. listening \in Chans /\ updates = {<<"refresh", NoEvent>>, <<"peers", NoEvent>>}
    BY FreshIsChan DEF Init
  <1> QED
    BY <1>1, <1>2 DEF ListenInv

\* A step that publishes at most, and adds no event for Update.
LEMMA ListenFrame ==
  ASSUME ListenInv, listening' = listening, buf' \in [Chans -> Seq(Announced)],
         \A u \in updates' : u[1] = "event" => u \in updates
  PROVE  ListenInv'
  BY DEF ListenInv

LEMMA PublishedBuf ==
  ASSUME ListenInv, NEW e \in Announced, Publish(e)
  PROVE  buf' \in [Chans -> Seq(Announced)]
  BY DEF ListenInv, Publish

LEMMA ListenStep == AnnounceInv /\ ListenInv /\ [Next]_vars => ListenInv'
  <1> SUFFICES ASSUME AnnounceInv, ListenInv, [Next]_vars PROVE ListenInv'
    OBVIOUS
  <1> USE DEF busVars, uiVars
  <1>1. ASSUME NEW m \in Messages, PublishMessage(m) \/ SendDone(m) PROVE ListenInv'
    <2>1. UNCHANGED <<listening, updates>> /\ Publish(m)
      BY <1>1 DEF PublishMessage, SendDone, Announce
    <2> QED
      BY <2>1, PublishedBuf, ListenFrame DEF Announced
  <1>2. CASE PublishOther
    <2>1. UNCHANGED <<listening, updates>> /\ Publish(Head(announcing)) /\ Head(announcing) \in OtherEvents
      BY <1>2 DEF PublishOther, Announce, AnnounceInv
    <2> QED
      BY <2>1, PublishedBuf, ListenFrame DEF Announced
  <1>3. ASSUME NEW m \in Messages, HandleInbound(m) \/ SendFails(m) PROVE ListenInv'
    <2>1. UNCHANGED <<listening, updates, buf>>
      BY <1>3 DEF HandleInbound, SendFails
    <2> QED
      BY <2>1, ListenFrame DEF ListenInv
  <1>4. ASSUME \/ \E connected \in SUBSET Peers, id \in 1..MaxOther : MonitorRound(connected, id)
               \/ \E r \in requests : DoSend(r)
               \/ OpenSelected \/ OpenSelectedFails
               \/ KeyFocus \/ KeySidebar \/ KeyType \/ KeySend \/ UNCHANGED vars
        PROVE  ListenInv'
    <2>1. UNCHANGED <<listening, updates, buf>>
      BY <1>4 DEF MonitorRound, DoSend, OpenSelected, OpenSelectedFails, KeyFocus, KeySidebar, KeyType, KeySend, KeyPressed, vars
    <2> QED
      BY <2>1, ListenFrame DEF ListenInv
  <1>5. CASE ListenerReceives
    <2>1. /\ listening # None /\ Receive(listening) /\ listening' = None
          /\ updates' = updates \cup {<<"event", Head(buf[listening])>>}
      BY <1>5 DEF ListenerReceives
    <2>2. listening \in Chans /\ buf[listening] # <<>>
      BY <2>1 DEF ListenInv, Receive
    <2>3. Head(buf[listening]) \in Announced /\ Tail(buf[listening]) \in Seq(Announced)
      BY <2>2 DEF ListenInv
    <2>4. buf' \in [Chans -> Seq(Announced)]
      BY <2>1, <2>2, <2>3 DEF ListenInv, Receive
    <2>5. \A u \in updates : u[1] # "event"
      BY <2>1 DEF ListenInv
    <2>6. PICK e \in Announced : e = Head(buf[listening])
      BY <2>3
    <2>7. \A u \in updates' : u[1] = "event" => u = <<"event", e>>
      BY <2>1, <2>5, <2>6
    <2> QED
      BY <2>1, <2>4, <2>7 DEF ListenInv
  <1>6. CASE ListenerEnds
    <2>1. UNCHANGED <<updates, buf>> /\ listening' = None
      BY <1>6 DEF ListenerEnds
    <2> QED
      BY <2>1 DEF ListenInv
  <1>7. CASE UpdateEvent
    <2>1. PICK u \in updates : u[1] = "event" /\ updates' = (updates \ {u}) \cup Command(u[2])
      BY <1>7 DEF UpdateEvent
    <2>2. u[2] \in Announced /\ \A v \in updates : v[1] = "event" => v = u
      BY <2>1 DEF ListenInv
    <2>3. \A v \in updates' : v[1] # "event"
      BY <2>1, <2>2, CommandOf
    <2>4. buf' = buf /\ listening' \in Chans
      BY <1>7, FreshIsChan DEF UpdateEvent, Subscribe
    <2> QED
      BY <2>3, <2>4 DEF ListenInv
  <1>8. CASE UpdateNewMessage \/ UpdateLists \/ UpdateListsFails
    <2>1. UNCHANGED <<buf, listening>>
      BY <1>8 DEF UpdateNewMessage, UpdateLists, UpdateListsFails
    <2>2. \A v \in updates' : v[1] = "event" => v \in updates
      BY <1>8 DEF UpdateNewMessage, UpdateLists, UpdateListsFails
    <2> QED
      BY <2>1, <2>2, ListenFrame DEF ListenInv
  <1>9. CASE Quit
    <2>1. buf' = buf /\ listening' = None /\ updates' = {}
      BY <1>9 DEF Quit, CloseService
    <2> QED
      BY <2>1 DEF ListenInv
  <1> QED
    BY <1>1, <1>2, <1>3, <1>4, <1>5, <1>6, <1>7, <1>8, <1>9 DEF Next
----------------------------------------------------------------------------
(* A message on its way to Update.                                         *)

\* What every step leaves in place.
LEMMA StepKeeps ==
  ASSUME [Next]_vars
  PROVE  /\ missed \subseteq missed' /\ handled \subseteq handled'
         /\ Quit \/ quitting' = quitting
         /\ Quit \/ OpenSelected \/ OpenSelectedFails \/ (openConv' = openConv /\ view \subseteq view')
  <1> USE DEF serviceVars, uiVars, keyVars, chatVars
  <1>1. ASSUME NEW m \in Messages, HandleInbound(m) \/ PublishMessage(m) \/ SendDone(m) \/ SendFails(m)
        PROVE  /\ missed \subseteq missed' /\ handled \subseteq handled'
               /\ UNCHANGED <<quitting, openConv, view>>
    BY <1>1 DEF HandleInbound, PublishMessage, SendDone, SendFails, Announce
  <1>2. ASSUME NEW connected \in SUBSET Peers, NEW id \in 1..MaxOther, MonitorRound(connected, id)
        PROVE  UNCHANGED <<missed, handled, quitting, openConv, view>>
    BY <1>2 DEF MonitorRound
  <1>3. CASE PublishOther \/ ListenerReceives
    <2>1. /\ missed \subseteq missed' /\ handled \subseteq handled'
          /\ UNCHANGED <<quitting, openConv, view>>
      BY <1>3 DEF PublishOther, ListenerReceives, Announce
    <2> QED
      BY <2>1
  <1>4. ASSUME NEW r \in requests, DoSend(r)
        PROVE  handled \subseteq handled' /\ UNCHANGED <<missed, quitting, openConv, view>>
    BY <1>4 DEF DoSend
  <1>5. CASE ListenerEnds \/ UpdateEvent \/ UpdateLists \/ UpdateListsFails \/ UNCHANGED vars
    <2>1. missed \subseteq missed' /\ UNCHANGED <<handled, quitting, openConv, view>>
      BY <1>5 DEF ListenerEnds, UpdateEvent, UpdateLists, UpdateListsFails, vars
    <2> QED
      BY <2>1
  <1>6. CASE UpdateNewMessage
    <2>1. UNCHANGED <<missed, handled, quitting, openConv>> /\ view \subseteq view'
      BY <1>6 DEF UpdateNewMessage, AppendMessage
    <2> QED
      BY <2>1
  <1>7. CASE OpenSelected \/ OpenSelectedFails
    <2>1. missed \subseteq missed' /\ UNCHANGED <<handled, quitting>>
      BY <1>7 DEF OpenSelected, OpenSelectedFails, KeyPressed
    <2> QED
      BY <1>7, <2>1
  <1>8. CASE KeyFocus \/ KeySidebar \/ KeyType \/ KeySend
    <2>1. UNCHANGED <<missed, handled, quitting, openConv, view>>
      BY <1>8 DEF KeyFocus, KeySidebar, KeyType, KeySend, KeyPressed
    <2> QED
      BY <2>1
  <1>9. CASE Quit
    <2>1. UNCHANGED <<missed, handled>>
      BY <1>9 DEF Quit
    <2> QED
      BY <1>9, <2>1
  <1> QED
    BY <1>1, <1>2, <1>3, <1>4, <1>5, <1>6, <1>7, <1>8, <1>9 DEF Next

\* publish reaches the listener, or the message is missed.
LEMMA AnnounceReaches ==
  ASSUME ListenInv, BusTypeOK, NEW e \in Announced, Announce(e), listening' = listening, updates' = updates
  PROVE  /\ e \in Messages /\ e \notin missed' => OnItsWay(e)'
         /\ \A m \in Messages : OnItsWay(m) => OnItsWay(m)'
  <1>1. Publish(e)
    BY DEF Announce
  <1>2. ASSUME NEW ch \in Chans
        PROVE  /\ ToSet(buf[ch]) \subseteq ToSet(buf'[ch])
               /\ ch \in subs /\ Len(buf[ch]) < SubscriberBuf => e \in ToSet(buf'[ch])
    <2>1. PICK s \in Seq(Announced) : s = buf[ch]
      BY DEF ListenInv
    <2>2. CASE ch \in subs /\ Len(buf[ch]) < SubscriberBuf
      <3>1. buf'[ch] = Append(s, e)
        BY <1>1, <2>1, <2>2 DEF Publish
      <3>2. ToSet(Append(s, e)) = ToSet(s) \cup {e}
        <4> DEFINE t == Append(s, e)
        <4>1. /\ Len(t) = Len(s) + 1 /\ Len(s) \in Nat
              /\ DOMAIN t = 1..(Len(s) + 1) /\ DOMAIN s = 1..Len(s)
              /\ t[Len(s) + 1] = e /\ \A i \in 1..Len(s) : t[i] = s[i]
          OBVIOUS
        <4> HIDE DEF t
        <4> QED
          BY <4>1 DEF ToSet
      <3> QED
        BY <2>1, <3>1, <3>2
    <2>3. CASE ~(ch \in subs /\ Len(buf[ch]) < SubscriberBuf)
      BY <1>1, <2>3 DEF Publish
    <2> QED
      BY <2>2, <2>3
  <1>3. ASSUME e \in Messages, e \notin missed' PROVE OnItsWay(e)'
    <2>1. listening \in subs /\ Len(buf[listening]) < SubscriberBuf
      BY <1>3 DEF Announce
    <2>2. listening \in Chans /\ listening # None
      BY <2>1, ChatUiAssumption DEF BusTypeOK
    <2>3. e \in ToSet(buf'[listening])
      BY <1>2, <2>1, <2>2
    <2> QED
      BY <2>2, <2>3 DEF OnItsWay
  <1>4. ASSUME NEW m \in Messages, OnItsWay(m) PROVE OnItsWay(m)'
    <2>1. CASE listening # None /\ m \in ToSet(buf[listening])
      <3>1. listening \in Chans
        BY <2>1 DEF ListenInv
      <3>2. m \in ToSet(buf'[listening])
        BY <1>2, <2>1, <3>1
      <3> QED
        BY <2>1, <3>2 DEF OnItsWay
    <2>2. CASE {<<"event", m>>, <<"new", m>>} \cap updates # {}
      BY <2>2 DEF OnItsWay
    <2> QED
      BY <1>4, <2>1, <2>2 DEF OnItsWay
  <1> QED
    BY <1>3, <1>4

\* A sequence is its head and its tail.
LEMMA HeadOrTail ==
  ASSUME NEW S, NEW s \in Seq(S), s # <<>>
  PROVE  ToSet(s) = {Head(s)} \cup ToSet(Tail(s))
  <1>1. PICK n \in Nat : n = Len(s)
    OBVIOUS
  <1>2. /\ n > 0 /\ DOMAIN s = 1..n /\ Head(s) = s[1]
        /\ DOMAIN Tail(s) = 1..(n - 1) /\ \A i \in 1..(n - 1) : Tail(s)[i] = s[i + 1]
    BY <1>1
  <1>3. PICK t : t = Tail(s)
    OBVIOUS
  <1>4. ASSUME NEW x \in ToSet(s) PROVE x = s[1] \/ x \in ToSet(t)
    <2>1. PICK i \in 1..n : x = s[i]
      BY <1>2 DEF ToSet
    <2>2. CASE i = 1
      BY <2>1, <2>2
    <2>3. CASE i # 1
      <3>1. i - 1 \in 1..(n - 1) /\ t[i - 1] = s[i]
        BY <2>3, <1>2, <1>3
      <3> QED
        BY <2>1, <3>1, <1>2, <1>3 DEF ToSet
    <2> QED
      BY <2>2, <2>3
  <1>5. ASSUME NEW x \in ToSet(t) PROVE x \in ToSet(s)
    <2>1. PICK i \in 1..(n - 1) : x = t[i]
      BY <1>2, <1>3 DEF ToSet
    <2>2. i + 1 \in 1..n /\ x = s[i + 1]
      BY <2>1, <1>2, <1>3
    <2> QED
      BY <2>2, <1>2 DEF ToSet
  <1>6. s[1] \in ToSet(s)
    BY <1>2 DEF ToSet
  <1> QED
    BY <1>2, <1>3, <1>4, <1>5, <1>6

\* Update has handled the message: the lists are to be read again, and the
\* message is shown if its conversation is open.
Handled(m) == <<"refresh", m>> \in updates' /\ (m.conv = openConv => m \in view')

\* A message on its way stays there until Update has handled it, or it is missed.
LEMMA WayStep ==
  ASSUME BusTypeOK, AnnounceInv, ListenInv, [Next]_vars, ~Quit,
         NEW m \in Messages, OnItsWay(m), m \notin missed'
  PROVE  OnItsWay(m)' \/ Handled(m)
  <1> USE DEF busVars, serviceVars, uiVars
  <1>1. ASSUME NEW x \in Messages, PublishMessage(x) \/ SendDone(x) PROVE OnItsWay(m)'
    <2>1. Announce(x) /\ UNCHANGED <<listening, updates>>
      BY <1>1 DEF PublishMessage, SendDone
    <2> QED
      BY <2>1, AnnounceReaches DEF Announced
  <1>2. CASE PublishOther
    <2>1. Announce(Head(announcing)) /\ UNCHANGED <<listening, updates>> /\ Head(announcing) \in OtherEvents
      BY <1>2 DEF PublishOther, AnnounceInv
    <2> QED
      BY <2>1, AnnounceReaches DEF Announced
  <1>3. ASSUME NEW x \in Messages, HandleInbound(x) \/ SendFails(x) PROVE OnItsWay(m)'
    BY <1>3 DEF HandleInbound, SendFails, OnItsWay
  <1>4. ASSUME \/ \E connected \in SUBSET Peers, id \in 1..MaxOther : MonitorRound(connected, id)
               \/ \E r \in requests : DoSend(r)
               \/ OpenSelected \/ OpenSelectedFails
               \/ KeyFocus \/ KeySidebar \/ KeyType \/ KeySend \/ UNCHANGED vars
        PROVE  OnItsWay(m)'
    <2>1. UNCHANGED <<listening, updates, buf>>
      BY <1>4 DEF MonitorRound, DoSend, OpenSelected, OpenSelectedFails, KeyFocus, KeySidebar, KeyType, KeySend, KeyPressed, vars
    <2> QED
      BY <2>1 DEF OnItsWay
  <1>5. CASE ListenerReceives
    <2>1. /\ Receive(listening) /\ listening # None
          /\ updates' = updates \cup {<<"event", Head(buf[listening])>>}
          /\ missed' = missed \cup (ToSet(Tail(buf[listening])) \cap Messages)
      BY <1>5 DEF ListenerReceives
    <2>2. CASE m \in ToSet(buf[listening])
      <3>1. PICK q \in Seq(Announced) : q = buf[listening]
        BY <2>1 DEF ListenInv
      <3>2. q # <<>>
        BY <2>1, <3>1 DEF Receive
      <3>3. m = Head(q) \/ m \in ToSet(Tail(q))
        BY <2>2, <3>1, <3>2, HeadOrTail
      <3>4. m = Head(q)
        BY <2>1, <3>1, <3>3
      <3> QED
        BY <2>1, <3>1, <3>4 DEF OnItsWay
    <2>3. CASE {<<"event", m>>, <<"new", m>>} \cap updates # {}
      BY <2>1, <2>3 DEF OnItsWay
    <2> QED
      BY <2>2, <2>3 DEF OnItsWay
  <1>6. CASE ListenerEnds
    <2>1. buf[listening] = <<>> /\ updates' = updates
      BY <1>6 DEF ListenerEnds
    <2>2. m \notin ToSet(<<>>)
      BY DEF ToSet
    <2> QED
      BY <2>1, <2>2 DEF OnItsWay
  <1>7. CASE UpdateEvent
    <2>1. PICK u \in updates : u[1] = "event" /\ updates' = (updates \ {u}) \cup Command(u[2])
      BY <1>7 DEF UpdateEvent
    <2>2. listening = None /\ u = <<"event", u[2]>> /\ u[2] \in Announced
      BY <2>1 DEF ListenInv
    <2>3. <<"event", m>> \in updates \/ <<"new", m>> \in updates
      BY <2>2 DEF OnItsWay
    <2>4. CASE u[2] = m
      <3>1. <<"new", m>> \in updates'
        BY <2>1, <2>2, <2>4, CommandOf
      <3> QED
        BY <3>1 DEF OnItsWay
    <2>5. CASE u[2] # m
      <3>1. u # <<"event", m>> /\ u # <<"new", m>>
        BY <2>1, <2>5
      <3> QED
        BY <2>1, <2>3, <3>1 DEF OnItsWay
    <2> QED
      BY <2>4, <2>5
  <1>8. CASE UpdateNewMessage
    <2>1. PICK u \in updates :
            /\ u[1] = "new" /\ updates' = (updates \ {u}) \cup {<<"refresh", u[2]>>}
            /\ IF u[2].conv = openConv THEN view' = view \cup {u[2]} ELSE view' = view
      BY <1>8 DEF UpdateNewMessage, AppendMessage
    <2>2. UNCHANGED <<listening, buf>>
      BY <1>8 DEF UpdateNewMessage
    <2>3. CASE u = <<"new", m>>
      BY <2>1, <2>3 DEF Handled
    <2>4. CASE u # <<"new", m>>
      <3>1. u # <<"event", m>>
        BY <2>1
      <3> QED
        BY <2>1, <2>2, <2>4, <3>1 DEF OnItsWay
    <2> QED
      BY <2>3, <2>4
  <1>9. CASE UpdateLists \/ UpdateListsFails
    <2>1. PICK u \in updates : updates' = updates \ {u} /\ (u[1] = "refresh" \/ u[1] = "peers")
      BY <1>9 DEF UpdateLists, UpdateListsFails
    <2>2. UNCHANGED <<listening, buf>> /\ u # <<"event", m>> /\ u # <<"new", m>>
      BY <1>9, <2>1 DEF UpdateLists, UpdateListsFails
    <2> QED
      BY <2>1, <2>2 DEF OnItsWay
  <1> QED
    BY <1>1, <1>2, <1>3, <1>4, <1>5, <1>6, <1>7, <1>8, <1>9 DEF Next
\* A message that a step announces is on its way, or missed.
LEMMA NewOnItsWay ==
  ASSUME BusTypeOK, AnnounceInv, ListenInv, [Next]_vars,
         NEW m \in Messages, m \in emitted', m \notin emitted, m \notin missed'
  PROVE  OnItsWay(m)'
  <1> USE DEF serviceVars, uiVars
  <1>1. ASSUME NEW x \in Messages, PublishMessage(x) \/ SendDone(x) PROVE OnItsWay(m)'
    <2>1. Announce(x) /\ UNCHANGED <<listening, updates>> /\ emitted' = emitted \cup {x}
      BY <1>1 DEF PublishMessage, SendDone, Announce
    <2> QED
      BY <2>1, AnnounceReaches DEF Announced
  <1>2. CASE PublishOther
    <2>1. /\ Announce(Head(announcing)) /\ UNCHANGED <<listening, updates>>
          /\ Head(announcing) \in Announced /\ emitted' = emitted \cup {Head(announcing)}
      BY <1>2 DEF PublishOther, AnnounceInv, Announce, Announced
    <2> QED
      BY <2>1, AnnounceReaches
  <1>3. ASSUME NEW x \in Messages, HandleInbound(x) \/ SendFails(x) PROVE FALSE
    BY <1>3 DEF HandleInbound, SendFails
  <1>4. ASSUME \/ \E connected \in SUBSET Peers, id \in 1..MaxOther : MonitorRound(connected, id)
               \/ \E r \in requests : DoSend(r)
               \/ OpenSelected \/ OpenSelectedFails
               \/ KeyFocus \/ KeySidebar \/ KeyType \/ KeySend \/ UNCHANGED vars
        PROVE  FALSE
    BY <1>4 DEF MonitorRound, DoSend, OpenSelected, OpenSelectedFails, KeyFocus, KeySidebar, KeyType, KeySend, KeyPressed, vars
  <1>5. ASSUME \/ ListenerReceives \/ ListenerEnds \/ UpdateEvent \/ UpdateNewMessage
               \/ UpdateLists \/ UpdateListsFails \/ Quit
        PROVE  FALSE
    BY <1>5 DEF ListenerReceives, ListenerEnds, UpdateEvent, UpdateNewMessage, UpdateLists, UpdateListsFails, Quit
  <1> QED
    BY <1>1, <1>2, <1>3, <1>4, <1>5 DEF Next

\* What the theorems below rest on.
UiInv == BusInv /\ AnnounceInv /\ ListInv /\ StoreInv /\ ListenInv

LEMMA InitUiInv == Init => UiInv
  <1> SUFFICES ASSUME Init PROVE UiInv
    OBVIOUS
  <1>1. StoreInv
    BY FS_EmptySet DEF Init, StoreInv
  <1> QED
    BY <1>1, InitUiBus, InitListInv, InitListenInv DEF UiInv

LEMMA UiInvStep == UiInv /\ [Next]_vars => UiInv'
  <1>1. BusInv => BusTypeOK
    BY DEF BusInv
  <1> QED
    BY <1>1, UiStepsOnBus, NextBusInv, ListStep, StoreStep, ListenStep DEF UiInv

----------------------------------------------------------------------------
(* What the user sees.                                                     *)

LEMMA PagesAreRows ==
  ASSUME NEW conv, NEW limit, NEW page \in GetMessages(conv, limit)
  PROVE  page \subseteq Rows(conv)
  BY DEF GetMessages

LEMMA ViewStep == ViewIsOpenConversation /\ [Next]_vars => ViewIsOpenConversation'
  <1> SUFFICES ASSUME ViewIsOpenConversation, [Next]_vars PROVE ViewIsOpenConversation'
    OBVIOUS
  <1> USE DEF uiVars, keyVars, chatVars
  <1>1. CASE OpenSelected \/ OpenSelectedFails
    <2>1. \/ \E conv : openConv' = conv /\ view' \in GetMessages(conv, HistoryLimit)
          \/ view' = {}
      BY <1>1 DEF OpenSelected, OpenSelectedFails, LoadConversation
    <2>2. \A m \in view' : m.row = openConv'
      BY <2>1, PagesAreRows DEF Rows
    <2> QED
      BY <2>2 DEF ViewIsOpenConversation
  <1>2. CASE UpdateNewMessage
    BY <1>2 DEF UpdateNewMessage, AppendMessage, ViewIsOpenConversation
  <1>3. CASE Quit
    BY <1>3 DEF Quit, ViewIsOpenConversation
  <1>4. ASSUME UNCHANGED <<openConv, view>> PROVE ViewIsOpenConversation'
    BY <1>4 DEF ViewIsOpenConversation
  <1>5. ASSUME NEW m \in Messages, HandleInbound(m) \/ PublishMessage(m) \/ SendDone(m) \/ SendFails(m)
        PROVE  UNCHANGED <<openConv, view>>
    BY <1>5 DEF HandleInbound, PublishMessage, SendDone, SendFails
  <1>6. ASSUME \/ \E connected \in SUBSET Peers, id \in 1..MaxOther : MonitorRound(connected, id)
               \/ PublishOther \/ (\E r \in requests : DoSend(r)) \/ ListenerReceives \/ ListenerEnds
        PROVE  UNCHANGED <<openConv, view>>
    BY <1>6 DEF MonitorRound, PublishOther, DoSend, ListenerReceives, ListenerEnds
  <1>7. ASSUME \/ UpdateEvent \/ UpdateLists \/ UpdateListsFails
               \/ KeyFocus \/ KeySidebar \/ KeyType \/ KeySend \/ UNCHANGED vars
        PROVE  UNCHANGED <<openConv, view>>
    BY <1>7 DEF UpdateEvent, UpdateLists, UpdateListsFails, KeyFocus, KeySidebar, KeyType, KeySend, vars
  <1> QED
    BY <1>1, <1>2, <1>3, <1>4, <1>5, <1>6, <1>7 DEF Next

\* The view shows messages of the open conversation and of no other, in whatever
\* order conversations are opened and events come back.
THEOREM ViewAlwaysOfOpenConversation == Spec => []ViewIsOpenConversation
  <1>1. Init => ViewIsOpenConversation
    BY DEF Init, ViewIsOpenConversation
  <1> QED
    BY <1>1, ViewStep, PTL DEF Spec

\* openSelected shows every row of a conversation that is not longer than what it loads.
LEMMA OpenShowsAll ==
  ASSUME OpenSelected, NEW m \in handled, m.row = openConv',
         Cardinality(Rows(m.row)) <= HistoryLimit
  PROVE  m \in view'
  <1>1. PICK conv : openConv' = conv /\ view' \in GetMessages(conv, HistoryLimit)
    BY DEF OpenSelected, LoadConversation
  <1>2. view' = Rows(conv)
    BY <1>1 DEF GetMessages
  <1> QED
    BY <1>1, <1>2 DEF Rows

LEMMA OverlookStep == UiInv /\ NothingOverlooked /\ [Next]_vars => NothingOverlooked'
  <1> SUFFICES ASSUME UiInv, NothingOverlooked, [Next]_vars,
                      NEW m \in (emitted' \cap Messages) \ missed',
                      m.conv = openConv', m.row = openConv', ~quitting',
                      Cardinality(Rows(m.row)') <= HistoryLimit
               PROVE  m \in view' \/ OnItsWay(m)'
    BY DEF NothingOverlooked
  <1>1. BusTypeOK /\ AnnounceInv /\ ListenInv /\ StoreInv
    BY DEF UiInv, BusInv
  <1>2. CASE m \notin emitted
    BY <1>1, <1>2, NewOnItsWay
  <1>3. CASE m \in emitted
    <2>1. ~Quit
      BY DEF Quit
    <2>2. missed \subseteq missed' /\ handled \subseteq handled' /\ quitting' = quitting
      BY <2>1, StepKeeps
    <2>3. m \in handled /\ m \notin missed
      BY <1>1, <1>3, <2>2 DEF StoreInv
    <2>4. Cardinality(Rows(m.row)) <= HistoryLimit
      <3>1. Rows(m.row) \subseteq Rows(m.row)'
        BY <2>2 DEF Rows
      <3>2. IsFiniteSet(Rows(m.row)')
        <4>1. IsFiniteSet(handled')
          BY <1>1, UiInvStep DEF UiInv, StoreInv
        <4> QED
          BY <4>1, FS_Subset DEF Rows
      <3>3. PICK M : M = Rows(m.row)'
        OBVIOUS
      <3>4. /\ Cardinality(Rows(m.row)) \in Nat /\ Cardinality(M) \in Nat
            /\ Cardinality(Rows(m.row)) <= Cardinality(M)
        BY <3>1, <3>2, <3>3, FS_Subset, FS_CardinalityType
      <3> QED
        BY <3>3, <3>4, ChatUiAssumption
    <2>5. CASE OpenSelected
      BY <2>3, <2>4, <2>5, OpenShowsAll
    <2>7. CASE OpenSelectedFails
      <3>1. PICK conv : openConv' = conv /\ missed' = missed \cup (Rows(conv) \cap emitted)
        BY <2>7 DEF OpenSelectedFails, LoadConversation
      <3>2. m \in Rows(conv)
        BY <2>3, <3>1 DEF Rows
      <3> QED
        BY <1>3, <3>1, <3>2
    <2>6. CASE ~OpenSelected /\ ~OpenSelectedFails
      <3>1. openConv' = openConv /\ view \subseteq view'
        BY <2>1, <2>6, StepKeeps
      <3>2. m \in view \/ OnItsWay(m)
        BY <1>3, <2>2, <2>3, <2>4, <3>1 DEF NothingOverlooked
      <3>3. CASE m \in view
        BY <3>1, <3>3
      <3>4. CASE OnItsWay(m)
        BY <1>1, <2>1, <3>1, <3>4, WayStep DEF Handled
      <3> QED
        BY <3>2, <3>3, <3>4
    <2> QED
      BY <2>5, <2>6, <2>7
  <1> QED
    BY <1>2, <1>3

\* A message announced for the open conversation and stored in it, that met a
\* listener, is shown or on its way to the view, however its event races the user
\* who opens, leaves and opens the conversation again, and although inserts and
\* reads may fail: for any number of peers, messages and channels.
THEOREM NothingIsOverlooked == Spec => []NothingOverlooked
  <1>1. Init => NothingOverlooked
    BY DEF Init, NothingOverlooked
  <1> QED
    BY <1>1, InitUiInv, UiInvStep, OverlookStep, PTL DEF Spec

\* A list that is read again shows whoever is in the peers table.
LEMMA ListedStep ==
  ASSUME ListInv, StoreInv, [Next]_vars, ~Quit, NEW m \in handled, m \in Messages, m.peer # None, m \notin missed'
  PROVE  /\ m.peer \in list.conversations => m.peer \in list'.conversations
         /\ <<"refresh", m>> \in updates =>
              <<"refresh", m>> \in updates' \/ m.peer \in list'.conversations
  <1> USE DEF uiVars, keyVars, sidebarVars
  <1>1. m.peer \in ListConversations(known)
    BY DEF ListInv, StoreInv, ListConversations, ListPeers
  <1>2. CASE UpdateLists
    <2>1. PICK u \in updates : /\ updates' = updates \ {u}
                               /\ \/ u[1] = "refresh" /\ SetConversations(known)
                                  \/ u[1] = "peers" /\ SetList("peers", ListPeers(known))
      BY <1>2 DEF UpdateLists
    <2>2. CASE u[1] = "refresh" /\ SetConversations(known)
      <3>1. list'.conversations = ListConversations(known)
        BY <2>2 DEF SetConversations, ListInv
      <3> QED
        BY <1>1, <3>1
    <2>3. CASE u[1] = "peers" /\ SetList("peers", ListPeers(known))
      <3>1. list'.conversations = list.conversations
        BY <2>3 DEF SetList, ListInv
      <3>2. u # <<"refresh", m>>
        BY <2>3
      <3> QED
        BY <2>1, <3>1, <3>2
    <2> QED
      BY <2>1, <2>2, <2>3
  <1>8. CASE UpdateListsFails
    <2>1. PICK u \in updates : /\ updates' = updates \ {u}
                               /\ missed' = missed \cup ({u[2]} \cap Messages)
                               /\ \/ SetList("groups", ListGroups)
                                  \/ UNCHANGED sidebarVars
      BY <1>8 DEF UpdateListsFails
    <2>2. list'.conversations = list.conversations
      BY <2>1 DEF SetList, ListInv
    <2>3. u # <<"refresh", m>>
      BY <2>1
    <2> QED
      BY <2>1, <2>2, <2>3
  <1>3. ASSUME list' = list, \A u \in updates : u[1] = "refresh" => u \in updates'
        PROVE  /\ m.peer \in list.conversations => m.peer \in list'.conversations
               /\ <<"refresh", m>> \in updates => <<"refresh", m>> \in updates'
    BY <1>3
  <1>4. ASSUME NEW x \in Messages, HandleInbound(x) \/ PublishMessage(x) \/ SendDone(x) \/ SendFails(x)
        PROVE  UNCHANGED <<list, updates>>
    BY <1>4 DEF HandleInbound, PublishMessage, SendDone, SendFails
  <1>5. ASSUME \/ \E connected \in SUBSET Peers, id \in 1..MaxOther : MonitorRound(connected, id)
               \/ PublishOther \/ (\E r \in requests : DoSend(r)) \/ ListenerEnds
        PROVE  UNCHANGED <<list, updates>>
    BY <1>5 DEF MonitorRound, PublishOther, DoSend, ListenerEnds
  <1>6. ASSUME ListenerReceives \/ UpdateEvent \/ UpdateNewMessage
        PROVE  list' = list /\ \A u \in updates : u[1] = "refresh" => u \in updates'
    BY <1>6 DEF ListenerReceives, UpdateEvent, UpdateNewMessage
  <1>7. ASSUME OpenSelected \/ OpenSelectedFails \/ KeyFocus \/ KeySidebar \/ KeyType \/ KeySend \/ UNCHANGED vars
        PROVE  UNCHANGED <<list, updates>>
    BY <1>7 DEF OpenSelected, OpenSelectedFails, KeyFocus, KeySidebar, KeyTab, KeyMove, KeyType, KeySend, KeyPressed, vars
  <1> QED
    BY <1>2, <1>3, <1>4, <1>5, <1>6, <1>7, <1>8 DEF Next

LEMMA SendersStep == UiInv /\ SendersAreListed /\ [Next]_vars => SendersAreListed'
  <1> SUFFICES ASSUME UiInv, SendersAreListed, [Next]_vars,
                      NEW m \in (emitted' \cap Messages) \ missed', ~quitting', m.peer # None
               PROVE  \/ m.peer \in list'.conversations
                      \/ OnItsWay(m)' \/ <<"refresh", m>> \in updates'
    BY DEF SendersAreListed
  <1>1. BusTypeOK /\ AnnounceInv /\ ListenInv /\ StoreInv /\ ListInv
    BY DEF UiInv, BusInv
  <1>2. CASE m \notin emitted
    BY <1>1, <1>2, NewOnItsWay
  <1>3. CASE m \in emitted
    <2>1. ~Quit
      BY DEF Quit
    <2>2. missed \subseteq missed' /\ quitting' = quitting
      BY <2>1, StepKeeps
    <2>3. m \in handled /\ m \notin missed
      BY <1>1, <1>3, <2>2 DEF StoreInv
    <2>4. m.peer \in list.conversations \/ OnItsWay(m) \/ <<"refresh", m>> \in updates
      BY <1>3, <2>2, <2>3 DEF SendersAreListed
    <2>5. CASE OnItsWay(m)
      BY <1>1, <2>1, <2>5, WayStep DEF Handled
    <2>6. CASE m.peer \in list.conversations \/ <<"refresh", m>> \in updates
      BY <1>1, <2>1, <2>3, <2>6, ListedStep
    <2> QED
      BY <2>4, <2>5, <2>6
  <1> QED
    BY <1>2, <1>3

\* Whoever wrote to the user and got into the peers table, in an event that met a
\* listener, is listed or about to be: no reading of the lists that races the
\* message leaves its sender out, whatever group the message names.
THEOREM SendersAlwaysListed == Spec => []SendersAreListed
  <1>1. Init => SendersAreListed
    BY DEF Init, SendersAreListed
  <1> QED
    BY <1>1, InitUiInv, UiInvStep, SendersStep, PTL DEF Spec
=============================================================================
