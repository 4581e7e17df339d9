------------------------------- MODULE ChatUi -------------------------------
(***************************************************************************)
(* The Bubble Tea application: a subscriber of the event bus with a        *)
(* sidebar and a chat view.                                                *)
(*                                                                         *)
(* Update runs on one goroutine; a command (tea.Cmd) runs on its own and   *)
(* its result comes back to Update as a message, in any order.  Inbound    *)
(* messages are stored and then published, each by the goroutine of its    *)
(* stream.  listenEvents subscribes anew every time it is called and never *)
(* unsubscribes.                                                           *)
(***************************************************************************)
EXTENDS EventBus, Sidebar

CONSTANTS MaxMessages,   \* bound: messages
          MaxOther,      \* bound: rounds of monitorPeers that see a change
          MaxActivity,   \* bound: such rounds and messages, together
          MaxTexts,      \* bound: texts that the user types
          MaxFaults,     \* bound: statements that fail and rows that are elsewhere
          HistoryLimit,  \* messages that openSelected loads
          NoText,        \* the input line is empty
          Unknown,       \* a group that the process does not know
          None

\* A message: the conversation that its event names; the one in which its row is
\* found, or None if the insert failed, was a duplicate or claims a sender or a
\* recipient of no conversation; and the sender whose peer row was written, or
\* None if that failed or the user is the sender.
Messages == [kind : {"message"}, conv : Convs \cup {Unknown}, row : Convs \cup {None},
             peer : Peers \cup {None}, id : 1..MaxMessages]
OtherEvents == [kind : {"status", "peers"}, conv : {None}, id : 1..MaxOther]
NoEvent == [kind |-> "none", conv |-> None, id |-> 0]

ASSUME ChatUiAssumption ==
    /\ Messages \cup OtherEvents \subseteq Events
    /\ MaxSubs > 0 /\ {MaxMessages, MaxTexts, MaxFaults, HistoryLimit} \subseteq Nat
    /\ None \notin Chans \cup Convs /\ Unknown \notin Convs \cup {None}
    /\ NoText \notin Convs \cup {None}

VARIABLES handled,     \* messages that the service has taken up, stored or not
          known,       \* the peers in the store
          publishing,  \* received messages not yet published
          sending,     \* messages of the user not yet sent
          announcing,  \* events that monitorPeers has still to publish
          count,       \* lastCount of monitorPeers
          emitted,     \* events that were published
          missed,      \* history: messages published that no listener will get, or
                       \* that a failed read of the store has left out
          faults,      \* failed statements and odd rows so far
          listening,   \* the channel that the listener command waits on, or None
          updates,     \* tea messages on their way to Update: <<type, event>>
          requests,    \* send requests on their way: [text, typed, conv]
          openConv,    \* chatView.conversationID, or None
          view,        \* the messages in chatView.messages
          input,       \* the input line: the conversation its text was typed in, or NoText
          texts,       \* texts typed so far
          focus,       \* the panel that gets the keys
          quitting     \* the program has ended

serviceVars == <<handled, known, publishing, sending, announcing, count, emitted, missed, faults>>
chatVars == <<openConv, view, input, texts>>
keyVars == <<chatVars, sidebarVars, focus>>
uiVars == <<listening, updates, requests, keyVars, quitting>>
vars == <<busVars, serviceVars, uiVars>>

TypeOK ==
    /\ BusTypeOK /\ SidebarTypeOK
    /\ handled \subseteq Messages /\ known \subseteq Peers
    /\ publishing \subseteq Messages /\ sending \subseteq Messages
    /\ announcing \in Seq(OtherEvents) /\ count \in 0..Cardinality(Peers)
    /\ emitted \subseteq Messages \cup OtherEvents /\ missed \subseteq emitted
    /\ faults \in 0..MaxFaults
    /\ listening \in Chans \cup {None}
    /\ updates \subseteq {"event", "new", "refresh", "peers"}
                           \X (Messages \cup OtherEvents \cup {NoEvent})
    /\ requests \subseteq [text : 1..MaxTexts, typed : Convs \cup {None}, conv : Convs \cup {None}]
    /\ openConv \in Convs \cup {None}
    /\ view \subseteq Messages
    /\ input \in Convs \cup {None, NoText} /\ texts \in 0..MaxTexts
    /\ focus \in {"sidebar", "chat"} /\ quitting \in BOOLEAN

\* A channel that make returns: any that was not made before, so one of them will do.
FreshChan(used) == IF Chans \subseteq used THEN {} ELSE {CHOOSE ch \in Chans : ch \notin used}

\* AppModel.Init has subscribed: the listener waits on the first channel, and
\* refreshAll has asked for both lists.
Init ==
    /\ \E ch \in FreshChan({}) :
        /\ made = {ch} /\ subs = {ch} /\ listening = ch
    /\ closed = {} /\ svcDown = FALSE
    /\ buf = [ch \in Chans |-> <<>>]
    /\ SidebarInit
    /\ handled = {} /\ known = {} /\ publishing = {} /\ sending = {}
    /\ announcing = <<>> /\ count = 0 /\ emitted = {} /\ missed = {} /\ faults = 0
    /\ updates = {<<"refresh", NoEvent>>, <<"peers", NoEvent>>} /\ requests = {}
    /\ openConv = None /\ view = {} /\ input = NoText /\ texts = 0
    /\ focus = "sidebar" /\ quitting = FALSE

----------------------------------------------------------------------------
(* The service side.                                                       *)

\* The rows of a conversation, as GetMessages finds them.
Rows(conv) == {m \in handled : m.row = conv}
IsNew(m) == m.id = Cardinality(handled) + 1

Activity ==
    Cardinality(handled) + Cardinality({e.id : e \in (emitted \cap OtherEvents) \cup ToSet(announcing)})

Fails(n) == faults + n <= MaxFaults /\ faults' = faults + n
Failure(ok) == IF ok THEN 0 ELSE 1

\* handleInbound, first half: UpsertPeer for the authenticated sender, and
\* InsertMessage of the message as it claims to be.  A failure of either is
\* logged, and the message published all the same.  A direct message is of the
\* conversation with its sender and its row of the one it claims; a group message
\* is of whatever group it names.
HandleInbound(m) ==
    /\ IsNew(m) /\ Activity < MaxActivity
    /\ Fails(Failure(m.row = m.conv) + Failure(m.peer # None))
    /\ \/ m.conv \in Peers /\ m.row \in Peers \cup {None} /\ m.peer \in {m.conv, None}
       \/ m.row \in ({m.conv} \cap Groups) \cup {None}
    /\ known' = known \cup ({m.peer} \cap Peers)
    /\ handled' = handled \cup {m}
    /\ publishing' = publishing \cup {m}
    /\ UNCHANGED <<busVars, sending, announcing, count, emitted, missed, uiVars>>

\* An event nobody will hand to Update: no listener waits, or its buffer is full.
Announce(e) ==
    /\ Publish(e)
    /\ emitted' = emitted \cup {e}
    /\ missed' = IF listening \in subs /\ Len(buf[listening]) < SubscriberBuf
                     THEN missed ELSE missed \cup ({e} \cap Messages)

\* handleInbound, second half: publish(EventNewMessage).
PublishMessage(m) ==
    /\ m \in publishing
    /\ Announce(m)
    /\ publishing' = publishing \ {m}
    /\ UNCHANGED <<handled, known, sending, announcing, count, faults, uiVars>>

\* A round of monitorPeers: the connected peers are stored, those whose upsert
\* does not fail, and what changed is announced, the status first.
MonitorRound(connected, id) ==
    LET n == Cardinality(connected)
        status == [kind |-> "status", conv |-> None, id |-> id]
        peers == [kind |-> "peers", conv |-> None, id |-> id] IN
    /\ ~svcDown /\ announcing = <<>>
    /\ {status, peers} \cap emitted = {} /\ (n # count => Activity < MaxActivity)
    /\ \E upserted \in SUBSET connected :
        known' = known \cup upserted /\ Fails(Failure(upserted = connected))
    /\ count' = n
    /\ announcing' = (IF (n > 0) # (count > 0) THEN <<status>> ELSE <<>>)
                     \o (IF n # count THEN <<peers>> ELSE <<>>)
    /\ UNCHANGED <<busVars, handled, publishing, sending, emitted, missed, uiVars>>

PublishOther ==
    /\ announcing # <<>>
    /\ Announce(Head(announcing))
    /\ announcing' = Tail(announcing)
    /\ UNCHANGED <<handled, known, publishing, sending, count, faults, uiVars>>

\* The command of doSend: InsertMessage, whose failure is logged, and the sending
\* begins.  SendGroup may refuse (the user is not a member).
DoSend(r) ==
    /\ r \in requests
    /\ requests' = requests \ {r}
    /\ \/ \E m \in Messages :
            /\ m.conv = r.conv /\ m.row \in {r.conv, None} /\ m.peer = None
            /\ Fails(Failure(m.row = m.conv))
            /\ IsNew(m) /\ Activity < MaxActivity
            /\ handled' = handled \cup {m} /\ sending' = sending \cup {m}
       \/ r.conv \in Groups \cup {None} /\ UNCHANGED <<handled, sending, faults>>
    /\ UNCHANGED <<busVars, known, publishing, announcing, count, emitted, missed,
                   listening, updates, keyVars, quitting>>

SendDone(m) ==
    /\ m \in sending
    /\ Announce(m)
    /\ sending' = sending \ {m}
    /\ UNCHANGED <<handled, known, publishing, announcing, count, faults, uiVars>>

\* SendDirect returns an error before it publishes; the status bar shows it.
SendFails(m) ==
    /\ m \in sending /\ m.conv \in Peers
    /\ sending' = sending \ {m}
    /\ UNCHANGED <<busVars, handled, known, publishing, announcing, count, emitted, missed, faults, uiVars>>

----------------------------------------------------------------------------
(* The messages that Update handles.                                       *)

\* The command of listenEvents: one event becomes an eventChannelMsg, and what
\* else is in the channel is never read.
ListenerReceives ==
    /\ listening # None
    /\ Receive(listening)
    /\ updates' = updates \cup {<<"event", Head(buf[listening])>>}
    /\ missed' = missed \cup (ToSet(Tail(buf[listening])) \cap Messages)
    /\ listening' = None
    /\ UNCHANGED <<handled, known, publishing, sending, announcing, count, emitted, faults,
                   requests, keyVars, quitting>>

\* The channel is closed: the command returns nil.
ListenerEnds ==
    /\ listening # None
    /\ listening \in closed /\ buf[listening] = <<>>
    /\ listening' = None
    /\ UNCHANGED <<busVars, serviceVars, updates, requests, keyVars, quitting>>

\* handleServiceEvent: the command for an event.
Command(e) ==
    CASE e.kind = "message" -> {<<"new", e>>}
      [] e.kind = "peers"   -> {<<"peers", e>>}
      [] e.kind = "status"  -> {}

\* Update, case eventChannelMsg: a command for the event and listenEvents again.
UpdateEvent ==
    /\ ~quitting
    /\ \E u \in updates :
        /\ u[1] = "event"
        /\ updates' = (updates \ {u}) \cup Command(u[2])
    /\ \E ch \in FreshChan(made) : Subscribe(ch) /\ listening' = ch
    /\ UNCHANGED <<serviceVars, requests, keyVars, quitting>>

AppendMessage(m) == view' = view \cup {m}

\* Update, case MsgNewMessage: the lists are to be read again, and the message
\* is shown if its conversation is open.
UpdateNewMessageNoRefresh ==
    /\ ~quitting
    /\ \E u \in updates :
        /\ u[1] = "new"
        /\ updates' = updates \ {u}
        /\ IF u[2].conv = openConv THEN AppendMessage(u[2]) ELSE UNCHANGED view
    /\ UNCHANGED <<busVars, serviceVars, listening, requests, openConv, input, texts,
                   sidebarVars, focus, quitting>>
UpdateNewMessageAnyConv ==
    /\ ~quitting
    /\ \E u \in updates :
        /\ u[1] = "new"
        /\ updates' = (updates \ {u}) \cup {<<"refresh", u[2]>>}
        /\ IF openConv # None THEN AppendMessage(u[2]) ELSE UNCHANGED view
    /\ UNCHANGED <<busVars, serviceVars, listening, requests, openConv, input, texts,
                   sidebarVars, focus, quitting>>
UpdateNewMessageFocused ==
    /\ ~quitting
    /\ \E u \in updates :
        /\ u[1] = "new"
        /\ updates' = (updates \ {u}) \cup {<<"refresh", u[2]>>}
        /\ IF u[2].conv = openConv /\ focus = "chat" THEN AppendMessage(u[2]) ELSE UNCHANGED view
    /\ UNCHANGED <<busVars, serviceVars, listening, requests, openConv, input, texts,
                   sidebarVars, focus, quitting>>
UpdateNewMessage ==
    /\ ~quitting
    /\ \E u \in updates :
        /\ u[1] = "new"
        /\ updates' = (updates \ {u}) \cup {<<"refresh", u[2]>>}
        /\ IF u[2].conv = openConv THEN AppendMessage(u[2]) ELSE UNCHANGED view
    /\ UNCHANGED <<busVars, serviceVars, listening, requests, openConv, input, texts,
                   sidebarVars, focus, quitting>>

\* Update, cases MsgConversationsUpdated and MsgPeersUpdated.
UpdateLists ==
    /\ ~quitting
    /\ \E u \in updates :
        /\ updates' = updates \ {u}
        /\ \/ u[1] = "refresh" /\ SetConversations(known)
           \/ u[1] = "peers" /\ SetList("peers", ListPeers(known))
    /\ UNCHANGED <<busVars, serviceVars, listening, requests, chatVars, focus, quitting>>

\* The same when the store cannot be read: the list stays as it is, but for the
\* groups, which are in memory.
UpdateListsFails ==
    /\ ~quitting
    /\ \E u \in updates :
        /\ updates' = updates \ {u}
        /\ \/ u[1] = "refresh" /\ SetList("groups", ListGroups)
           \/ u[1] = "peers" /\ UNCHANGED sidebarVars
        /\ missed' = missed \cup ({u[2]} \cap Messages)
    /\ Fails(1)
    /\ UNCHANGED <<busVars, handled, known, publishing, sending, announcing, count, emitted,
                   listening, requests, chatVars, focus, quitting>>

----------------------------------------------------------------------------
(* The keys.                                                               *)

\* While the help is shown Update takes no key but those that close it or quit:
\* it is a user who presses no other key.
KeyPressed == ~quitting /\ UNCHANGED <<busVars, serviceVars, listening, updates, quitting>>

LoadKeepsInput(conv, messages) == openConv' = conv /\ view' = messages /\ UNCHANGED input
LoadConversation(conv, messages) == openConv' = conv /\ view' = messages /\ input' = NoText

\* What GetMessages may answer: `limit` rows at most, the ones with the oldest
\* timestamps, which their senders chose.
GetMessages(conv, limit) ==
    IF Cardinality(Rows(conv)) <= limit THEN {Rows(conv)}
    ELSE {page \in SUBSET Rows(conv) : Cardinality(page) = limit}

\* enter in the sidebar.
OpenSelected ==
    /\ KeyPressed
    /\ focus = "sidebar"
    /\ \E conv \in Selected : \E page \in GetMessages(conv, HistoryLimit) : LoadConversation(conv, page)
    /\ focus' = "chat"
    /\ UNCHANGED <<requests, texts, sidebarVars>>

\* The same when GetMessages fails: logged, and the view opens empty.
OpenSelectedFails ==
    /\ ~quitting
    /\ focus = "sidebar"
    /\ \E conv \in Selected :
        /\ LoadConversation(conv, {})
        /\ missed' = missed \cup (Rows(conv) \cap emitted)
    /\ Fails(1)
    /\ focus' = "chat"
    /\ UNCHANGED <<busVars, handled, known, publishing, sending, announcing, count, emitted,
                   listening, updates, requests, texts, sidebarVars, quitting>>

\* right and l, left and h: not characters of a text.
KeyFocus ==
    /\ KeyPressed
    /\ focus' = IF focus = "chat" THEN "sidebar" ELSE "chat"
    /\ UNCHANGED <<requests, chatVars, sidebarVars>>

KeySidebar ==
    /\ KeyPressed
    /\ focus = "sidebar"
    /\ KeyTab \/ KeyMove
    /\ UNCHANGED <<requests, chatVars, focus>>

\* A character for the input line, which takes it also while no conversation is open.
KeyType ==
    /\ KeyPressed
    /\ focus = "chat" /\ input = NoText /\ texts < MaxTexts
    /\ input' = openConv
    /\ texts' = texts + 1
    /\ UNCHANGED <<requests, openConv, view, sidebarVars, focus>>

\* enter in the chat view: the request names the conversation open now.
KeySend ==
    /\ KeyPressed
    /\ focus = "chat" /\ input # NoText
    /\ requests' = requests \cup {[text |-> texts, typed |-> input, conv |-> openConv]}
    /\ input' = NoText
    /\ UNCHANGED <<openConv, view, texts, sidebarVars, focus>>

\* ctrl+c, or q outside the input line: the listener's context is cancelled and
\* runTUI closes the service.  The state of the application is gone; handlers of
\* inbound streams may still publish.
Quit ==
    /\ ~quitting
    /\ quitting' = TRUE
    /\ listening' = None
    /\ CloseService
    /\ updates' = {} /\ requests' = {}
    /\ openConv' = None /\ view' = {} /\ input' = NoText /\ focus' = "sidebar"
    /\ tab' = 1 /\ cursor' = 0 /\ list' = [t \in ToSet(Tabs) |-> {}]
    /\ UNCHANGED <<serviceVars, texts>>

Next ==
    \/ \E m \in Messages : HandleInbound(m)
    \/ \E m \in (publishing \cup sending) \cap Messages : PublishMessage(m) \/ SendDone(m) \/ SendFails(m)
    \/ \E connected \in SUBSET Peers, id \in 1..MaxOther : MonitorRound(connected, id)
    \/ PublishOther
    \/ \E r \in requests : DoSend(r)
    \/ ListenerReceives \/ ListenerEnds
    \/ UpdateEvent \/ UpdateNewMessage \/ UpdateLists \/ UpdateListsFails
    \/ OpenSelected \/ OpenSelectedFails \/ KeyFocus \/ KeySidebar \/ KeyType \/ KeySend
    \/ Quit

Spec == Init /\ [][Next]_vars

----------------------------------------------------------------------------
(* Properties.                                                             *)

\* A MsgNewMessage that arrives after the user has opened another conversation
\* does not get into its view (Update compares the conversation at that time):
\* whatever is shown was announced for the open conversation or is a row of it.
ViewIsOpenConversation == \A m \in view : openConv \in {m.conv, m.row}

\* On its way to Update: in the channel of the listener, as an event or as the
\* message made of it.
OnItsWay(e) ==
    \/ listening # None /\ e \in ToSet(buf[listening])
    \/ {<<"event", e>>, <<"new", e>>} \cap updates # {}

\* A message announced for the open conversation and stored in it is shown or on
\* its way, whatever the order in which the view is loaded, events arrive and the
\* user moves about - as long as a listener was there to get the event, the store
\* could be read, and the conversation is not longer than what openSelected loads.
\* A message whose insert failed is lost when the conversation is opened after
\* its event, and is not meant.
NothingOverlooked ==
    \A m \in (emitted \cap Messages) \ missed :
        m.conv = openConv /\ m.row = openConv /\ ~quitting
            /\ Cardinality(Rows(openConv)) <= HistoryLimit
            => m \in view \/ OnItsWay(m)

\* Whoever wrote to the user, directly or in a group that the user may not even
\* know, and is in the peers table, is in the list of conversations, or the list
\* is about to be read again, unless the event met no listener or the store could
\* not be read.
SendersAreListed ==
    \A m \in (emitted \cap Messages) \ missed :
        ~quitting /\ m.peer # None =>
            \/ m.peer \in list.conversations
            \/ OnItsWay(m) \/ <<"refresh", m>> \in updates

\* A text is sent to the conversation it was typed in, or not at all: switching
\* conversations between typing and enter, or between enter and the send,
\* redirects nothing.
TextStaysInConversation ==
    /\ input \in {openConv, NoText}
    /\ \A r \in requests : r.conv = r.typed

\* Update calls listenEvents to "keep listening" (app.go): until the program
\* ends, a listener waits or an event is on its way to Update.
KeepsListening ==
    ~quitting => \/ listening # None /\ listening \notin closed
                 \/ \E u \in updates : u[1] = "event"
=============================================================================
