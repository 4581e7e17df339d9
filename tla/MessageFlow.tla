----------------------------- MODULE MessageFlow -----------------------------
(***************************************************************************)
(* A chat message from P2PService.SendDirect or SendGroup through a libp2p *)
(* stream to handleInbound at another node, with the messages and peers    *)
(* tables of both stores.  Each store statement and each stream is a step. *)
(*                                                                         *)
(* A node has two names: its libp2p ID and its SKALL (hex) ID.  Direct     *)
(* messages carry the first as sender, group messages the second, and only *)
(* the first can be resolved to a stream.  A stream is opened per message, *)
(* is never retried, and may break after the sender has written to it.     *)
(* Bodies and timestamps are left out: an ID stands for its message.       *)
(***************************************************************************)
EXTENDS Naturals, FiniteSets

CONSTANTS Nodes,
          Ids,          \* message IDs: the sender's clock in nanoseconds
          Group,        \* the group, or no group at all: see NoGroup
          NoGroup,
          Members,      \* names (see Name) in the group's member set, at every node
          None,
          MaxFaults,    \* bound on store statements that fail
          MaxCrashes    \* bound on crashes

LibId(n) == <<"libp2p", n>>
HexId(n) == <<"skall", n>>
Name == {LibId(n) : n \in Nodes} \cup {HexId(n) : n \in Nodes}

ASSUME FlowAssumption ==
    /\ Group # NoGroup /\ None \notin Nodes \cup Ids
    /\ Members \subseteq Name
    /\ MaxFaults \in Nat /\ MaxCrashes \in Nat

VARIABLES
    phase,     \* "down", "listening" (stream handler set, no service) or "ready"
    row,       \* row[n][i]: the messages table of n
    peers,     \* peers[n]: the peers table of n
    send,      \* send[n]: the send call in progress at n
    wire,      \* messages written to a stream and not yet read
    handling,  \* handling[n]: inbound messages in handleInbound, with its next step
    announced, \* announced[n]: EventNewMessage events of n, as <<id, sender>>
    origin,    \* history: the node that created a message
    written,   \* history: <<id, recipient>> that were written to a stream
    faults,    \* store statements that have failed
    crashes

vars == <<phase, row, faults, peers, send, wire, handling, announced, origin, written, crashes>>

Message == [id : Ids, sender : Name, rcpt : Name \cup {None}, group : {Group, NoGroup},
            src : Nodes, dst : Nodes]
Row == [dir : {"in", "out"}, status : {"pending", "sent", "failed", "received"},
        sender : Name, rcpt : Name \cup {None}, group : {Group, NoGroup}]
NoRow == [dir |-> "none"]
Idle == [at |-> "idle"]
Send == [at : {"transmit", "fanOut", "update"}, id : Ids, sender : Name,
         rcpt : Name \cup {None}, group : {Group, NoGroup}, todo : SUBSET Nodes,
         ok : BOOLEAN]

TypeOK ==
    /\ phase \in [Nodes -> {"down", "listening", "ready"}]
    /\ row \in [Nodes -> [Ids -> Row \cup {NoRow}]]
    /\ peers \in [Nodes -> SUBSET Name]
    /\ send \in [Nodes -> Send \cup {Idle}]
    /\ wire \in SUBSET Message
    /\ handling \in [Nodes -> SUBSET ({"peer", "insert", "publish"} \X Message)]
    /\ announced \in [Nodes -> SUBSET (Ids \X Name)]
    /\ origin \in [Ids -> Nodes \cup {None}]
    /\ written \in SUBSET (Ids \X Nodes)
    /\ faults \in 0..MaxFaults /\ crashes \in 0..MaxCrashes

Init ==
    /\ phase = [n \in Nodes |-> "down"]
    /\ row = [n \in Nodes |-> [i \in Ids |-> NoRow]]
    /\ peers = [n \in Nodes |-> {}]
    /\ send = [n \in Nodes |-> Idle]
    /\ wire = {}
    /\ handling = [n \in Nodes |-> {}]
    /\ announced = [n \in Nodes |-> {}]
    /\ origin = [i \in Ids |-> None]
    /\ written = {}
    /\ faults = 0 /\ crashes = 0

----------------------------------------------------------------------------
(* The store.                                                              *)

StatementFails == faults < MaxFaults /\ faults' = faults + 1

\* INSERT INTO messages: a row with this ID stays as it is (ErrDuplicateMessage,
\* which every caller ignores); other errors are logged by the caller.
InsertMessage(n, i, r) ==
    \/ /\ row' = [row EXCEPT ![n][i] = IF @ = NoRow THEN r ELSE @]
       /\ UNCHANGED faults
    \/ StatementFails /\ UNCHANGED row

\* UPDATE messages SET status WHERE message_id: whatever row has this ID.
UpdateMessageStatus(n, i, s) ==
    \/ /\ row' = [row EXCEPT ![n][i] = IF @ = NoRow THEN @ ELSE [@ EXCEPT !.status = s]]
       /\ UNCHANGED faults
    \/ StatementFails /\ UNCHANGED row

----------------------------------------------------------------------------
(* The sender.                                                             *)

\* protocol.NewChatMessage takes the ID from the clock: no two messages are made
\* in the same nanosecond.
NewId(n, i) ==
    /\ origin[i] = None
    /\ origin' = [origin EXCEPT ![i] = n]

SendDirectUnstored(n, target, i) ==
    /\ phase[n] = "ready" /\ send[n] = Idle
    /\ NewId(n, i)
    /\ send' = [send EXCEPT ![n] =
            [at |-> "transmit", id |-> i, sender |-> LibId(n), rcpt |-> target,
             group |-> NoGroup, todo |-> {}, ok |-> FALSE]]
    /\ UNCHANGED <<phase, row, faults, peers, wire, handling, announced, written, crashes>>
SendDirect(n, target, i) ==
    /\ phase[n] = "ready" /\ send[n] = Idle
    /\ NewId(n, i)
    /\ InsertMessage(n, i, [dir |-> "out", status |-> "pending", sender |-> LibId(n),
                            rcpt |-> target, group |-> NoGroup])
    /\ send' = [send EXCEPT ![n] =
            [at |-> "transmit", id |-> i, sender |-> LibId(n), rcpt |-> target,
             group |-> NoGroup, todo |-> {}, ok |-> FALSE]]
    /\ UNCHANGED <<phase, peers, wire, handling, announced, written, crashes>>

\* skallToLibP2P: only a libp2p ID can be decoded.
ResolveFails(n) ==
    /\ send[n].at = "transmit" /\ send[n].rcpt[1] = "skall"
    /\ UpdateMessageStatus(n, send[n].id, "failed")
    /\ send' = [send EXCEPT ![n] = Idle]
    /\ UNCHANGED <<phase, peers, wire, handling, announced, origin, written, crashes>>

Wired(n, m) == [id |-> send[n].id, sender |-> send[n].sender, rcpt |-> send[n].rcpt,
                group |-> send[n].group, src |-> n, dst |-> m]

\* Node.SendMessage: a stream to the recipient is opened and written, ...
Transmit(n) ==
    /\ send[n].at = "transmit" /\ send[n].rcpt[1] = "libp2p"
    /\ send[n].rcpt[2] # n /\ phase[send[n].rcpt[2]] # "down"
    /\ wire' = wire \cup {Wired(n, send[n].rcpt[2])}
    /\ written' = written \cup {<<send[n].id, send[n].rcpt[2]>>}
    /\ send' = [send EXCEPT ![n].at = "update", ![n].ok = TRUE]
    /\ UNCHANGED <<phase, row, faults, peers, handling, announced, origin, crashes>>

\* ... or it cannot be (a node does not send to itself).
TransmitErrorIgnored(n) ==
    /\ send[n].at = "transmit" /\ send[n].rcpt[1] = "libp2p"
    /\ send' = [send EXCEPT ![n].at = "update", ![n].ok = TRUE]
    /\ UNCHANGED <<phase, row, faults, peers, wire, handling, announced, origin, written, crashes>>
TransmitFails(n) ==
    /\ send[n].at = "transmit" /\ send[n].rcpt[1] = "libp2p"
    /\ send' = [send EXCEPT ![n].at = "update", ![n].ok = FALSE]
    /\ UNCHANGED <<phase, row, faults, peers, wire, handling, announced, origin, written, crashes>>

\* groups.Manager.SendGroupMessage: the local SKALL ID must be a member.
SendGroupMessage(n, i) == HexId(n) \in Members /\ NewId(n, i)

\* SendGroup: the fan-out goes to the members that are named by libp2p ID and
\* connected at this moment.
SendGroup(n, i) ==
    /\ phase[n] = "ready" /\ send[n] = Idle
    /\ SendGroupMessage(n, i)
    /\ InsertMessage(n, i, [dir |-> "out", status |-> "pending", sender |-> HexId(n),
                            rcpt |-> None, group |-> Group])
    /\ \E connected \in SUBSET {m \in Nodes \ {n} : phase[m] # "down"} :
        send' = [send EXCEPT ![n] =
            [at |-> "fanOut", id |-> i, sender |-> HexId(n), rcpt |-> None, group |-> Group,
             todo |-> {m \in connected : LibId(m) \in Members}, ok |-> TRUE]]
    /\ UNCHANGED <<phase, peers, wire, handling, announced, written, crashes>>

\* One member of the fan-out; an error is logged and the loop goes on.
FanOut(n, m) ==
    /\ send[n].at = "fanOut" /\ m \in send[n].todo
    /\ send' = [send EXCEPT ![n].todo = @ \ {m}]
    /\ \/ /\ phase[m] # "down"
          /\ wire' = wire \cup {Wired(n, m)}
          /\ written' = written \cup {<<send[n].id, m>>}
       \/ UNCHANGED <<wire, written>>
    /\ UNCHANGED <<phase, row, faults, peers, handling, announced, origin, crashes>>

FanOutDone(n) ==
    /\ send[n].at = "fanOut" /\ send[n].todo = {}
    /\ send' = [send EXCEPT ![n].at = "update"]
    /\ UNCHANGED <<phase, row, faults, peers, wire, handling, announced, origin, written, crashes>>

\* The status is written, and subscribers are told of a message that was sent.
FinishSendRetries(n) ==
    /\ send[n].at = "update"
    /\ UpdateMessageStatus(n, send[n].id, IF send[n].ok THEN "sent" ELSE "failed")
    /\ send' = [send EXCEPT ![n] = IF @.ok THEN Idle ELSE [@ EXCEPT !.at = "transmit"]]
    /\ UNCHANGED <<phase, peers, wire, handling, announced, origin, written, crashes>>
FinishSendForgetsFailure(n) ==
    /\ send[n].at = "update"
    /\ IF send[n].ok THEN UpdateMessageStatus(n, send[n].id, "sent") ELSE UNCHANGED <<row, faults>>
    /\ send' = [send EXCEPT ![n] = Idle]
    /\ UNCHANGED <<phase, peers, wire, handling, announced, origin, written, crashes>>
FinishSend(n) ==
    /\ send[n].at = "update"
    /\ UpdateMessageStatus(n, send[n].id, IF send[n].ok THEN "sent" ELSE "failed")
    /\ announced' = IF send[n].ok
                    THEN [announced EXCEPT ![n] = @ \cup {<<send[n].id, send[n].sender>>}]
                    ELSE announced
    /\ send' = [send EXCEPT ![n] = Idle]
    /\ UNCHANGED <<phase, peers, wire, handling, origin, written, crashes>>

----------------------------------------------------------------------------
(* The receiver.                                                           *)

\* handleStream hands the message to handleInbound.
HandleStream(m) ==
    /\ m \in wire /\ phase[m.dst] = "ready"
    /\ wire' = wire \ {m}
    /\ handling' = [handling EXCEPT ![m.dst] = @ \cup {<<"peer", m>>}]
    /\ UNCHANGED <<phase, row, faults, peers, send, announced, origin, written, crashes>>

\* The stream breaks, the process is gone, or no handler is set yet: runTUI
\* opens the node before the service attaches handleInbound.
StreamLost(m) ==
    /\ m \in wire
    /\ wire' = wire \ {m}
    /\ UNCHANGED <<phase, row, faults, peers, send, handling, announced, origin, written, crashes>>

NoUpsertPeer(n, m) == UNCHANGED <<peers, faults>>
InboundPeer(n, m) ==
    \/ peers' = [peers EXCEPT ![n] = @ \cup {LibId(m.src)}] /\ UNCHANGED faults
    \/ StatementFails /\ UNCHANGED peers

\* handleInbound: UpsertPeer(authenticated ID), ...
HandleUpsertPeer(n, m) ==
    /\ <<"peer", m>> \in handling[n]
    /\ InboundPeer(n, m)
    /\ handling' = [handling EXCEPT ![n] = (@ \ {<<"peer", m>>}) \cup {<<"insert", m>>}]
    /\ UNCHANGED <<phase, row, send, wire, announced, origin, written, crashes>>

\* ... then InsertMessage, with the sender that the message claims, ...
HandleInsertNothing(n, m) ==
    /\ <<"insert", m>> \in handling[n]
    /\ handling' = [handling EXCEPT ![n] = (@ \ {<<"insert", m>>}) \cup {<<"publish", m>>}]
    /\ UNCHANGED <<phase, row, faults, peers, send, wire, announced, origin, written, crashes>>
HandleInsert(n, m) ==
    /\ <<"insert", m>> \in handling[n]
    /\ InsertMessage(n, m.id, [dir |-> "in", status |-> "received", sender |-> m.sender,
                               rcpt |-> m.rcpt, group |-> m.group])
    /\ handling' = [handling EXCEPT ![n] = (@ \ {<<"insert", m>>}) \cup {<<"publish", m>>}]
    /\ UNCHANGED <<phase, peers, send, wire, announced, origin, written, crashes>>

\* ... then publish, with the authenticated sender.
HandlePublish(n, m) ==
    /\ <<"publish", m>> \in handling[n]
    /\ announced' = [announced EXCEPT ![n] = @ \cup {<<m.id, LibId(m.src)>>}]
    /\ handling' = [handling EXCEPT ![n] = @ \ {<<"publish", m>>}]
    /\ UNCHANGED <<phase, row, faults, peers, send, wire, origin, written, crashes>>

----------------------------------------------------------------------------
(* The life of a node.                                                     *)

StartNode(n) ==
    /\ phase[n] = "down"
    /\ phase' = [phase EXCEPT ![n] = "listening"]
    /\ UNCHANGED <<row, faults, peers, send, wire, handling, announced, origin, written, crashes>>

StartService(n) ==
    /\ phase[n] = "listening"
    /\ phase' = [phase EXCEPT ![n] = "ready"]
    /\ UNCHANGED <<row, faults, peers, send, wire, handling, announced, origin, written, crashes>>

Crash(n) ==
    /\ phase[n] # "down" /\ crashes < MaxCrashes
    /\ phase' = [phase EXCEPT ![n] = "down"]
    /\ send' = [send EXCEPT ![n] = Idle]
    /\ handling' = [handling EXCEPT ![n] = {}]
    /\ announced' = [announced EXCEPT ![n] = {}]
    /\ wire' = {m \in wire : m.dst # n}
    /\ crashes' = crashes + 1
    /\ UNCHANGED <<row, faults, peers, origin, written>>

SenderStep(n) ==
    \/ ResolveFails(n) \/ Transmit(n) \/ TransmitFails(n)
    \/ FanOutDone(n) \/ FinishSend(n)
    \/ \E m \in Nodes : FanOut(n, m)

ReceiverStep(n) ==
    \E h \in handling[n] :
        HandleUpsertPeer(n, h[2]) \/ HandleInsert(n, h[2]) \/ HandlePublish(n, h[2])

Next ==
    \/ \E n \in Nodes, i \in Ids :
        SendGroup(n, i) \/ \E target \in Name : SendDirect(n, target, i)
    \/ \E n \in Nodes : SenderStep(n) \/ ReceiverStep(n)
    \/ \E m \in wire : HandleStream(m) \/ StreamLost(m)
    \/ \E n \in Nodes : StartNode(n) \/ StartService(n) \/ Crash(n)

Spec == Init /\ [][Next]_vars

\* A send call that was begun runs on: its stream has a deadline of 10 seconds.
FairSpec == Spec /\ \A n \in Nodes : WF_vars(SenderStep(n))

----------------------------------------------------------------------------
(* Properties.                                                             *)

\* An inbound row is the copy of an outbound row of the node that created the
\* message, and that row outlives the sender's crash: SendDirect and SendGroup
\* store a message before they put it on a stream.  A failed insert is only
\* logged, and the message is sent nevertheless.
NoPhantom ==
    faults = 0 => \A n \in Nodes, i \in Ids : row[n][i].dir = "in" =>
        /\ origin[i] \in Nodes \ {n}
        /\ LET sent == row[origin[i]][i] IN
           /\ sent.dir = "out"
           /\ sent.sender = row[n][i].sender /\ sent.rcpt = row[n][i].rcpt
           /\ sent.group = row[n][i].group

\* The peer of every stored inbound message is in the peers table, so that
\* ListConversations, which walks that table, lists the conversation: UpsertPeer
\* comes first, and a crash may fall between the two.
InboundIsListed ==
    faults = 0 => \A n \in Nodes, i \in Ids : row[n][i].dir = "in" => LibId(origin[i]) \in peers[n]

\* Subscribers hear only of messages that GetMessages will find.
AnnouncedIsStored ==
    faults = 0 => \A n \in Nodes : \A a \in announced[n] : row[n][a[1]] # NoRow

\* A direct message is "sent" only if it was written to a stream of its
\* recipient, and "failed" only if it was not.
StatusTellsTheTruth ==
    \A n \in Nodes, i \in Ids : row[n][i].dir = "out" /\ row[n][i].group = NoGroup =>
        /\ row[n][i].status = "sent" => <<i, row[n][i].rcpt[2]>> \in written
        /\ row[n][i].status = "failed" => <<i, row[n][i].rcpt[2]>> \notin written

\* A stored message is never rewritten or lost: only the status of an outbound
\* message changes, and only once, from "pending".
RowsAreFinal ==
    [][\A n \in Nodes, i \in Ids : row[n][i] # NoRow /\ row'[n][i] # row[n][i] =>
        /\ row[n][i].status = "pending"
        /\ row'[n][i].status \in {"sent", "failed"}
        /\ row'[n][i] = [row[n][i] EXCEPT !.status = row'[n][i].status]]_vars

\* An outbound message does not stay "pending": the call that stored it writes
\* its outcome, unless a crash cuts the call off or a statement fails (nothing
\* repairs the row later).
PendingResolves ==
    \A n \in Nodes, i \in Ids :
        row[n][i].dir = "out" ~>
            \/ row[n][i].dir = "out" /\ row[n][i].status \in {"sent", "failed"}
            \/ crashes > 0 \/ faults > 0
=============================================================================
