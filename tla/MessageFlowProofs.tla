------------------------- MODULE MessageFlowProofs -------------------------
(***************************************************************************)
(* For any nodes, messages and members, and however many statements fail   *)
(* and nodes crash: what the messages tables of sender and receiver say of *)
(* each other and of the streams.  And for any table of messages: what is  *)
(* read back from it, in pages.                                            *)
(***************************************************************************)
EXTENDS MessageFlow, History, FiniteSetTheorems, SequenceTheorems, TLAPS

Handled == {"peer", "insert", "publish"} \X Message

\* Which fields a send call has, by where it is.
SendShape ==
    \A n \in Nodes :
        /\ send[n].at = "transmit" => send[n].rcpt \in Name /\ send[n].group = NoGroup
        /\ send[n].at = "fanOut" => send[n].group = Group
        /\ send[n].at = "update" /\ send[n].group = NoGroup => send[n].rcpt \in Name

TypeInv == TypeOK /\ SendShape

\* r is the row of the message x, at the node that created it.
SameMessage(r, x) ==
    r \in Row /\ r.dir = "out" /\ r.sender = x.sender /\ r.rcpt = x.rcpt /\ r.group = x.group

\* The call at n is about a message of n, whose row, if the insert succeeded,
\* waits for the outcome; "written" has the outcome before the row has.
SendOK(n) ==
    send[n] # Idle =>
        /\ origin[send[n].id] = n /\ n \notin send[n].todo
        /\ row[n][send[n].id] # NoRow =>
            SameMessage(row[n][send[n].id], send[n]) /\ row[n][send[n].id].status = "pending"
        /\ faults = 0 => row[n][send[n].id] # NoRow
        /\ send[n].at = "transmit" => \A d \in Nodes : <<send[n].id, d>> \notin written
        /\ send[n].at = "update" /\ send[n].group = NoGroup =>
            (send[n].ok <=> <<send[n].id, send[n].rcpt[2]>> \in written)

\* A message under way comes from its creator, which has stored it.
Carried(m) ==
    /\ origin[m.id] = m.src /\ m.src # m.dst
    /\ faults = 0 => SameMessage(row[m.src][m.id], m)

\* What handleInbound has done before its next step.
HandlingOK(n, h) ==
    /\ Carried(h[2]) /\ h[2].dst = n
    /\ faults = 0 /\ h[1] \in {"insert", "publish"} => LibId(h[2].src) \in peers[n]
    /\ faults = 0 /\ h[1] = "publish" => row[n][h[2].id] # NoRow

\* A row is its creator's, or a copy of its creator's.
RowOK(n, i) ==
    /\ row[n][i].dir = "out" =>
        origin[i] = n /\ (row[n][i].group = NoGroup => row[n][i].rcpt \in Name)
    /\ row[n][i].dir = "in" =>
        /\ origin[i] \in Nodes \ {n}
        /\ faults = 0 => /\ SameMessage(row[origin[i]][i], row[n][i])
                         /\ LibId(origin[i]) \in peers[n]

SendInv == \A n \in Nodes : SendOK(n)
WireInv == \A m \in wire : Carried(m)
HandlingInv == \A n \in Nodes : \A h \in handling[n] : HandlingOK(n, h)
RowInv == \A n \in Nodes, i \in Ids : RowOK(n, i)
WrittenInv == \A i \in Ids, d \in Nodes : <<i, d>> \in written => origin[i] \in Nodes

IInv ==
    /\ TypeInv /\ SendInv /\ WireInv /\ HandlingInv /\ RowInv /\ WrittenInv
    /\ StatusTellsTheTruth /\ AnnouncedIsStored

----------------------------------------------------------------------------
(* Records and statements.                                                 *)

LEMMA IdleIsNone == Idle \notin Send /\ Idle.at = "idle"
BY DEF Idle, Send

LEMMA NoRowIsNone == NoRow \notin Row /\ NoRow.dir = "none"
BY DEF NoRow, Row

LEMMA Names ==
    /\ \A n \in Nodes : LibId(n) \in Name /\ HexId(n) \in Name /\ LibId(n)[2] = n
    /\ \A x \in Name : x[2] \in Nodes
BY DEF Name, LibId, HexId

LEMMA Statement ==
    ASSUME TypeOK
    PROVE  /\ StatementFails => faults' \in 0..MaxFaults /\ faults' # 0
           /\ UNCHANGED faults => faults' \in 0..MaxFaults
BY FlowAssumption DEF TypeOK, StatementFails

\* An insert leaves every row that there is.
LEMMA InsertEffect ==
    ASSUME TypeOK, NEW n \in Nodes, NEW i \in Ids, NEW r \in Row, InsertMessage(n, i, r)
    PROVE  /\ row' \in [Nodes -> [Ids -> Row \cup {NoRow}]] /\ faults' \in 0..MaxFaults
           /\ faults' = 0 => faults = 0 /\ row'[n][i] # NoRow
           /\ \A m \in Nodes, j \in Ids :
                \/ row'[m][j] = row[m][j]
                \/ m = n /\ j = i /\ row[m][j] = NoRow /\ row'[m][j] = r
<1>1. row \in [Nodes -> [Ids -> Row \cup {NoRow}]] /\ faults \in 0..MaxFaults
  BY DEF TypeOK
<1>2. CASE StatementFails /\ UNCHANGED row
  BY <1>1, <1>2, Statement
<1>3. CASE /\ row' = [row EXCEPT ![n][i] = IF @ = NoRow THEN r ELSE @]
           /\ UNCHANGED faults
  <2> DEFINE new == IF row[n][i] = NoRow THEN r ELSE row[n][i]
  <2>1. row[n] \in [Ids -> Row \cup {NoRow}] /\ new \in Row
    BY <1>1
  <2>2. row' = [row EXCEPT ![n] = [row[n] EXCEPT ![i] = new]]
    BY <1>1, <1>3
  <2>3. new = row[n][i] \/ (row[n][i] = NoRow /\ new = r)
    OBVIOUS
  <2> HIDE DEF new
  <2>4. /\ row' \in [Nodes -> [Ids -> Row \cup {NoRow}]] /\ row'[n][i] = new
        /\ \A m \in Nodes, j \in Ids : (m = n /\ j = i) \/ row'[m][j] = row[m][j]
    BY <1>1, <2>1, <2>2
  <2> QED BY <1>1, <1>3, <2>1, <2>3, <2>4, NoRowIsNone
<1> QED BY <1>2, <1>3 DEF InsertMessage

\* Only the status of r has changed.
StatusSet(r, new, s) ==
    /\ r \in Row /\ r # NoRow /\ new \in Row /\ new = [r EXCEPT !.status = s] /\ new.status = s
    /\ new.dir = r.dir /\ new.sender = r.sender /\ new.rcpt = r.rcpt /\ new.group = r.group

LEMMA StatusSetIs ==
    ASSUME NEW r \in Row, NEW s \in {"sent", "failed"}
    PROVE  StatusSet(r, [r EXCEPT !.status = s], s)
<1>1. r # NoRow
  BY NoRowIsNone
<1>2. [r EXCEPT !.status = s] \in Row
  BY DEF Row
<1> QED BY <1>1, <1>2 DEF StatusSet, Row

\* An update changes the status of one row.
LEMMA UpdateEffect ==
    ASSUME TypeOK, NEW n \in Nodes, NEW i \in Ids, NEW s \in {"sent", "failed"},
           UpdateMessageStatus(n, i, s)
    PROVE  /\ row' \in [Nodes -> [Ids -> Row \cup {NoRow}]] /\ faults' \in 0..MaxFaults
           /\ faults' = 0 => faults = 0
           /\ \A m \in Nodes, j \in Ids :
                \/ row'[m][j] = row[m][j]
                \/ m = n /\ j = i /\ StatusSet(row[m][j], row'[m][j], s)
<1>1. row \in [Nodes -> [Ids -> Row \cup {NoRow}]] /\ faults \in 0..MaxFaults
  BY DEF TypeOK
<1>2. CASE StatementFails /\ UNCHANGED row
  BY <1>1, <1>2, Statement
<1>3. CASE /\ row' = [row EXCEPT ![n][i] = IF @ = NoRow THEN @ ELSE [@ EXCEPT !.status = s]]
           /\ UNCHANGED faults
  <2> DEFINE new == IF row[n][i] = NoRow THEN row[n][i] ELSE [row[n][i] EXCEPT !.status = s]
  <2>1. row[n] \in [Ids -> Row \cup {NoRow}] /\ new \in Row \cup {NoRow}
    <3>1. row[n] \in [Ids -> Row \cup {NoRow}]
      BY <1>1
    <3>2. row[n][i] \in Row => [row[n][i] EXCEPT !.status = s] \in Row
      BY StatusSetIs DEF StatusSet
    <3> QED BY <3>1, <3>2
  <2>2. row' = [row EXCEPT ![n] = [row[n] EXCEPT ![i] = new]]
    BY <1>1, <1>3
  <2>3. new = row[n][i] \/ StatusSet(row[n][i], new, s)
    BY <1>1, StatusSetIs
  <2> HIDE DEF new
  <2>4. /\ row' \in [Nodes -> [Ids -> Row \cup {NoRow}]] /\ row'[n][i] = new
        /\ \A m \in Nodes, j \in Ids : (m = n /\ j = i) \/ row'[m][j] = row[m][j]
    BY <1>1, <2>1, <2>2
  <2> QED BY <1>1, <1>3, <2>3, <2>4
<1> QED BY <1>2, <1>3 DEF UpdateMessageStatus

\* The calls and the rows that SendDirect, SendGroup and handleInbound make.
DirectCall(n, target, i) ==
    [at |-> "transmit", id |-> i, sender |-> LibId(n), rcpt |-> target,
     group |-> NoGroup, todo |-> {}, ok |-> FALSE]
DirectRow(n, target) ==
    [dir |-> "out", status |-> "pending", sender |-> LibId(n), rcpt |-> target, group |-> NoGroup]
GroupCall(n, i, to) ==
    [at |-> "fanOut", id |-> i, sender |-> HexId(n), rcpt |-> None, group |-> Group,
     todo |-> to, ok |-> TRUE]
GroupRow(n) ==
    [dir |-> "out", status |-> "pending", sender |-> HexId(n), rcpt |-> None, group |-> Group]
InboundRow(m) ==
    [dir |-> "in", status |-> "received", sender |-> m.sender, rcpt |-> m.rcpt, group |-> m.group]

LEMMA DirectType ==
    ASSUME NEW n \in Nodes, NEW target \in Name, NEW i \in Ids
    PROVE  /\ DirectCall(n, target, i) \in Send /\ DirectRow(n, target) \in Row
           /\ DirectRow(n, target).status = "pending" /\ DirectRow(n, target).rcpt \in Name
           /\ SameMessage(DirectRow(n, target), DirectCall(n, target, i))
           /\ DirectCall(n, target, i).at = "transmit" /\ DirectCall(n, target, i).id = i
           /\ DirectCall(n, target, i).rcpt = target /\ DirectCall(n, target, i).todo = {}
           /\ DirectCall(n, target, i).group = NoGroup
<1>1. LibId(n) \in Name
  BY Names
<1>2. DirectCall(n, target, i) \in Send
  BY <1>1, Zenon DEF DirectCall, Send
<1>3. DirectRow(n, target) \in Row
  BY <1>1, Zenon DEF DirectRow, Row
<1> QED BY <1>2, <1>3 DEF DirectRow, DirectCall, SameMessage

LEMMA GroupType ==
    ASSUME NEW n \in Nodes, NEW i \in Ids, NEW to \in SUBSET Nodes
    PROVE  /\ GroupCall(n, i, to) \in Send /\ GroupRow(n) \in Row
           /\ GroupRow(n).status = "pending" /\ GroupRow(n).group = Group
           /\ SameMessage(GroupRow(n), GroupCall(n, i, to))
           /\ GroupCall(n, i, to).at = "fanOut" /\ GroupCall(n, i, to).id = i
           /\ GroupCall(n, i, to).todo = to /\ GroupCall(n, i, to).group = Group
<1>1. HexId(n) \in Name
  BY Names
<1>2. GroupCall(n, i, to) \in Send
  BY <1>1, Zenon DEF GroupCall, Send
<1>3. GroupRow(n) \in Row
  BY <1>1, Zenon DEF GroupRow, Row
<1> QED BY <1>2, <1>3 DEF GroupRow, GroupCall, SameMessage

LEMMA InboundType ==
    ASSUME NEW m \in Message
    PROVE  /\ InboundRow(m) \in Row /\ InboundRow(m).dir = "in"
           /\ InboundRow(m).sender = m.sender /\ InboundRow(m).rcpt = m.rcpt
           /\ InboundRow(m).group = m.group
<1>1. m.sender \in Name /\ m.rcpt \in Name \cup {None} /\ m.group \in {Group, NoGroup}
  BY DEF Message
<1>2. InboundRow(m) \in Row
  BY <1>1, Zenon DEF InboundRow, Row
<1> QED BY <1>2 DEF InboundRow

LEMMA WiredType ==
    ASSUME NEW n \in Nodes, NEW d \in Nodes, send[n] \in Send
    PROVE  /\ Wired(n, d) \in Message
           /\ Wired(n, d).id = send[n].id /\ Wired(n, d).sender = send[n].sender
           /\ Wired(n, d).rcpt = send[n].rcpt /\ Wired(n, d).group = send[n].group
           /\ Wired(n, d).src = n /\ Wired(n, d).dst = d
<1>1. /\ send[n].id \in Ids /\ send[n].sender \in Name /\ send[n].rcpt \in Name \cup {None}
      /\ send[n].group \in {Group, NoGroup}
  BY DEF Send
<1>2. Wired(n, d) \in Message
  BY <1>1, Zenon DEF Wired, Message
<1> QED BY <1>2 DEF Wired

\* A step of one call: it begins, goes on or ends.
LEMMA CallMoves ==
    ASSUME TypeInv, NEW n \in Nodes, NEW r \in Send \cup {Idle}, send' = [send EXCEPT ![n] = r],
           r.at = "transmit" => r.rcpt \in Name /\ r.group = NoGroup,
           r.at = "fanOut" => r.group = Group,
           r.at = "update" /\ r.group = NoGroup => r.rcpt \in Name
    PROVE  /\ send' \in [Nodes -> Send \cup {Idle}] /\ SendShape'
           /\ send'[n] = r /\ \A m \in Nodes \ {n} : send'[m] = send[m]
<1>1. send \in [Nodes -> Send \cup {Idle}]
  BY DEF TypeInv, TypeOK
<1>2. /\ send' \in [Nodes -> Send \cup {Idle}]
      /\ send'[n] = r /\ \A m \in Nodes \ {n} : send'[m] = send[m]
  BY <1>1
<1>3. SendShape'
  BY <1>2 DEF TypeInv, SendShape
<1> QED BY <1>2, <1>3

\* A call that is somewhere is a call.
LEMMA CallActive ==
    ASSUME TypeInv, NEW n \in Nodes, send[n].at \in {"transmit", "fanOut", "update"}
    PROVE  send[n] \in Send /\ send[n] # Idle /\ send[n].id \in Ids
<1>1. send[n] \in Send
  BY IdleIsNone DEF TypeInv, TypeOK
<1> QED BY <1>1, IdleIsNone DEF Send

----------------------------------------------------------------------------
(* What every step keeps.                                                  *)

\* No step takes back who created a message, a row or a peer.
Grows ==
    /\ faults' = 0 => faults = 0
    /\ \A i \in Ids : origin[i] \in Nodes => origin'[i] = origin[i]
    /\ \A n \in Nodes : peers[n] \subseteq peers'[n]
    /\ \A n \in Nodes, i \in Ids : row[n][i] # NoRow =>
        /\ row'[n][i] \in Row
        /\ row'[n][i].dir = row[n][i].dir /\ row'[n][i].sender = row[n][i].sender
        /\ row'[n][i].rcpt = row[n][i].rcpt /\ row'[n][i].group = row[n][i].group

LEMMA SameKeeps ==
    ASSUME TypeOK, Grows, NEW n \in Nodes, NEW i \in Ids, NEW x, SameMessage(row[n][i], x)
    PROVE  SameMessage(row'[n][i], x)
<1>1. row[n][i] # NoRow
  BY NoRowIsNone DEF SameMessage
<1> QED BY <1>1 DEF Grows, SameMessage

LEMMA CarriedKeeps ==
    ASSUME TypeOK, Grows, NEW m \in Message, Carried(m)
    PROVE  Carried(m)'
<1>1. m.id \in Ids /\ m.src \in Nodes
  BY DEF Message
<1>2. origin'[m.id] = m.src /\ m.src # m.dst
  BY <1>1 DEF Carried, Grows
<1>3. faults' = 0 => SameMessage(row'[m.src][m.id], m)
  BY <1>1, SameKeeps DEF Carried, Grows
<1> QED BY <1>2, <1>3 DEF Carried, SameMessage

LEMMA WireKeeps ==
    ASSUME IInv, Grows, wire' \subseteq wire
    PROVE  WireInv'
BY CarriedKeeps DEF IInv, TypeInv, TypeOK, WireInv

LEMMA HandlingKeeps ==
    ASSUME IInv, Grows, NEW n \in Nodes, NEW h \in handling[n]
    PROVE  HandlingOK(n, h)'
<1>1. h \in Handled /\ h[2] \in Message /\ h[2].id \in Ids
  BY DEF IInv, TypeInv, TypeOK, Handled, Message
<1>2. Carried(h[2])' /\ HandlingOK(n, h)
  BY <1>1, CarriedKeeps DEF IInv, TypeInv, HandlingInv, HandlingOK
<1>3. row[n][h[2].id] # NoRow => row'[n][h[2].id] # NoRow
  BY <1>1, NoRowIsNone DEF Grows
<1> QED BY <1>2, <1>3 DEF HandlingOK, Grows

\* A row that was there before stays its creator's, or a copy.
LEMMA RowKeeps ==
    ASSUME IInv, Grows, NEW n \in Nodes, NEW i \in Ids,
           row[n][i] # NoRow \/ row'[n][i] = NoRow
    PROVE  RowOK(n, i)'
<1>1. CASE row'[n][i] = NoRow
  BY <1>1, NoRowIsNone DEF RowOK
<1>2. CASE row[n][i] # NoRow
  <2>1. RowOK(n, i)
    BY DEF IInv, RowInv
  <2>2. row'[n][i].dir = "out" =>
          origin'[i] = n /\ (row'[n][i].group = NoGroup => row'[n][i].rcpt \in Name)
    BY <1>2, <2>1 DEF Grows, RowOK
  <2>3. ASSUME row'[n][i].dir = "in"
        PROVE  /\ origin'[i] \in Nodes \ {n}
               /\ faults' = 0 => /\ SameMessage(row'[origin'[i]][i], row'[n][i])
                                 /\ LibId(origin'[i]) \in peers'[n]
    <3>1. /\ origin[i] \in Nodes \ {n} /\ origin'[i] = origin[i]
          /\ faults' = 0 => /\ SameMessage(row[origin[i]][i], row[n][i])
                            /\ LibId(origin[i]) \in peers'[n]
      BY <1>2, <2>1, <2>3 DEF Grows, RowOK
    <3>2. faults' = 0 => SameMessage(row'[origin[i]][i], row[n][i])
      BY <3>1, SameKeeps DEF IInv, TypeInv
    <3> QED BY <1>2, <3>1, <3>2 DEF Grows, SameMessage
  <2> QED BY <2>2, <2>3 DEF RowOK, SameMessage
<1> QED BY <1>1, <1>2

LEMMA AnnouncedKeeps ==
    ASSUME IInv, Grows, \A n \in Nodes : announced'[n] \subseteq announced[n]
    PROVE  AnnouncedIsStored'
<1> SUFFICES ASSUME faults' = 0, NEW n \in Nodes, NEW a \in announced'[n]
             PROVE  row'[n][a[1]] # NoRow
  BY DEF AnnouncedIsStored
<1>1. a \in announced[n] /\ a[1] \in Ids
  BY DEF IInv, TypeInv, TypeOK
<1>2. row[n][a[1]] # NoRow
  BY <1>1 DEF IInv, AnnouncedIsStored, Grows
<1> QED BY <1>1, <1>2, NoRowIsNone DEF Grows

LEMMA WrittenKeeps ==
    ASSUME IInv, Grows, written' = written
    PROVE  WrittenInv'
BY DEF IInv, WrittenInv, Grows

LEMMA SendKeeps ==
    ASSUME IInv, Grows, NEW n \in Nodes, send'[n] = send[n],
           send[n] # Idle => row'[n][send[n].id] = row[n][send[n].id],
           send[n] # Idle => \A d \in Nodes : <<send[n].id, d>> \in written' <=> <<send[n].id, d>> \in written
    PROVE  SendOK(n)'
<1> SUFFICES ASSUME send[n] # Idle PROVE SendOK(n)'
  BY DEF SendOK
<1>1. send[n] \in Send /\ send[n].id \in Ids /\ SendOK(n)
  BY DEF IInv, TypeInv, TypeOK, SendInv, Send
<1>2. send[n].at = "update" /\ send[n].group = NoGroup => send[n].rcpt[2] \in Nodes
  BY Names DEF IInv, TypeInv, SendShape
<1>3. origin'[send[n].id] = n
  BY <1>1 DEF SendOK, Grows
<1> QED BY <1>1, <1>2, <1>3 DEF SendOK, SameMessage, Grows

\* The truth about the rows that were there and the streams that were written.
LEMMA StatusKeeps ==
    ASSUME IInv, written' = written,
           \A n \in Nodes, i \in Ids :
                \/ row'[n][i] = row[n][i]
                \/ row'[n][i].dir = "in" \/ row'[n][i].status = "pending"
    PROVE  StatusTellsTheTruth'
BY DEF IInv, StatusTellsTheTruth

----------------------------------------------------------------------------
(* The sender.                                                             *)

\* A call in progress is about a message of its own node.
LEMMA CallIsOwn ==
    ASSUME IInv, NEW n \in Nodes, send[n] # Idle
    PROVE  send[n] \in Send /\ send[n].id \in Ids /\ origin[send[n].id] = n
<1>1. send[n] \in Send
  BY DEF IInv, TypeInv, TypeOK
<1>2. send[n].id \in Ids
  BY <1>1 DEF Send
<1>3. SendOK(n)
  BY DEF IInv, SendInv
<1> QED BY <1>1, <1>2, <1>3 DEF SendOK

\* A message with a new ID is stored and its call begins.
LEMMA BeginKeeps ==
    ASSUME IInv, NEW n \in Nodes, NEW i \in Ids, NEW r \in Row, NEW c \in Send,
           NewId(n, i), InsertMessage(n, i, r), send' = [send EXCEPT ![n] = c],
           SameMessage(r, c), r.status = "pending", r.group = NoGroup => r.rcpt \in Name,
           c.id = i, n \notin c.todo, c.at \in {"transmit", "fanOut"},
           c.at = "transmit" => c.rcpt \in Name /\ c.group = NoGroup,
           c.at = "fanOut" => c.group = Group,
           UNCHANGED <<phase, peers, wire, handling, announced, written, crashes>>
    PROVE  IInv'
<1>1. TypeOK /\ TypeInv
  BY DEF IInv, TypeInv
<1>2. /\ row' \in [Nodes -> [Ids -> Row \cup {NoRow}]] /\ faults' \in 0..MaxFaults
      /\ faults' = 0 => faults = 0 /\ row'[n][i] # NoRow
      /\ \A m \in Nodes, j \in Ids :
           \/ row'[m][j] = row[m][j]
           \/ m = n /\ j = i /\ row[m][j] = NoRow /\ row'[m][j] = r
  BY <1>1, InsertEffect
<1>3. origin[i] \notin Nodes /\ origin' \in [Ids -> Nodes \cup {None}] /\ origin'[i] = n
  BY <1>1, FlowAssumption DEF NewId, TypeOK
<1>4. \A j \in Ids \ {i} : origin'[j] = origin[j]
  BY <1>1 DEF NewId, TypeOK
<1>5. \A m \in Nodes : row[m][i] = NoRow
  <2> TAKE m \in Nodes
  <2>1. row[m][i] \in Row \cup {NoRow} /\ RowOK(m, i)
    BY <1>1 DEF TypeOK, IInv, RowInv
  <2> QED BY <1>3, <2>1 DEF RowOK, Row
<1>6. /\ send' \in [Nodes -> Send \cup {Idle}] /\ SendShape'
      /\ send'[n] = c /\ \A m \in Nodes \ {n} : send'[m] = send[m]
  BY <1>1, CallMoves
<1>7. TypeInv'
  BY <1>1, <1>2, <1>3, <1>6 DEF TypeInv, TypeOK
<1>8. Grows
  BY <1>1, <1>2, <1>3, <1>4 DEF Grows, TypeOK
<1>9. SendInv'
  <2>1. ASSUME NEW m \in Nodes, m # n PROVE SendOK(m)'
    <3>1. send[m] # Idle => send[m].id \in Ids /\ origin[send[m].id] = m
      BY CallIsOwn
    <3>2. send[m] # Idle => send[m].id \in Ids \ {i}
      BY <1>3, <3>1
    <3> QED BY <1>2, <1>6, <1>8, <2>1, <3>2, SendKeeps
  <2>2. SendOK(n)'
    <3>1. \A d \in Nodes : <<i, d>> \notin written'
      BY <1>3 DEF IInv, WrittenInv
    <3>2. row'[n][i] = NoRow \/ row'[n][i] = r
      BY <1>2, <1>5
    <3> QED BY <1>2, <1>3, <1>6, <3>1, <3>2 DEF SendOK, SameMessage
  <2> QED BY <2>1, <2>2 DEF SendInv
<1>10. RowInv'
  <2>1. ASSUME NEW m \in Nodes, NEW j \in Ids, row'[m][j] = row[m][j] PROVE RowOK(m, j)'
    BY <1>8, <2>1, RowKeeps
  <2>2. row'[n][i] = r => RowOK(n, i)'
    BY <1>3 DEF RowOK, SameMessage
  <2> QED BY <1>2, <2>1, <2>2 DEF RowInv
<1>11. WireInv' /\ HandlingInv' /\ WrittenInv' /\ AnnouncedIsStored'
  BY <1>8, WireKeeps, HandlingKeeps, WrittenKeeps, AnnouncedKeeps DEF HandlingInv
<1>12. StatusTellsTheTruth'
  BY <1>2, StatusKeeps
<1> QED BY <1>7, <1>9, <1>10, <1>11, <1>12 DEF IInv

LEMMA SendDirectKeeps ==
    ASSUME IInv, NEW n \in Nodes, NEW target \in Name, NEW i \in Ids, SendDirect(n, target, i)
    PROVE  IInv'
<1>1. /\ NewId(n, i) /\ InsertMessage(n, i, DirectRow(n, target))
      /\ send' = [send EXCEPT ![n] = DirectCall(n, target, i)]
      /\ UNCHANGED <<phase, peers, wire, handling, announced, written, crashes>>
  BY DEF SendDirect, DirectRow, DirectCall
<1> DEFINE r == DirectRow(n, target)
           c == DirectCall(n, target, i)
<1>2. /\ r \in Row /\ c \in Send /\ SameMessage(r, c) /\ r.status = "pending" /\ r.rcpt \in Name
      /\ c.id = i /\ n \notin c.todo /\ c.at = "transmit" /\ c.rcpt \in Name /\ c.group = NoGroup
  BY DirectType
<1>3. NewId(n, i) /\ InsertMessage(n, i, r) /\ send' = [send EXCEPT ![n] = c]
  BY <1>1
<1> HIDE DEF r, c
<1> QED BY <1>1, <1>2, <1>3, BeginKeeps

LEMMA SendGroupKeeps ==
    ASSUME IInv, NEW n \in Nodes, NEW i \in Ids, SendGroup(n, i)
    PROVE  IInv'
<1>1. PICK connected \in SUBSET {m \in Nodes \ {n} : phase[m] # "down"} :
        send' = [send EXCEPT ![n] = GroupCall(n, i, {m \in connected : LibId(m) \in Members})]
  BY DEF SendGroup, GroupCall
<1> DEFINE to == {m \in connected : LibId(m) \in Members}
<1>2. to \in SUBSET Nodes /\ n \notin to
  OBVIOUS
<1>3. NewId(n, i) /\ InsertMessage(n, i, GroupRow(n))
  BY DEF SendGroup, SendGroupMessage, GroupRow
<1> DEFINE r == GroupRow(n)
           c == GroupCall(n, i, to)
<1>4. NewId(n, i) /\ InsertMessage(n, i, r) /\ send' = [send EXCEPT ![n] = c]
  BY <1>1, <1>3
<1> HIDE DEF to
<1>5. /\ r \in Row /\ c \in Send /\ SameMessage(r, c) /\ r.status = "pending"
      /\ r.group = Group /\ r.group # NoGroup
      /\ c.id = i /\ n \notin c.todo /\ c.at = "fanOut" /\ c.group = Group
  BY <1>2, GroupType, FlowAssumption
<1>6. UNCHANGED <<phase, peers, wire, handling, announced, written, crashes>>
  BY DEF SendGroup
<1> HIDE DEF r, c
<1> QED BY <1>4, <1>5, <1>6, BeginKeeps

\* The call at n writes an outcome that is true, and ends.
LEMMA OutcomeKeeps ==
    ASSUME IInv, NEW n \in Nodes, NEW s \in {"sent", "failed"},
           send[n].at \in {"transmit", "fanOut", "update"},
           UpdateMessageStatus(n, send[n].id, s), send' = [send EXCEPT ![n] = Idle],
           send[n].group = NoGroup => (s = "sent" <=> <<send[n].id, send[n].rcpt[2]>> \in written),
           UNCHANGED <<phase, peers, wire, handling, origin, written, crashes>>,
           announced' \in [Nodes -> SUBSET (Ids \X Name)],
           \A m \in Nodes : \A a \in announced'[m] :
                a \in announced[m] \/ (m = n /\ a[1] = send[n].id)
    PROVE  IInv'
<1>1. TypeOK /\ TypeInv
  BY DEF IInv, TypeInv
<1> DEFINE i == send[n].id
<1>2. send[n] \in Send /\ send[n] # Idle /\ i \in Ids
  BY <1>1, CallActive
<1>3. SendOK(n)
  BY DEF IInv, SendInv
<1>4. /\ row' \in [Nodes -> [Ids -> Row \cup {NoRow}]] /\ faults' \in 0..MaxFaults
      /\ faults' = 0 => faults = 0
      /\ \A m \in Nodes, j \in Ids :
           \/ row'[m][j] = row[m][j]
           \/ m = n /\ j = i /\ StatusSet(row[m][j], row'[m][j], s)
  BY <1>1, <1>2, UpdateEffect
<1>5. /\ send' \in [Nodes -> Send \cup {Idle}] /\ SendShape'
      /\ send'[n] = Idle /\ \A m \in Nodes \ {n} : send'[m] = send[m]
  BY <1>1, IdleIsNone, CallMoves
<1>6. TypeInv'
  BY <1>1, <1>4, <1>5 DEF TypeInv, TypeOK
<1>7. \A m \in Nodes, j \in Ids : row[m][j] # NoRow =>
        /\ row'[m][j] \in Row
        /\ row'[m][j].dir = row[m][j].dir /\ row'[m][j].sender = row[m][j].sender
        /\ row'[m][j].rcpt = row[m][j].rcpt /\ row'[m][j].group = row[m][j].group
  <2> TAKE m \in Nodes, j \in Ids
  <2>1. row[m][j] \in Row \cup {NoRow}
    BY <1>1 DEF TypeOK
  <2>2. row'[m][j] = row[m][j] \/ StatusSet(row[m][j], row'[m][j], s)
    BY <1>4
  <2> QED BY <2>1, <2>2 DEF StatusSet
<1>8. Grows
  BY <1>1, <1>4, <1>7 DEF Grows, TypeOK
<1>9. SendInv'
  <2>1. ASSUME NEW m \in Nodes, m # n PROVE SendOK(m)'
    <3>1. send[m] # Idle => send[m].id \in Ids
      BY <1>1 DEF TypeOK, Send
    <3> QED BY <1>4, <1>5, <1>8, <2>1, <3>1, SendKeeps
  <2> QED BY <1>5, <2>1 DEF SendInv, SendOK
<1>10. \A m \in Nodes, j \in Ids : row[m][j] # NoRow \/ row'[m][j] = NoRow
  BY <1>4 DEF StatusSet
<1>11. RowInv'
  BY <1>8, <1>10, RowKeeps DEF RowInv
<1>12. WireInv' /\ HandlingInv' /\ WrittenInv'
  BY <1>8, WireKeeps, HandlingKeeps, WrittenKeeps DEF HandlingInv
<1>13. AnnouncedIsStored'
  <2> SUFFICES ASSUME faults' = 0, NEW m \in Nodes, NEW a \in announced'[m]
               PROVE  row'[m][a[1]] # NoRow
    BY DEF AnnouncedIsStored
  <2>1. a[1] \in Ids
    OBVIOUS
  <2>2. row[m][a[1]] # NoRow
    BY <1>2, <1>3, <1>4 DEF IInv, AnnouncedIsStored, SendOK
  <2> QED BY <2>1, <2>2, <1>7, NoRowIsNone
<1>14. StatusTellsTheTruth'
  <2> SUFFICES ASSUME NEW m \in Nodes, NEW j \in Ids, row'[m][j].dir = "out", row'[m][j].group = NoGroup
               PROVE  /\ row'[m][j].status = "sent" => <<j, row'[m][j].rcpt[2]>> \in written
                      /\ row'[m][j].status = "failed" => <<j, row'[m][j].rcpt[2]>> \notin written
    BY DEF StatusTellsTheTruth
  <2>1. CASE row'[m][j] = row[m][j]
    BY <2>1 DEF IInv, StatusTellsTheTruth
  <2>2. CASE row'[m][j] # row[m][j]
    <3>1. m = n /\ j = i /\ StatusSet(row[n][i], row'[n][i], s)
      BY <1>4, <2>2
    <3>2. send[n].rcpt = row[n][i].rcpt /\ send[n].group = row[n][i].group
      BY <1>2, <1>3, <3>1 DEF SendOK, SameMessage, StatusSet
    <3> QED BY <3>1, <3>2 DEF StatusSet
  <2> QED BY <2>1, <2>2
<1> QED BY <1>6, <1>9, <1>11, <1>12, <1>13, <1>14 DEF IInv

\* The call at n goes on, and writes its message to streams to D.
LEMMA GoesOnKeeps ==
    ASSUME IInv, NEW n \in Nodes, NEW r \in Send, NEW D \in SUBSET (Nodes \ {n}), send[n] # Idle,
           send' = [send EXCEPT ![n] = r],
           r.id = send[n].id, r.sender = send[n].sender, r.rcpt = send[n].rcpt,
           r.group = send[n].group, r.todo \subseteq send[n].todo,
           \/ r.at = "fanOut" /\ r.group = Group
           \/ r.at = "update" /\ (r.group = NoGroup =>
                r.rcpt \in Name /\ (r.ok <=> <<r.id, r.rcpt[2]>> \in written')),
           wire' = wire \cup {Wired(n, d) : d \in D},
           written' = written \cup {<<send[n].id, d>> : d \in D},
           UNCHANGED <<phase, row, faults, peers, handling, announced, origin, crashes>>
    PROVE  IInv'
<1>1. TypeOK /\ TypeInv
  BY DEF IInv, TypeInv
<1>2. send[n] \in Send /\ send[n].id \in Ids /\ origin[send[n].id] = n /\ SendOK(n)
  BY CallIsOwn DEF IInv, SendInv
<1>3. Grows
  BY <1>1 DEF Grows, TypeOK
<1>4. /\ send' \in [Nodes -> Send \cup {Idle}] /\ SendShape'
      /\ send'[n] = r /\ \A m \in Nodes \ {n} : send'[m] = send[m]
  BY <1>1, CallMoves
<1>5. \A d \in D : /\ Wired(n, d) \in Message /\ Wired(n, d).id = send[n].id
                   /\ Wired(n, d).sender = send[n].sender /\ Wired(n, d).rcpt = send[n].rcpt
                   /\ Wired(n, d).group = send[n].group
                   /\ Wired(n, d).src = n /\ Wired(n, d).dst = d
  BY <1>2, WiredType
<1>6. /\ written \subseteq written'
      /\ \A j \in Ids, e \in Nodes :
            <<j, e>> \in written' => <<j, e>> \in written \/ j = send[n].id
  OBVIOUS
<1>7. TypeInv'
  <2>1. wire' \in SUBSET Message /\ written' \in SUBSET (Ids \X Nodes)
    BY <1>1, <1>2, <1>5 DEF TypeOK
  <2> QED BY <1>1, <1>4, <2>1 DEF TypeInv, TypeOK
<1>8. SendInv'
  <2>1. ASSUME NEW m \in Nodes, m # n PROVE SendOK(m)'
    <3>1. send[m] # Idle => send[m].id \in Ids /\ send[m].id # send[n].id
      BY <1>2, <2>1, CallIsOwn
    <3>2. send[m] # Idle => \A e \in Nodes :
            <<send[m].id, e>> \in written' <=> <<send[m].id, e>> \in written
      BY <1>6, <3>1
    <3> QED BY <1>3, <1>4, <2>1, <3>2, SendKeeps
  <2>2. SendOK(n)'
    <3>1. r.at # "transmit"
      OBVIOUS
    <3>2. r.at = "update" /\ r.group = NoGroup => (r.ok <=> <<r.id, r.rcpt[2]>> \in written')
      BY FlowAssumption
    <3> QED BY <1>2, <1>4, <3>1, <3>2 DEF SendOK, SameMessage
  <2> QED BY <2>1, <2>2 DEF SendInv
<1>9. WireInv'
  <2>1. ASSUME NEW w \in Message, NEW d \in D, w = Wired(n, d) PROVE Carried(w)'
    BY <1>2, <1>5, <2>1 DEF SendOK, Carried, SameMessage
  <2>2. \A m \in wire : Carried(m)'
    BY <1>1, <1>3, CarriedKeeps DEF TypeOK, IInv, WireInv
  <2> QED BY <1>5, <2>1, <2>2 DEF WireInv
<1>10. HandlingInv' /\ AnnouncedIsStored' /\ RowInv'
  BY <1>3, HandlingKeeps, AnnouncedKeeps, RowKeeps DEF HandlingInv, RowInv
<1>11. WrittenInv'
  BY <1>2, <1>6 DEF IInv, WrittenInv
<1>12. StatusTellsTheTruth'
  <2> SUFFICES ASSUME NEW m \in Nodes, NEW j \in Ids, row[m][j].dir = "out", row[m][j].group = NoGroup
               PROVE  /\ row[m][j].status = "sent" => <<j, row[m][j].rcpt[2]>> \in written'
                      /\ row[m][j].status = "failed" => <<j, row[m][j].rcpt[2]>> \notin written'
    BY DEF StatusTellsTheTruth
  <2>1. /\ row[m][j].status = "sent" => <<j, row[m][j].rcpt[2]>> \in written
        /\ row[m][j].status = "failed" => <<j, row[m][j].rcpt[2]>> \notin written
    BY DEF IInv, StatusTellsTheTruth
  <2>2. j = send[n].id => row[m][j].status # "failed"
    <3>1. origin[j] = m /\ row[m][j] # NoRow
      BY NoRowIsNone DEF IInv, RowInv, RowOK
    <3> QED BY <1>2, <3>1 DEF SendOK
  <2>3. row[m][j].rcpt[2] \in Nodes
    BY Names DEF IInv, RowInv, RowOK
  <2> QED BY <1>6, <2>1, <2>2, <2>3
<1> QED BY <1>7, <1>8, <1>9, <1>10, <1>11, <1>12 DEF IInv

\* A recipient with a SKALL ID: nothing was written, and the outcome says so.
LEMMA ResolveFailsKeeps ==
    ASSUME IInv, NEW n \in Nodes, ResolveFails(n)
    PROVE  IInv'
<1>1. TypeInv /\ SendOK(n)
  BY DEF IInv, SendInv
<1>2. /\ send[n].at = "transmit" /\ UpdateMessageStatus(n, send[n].id, "failed")
      /\ send' = [send EXCEPT ![n] = Idle]
      /\ UNCHANGED <<phase, peers, wire, handling, announced, origin, written, crashes>>
  BY DEF ResolveFails
<1>3. <<send[n].id, send[n].rcpt[2]>> \notin written
  BY <1>1, <1>2, CallActive, Names DEF SendOK, TypeInv, SendShape
<1>4. announced' \in [Nodes -> SUBSET (Ids \X Name)]
  BY <1>1, <1>2 DEF TypeInv, TypeOK
<1> QED BY <1>2, <1>3, <1>4, OutcomeKeeps

LEMMA FinishSendKeeps ==
    ASSUME IInv, NEW n \in Nodes, FinishSend(n)
    PROVE  IInv'
<1>1. TypeInv /\ SendOK(n)
  BY DEF IInv, SendInv
<1> DEFINE s == IF send[n].ok THEN "sent" ELSE "failed"
<1>2. /\ send[n].at = "update" /\ UpdateMessageStatus(n, send[n].id, s)
      /\ send' = [send EXCEPT ![n] = Idle]
      /\ UNCHANGED <<phase, peers, wire, handling, origin, written, crashes>>
  BY DEF FinishSend
<1>3. send[n] \in Send /\ send[n] # Idle /\ send[n].id \in Ids /\ send[n].sender \in Name
  BY <1>1, <1>2, CallActive DEF Send
<1>4. send[n].group = NoGroup => (s = "sent" <=> <<send[n].id, send[n].rcpt[2]>> \in written)
  BY <1>1, <1>2, <1>3 DEF SendOK
<1>5. announced \in [Nodes -> SUBSET (Ids \X Name)]
  BY <1>1 DEF TypeInv, TypeOK
<1>6. announced' \in [Nodes -> SUBSET (Ids \X Name)]
  BY <1>3, <1>5 DEF FinishSend
<1>7. \A m \in Nodes : \A a \in announced'[m] :
        a \in announced[m] \/ (m = n /\ a[1] = send[n].id)
  BY <1>5 DEF FinishSend
<1> HIDE DEF s
<1>8. s \in {"sent", "failed"}
  BY DEF s
<1> QED BY <1>2, <1>4, <1>6, <1>7, <1>8, OutcomeKeeps

LEMMA TransmitKeeps ==
    ASSUME IInv, NEW n \in Nodes, Transmit(n)
    PROVE  IInv'
<1> DEFINE d == send[n].rcpt[2]
           r == [send[n] EXCEPT !.at = "update", !.ok = TRUE]
<1>1. send[n] \in Send /\ send[n] # Idle
  BY CallActive DEF Transmit, IInv
<1>2. send[n].rcpt \in Name /\ d \in Nodes \ {n}
  BY Names DEF Transmit, IInv, TypeInv, SendShape
<1>3. /\ r \in Send /\ r.at = "update" /\ r.ok = TRUE /\ r.id = send[n].id /\ r.sender = send[n].sender
      /\ r.rcpt = send[n].rcpt /\ r.group = send[n].group /\ r.todo = send[n].todo
  BY <1>1 DEF Send
<1>4. send' = [send EXCEPT ![n] = r]
  BY DEF Transmit, IInv, TypeInv, TypeOK
<1>5. wire' = wire \cup {Wired(n, e) : e \in {d}} /\ written' = written \cup {<<send[n].id, e>> : e \in {d}}
  BY DEF Transmit
<1>6. r.ok <=> <<r.id, r.rcpt[2]>> \in written'
  BY <1>3, <1>5
<1>7. UNCHANGED <<phase, row, faults, peers, handling, announced, origin, crashes>>
  BY DEF Transmit
<1> HIDE DEF r, d
<1> QED BY <1>1, <1>2, <1>3, <1>4, <1>5, <1>6, <1>7, GoesOnKeeps

LEMMA TransmitFailsKeeps ==
    ASSUME IInv, NEW n \in Nodes, TransmitFails(n)
    PROVE  IInv'
<1> DEFINE r == [send[n] EXCEPT !.at = "update", !.ok = FALSE]
<1>1. send[n] \in Send /\ send[n] # Idle /\ send[n].id \in Ids
  BY CallActive DEF TransmitFails, IInv
<1>2. send[n].rcpt \in Name /\ <<send[n].id, send[n].rcpt[2]>> \notin written
  BY <1>1, Names DEF TransmitFails, IInv, TypeInv, SendShape, SendInv, SendOK
<1>3. /\ r \in Send /\ r.at = "update" /\ r.ok = FALSE /\ r.id = send[n].id /\ r.sender = send[n].sender
      /\ r.rcpt = send[n].rcpt /\ r.group = send[n].group /\ r.todo = send[n].todo
  BY <1>1 DEF Send
<1>4. send' = [send EXCEPT ![n] = r]
  BY DEF TransmitFails, IInv, TypeInv, TypeOK
<1>5. UNCHANGED <<phase, row, faults, peers, wire, written, handling, announced, origin, crashes>>
  BY DEF TransmitFails
<1>6. wire' = wire \cup {Wired(n, e) : e \in {}} /\ written' = written \cup {<<send[n].id, e>> : e \in {}}
  BY <1>5
<1> HIDE DEF r
<1> QED BY <1>1, <1>2, <1>3, <1>4, <1>5, <1>6, GoesOnKeeps

LEMMA FanOutKeeps ==
    ASSUME IInv, NEW n \in Nodes, NEW d \in Nodes, FanOut(n, d)
    PROVE  IInv'
<1> DEFINE r == [send[n] EXCEPT !.todo = @ \ {d}]
<1>1. send[n] \in Send /\ send[n] # Idle
  BY CallActive DEF FanOut, IInv
<1>2. d # n /\ send[n].group = Group
  BY <1>1 DEF FanOut, IInv, TypeInv, SendShape, SendInv, SendOK
<1>3. /\ r \in Send /\ r.at = "fanOut" /\ r.id = send[n].id /\ r.sender = send[n].sender
      /\ r.rcpt = send[n].rcpt /\ r.group = send[n].group /\ r.todo \subseteq send[n].todo
  BY <1>1 DEF Send, FanOut
<1>4. send' = [send EXCEPT ![n] = r]
  BY DEF FanOut, IInv, TypeInv, TypeOK
<1>5. PICK D \in SUBSET {d} :
        /\ wire' = wire \cup {Wired(n, e) : e \in D}
        /\ written' = written \cup {<<send[n].id, e>> : e \in D}
  <2>1. CASE UNCHANGED <<wire, written>>
    <3>1. /\ wire' = wire \cup {Wired(n, e) : e \in {}}
          /\ written' = written \cup {<<send[n].id, e>> : e \in {}}
      BY <2>1
    <3> QED BY <3>1
  <2>2. CASE wire' = wire \cup {Wired(n, d)} /\ written' = written \cup {<<send[n].id, d>>}
    <3>1. /\ wire' = wire \cup {Wired(n, e) : e \in {d}}
          /\ written' = written \cup {<<send[n].id, e>> : e \in {d}}
      BY <2>2
    <3> QED BY <3>1
  <2> QED BY <2>1, <2>2 DEF FanOut
<1>6. UNCHANGED <<phase, row, faults, peers, handling, announced, origin, crashes>>
  BY DEF FanOut
<1> HIDE DEF r
<1> QED BY <1>1, <1>2, <1>3, <1>4, <1>5, <1>6, GoesOnKeeps

LEMMA FanOutDoneKeeps ==
    ASSUME IInv, NEW n \in Nodes, FanOutDone(n)
    PROVE  IInv'
<1> DEFINE r == [send[n] EXCEPT !.at = "update"]
<1>1. send[n] \in Send /\ send[n] # Idle /\ send[n].group = Group
  BY CallActive DEF FanOutDone, IInv, TypeInv, SendShape
<1>2. /\ r \in Send /\ r.at = "update" /\ r.id = send[n].id /\ r.sender = send[n].sender
      /\ r.rcpt = send[n].rcpt /\ r.group = send[n].group /\ r.todo = send[n].todo
  BY <1>1 DEF Send
<1>3. send' = [send EXCEPT ![n] = r]
  BY DEF FanOutDone, IInv, TypeInv, TypeOK
<1>4. UNCHANGED <<phase, row, faults, peers, wire, written, handling, announced, origin, crashes>>
  BY DEF FanOutDone
<1>5. wire' = wire \cup {Wired(n, e) : e \in {}} /\ written' = written \cup {<<send[n].id, e>> : e \in {}}
  BY <1>4
<1> HIDE DEF r
<1> QED BY <1>1, <1>2, <1>3, <1>4, <1>5, FlowAssumption, GoesOnKeeps

----------------------------------------------------------------------------
(* The receiver.                                                           *)

\* A step of the receiver n that leaves the calls and the streams' history alone.
LEMMA ReceiveKeeps ==
    ASSUME IInv, TypeInv', Grows, WireInv', HandlingInv', RowInv', AnnouncedIsStored',
           UNCHANGED <<send, written>>,
           \A m \in Nodes : send[m] # Idle => row'[m][send[m].id] = row[m][send[m].id],
           \A m \in Nodes, i \in Ids : row'[m][i] = row[m][i] \/ row'[m][i].dir = "in"
    PROVE  IInv'
<1>1. SendInv'
  BY SendKeeps DEF SendInv
<1>2. WrittenInv' /\ StatusTellsTheTruth'
  BY WrittenKeeps, StatusKeeps
<1> QED BY <1>1, <1>2 DEF IInv

LEMMA StreamKeeps ==
    ASSUME IInv, NEW m \in wire, HandleStream(m) \/ StreamLost(m)
    PROVE  IInv'
<1>1. TypeOK /\ TypeInv /\ m \in Message
  BY DEF IInv, TypeInv, TypeOK
<1>2. m.dst \in Nodes
  BY <1>1 DEF Message
<1>3. /\ wire' = wire \ {m} /\ handling' \in [Nodes -> SUBSET Handled]
      /\ \A n \in Nodes : \A h \in handling'[n] : h \in handling[n] \/ (n = m.dst /\ h = <<"peer", m>>)
  <2>1. handling \in [Nodes -> SUBSET Handled] /\ <<"peer", m>> \in Handled
    BY <1>1 DEF TypeOK, Handled
  <2>2. CASE HandleStream(m)
    BY <1>2, <2>1, <2>2 DEF HandleStream
  <2>3. CASE StreamLost(m)
    BY <2>1, <2>3 DEF StreamLost
  <2> QED BY <2>2, <2>3
<1>4. UNCHANGED <<phase, row, faults, peers, send, announced, origin, written, crashes>>
  BY DEF HandleStream, StreamLost
<1>5. TypeInv'
  BY <1>1, <1>3, <1>4 DEF TypeInv, TypeOK, SendShape, Handled
<1>6. Grows
  BY <1>1, <1>4 DEF Grows, TypeOK
<1>7. HandlingInv'
  <2>1. Carried(m)'
    BY <1>1, <1>6, CarriedKeeps DEF IInv, WireInv
  <2>2. ASSUME NEW h, h = <<"peer", m>> PROVE HandlingOK(m.dst, h)'
    <3>1. h[1] = "peer" /\ h[2] = m
      BY <2>2
    <3> QED BY <2>1, <3>1 DEF HandlingOK
  <2>3. ASSUME NEW n \in Nodes, NEW h \in handling'[n] PROVE HandlingOK(n, h)'
    <3>1. CASE h \in handling[n]
      BY <1>6, <3>1, HandlingKeeps
    <3>2. CASE n = m.dst /\ h = <<"peer", m>>
      BY <2>2, <3>2
    <3> QED BY <1>3, <3>1, <3>2
  <2> QED BY <2>3 DEF HandlingInv
<1>8. WireInv' /\ RowInv' /\ AnnouncedIsStored'
  BY <1>3, <1>4, <1>6, WireKeeps, RowKeeps, AnnouncedKeeps DEF RowInv
<1> QED BY <1>4, <1>5, <1>6, <1>7, <1>8, ReceiveKeeps

\* handleInbound goes from one step to the next with message m.
LEMMA StepKeeps ==
    ASSUME IInv, Grows, NEW n \in Nodes, NEW m \in Message,
           NEW old \in {"peer", "insert"}, NEW new \in {"insert", "publish"},
           <<old, m>> \in handling[n],
           handling' = [handling EXCEPT ![n] = (@ \ {<<old, m>>}) \cup {<<new, m>>}],
           faults' = 0 => LibId(m.src) \in peers'[n],
           faults' = 0 /\ new = "publish" => row'[n][m.id] # NoRow
    PROVE  handling' \in [Nodes -> SUBSET Handled] /\ HandlingInv'
<1>1. handling \in [Nodes -> SUBSET Handled] /\ <<new, m>> \in Handled
  BY DEF IInv, TypeInv, TypeOK, Handled
<1>2. /\ handling' \in [Nodes -> SUBSET Handled]
      /\ \A k \in Nodes : \A h \in handling'[k] : h \in handling[k] \/ (k = n /\ h = <<new, m>>)
  BY <1>1
<1>3. ASSUME NEW h, h = <<new, m>> PROVE HandlingOK(n, h)'
  <2>1. HandlingOK(n, <<old, m>>)'
    BY HandlingKeeps
  <2>2. Carried(m)' /\ m.dst = n
    BY <2>1 DEF HandlingOK
  <2>3. h[1] = new /\ h[2] = m
    BY <1>3
  <2> QED BY <2>2, <2>3 DEF HandlingOK
<1>4. ASSUME NEW k \in Nodes, NEW h \in handling'[k] PROVE HandlingOK(k, h)'
  <2>1. CASE h \in handling[k]
    BY <2>1, HandlingKeeps
  <2>2. CASE k = n /\ h = <<new, m>>
    BY <1>3, <2>2
  <2> QED BY <1>2, <2>1, <2>2
<1> QED BY <1>2, <1>4 DEF HandlingInv

LEMMA UpsertPeerKeeps ==
    ASSUME IInv, NEW n \in Nodes, NEW m \in Message, HandleUpsertPeer(n, m)
    PROVE  IInv'
<1>1. TypeOK /\ TypeInv
  BY DEF IInv, TypeInv
<1>2. /\ <<"peer", m>> \in handling[n]
      /\ handling' = [handling EXCEPT ![n] = (@ \ {<<"peer", m>>}) \cup {<<"insert", m>>}]
      /\ UNCHANGED <<phase, row, send, wire, announced, origin, written, crashes>>
  BY DEF HandleUpsertPeer
<1>3. /\ peers' \in [Nodes -> SUBSET Name] /\ faults' \in 0..MaxFaults
      /\ \A k \in Nodes : peers[k] \subseteq peers'[k]
      /\ faults' = 0 => faults = 0 /\ LibId(m.src) \in peers'[n]
  <2>1. peers \in [Nodes -> SUBSET Name] /\ faults \in 0..MaxFaults /\ LibId(m.src) \in Name
    BY <1>1, Names DEF TypeOK, Message
  <2>2. CASE peers' = [peers EXCEPT ![n] = @ \cup {LibId(m.src)}] /\ UNCHANGED faults
    BY <2>1, <2>2
  <2>3. CASE StatementFails /\ UNCHANGED peers
    BY <1>1, <2>1, <2>3, Statement
  <2> QED BY <2>2, <2>3 DEF HandleUpsertPeer, InboundPeer
<1>4. Grows
  BY <1>1, <1>2, <1>3 DEF Grows, TypeOK
<1>5. handling' \in [Nodes -> SUBSET Handled] /\ HandlingInv'
  BY <1>2, <1>3, <1>4, StepKeeps
<1>6. TypeInv'
  BY <1>1, <1>2, <1>3, <1>5 DEF TypeInv, TypeOK, SendShape, Handled
<1>7. WireInv' /\ RowInv' /\ AnnouncedIsStored'
  BY <1>2, <1>4, WireKeeps, RowKeeps, AnnouncedKeeps DEF RowInv
<1> QED BY <1>2, <1>4, <1>5, <1>6, <1>7, ReceiveKeeps

\* The copy of a row: an insert that does not fail finds the creator's row, and
\* the creator in the peers table.
LEMMA InsertKeeps ==
    ASSUME IInv, NEW n \in Nodes, NEW m \in Message, HandleInsert(n, m)
    PROVE  IInv'
<1>1. TypeOK /\ TypeInv
  BY DEF IInv, TypeInv
<1>2. /\ <<"insert", m>> \in handling[n] /\ InsertMessage(n, m.id, InboundRow(m))
      /\ handling' = [handling EXCEPT ![n] = (@ \ {<<"insert", m>>}) \cup {<<"publish", m>>}]
      /\ UNCHANGED <<phase, peers, send, wire, announced, origin, written, crashes>>
  BY DEF HandleInsert, InboundRow
<1>3. PICK r \in Row : /\ r = InboundRow(m) /\ r.dir = "in" /\ r.sender = m.sender
                       /\ r.rcpt = m.rcpt /\ r.group = m.group
  BY InboundType
<1>4. PICK i \in Ids : i = m.id
  BY DEF Message
<1>5. /\ row' \in [Nodes -> [Ids -> Row \cup {NoRow}]] /\ faults' \in 0..MaxFaults
      /\ faults' = 0 => faults = 0 /\ row'[n][i] # NoRow
      /\ \A k \in Nodes, j \in Ids :
           \/ row'[k][j] = row[k][j]
           \/ k = n /\ j = i /\ row[k][j] = NoRow /\ row'[k][j] = r
  BY <1>1, <1>2, <1>3, <1>4, InsertEffect
<1>6. Grows
  BY <1>1, <1>2, <1>5 DEF Grows, TypeOK
<1>7. /\ Carried(m) /\ Carried(m)' /\ m.dst = n /\ m.src \in Nodes
      /\ faults = 0 => LibId(m.src) \in peers[n]
  <2>1. HandlingOK(n, <<"insert", m>>)
    BY <1>2 DEF IInv, HandlingInv
  <2>2. Carried(m) /\ m.dst = n /\ (faults = 0 => LibId(m.src) \in peers[n])
    BY <2>1 DEF HandlingOK
  <2> QED BY <1>1, <1>6, <2>2, CarriedKeeps DEF Message
<1>8. handling' \in [Nodes -> SUBSET Handled] /\ HandlingInv'
  BY <1>2, <1>4, <1>5, <1>6, <1>7, StepKeeps
<1>9. TypeInv'
  BY <1>1, <1>2, <1>5, <1>8 DEF TypeInv, TypeOK, SendShape, Handled
<1>10. RowInv'
  <2>1. ASSUME NEW k \in Nodes, NEW j \in Ids, row'[k][j] = row[k][j] PROVE RowOK(k, j)'
    BY <1>6, <2>1, RowKeeps
  <2>2. ASSUME row'[n][i] = r PROVE RowOK(n, i)'
    <3>1. origin'[i] = m.src /\ m.src \in Nodes \ {n}
      BY <1>4, <1>7 DEF Carried
    <3>2. faults' = 0 => SameMessage(row'[m.src][i], m) /\ LibId(m.src) \in peers'[n]
      BY <1>2, <1>4, <1>5, <1>7 DEF Carried, SameMessage
    <3>3. faults' = 0 => SameMessage(row'[origin'[i]][i], row'[n][i])
      BY <1>3, <2>2, <3>1, <3>2 DEF SameMessage
    <3>4. row'[n][i].dir = "in"
      BY <1>3, <2>2
    <3> QED BY <3>1, <3>2, <3>3, <3>4 DEF RowOK, SameMessage
  <2> QED BY <1>5, <2>1, <2>2 DEF RowInv
<1>11. WireInv' /\ AnnouncedIsStored'
  BY <1>2, <1>6, WireKeeps, AnnouncedKeeps
<1>12. \A k \in Nodes : send[k] # Idle => row'[k][send[k].id] = row[k][send[k].id]
  <2> SUFFICES ASSUME NEW k \in Nodes, send[k] # Idle PROVE row'[k][send[k].id] = row[k][send[k].id]
    OBVIOUS
  <2>1. send[k].id \in Ids /\ origin[send[k].id] = k
    BY CallIsOwn
  <2>2. k = n => send[k].id # i
    BY <1>4, <1>7, <2>1 DEF Carried
  <2> QED BY <1>5, <2>1, <2>2
<1>13. \A k \in Nodes, j \in Ids : row'[k][j] = row[k][j] \/ row'[k][j].dir = "in"
  BY <1>3, <1>5
<1> QED BY <1>2, <1>6, <1>8, <1>9, <1>10, <1>11, <1>12, <1>13, ReceiveKeeps

LEMMA PublishKeeps ==
    ASSUME IInv, NEW n \in Nodes, NEW m \in Message, HandlePublish(n, m)
    PROVE  IInv'
<1>1. TypeOK /\ TypeInv
  BY DEF IInv, TypeInv
<1>2. /\ <<"publish", m>> \in handling[n]
      /\ UNCHANGED <<phase, row, faults, peers, send, wire, origin, written, crashes>>
  BY DEF HandlePublish
<1>3. /\ handling' \in [Nodes -> SUBSET Handled]
      /\ \A k \in Nodes : handling'[k] \subseteq handling[k]
  BY <1>1 DEF HandlePublish, TypeOK, Handled
<1>4. <<m.id, LibId(m.src)>> \in Ids \X Name
  BY Names DEF Message
<1>5. /\ announced' \in [Nodes -> SUBSET (Ids \X Name)]
      /\ \A k \in Nodes : \A a \in announced'[k] : a \in announced[k] \/ (k = n /\ a[1] = m.id)
  <2>1. announced \in [Nodes -> SUBSET (Ids \X Name)]
    BY <1>1 DEF TypeOK
  <2> QED BY <1>4, <2>1 DEF HandlePublish
<1>6. TypeInv'
  BY <1>1, <1>2, <1>3, <1>5 DEF TypeInv, TypeOK, SendShape, Handled
<1>7. Grows
  BY <1>1, <1>2 DEF Grows, TypeOK
<1>8. WireInv' /\ HandlingInv' /\ RowInv'
  BY <1>2, <1>3, <1>7, WireKeeps, HandlingKeeps, RowKeeps DEF RowInv, HandlingInv
<1>9. AnnouncedIsStored'
  <2>1. faults = 0 => row[n][m.id] # NoRow
    <3>1. HandlingOK(n, <<"publish", m>>)
      BY <1>2 DEF IInv, HandlingInv
    <3> QED BY <3>1 DEF HandlingOK
  <2> QED BY <1>2, <1>5, <2>1 DEF IInv, AnnouncedIsStored
<1> QED BY <1>2, <1>6, <1>7, <1>8, <1>9, ReceiveKeeps

----------------------------------------------------------------------------
(* The life of a node.                                                     *)

LEMMA StartKeeps ==
    ASSUME IInv, NEW n \in Nodes, StartNode(n) \/ StartService(n)
    PROVE  IInv'
<1>1. TypeOK /\ TypeInv
  BY DEF IInv, TypeInv
<1>2. UNCHANGED <<row, faults, peers, send, wire, handling, announced, origin, written, crashes>>
  BY DEF StartNode, StartService
<1>3. phase' \in [Nodes -> {"down", "listening", "ready"}]
  BY <1>1 DEF StartNode, StartService, TypeOK
<1>4. TypeInv'
  BY <1>1, <1>2, <1>3 DEF TypeInv, TypeOK, SendShape
<1>5. Grows
  BY <1>1, <1>2 DEF Grows, TypeOK
<1>6. WireInv' /\ HandlingInv' /\ RowInv' /\ AnnouncedIsStored'
  BY <1>2, <1>5, WireKeeps, HandlingKeeps, RowKeeps, AnnouncedKeeps DEF RowInv, HandlingInv
<1> QED BY <1>2, <1>4, <1>5, <1>6, ReceiveKeeps

\* A crash loses the calls, what was being handled and the events, not the store.
LEMMA CrashKeeps ==
    ASSUME IInv, NEW n \in Nodes, Crash(n)
    PROVE  IInv'
<1>1. TypeOK /\ TypeInv
  BY DEF IInv, TypeInv
<1>2. UNCHANGED <<row, faults, peers, origin, written>> /\ send' = [send EXCEPT ![n] = Idle]
  BY DEF Crash
<1>3. /\ handling' \in [Nodes -> SUBSET Handled] /\ announced' \in [Nodes -> SUBSET (Ids \X Name)]
      /\ \A k \in Nodes : handling'[k] \subseteq handling[k] /\ announced'[k] \subseteq announced[k]
      /\ wire' \subseteq wire
  BY <1>1 DEF Crash, TypeOK, Handled
<1>4. /\ send' \in [Nodes -> Send \cup {Idle}] /\ SendShape'
      /\ send'[n] = Idle /\ \A m \in Nodes \ {n} : send'[m] = send[m]
  BY <1>1, <1>2, IdleIsNone, CallMoves
<1>5. phase' \in [Nodes -> {"down", "listening", "ready"}] /\ crashes' \in 0..MaxCrashes
  BY <1>1, FlowAssumption DEF Crash, TypeOK
<1>6. TypeInv'
  BY <1>1, <1>2, <1>3, <1>4, <1>5 DEF TypeInv, TypeOK, Handled
<1>7. Grows
  BY <1>1, <1>2 DEF Grows, TypeOK
<1>8. SendInv'
  <2>1. ASSUME NEW m \in Nodes, m # n PROVE SendOK(m)'
    BY <1>2, <1>4, <1>7, <2>1, SendKeeps
  <2> QED BY <1>4, <2>1 DEF SendInv, SendOK
<1>9. WireInv' /\ HandlingInv' /\ RowInv' /\ AnnouncedIsStored' /\ WrittenInv' /\ StatusTellsTheTruth'
  BY <1>2, <1>3, <1>7, WireKeeps, HandlingKeeps, RowKeeps, AnnouncedKeeps, WrittenKeeps, StatusKeeps
     DEF RowInv, HandlingInv
<1> QED BY <1>6, <1>8, <1>9 DEF IInv

----------------------------------------------------------------------------
(* The theorems.                                                           *)

LEMMA InitInv == Init => IInv
<1> SUFFICES ASSUME Init PROVE IInv
  OBVIOUS
<1>1. TypeInv
  <2>1. /\ send = [n \in Nodes |-> Idle] /\ row = [n \in Nodes |-> [i \in Ids |-> NoRow]]
        /\ faults = 0 /\ crashes = 0 /\ wire = {} /\ written = {}
    BY DEF Init
  <2>2. send \in [Nodes -> Send \cup {Idle}] /\ SendShape
    BY <2>1, IdleIsNone DEF SendShape
  <2>3. row \in [Nodes -> [Ids -> Row \cup {NoRow}]]
    BY <2>1
  <2>4. /\ phase \in [Nodes -> {"down", "listening", "ready"}] /\ peers \in [Nodes -> SUBSET Name]
        /\ handling \in [Nodes -> SUBSET Handled] /\ announced \in [Nodes -> SUBSET (Ids \X Name)]
        /\ origin \in [Ids -> Nodes \cup {None}]
    BY DEF Init
  <2>5. faults \in 0..MaxFaults /\ crashes \in 0..MaxCrashes
    BY <2>1, FlowAssumption
  <2> QED BY <2>1, <2>2, <2>3, <2>4, <2>5 DEF TypeInv, TypeOK, Handled
<1>2. SendInv /\ WireInv /\ HandlingInv /\ WrittenInv /\ AnnouncedIsStored
  BY DEF Init, SendInv, SendOK, WireInv, HandlingInv, WrittenInv, AnnouncedIsStored
<1>3. \A n \in Nodes, i \in Ids : row[n][i].dir = "none"
  BY NoRowIsNone DEF Init
<1>4. RowInv /\ StatusTellsTheTruth
  BY <1>3 DEF RowInv, RowOK, StatusTellsTheTruth
<1> QED BY <1>1, <1>2, <1>4 DEF IInv

LEMMA NextInv == IInv /\ [Next]_vars => IInv'
<1> SUFFICES ASSUME IInv, [Next]_vars PROVE IInv'
  OBVIOUS
<1>1. ASSUME NEW n \in Nodes, NEW i \in Ids,
             SendGroup(n, i) \/ \E target \in Name : SendDirect(n, target, i)
      PROVE  IInv'
  BY <1>1, SendGroupKeeps, SendDirectKeeps
<1>2. ASSUME NEW n \in Nodes, SenderStep(n) PROVE IInv'
  BY <1>2, ResolveFailsKeeps, TransmitKeeps, TransmitFailsKeeps, FanOutDoneKeeps,
     FinishSendKeeps, FanOutKeeps DEF SenderStep
<1>3. ASSUME NEW n \in Nodes, ReceiverStep(n) PROVE IInv'
  <2>1. PICK h \in handling[n] :
            HandleUpsertPeer(n, h[2]) \/ HandleInsert(n, h[2]) \/ HandlePublish(n, h[2])
    BY <1>3 DEF ReceiverStep
  <2>2. h[2] \in Message
    BY DEF IInv, TypeInv, TypeOK
  <2> QED BY <2>1, <2>2, UpsertPeerKeeps, InsertKeeps, PublishKeeps
<1>4. ASSUME NEW m \in wire, HandleStream(m) \/ StreamLost(m) PROVE IInv'
  BY <1>4, StreamKeeps
<1>5. ASSUME NEW n \in Nodes, StartNode(n) \/ StartService(n) \/ Crash(n) PROVE IInv'
  BY <1>5, StartKeeps, CrashKeeps
<1>6. CASE UNCHANGED vars
  <2>1. TypeInv'
    BY <1>6 DEF vars, IInv, TypeInv, TypeOK, SendShape
  <2>2. Grows
    BY <1>6 DEF vars, Grows, IInv, TypeInv, TypeOK
  <2>3. WireInv' /\ HandlingInv' /\ RowInv' /\ AnnouncedIsStored'
    BY <1>6, <2>2, WireKeeps, HandlingKeeps, RowKeeps, AnnouncedKeeps DEF RowInv, HandlingInv, vars
  <2> QED BY <1>6, <2>1, <2>2, <2>3, ReceiveKeeps DEF vars
<1> QED BY <1>1, <1>2, <1>3, <1>4, <1>5, <1>6 DEF Next

\* Inbound rows are copies: with stores that do not fail, every inbound row has
\* the outbound row of the message's creator behind it, the same in sender,
\* recipient and group, whatever crashes and gets lost in between.
THEOREM NeverPhantom == Spec => [](TypeOK /\ NoPhantom)
<1>1. IInv => TypeOK /\ NoPhantom
  BY DEF IInv, TypeInv, RowInv, RowOK, SameMessage, NoPhantom
<1> QED BY <1>1, InitInv, NextInv, PTL DEF Spec

\* ListConversations finds the peer of every stored inbound message.
THEOREM AlwaysListed == Spec => []InboundIsListed
<1>1. IInv => InboundIsListed
  BY DEF IInv, RowInv, RowOK, InboundIsListed
<1> QED BY <1>1, InitInv, NextInv, PTL DEF Spec

\* Every message that subscribers were told of is in the store.
THEOREM AlwaysStored == Spec => []AnnouncedIsStored
<1>1. IInv => AnnouncedIsStored
  BY DEF IInv
<1> QED BY <1>1, InitInv, NextInv, PTL DEF Spec

\* The status of a direct message is true, also when statements fail and nodes
\* crash: "sent" only with a stream written to its recipient, "failed" only
\* without one.
THEOREM AlwaysTrue == Spec => []StatusTellsTheTruth
<1>1. IInv => StatusTellsTheTruth
  BY DEF IInv
<1> QED BY <1>1, InitInv, NextInv, PTL DEF Spec

----------------------------------------------------------------------------

\* What a step may do to a row.
RowStep(n, i) ==
    \/ row'[n][i] = row[n][i] \/ row[n][i] = NoRow
    \/ row[n][i].status = "pending" /\ \E s \in {"sent", "failed"} : StatusSet(row[n][i], row'[n][i], s)

LEMMA OutcomeStep ==
    ASSUME IInv, NEW k \in Nodes, send[k].at \in {"transmit", "fanOut", "update"},
           NEW s \in {"sent", "failed"}, UpdateMessageStatus(k, send[k].id, s)
    PROVE  \A n \in Nodes, i \in Ids : RowStep(n, i)
<1>1. send[k] # Idle /\ send[k].id \in Ids
  BY CallActive DEF IInv
<1>2. \A n \in Nodes, i \in Ids :
        \/ row'[n][i] = row[n][i]
        \/ n = k /\ i = send[k].id /\ StatusSet(row[n][i], row'[n][i], s)
  BY <1>1, UpdateEffect DEF IInv, TypeInv
<1>3. row[k][send[k].id] # NoRow => row[k][send[k].id].status = "pending"
  BY <1>1 DEF IInv, SendInv, SendOK
<1> QED BY <1>2, <1>3 DEF RowStep, StatusSet

LEMMA StepsRows == IInv /\ [Next]_vars => \A n \in Nodes, i \in Ids : RowStep(n, i)
<1> SUFFICES ASSUME IInv, [Next]_vars PROVE \A n \in Nodes, i \in Ids : RowStep(n, i)
  OBVIOUS
<1>0. TypeOK
  BY DEF IInv, TypeInv
<1>1. ASSUME NEW k \in Nodes, NEW j \in Ids, NEW r \in Row, InsertMessage(k, j, r)
      PROVE  \A n \in Nodes, i \in Ids : RowStep(n, i)
  BY <1>0, <1>1, InsertEffect DEF RowStep
<1>2. ASSUME NEW k \in Nodes, NEW j \in Ids,
             SendGroup(k, j) \/ \E target \in Name : SendDirect(k, target, j)
      PROVE  \A n \in Nodes, i \in Ids : RowStep(n, i)
  <2>1. CASE SendGroup(k, j)
    <3>1. InsertMessage(k, j, GroupRow(k)) /\ GroupRow(k) \in Row
      BY <2>1, GroupType DEF SendGroup, GroupRow
    <3> QED BY <1>1, <3>1
  <2>2. ASSUME NEW target \in Name, SendDirect(k, target, j)
        PROVE  \A n \in Nodes, i \in Ids : RowStep(n, i)
    <3>1. InsertMessage(k, j, DirectRow(k, target)) /\ DirectRow(k, target) \in Row
      BY <2>2, DirectType DEF SendDirect, DirectRow
    <3> QED BY <1>1, <3>1
  <2> QED BY <1>2, <2>1, <2>2
<1>3. ASSUME NEW k \in Nodes, ResolveFails(k) \/ FinishSend(k)
      PROVE  \A n \in Nodes, i \in Ids : RowStep(n, i)
  BY <1>3, OutcomeStep DEF ResolveFails, FinishSend
<1>4. ASSUME NEW k \in Nodes, NEW m \in Message, HandleInsert(k, m)
      PROVE  \A n \in Nodes, i \in Ids : RowStep(n, i)
  <2>1. InsertMessage(k, m.id, InboundRow(m)) /\ InboundRow(m) \in Row /\ m.id \in Ids
    BY <1>4, InboundType DEF HandleInsert, InboundRow, Message
  <2> QED BY <1>1, <2>1
<1>5. ASSUME NEW k \in Nodes, ReceiverStep(k) PROVE \A n \in Nodes, i \in Ids : RowStep(n, i)
  <2>1. PICK h \in handling[k] :
            HandleUpsertPeer(k, h[2]) \/ HandleInsert(k, h[2]) \/ HandlePublish(k, h[2])
    BY <1>5 DEF ReceiverStep
  <2>2. h[2] \in Message
    BY <1>0 DEF TypeOK
  <2> QED BY <1>4, <2>1, <2>2 DEF HandleUpsertPeer, HandlePublish, RowStep
<1>6. ASSUME NEW k \in Nodes, SenderStep(k) PROVE \A n \in Nodes, i \in Ids : RowStep(n, i)
  BY <1>3, <1>6 DEF SenderStep, Transmit, TransmitFails, FanOut, FanOutDone, RowStep
<1>7. ASSUME UNCHANGED row PROVE \A n \in Nodes, i \in Ids : RowStep(n, i)
  BY <1>7 DEF RowStep
<1>8. CASE \/ \E m \in wire : HandleStream(m) \/ StreamLost(m)
           \/ \E n \in Nodes : StartNode(n) \/ StartService(n) \/ Crash(n)
           \/ UNCHANGED vars
  BY <1>7, <1>8 DEF HandleStream, StreamLost, StartNode, StartService, Crash, vars
<1> QED BY <1>2, <1>5, <1>6, <1>8 DEF Next

\* A stored message is never rewritten or lost, by whatever the node does or
\* suffers: only "pending" gives way, once, to the outcome.
THEOREM AlwaysFinal == Spec => RowsAreFinal
<1>1. IInv /\ [Next]_vars =>
        [\A n \in Nodes, i \in Ids : row[n][i] # NoRow /\ row'[n][i] # row[n][i] =>
            /\ row[n][i].status = "pending"
            /\ row'[n][i].status \in {"sent", "failed"}
            /\ row'[n][i] = [row[n][i] EXCEPT !.status = row'[n][i].status]]_vars
  <2> SUFFICES ASSUME IInv, [Next]_vars, NEW n \in Nodes, NEW i \in Ids,
                      row[n][i] # NoRow, row'[n][i] # row[n][i]
               PROVE  /\ row[n][i].status = "pending"
                      /\ row'[n][i].status \in {"sent", "failed"}
                      /\ row'[n][i] = [row[n][i] EXCEPT !.status = row'[n][i].status]
    OBVIOUS
  <2>1. row[n][i].status = "pending" /\ \E s \in {"sent", "failed"} : StatusSet(row[n][i], row'[n][i], s)
    BY StepsRows DEF RowStep
  <2> QED BY <2>1 DEF StatusSet
<1> QED BY <1>1, InitInv, NextInv, PTL DEF Spec, RowsAreFinal

----------------------------------------------------------------------------
(* Reading back: the order of the timestamp column.                        *)

\* A time is its seconds, its tenths and its hundredths.
Sec(t) == t \div 100
Tenths(t) == (t % 100) \div 10
Hundredths(t) == t % 10

LEMMA TimeParts ==
  ASSUME NEW t \in Nat
  PROVE  /\ Sec(t) \in Nat /\ Tenths(t) \in 0..9 /\ Hundredths(t) \in 0..9
         /\ t = 100 * Sec(t) + 10 * Tenths(t) + Hundredths(t)
         /\ t % 100 = 10 * Tenths(t) + Hundredths(t)
  BY DEF Sec, Tenths, Hundredths

\* Concatenations, character by character.
LEMMA TwoParts ==
  ASSUME NEW a, NEW b, NEW s, s = <<a>> \o <<>> \o <<b>>
  PROVE  Len(s) = 2 /\ s[1] = a /\ s[2] = b
  OBVIOUS

LEMMA FourParts ==
  ASSUME NEW a, NEW b, NEW c, NEW d, NEW s, s = <<a>> \o <<b, c>> \o <<d>>
  PROVE  Len(s) = 4 /\ s[1] = a /\ s[2] = b /\ s[3] = c /\ s[4] = d
  OBVIOUS

LEMMA FiveParts ==
  ASSUME NEW a, NEW b, NEW c, NEW d, NEW e, NEW s, s = <<a>> \o <<b, c, d>> \o <<e>>
  PROVE  Len(s) = 5 /\ s[1] = a /\ s[2] = b /\ s[3] = c /\ s[4] = d /\ s[5] = e
  OBVIOUS

\* The characters of a text, by its width.
Shape2(t, x) == Tenths(t) = 0 /\ Hundredths(t) = 0 /\ Len(x) = 2 /\ x[1] = Sec(t) /\ x[2] = 11
Shape4(t, x) == /\ Tenths(t) # 0 /\ Hundredths(t) = 0
                /\ Len(x) = 4 /\ x[1] = Sec(t) /\ x[2] = 0 /\ x[3] = 1 + Tenths(t) /\ x[4] = 11
Shape5(t, x) == /\ Hundredths(t) # 0
                /\ Len(x) = 5 /\ x[1] = Sec(t) /\ x[2] = 0 /\ x[3] = 1 + Tenths(t)
                /\ x[4] = 1 + Hundredths(t) /\ x[5] = 11

LEMMA ShapeByWidth ==
  ASSUME NEW t, NEW x, Shape2(t, x) \/ Shape4(t, x) \/ Shape5(t, x)
  PROVE  \/ Len(x) = 2 /\ Shape2(t, x)
         \/ Len(x) = 4 /\ Shape4(t, x)
         \/ Len(x) = 5 /\ Shape5(t, x)
  <1>1. CASE Shape2(t, x)
    <2>1. Len(x) = 2
      BY <1>1 DEF Shape2
    <2> QED
      BY <1>1, <2>1
  <1>2. CASE Shape4(t, x)
    <2>1. Len(x) = 4
      BY <1>2 DEF Shape4
    <2> QED
      BY <1>2, <2>1
  <1>3. CASE Shape5(t, x)
    <2>1. Len(x) = 5
      BY <1>3 DEF Shape5
    <2> QED
      BY <1>3, <2>1
  <1> QED
    BY <1>1, <1>2, <1>3

LEMMA TextShape ==
  ASSUME NEW t \in Nat
  PROVE  Shape2(t, Text(t)) \/ Shape4(t, Text(t)) \/ Shape5(t, Text(t))
  <1>0. /\ Tenths(t) \in 0..9 /\ Hundredths(t) \in 0..9
        /\ t % 100 = 10 * Tenths(t) + Hundredths(t)
    BY TimeParts
  <1>1. PICK g \in 0..9, h \in 0..9 : g = Tenths(t) /\ h = Hundredths(t) /\ t % 100 = 10 * g + h
    BY <1>0
  <1>2. CASE g = 0 /\ h = 0
    <2>1. Text(t) = <<Sec(t)>> \o <<>> \o <<Zulu>>
      BY <1>1, <1>2 DEF Text, Sec
    <2>2. Len(Text(t)) = 2 /\ Text(t)[1] = Sec(t) /\ Text(t)[2] = Zulu
      BY <2>1, TwoParts
    <2> QED
      BY <1>1, <1>2, <2>2 DEF Shape2, Zulu
  <1>3. CASE g # 0 /\ h = 0
    <2>1. Text(t) = <<Sec(t)>> \o <<Dot, Digit(g)>> \o <<Zulu>>
      BY <1>1, <1>3 DEF Text, Sec, Tenths, Hundredths
    <2>2. /\ Len(Text(t)) = 4 /\ Text(t)[1] = Sec(t) /\ Text(t)[2] = Dot
          /\ Text(t)[3] = Digit(g) /\ Text(t)[4] = Zulu
      BY <2>1, FourParts
    <2> QED
      BY <1>1, <1>3, <2>2 DEF Shape4, Dot, Digit, Zulu
  <1>4. CASE h # 0
    <2>1. Text(t) = <<Sec(t)>> \o <<Dot, Digit(g), Digit(h)>> \o <<Zulu>>
      BY <1>1, <1>4 DEF Text, Sec, Tenths, Hundredths
    <2>2. /\ Len(Text(t)) = 5 /\ Text(t)[1] = Sec(t) /\ Text(t)[2] = Dot
          /\ Text(t)[3] = Digit(g) /\ Text(t)[4] = Digit(h) /\ Text(t)[5] = Zulu
      BY <2>1, FiveParts
    <2> QED
      BY <1>1, <1>4, <2>2 DEF Shape5, Dot, Digit, Zulu
  <1> QED
    BY <1>2, <1>3, <1>4

IsText(x) == Len(x) \in Nat /\ \A n \in 1..Len(x) : x[n] \in Nat

LEMMA TextIsText ==
  ASSUME NEW t \in Nat PROVE IsText(Text(t))
  <1>1. Sec(t) \in Nat /\ Tenths(t) \in 0..9 /\ Hundredths(t) \in 0..9
    BY TimeParts
  <1>2. PICK x : x = Text(t)
    OBVIOUS
  <1>3. Shape2(t, x) \/ Shape4(t, x) \/ Shape5(t, x)
    BY <1>2, TextShape
  <1>4. CASE Shape2(t, x)
    BY <1>1, <1>2, <1>4 DEF Shape2, IsText
  <1>5. CASE Shape4(t, x)
    BY <1>1, <1>2, <1>5 DEF Shape4, IsText
  <1>6. CASE Shape5(t, x)
    BY <1>1, <1>2, <1>6 DEF Shape5, IsText
  <1> QED
    BY <1>3, <1>4, <1>5, <1>6

\* The order of texts is strict ...
LEMMA TextOrder ==
  ASSUME NEW a, NEW b, NEW c, IsText(a), IsText(b), IsText(c)
  PROVE  /\ ~TextLess(a, a)
         /\ TextLess(a, b) /\ TextLess(b, c) => TextLess(a, c)
  <1>1. ~TextLess(a, a)
    BY DEF TextLess, IsText
  <1>2. ASSUME TextLess(a, b), TextLess(b, c) PROVE TextLess(a, c)
    <2>1. PICK n \in 1..Len(a) : n <= Len(b) /\ a[n] < b[n] /\ \A m \in 1..n-1 : a[m] = b[m]
      BY <1>2 DEF TextLess
    <2>2. PICK k \in 1..Len(b) : k <= Len(c) /\ b[k] < c[k] /\ \A m \in 1..k-1 : b[m] = c[m]
      BY <1>2 DEF TextLess
    <2>3. CASE n < k
      <3>1. n \in 1..Len(c) /\ n \in 1..k-1
        BY <2>1, <2>2, <2>3 DEF IsText
      <3>2. a[n] < c[n] /\ \A m \in 1..n-1 : a[m] = c[m]
        BY <2>1, <2>2, <2>3, <3>1
      <3> QED
        BY <3>1, <3>2 DEF TextLess, IsText
    <2>4. CASE n = k
      <3>1. a[n] \in Nat /\ b[n] \in Nat /\ c[n] \in Nat
        BY <2>1, <2>2, <2>4 DEF IsText
      <3>2. a[n] < c[n] /\ \A m \in 1..n-1 : a[m] = c[m]
        BY <2>1, <2>2, <2>4, <3>1
      <3> QED
        BY <2>1, <2>2, <2>4, <3>2 DEF TextLess
    <2>5. CASE k < n
      <3>1. k \in 1..Len(a) /\ k \in 1..n-1
        BY <2>1, <2>2, <2>5 DEF IsText
      <3>2. a[k] < c[k] /\ \A m \in 1..k-1 : a[m] = c[m]
        BY <2>1, <2>2, <2>5, <3>1
      <3> QED
        BY <2>2, <3>1, <3>2 DEF TextLess
    <2> QED
      BY <2>3, <2>4, <2>5
  <1> QED
    BY <1>1, <1>2

\* Texts that differ for the first time at n.
LEMMA DifferAt ==
  ASSUME NEW a, NEW b, IsText(a), IsText(b), NEW n \in 1..Len(a), n <= Len(b),
         a[n] # b[n], \A m \in 1..n-1 : a[m] = b[m]
  PROVE  TextLess(a, b) \/ TextLess(b, a)
  <1>1. n \in 1..Len(b) /\ a[n] \in Nat /\ b[n] \in Nat
    BY DEF IsText
  <1>2. a[n] < b[n] \/ b[n] < a[n]
    BY <1>1
  <1> QED
    BY <1>1, <1>2 DEF TextLess

\* ... and total, although texts have different widths: no text begins another.
LEMMA TextTotal ==
  ASSUME NEW t \in Nat, NEW u \in Nat, t # u
  PROVE  TextLess(Text(t), Text(u)) \/ TextLess(Text(u), Text(t))
  <1>1. PICK x, y : x = Text(t) /\ y = Text(u)
    OBVIOUS
  <1>2. IsText(x) /\ IsText(y)
    BY <1>1, TextIsText
  <1>3. /\ Shape2(t, x) \/ Shape4(t, x) \/ Shape5(t, x)
        /\ Shape2(u, y) \/ Shape4(u, y) \/ Shape5(u, y)
    BY <1>1, TextShape
  <1>4. /\ Sec(t) \in Nat /\ Tenths(t) \in 0..9 /\ Hundredths(t) \in 0..9
        /\ Sec(u) \in Nat /\ Tenths(u) \in 0..9 /\ Hundredths(u) \in 0..9
    BY TimeParts
  <1>5. Sec(t) # Sec(u) \/ Tenths(t) # Tenths(u) \/ Hundredths(t) # Hundredths(u)
    BY TimeParts
  <1>6. ASSUME NEW n \in 1..4, n <= Len(x), n <= Len(y), x[n] # y[n], \A m \in 1..n-1 : x[m] = y[m]
        PROVE  TextLess(x, y) \/ TextLess(y, x)
    <2>1. n \in 1..Len(x)
      BY <1>2, <1>6 DEF IsText
    <2> QED
      BY <1>2, <1>6, <2>1, DifferAt
  <1>7. CASE Sec(t) # Sec(u)
    <2>1. 1 <= Len(x) /\ 1 <= Len(y) /\ x[1] # y[1]
      BY <1>3, <1>7 DEF Shape2, Shape4, Shape5
    <2> QED
      BY <1>1, <1>6, <2>1
  <1>8. CASE Sec(t) = Sec(u)
    <2>1. 2 <= Len(x) /\ 2 <= Len(y) /\ x[1] = y[1]
      BY <1>3, <1>8 DEF Shape2, Shape4, Shape5
    <2>2. CASE x[2] # y[2]
      <3>1. \A m \in 1..2-1 : x[m] = y[m]
        BY <2>1
      <3> QED
        BY <1>1, <1>6, <2>1, <2>2, <3>1
    <2>3. CASE x[2] = y[2]
      <3>1. ~Shape2(t, x) /\ ~Shape2(u, y)
        BY <1>3, <1>4, <1>5, <1>8, <2>3 DEF Shape2, Shape4, Shape5
      <3>2. /\ 4 <= Len(x) /\ 4 <= Len(y) /\ x[3] = 1 + Tenths(t) /\ y[3] = 1 + Tenths(u)
            /\ x[4] = IF Hundredths(t) = 0 THEN 11 ELSE 1 + Hundredths(t)
            /\ y[4] = IF Hundredths(u) = 0 THEN 11 ELSE 1 + Hundredths(u)
        BY <1>3, <3>1 DEF Shape4, Shape5
      <3>3. CASE Tenths(t) # Tenths(u)
        <4>0. 1 + Tenths(t) # 1 + Tenths(u)
          BY <1>4, <3>3
        <4>1. x[3] # y[3] /\ \A m \in 1..3-1 : m = 1 \/ m = 2
          BY <3>2, <4>0
        <4>2. \A m \in 1..3-1 : x[m] = y[m]
          BY <2>1, <2>3, <4>1
        <4> QED
          BY <1>1, <1>6, <3>2, <4>1, <4>2
      <3>4. CASE Tenths(t) = Tenths(u)
        <4>1. x[3] = y[3] /\ \A m \in 1..4-1 : m = 1 \/ m = 2 \/ m = 3
          BY <3>2, <3>4
        <4>2. \A m \in 1..4-1 : x[m] = y[m]
          BY <2>1, <2>3, <4>1
        <4>3. PICK c \in 0..9, f \in 0..9 : c = Hundredths(t) /\ f = Hundredths(u) /\ c # f
          BY <1>4, <1>5, <1>8, <3>4
        <4>4. (IF c = 0 THEN 11 ELSE 1 + c) # (IF f = 0 THEN 11 ELSE 1 + f)
          BY <4>3
        <4>5. x[4] # y[4]
          BY <3>2, <4>3, <4>4
        <4> QED
          BY <1>1, <1>6, <3>2, <4>2, <4>5
      <3> QED
        BY <3>3, <3>4
    <2> QED
      BY <2>2, <2>3
  <1> QED
    BY <1>7, <1>8

LEMMA PartsLess ==
  ASSUME NEW a \in Nat, NEW b \in 0..9, NEW c \in 0..9, NEW d \in Nat, NEW e \in 0..9, NEW f \in 0..9,
         a < d \/ (a = d /\ b < e) \/ (a = d /\ b = e /\ c < f)
  PROVE  100 * a + 10 * b + c <= 100 * d + 10 * e + f
  OBVIOUS

\* Among texts of the same width the order is that of the times.
LEMMA SameWidthLess ==
  ASSUME NEW t \in Nat, NEW u \in Nat, Len(Text(t)) = Len(Text(u)), TextLess(Text(t), Text(u))
  PROVE  t <= u
  <1>1. PICK x, y : x = Text(t) /\ y = Text(u)
    OBVIOUS
  <1>2. /\ Shape2(t, x) \/ Shape4(t, x) \/ Shape5(t, x)
        /\ Shape2(u, y) \/ Shape4(u, y) \/ Shape5(u, y)
    BY <1>1, TextShape
  <1>3. PICK a \in Nat, b \in 0..9, c \in 0..9 :
          /\ a = Sec(t) /\ b = Tenths(t) /\ c = Hundredths(t) /\ t = 100 * a + 10 * b + c
    <2>1. /\ Sec(t) \in Nat /\ Tenths(t) \in 0..9 /\ Hundredths(t) \in 0..9
          /\ t = 100 * Sec(t) + 10 * Tenths(t) + Hundredths(t)
      BY TimeParts
    <2> QED
      BY <2>1
  <1>4. PICK d \in Nat, e \in 0..9, f \in 0..9 :
          /\ d = Sec(u) /\ e = Tenths(u) /\ f = Hundredths(u) /\ u = 100 * d + 10 * e + f
    <2>1. /\ Sec(u) \in Nat /\ Tenths(u) \in 0..9 /\ Hundredths(u) \in 0..9
          /\ u = 100 * Sec(u) + 10 * Tenths(u) + Hundredths(u)
      BY TimeParts
    <2> QED
      BY <2>1
  <1>5. PICK n \in 1..Len(x) : x[n] < y[n] /\ \A m \in 1..n-1 : x[m] = y[m]
    BY <1>1 DEF TextLess
  <1> DEFINE Less == a < d \/ (a = d /\ b < e) \/ (a = d /\ b = e /\ c < f)
  <1>6. SUFFICES Less
    <2>1. Less => 100 * a + 10 * b + c <= 100 * d + 10 * e + f
      BY PartsLess
    <2> QED
      BY <1>3, <1>4, <2>1
  <1>7. CASE Shape2(t, x) /\ Shape2(u, y)
    <2>1. n = 1
      BY <1>5, <1>7 DEF Shape2
    <2> QED
      BY <1>3, <1>4, <1>5, <1>7, <2>1 DEF Shape2
  <1>8. CASE Shape4(t, x) /\ Shape4(u, y)
    <2>1. n = 1 \/ n = 3
      BY <1>5, <1>8 DEF Shape4
    <2>2. CASE n = 1
      BY <1>3, <1>4, <1>5, <1>8, <2>2 DEF Shape4
    <2>3. CASE n = 3
      <3>1. x[1] = y[1] /\ x[3] < y[3]
        BY <1>5, <2>3
      <3>2. x[1] = a /\ y[1] = d /\ x[3] = 1 + b /\ y[3] = 1 + e
        BY <1>3, <1>4, <1>8 DEF Shape4
      <3>3. a = d /\ 1 + b < 1 + e
        BY <3>1, <3>2
      <3> QED
        BY <3>3
    <2> QED
      BY <2>1, <2>2, <2>3
  <1>9. CASE Shape5(t, x) /\ Shape5(u, y)
    <2>1. n = 1 \/ n = 3 \/ n = 4
      BY <1>5, <1>9 DEF Shape5
    <2>2. /\ x[1] = a /\ y[1] = d /\ x[3] = 1 + b /\ y[3] = 1 + e
          /\ x[4] = 1 + c /\ y[4] = 1 + f
      BY <1>3, <1>4, <1>9 DEF Shape5
    <2>3. CASE n = 1
      BY <1>5, <2>2, <2>3
    <2>4. CASE n = 3
      <3>1. x[1] = y[1] /\ x[3] < y[3]
        BY <1>5, <2>4
      <3> QED
        BY <2>2, <3>1
    <2>5. CASE n = 4
      <3>1. x[1] = y[1] /\ x[3] = y[3] /\ x[4] < y[4]
        BY <1>5, <2>5
      <3> QED
        BY <2>2, <3>1
    <2> QED
      BY <2>1, <2>3, <2>4, <2>5
  <1>10. Len(x) = Len(y)
    BY <1>1
  <1>11. \/ Len(x) = 2 /\ Shape2(t, x)
         \/ Len(x) = 4 /\ Shape4(t, x)
         \/ Len(x) = 5 /\ Shape5(t, x)
    BY <1>2, ShapeByWidth
  <1>12. \/ Len(y) = 2 /\ Shape2(u, y)
         \/ Len(y) = 4 /\ Shape4(u, y)
         \/ Len(y) = 5 /\ Shape5(u, y)
    BY <1>2, ShapeByWidth
  <1>13. CASE Len(x) = 2 /\ Shape2(t, x)
    <2>1. Len(y) = 2
      BY <1>10, <1>13
    <2>2. Shape2(u, y)
      BY <1>12, <2>1
    <2> QED
      BY <1>7, <1>13, <2>2
  <1>14. CASE Len(x) = 4 /\ Shape4(t, x)
    <2>1. Len(y) = 4
      BY <1>10, <1>14
    <2>2. Shape4(u, y)
      BY <1>12, <2>1
    <2> QED
      BY <1>8, <1>14, <2>2
  <1>15. CASE Len(x) = 5 /\ Shape5(t, x)
    <2>1. Len(y) = 5
      BY <1>10, <1>15
    <2>2. Shape5(u, y)
      BY <1>12, <2>1
    <2> QED
      BY <1>9, <1>15, <2>2
  <1> QED
    BY <1>11, <1>13, <1>14, <1>15

----------------------------------------------------------------------------
(* Pages.                                                                  *)

\* A set of rows of the table: message_id is its key.
IsTable(set) ==
    /\ set \subseteq MessageRow /\ IsFiniteSet(set)
    /\ \A r, s \in set : r.id = s.id => r = s

\* ORDER BY timestamp, message_id is a strict and total order of the rows.
LEMMA RowOrder ==
  ASSUME NEW set, IsTable(set), NEW r \in set, NEW s \in set, NEW q \in set
  PROVE  /\ ~RowLess(r, r)
         /\ RowLess(r, s) /\ RowLess(s, q) => RowLess(r, q)
         /\ r # s => RowLess(r, s) \/ RowLess(s, r)
  <1>1. /\ r.ts \in Nat /\ s.ts \in Nat /\ q.ts \in Nat
        /\ r.id \in Nat /\ s.id \in Nat /\ q.id \in Nat
    BY HistoryAssumption DEF IsTable, MessageRow
  <1>2. IsText(Text(r.ts)) /\ IsText(Text(s.ts)) /\ IsText(Text(q.ts))
    BY <1>1, TextIsText
  <1>3. ~RowLess(r, r)
    BY <1>1, <1>2, TextOrder DEF RowLess
  <1>4. ASSUME RowLess(r, s), RowLess(s, q) PROVE RowLess(r, q)
    <2>1. CASE TextLess(Text(r.ts), Text(s.ts)) /\ TextLess(Text(s.ts), Text(q.ts))
      BY <1>2, <2>1, TextOrder DEF RowLess
    <2>2. CASE r.ts = s.ts /\ r.id < s.id /\ s.ts = q.ts /\ s.id < q.id
      BY <1>1, <2>2 DEF RowLess
    <2>3. CASE TextLess(Text(r.ts), Text(s.ts)) /\ s.ts = q.ts
      BY <2>3 DEF RowLess
    <2>4. CASE r.ts = s.ts /\ TextLess(Text(s.ts), Text(q.ts))
      BY <2>4 DEF RowLess
    <2> QED
      BY <1>4, <2>1, <2>2, <2>3, <2>4 DEF RowLess
  <1>5. ASSUME r # s PROVE RowLess(r, s) \/ RowLess(s, r)
    <2>1. CASE r.ts # s.ts
      BY <1>1, <2>1, TextTotal DEF RowLess
    <2>2. CASE r.ts = s.ts
      <3>1. r.id # s.id
        BY <1>5 DEF IsTable
      <3>2. r.id < s.id \/ s.id < r.id
        BY <1>1, <3>1
      <3> QED
        BY <2>2, <3>2 DEF RowLess
    <2> QED
      BY <2>1, <2>2
  <1> QED
    BY <1>3, <1>4, <1>5

Below(r, set) == {s \in set : RowLess(s, r)}

\* The place of a row is a number of the set, and grows with the order.
LEMMA RankGrows ==
  ASSUME NEW set, IsTable(set)
  PROVE  /\ \A r \in set : Rank(r, set) \in 1..Cardinality(set)
         /\ \A r, s \in set : RowLess(r, s) => Rank(r, set) < Rank(s, set)
  <1>1. IsFiniteSet(set) /\ Cardinality(set) \in Nat
    BY FS_CardinalityType DEF IsTable
  <1>2. \A r : IsFiniteSet(Below(r, set)) /\ Cardinality(Below(r, set)) \in Nat
    BY <1>1, FS_Subset, FS_CardinalityType DEF Below
  <1>3. \A r : Rank(r, set) = Cardinality(Below(r, set)) + 1
    BY DEF Rank, Below
  <1>4. ASSUME NEW r \in set PROVE Rank(r, set) \in 1..Cardinality(set)
    <2>1. Below(r, set) \subseteq set /\ Below(r, set) # set
      BY RowOrder DEF Below
    <2>2. PICK B : B = Below(r, set)
      OBVIOUS
    <2>3. Cardinality(B) <= Cardinality(set) /\ Cardinality(B) # Cardinality(set)
      BY <1>1, <2>1, <2>2, FS_Subset
    <2> QED
      BY <1>1, <1>2, <1>3, <2>2, <2>3
  <1>5. ASSUME NEW r \in set, NEW s \in set, RowLess(r, s) PROVE Rank(r, set) < Rank(s, set)
    <2>1. \A q \in set : RowLess(q, r) => RowLess(q, s)
      BY <1>5, RowOrder
    <2>2. Below(r, set) \subseteq Below(s, set)
      BY <2>1 DEF Below
    <2>3. r \in Below(s, set) /\ r \notin Below(r, set)
      BY <1>5, RowOrder DEF Below
    <2>4. PICK A, B : A = Below(r, set) /\ B = Below(s, set)
      OBVIOUS
    <2>5. Cardinality(A) <= Cardinality(B) /\ Cardinality(A) # Cardinality(B)
      BY <1>2, <2>2, <2>3, <2>4, FS_Subset
    <2> QED
      BY <1>2, <1>3, <2>4, <2>5
  <1> QED
    BY <1>4, <1>5

\* There is a row at every place, and one only.
LEMMA RowAtPlace ==
  ASSUME NEW set, IsTable(set), NEW k \in 1..Cardinality(set)
  PROVE  RowAt(k, set) \in set /\ Rank(RowAt(k, set), set) = k
  <1> DEFINE n == Cardinality(set)
             f == [r \in set |-> Rank(r, set)]
  <1>1. n \in Nat
    BY FS_CardinalityType DEF IsTable
  <1>2. f \in [set -> 1..n]
    BY RankGrows
  <1>3. ASSUME NEW r \in set, NEW s \in set, r # s PROVE f[r] # f[s]
    <2>1. RowLess(r, s) \/ RowLess(s, r)
      BY <1>3, RowOrder
    <2>2. Rank(r, set) \in 1..n /\ Rank(s, set) \in 1..n
      BY RankGrows
    <2>3. Rank(r, set) < Rank(s, set) \/ Rank(s, set) < Rank(r, set)
      BY <2>1, RankGrows
    <2> QED
      BY <1>1, <2>2, <2>3
  <1>4. f \in Injection(set, 1..n)
    BY <1>2, <1>3 DEF Injection, IsInjective
  <1>5. IsFiniteSet(1..n) /\ Cardinality(1..n) = n
    BY <1>1, FS_Interval
  <1>6. f \in Surjection(set, 1..n)
    BY <1>4, <1>5, FS_Injection
  <1>7. \E r \in set : Rank(r, set) = k
    BY <1>6 DEF Surjection
  <1> QED
    BY <1>7 DEF RowAt

\* What a page is: the rows at the first places.
LEMMA PageShape ==
  ASSUME NEW set, IsTable(set), NEW limit \in Nat
  PROVE  /\ Page(set, limit) \in Seq(set)
         /\ Len(Page(set, limit)) = PageSize(set, limit)
         /\ PageSize(set, limit) \in 0..limit /\ PageSize(set, limit) <= Cardinality(set)
         /\ \A k \in 1..PageSize(set, limit) :
               /\ Page(set, limit)[k] = RowAt(k, set)
               /\ RowAt(k, set) \in set /\ Rank(RowAt(k, set), set) = k
  <1>1. Cardinality(set) \in Nat
    BY FS_CardinalityType DEF IsTable
  <1>2. PageSize(set, limit) \in 0..limit /\ PageSize(set, limit) <= Cardinality(set)
    BY <1>1 DEF PageSize
  <1>3. PICK n \in 0..limit : n = PageSize(set, limit)
    BY <1>2
  <1>4. \A k \in 1..n : k \in 1..Cardinality(set)
    BY <1>1, <1>2, <1>3
  <1>5. \A k \in 1..n : RowAt(k, set) \in set /\ Rank(RowAt(k, set), set) = k
    BY <1>4, RowAtPlace
  <1>6. PICK p : p = Page(set, limit)
    OBVIOUS
  <1>7. p = [k \in 1..n |-> RowAt(k, set)]
    BY <1>3, <1>6 DEF Page
  <1>8. p \in [1..n -> set]
    BY <1>5, <1>7
  <1>9. n \in Nat
    OBVIOUS
  <1>10. p \in Seq(set) /\ DOMAIN p = 1..n
    BY <1>8, <1>9, SeqDef
  <1>11. Len(p) = n
    BY <1>9, <1>10, LenProperties
  <1>12. \A k \in 1..n : p[k] = RowAt(k, set)
    BY <1>7
  <1> QED
    BY <1>2, <1>3, <1>5, <1>6, <1>10, <1>11, <1>12

\* A page is empty only if there is nothing to show.
LEMMA PageEmpty ==
  ASSUME NEW set, IsTable(set), NEW limit \in Nat \ {0}
  PROVE  Page(set, limit) = <<>> <=> set = {}
  <1>1. IsFiniteSet(set) /\ Cardinality(set) \in Nat /\ (Cardinality(set) = 0 <=> set = {})
    BY FS_CardinalityType, FS_EmptySet DEF IsTable
  <1>2. PICK p : p = Page(set, limit)
    OBVIOUS
  <1>3. p \in Seq(set) /\ Len(p) = PageSize(set, limit)
    BY <1>2, PageShape
  <1>4. PageSize(set, limit) = 0 <=> Cardinality(set) = 0
    BY <1>1 DEF PageSize
  <1>5. Len(p) = 0 <=> p = <<>>
    BY <1>3, EmptySeq
  <1> QED
    BY <1>1, <1>2, <1>3, <1>4, <1>5

\* The table has one row for a message ID.
HistoryInv == IsTable(rows)

LEMMA HistoryStep == HistoryInv /\ [HistoryNext]_historyVars => HistoryInv'
  <1> SUFFICES ASSUME HistoryInv, [HistoryNext]_historyVars PROVE HistoryInv'
    OBVIOUS
  <1>1. CASE HistoryNext
    <2>1. PICK r \in MessageRow : InsertRow(r)
      BY <1>1 DEF HistoryNext
    <2>2. rows' = rows \cup {r} /\ \A s \in rows : s.id # r.id
      BY <2>1 DEF InsertRow
    <2>3. IsFiniteSet(rows')
      BY <2>2, FS_AddElement DEF HistoryInv, IsTable
    <2>4. rows' \subseteq MessageRow
      BY <2>1, <2>2 DEF HistoryInv, IsTable
    <2>5. \A q, s \in rows' : q.id = s.id => q = s
      BY <2>2 DEF HistoryInv, IsTable
    <2> QED
      BY <2>3, <2>4, <2>5 DEF HistoryInv, IsTable
  <1>2. CASE UNCHANGED historyVars
    BY <1>2 DEF historyVars, HistoryInv, IsTable
  <1> QED
    BY <1>1, <1>2

LEMMA HistoryHolds == HistorySpec => []HistoryInv
  <1>1. HistoryInit => HistoryInv
    BY FS_EmptySet DEF HistoryInit, HistoryInv, IsTable
  <1> QED
    BY <1>1, HistoryStep, PTL DEF HistorySpec

LEMMA TablePart ==
  ASSUME HistoryInv, NEW set \in SUBSET rows
  PROVE  IsTable(set)
  BY FS_Subset DEF HistoryInv, IsTable

\* The rows that GetMessages reads, whatever the limit.
Source(conv) ==
    IF conv \in Groups THEN {r \in rows : r.group = conv}
    ELSE IF DirectRows(Lib, conv) # {} THEN DirectRows(Lib, conv) ELSE DirectRows(Hex, conv)

LEMMA GetMessagesIsPage ==
  ASSUME HistoryInv, NEW conv, NEW limit \in Nat \ {0}
  PROVE  /\ Source(conv) \subseteq rows /\ IsTable(Source(conv))
         /\ GetMessages(conv, limit) = Page(Source(conv), limit)
  <1>1. Source(conv) \subseteq rows /\ DirectRows(Lib, conv) \subseteq rows
    BY DEF Source, DirectRows
  <1>2. IsTable(Source(conv)) /\ IsTable(DirectRows(Lib, conv))
    BY <1>1, TablePart
  <1>3. CASE conv \in Groups
    BY <1>1, <1>2, <1>3 DEF GetMessages, ListGroupConversation, Source
  <1>4. CASE conv \notin Groups
    <2>1. Page(DirectRows(Lib, conv), limit) = <<>> <=> DirectRows(Lib, conv) = {}
      BY <1>2, PageEmpty
    <2>2. CASE DirectRows(Lib, conv) = {}
      BY <1>1, <1>2, <1>4, <2>1, <2>2 DEF GetMessages, ListDirectConversation, Source
    <2>3. CASE DirectRows(Lib, conv) # {}
      BY <1>1, <1>2, <1>4, <2>1, <2>3 DEF GetMessages, ListDirectConversation, Source
    <2> QED
      BY <2>2, <2>3
  <1> QED
    BY <1>3, <1>4

LEMMA SourceBelongs ==
  ASSUME NEW conv, NEW r \in Source(conv)
  PROVE  Belongs(r, conv)
  <1>1. CASE conv \in Groups
    BY <1>1 DEF Source, Belongs
  <1>2. CASE conv \notin Groups
    BY <1>2 DEF Source, DirectRows, Belongs
  <1> QED
    BY <1>1, <1>2

LEMMA SourceNotEmpty ==
  ASSUME HistoryInv, NEW conv \in Conversations, NEW r \in rows, Belongs(r, conv)
  PROVE  Source(conv) # {}
  <1>1. CASE conv \in Groups
    BY <1>1 DEF Source, Belongs
  <1>2. CASE conv \notin Groups
    <2>1. PICK me \in {Lib, Hex} : r.group = NULL /\ {r.sender, r.rcpt} = {me, conv}
      BY <1>2 DEF Belongs
    <2>2. (r.sender = me /\ r.rcpt = conv) \/ (r.sender = conv /\ r.rcpt = me)
      BY <2>1
    <2>3. r \in DirectRows(Lib, conv) \/ r \in DirectRows(Hex, conv)
      BY <2>1, <2>2 DEF DirectRows
    <2> QED
      BY <1>2, <2>3 DEF Source
  <1> QED
    BY <1>1, <1>2

\* Every page is of its conversation, without repetitions and within its limit,
\* for any table that the program can have written.
THEOREM PagesOfConversation == HistorySpec => []PageIsOfConversation
  <1>1. HistoryInv => PageIsOfConversation
    <2> SUFFICES ASSUME HistoryInv, NEW conv \in Conversations, NEW limit \in 1..MaxRows
                 PROVE  /\ Len(GetMessages(conv, limit)) <= limit
                        /\ \A k \in DOMAIN GetMessages(conv, limit) : Belongs(GetMessages(conv, limit)[k], conv)
                        /\ \A k, l \in DOMAIN GetMessages(conv, limit) :
                              GetMessages(conv, limit)[k] = GetMessages(conv, limit)[l] => k = l
      BY DEF PageIsOfConversation
    <2>1. limit \in Nat \ {0}
      BY HistoryAssumption
    <2>2. PICK set, p : set = Source(conv) /\ p = GetMessages(conv, limit)
      OBVIOUS
    <2>3. IsTable(set) /\ p = Page(set, limit)
      BY <2>1, <2>2, GetMessagesIsPage
    <2>4. PICK n \in 0..limit : n = PageSize(set, limit)
      BY <2>1, <2>3, PageShape
    <2>5. /\ p \in Seq(set) /\ Len(p) = n
          /\ \A k \in 1..n : p[k] = RowAt(k, set) /\ RowAt(k, set) \in set /\ Rank(RowAt(k, set), set) = k
      BY <2>1, <2>3, <2>4, PageShape
    <2>6. DOMAIN p = 1..n
      BY <2>5, LenProperties
    <2>7. \A k \in DOMAIN p : Belongs(p[k], conv)
      BY <2>2, <2>5, <2>6, SourceBelongs
    <2>8. \A k, l \in DOMAIN p : p[k] = p[l] => k = l
      BY <2>5, <2>6
    <2>9. Len(p) <= limit
      BY <2>1, <2>4, <2>5
    <2> QED
      BY <2>2, <2>7, <2>8, <2>9
  <1> QED
    BY <1>1, HistoryHolds, PTL

\* A conversation with a message in the table, under whichever name of the user,
\* is never shown empty, whatever other senders and recipients the rows claim.
THEOREM ConversationsNeverEmpty == HistorySpec => []NeverEmpty
  <1>1. HistoryInv => NeverEmpty
    <2> SUFFICES ASSUME HistoryInv, NEW conv \in Conversations, NEW r \in rows, Belongs(r, conv)
                 PROVE  GetMessages(conv, 1) # <<>>
      BY DEF NeverEmpty
    <2>1. GetMessages(conv, 1) = Page(Source(conv), 1) /\ IsTable(Source(conv))
      BY GetMessagesIsPage
    <2>2. Source(conv) # {}
      BY SourceNotEmpty
    <2> QED
      BY <2>1, <2>2, PageEmpty
  <1> QED
    BY <1>1, HistoryHolds, PTL

\* A page of timestamps that are written in the same width is in chronological
\* order: there the order of the texts is the order of the times.
THEOREM SameWidthAlwaysInOrder == HistorySpec => []SameWidthInOrder
  <1>1. HistoryInv => SameWidthInOrder
    <2> SUFFICES ASSUME HistoryInv, NEW conv \in Conversations, SameWidth(GetMessages(conv, MaxRows)),
                        NEW k \in DOMAIN GetMessages(conv, MaxRows),
                        NEW l \in DOMAIN GetMessages(conv, MaxRows), k < l
                 PROVE  GetMessages(conv, MaxRows)[k].ts <= GetMessages(conv, MaxRows)[l].ts
      BY DEF SameWidthInOrder, InOrder
    <2>1. MaxRows \in Nat
      BY HistoryAssumption
    <2>2. PICK p : p = GetMessages(conv, MaxRows)
      OBVIOUS
    <2>3. PICK set : IsTable(set) /\ p = Page(set, MaxRows)
      <3>1. DirectRows(Lib, conv) \subseteq rows /\ DirectRows(Hex, conv) \subseteq rows
        BY DEF DirectRows
      <3>2. {r \in rows : r.group = conv} \subseteq rows
        OBVIOUS
      <3> QED
        BY <2>2, <3>1, <3>2, TablePart DEF GetMessages, ListGroupConversation, ListDirectConversation
    <2>4. PICK n \in 0..MaxRows : n = PageSize(set, MaxRows)
      BY <2>1, <2>3, PageShape
    <2>5. /\ p \in Seq(set) /\ Len(p) = n
          /\ \A i \in 1..n : p[i] = RowAt(i, set) /\ RowAt(i, set) \in set /\ Rank(RowAt(i, set), set) = i
      BY <2>1, <2>3, <2>4, PageShape
    <2>6. k \in 1..n /\ l \in 1..n
      BY <2>2, <2>5, LenProperties
    <2>7. PICK r \in set, s \in set : r = p[k] /\ s = p[l]
      BY <2>5, <2>6
    <2>8. Rank(r, set) = k /\ Rank(s, set) = l
      BY <2>5, <2>6, <2>7
    <2>9. r # s /\ ~RowLess(s, r)
      BY <2>1, <2>3, <2>4, <2>6, <2>8, RankGrows
    <2>10. RowLess(r, s)
      BY <2>3, <2>9, RowOrder
    <2>11. r.ts \in Nat /\ s.ts \in Nat
      BY <2>3, HistoryAssumption DEF IsTable, MessageRow
    <2>12. Len(Text(r.ts)) = Len(Text(s.ts))
      BY <2>2, <2>7 DEF SameWidth
    <2>13. r.ts <= s.ts
      BY <2>10, <2>11, <2>12, SameWidthLess DEF RowLess
    <2> QED
      BY <2>2, <2>7, <2>13
  <1> QED
    BY <1>1, HistoryHolds, PTL
=============================================================================
