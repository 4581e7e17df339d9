------------------------------ MODULE History ------------------------------
(***************************************************************************)
(* What P2PService reads back from the messages table: GetMessages and     *)
(* ListConversations, over ListDirectConversation and ListGroupConversation*)
(* of the store.                                                           *)
(*                                                                         *)
(* The timestamp column is text, time.RFC3339Nano in UTC, and rows are     *)
(* ordered by that text.  The format drops trailing zeros of the fraction, *)
(* and the fraction altogether when it is zero.  The fraction has two      *)
(* digits here instead of nine; seconds are written in fixed width.        *)
(*                                                                         *)
(* The local user has two names: the libp2p ID, under which the p2p service*)
(* stores direct messages, and the SKALL ID, under which the TCP client    *)
(* does.  A row has the sender and the recipient that its message claims:  *)
(* the service checks neither, and the TCP client stores what it sends to  *)
(* everyone without a recipient.                                           *)
(***************************************************************************)
EXTENDS Naturals, SequencesExt

CONSTANTS RowIds,         \* message IDs: in the order of their text
          Times,          \* timestamps, in hundredths of a second
          Lib, Hex,       \* the names of the local user
          Remotes,        \* names of remote peers
          Groups,         \* groups in the group manager
          NULL,           \* a column without a value
          MaxRows         \* bound on the rows of the table

ASSUME HistoryAssumption == RowIds \subseteq Nat /\ Times \subseteq Nat /\ MaxRows \in Nat

VARIABLES rows   \* table messages

historyVars == <<rows>>

Parties == {Lib, Hex} \cup Remotes
MessageRow == [id : RowIds, ts : Times, sender : Parties, rcpt : Parties \cup {NULL},
               group : Groups \cup {NULL}]

HistoryTypeOK ==
    /\ rows \subseteq MessageRow
    /\ \A r, s \in rows : r.id = s.id => r = s

HistoryInit == rows = {}

\* InsertMessage: Validate asks for an ID, a sender and a time and for nothing
\* else here; message_id is the primary key, and a second row with it is refused.
InsertRow(r) ==
    /\ Cardinality(rows) < MaxRows
    /\ \A s \in rows : s.id # r.id
    /\ rows' = rows \cup {r}

HistoryNext == \E r \in MessageRow : InsertRow(r)

HistorySpec == HistoryInit /\ [][HistoryNext]_historyVars

----------------------------------------------------------------------------
(* The order of the timestamp column.                                      *)

\* Characters by their order in ASCII: '.', the digits, 'Z'.
Dot == 0
Digit(d) == 1 + d
Zulu == 11

\* The text of a time, from the seconds on.
Text(t) ==
    LET tenths == (t % 100) \div 10
        hundredths == t % 10
        fraction == IF t % 100 = 0 THEN <<>>
                    ELSE IF hundredths = 0 THEN <<Dot, Digit(tenths)>>
                    ELSE <<Dot, Digit(tenths), Digit(hundredths)>>
    IN <<t \div 100>> \o fraction \o <<Zulu>>

TextLess(a, b) ==
    \E n \in 1..Len(a) :
        /\ n <= Len(b) /\ a[n] < b[n]
        /\ \A m \in 1..n-1 : a[m] = b[m]

TimeDescending(r, s) == TextLess(Text(s.ts), Text(r.ts)) \/ (r.ts = s.ts /\ r.id < s.id)
\* ORDER BY timestamp ASC, message_id ASC
RowLess(r, s) == TextLess(Text(r.ts), Text(s.ts)) \/ (r.ts = s.ts /\ r.id < s.id)

\* The place of a row in the order, and the row at a place.
Rank(r, set) == Cardinality({s \in set : RowLess(s, r)}) + 1
RowAt(k, set) == CHOOSE r \in set : Rank(r, set) = k

PageSize(set, limit) == IF Cardinality(set) < limit THEN Cardinality(set) ELSE limit

\* LIMIT: the first `limit` of them.
Page(set, limit) == [k \in 1..PageSize(set, limit) |-> RowAt(k, set)]

----------------------------------------------------------------------------
(* The queries.                                                            *)

DirectIncludingGroups(local, remote) ==
    {r \in rows : \/ r.sender = local /\ r.rcpt = remote
                  \/ r.sender = remote \/ r.rcpt = remote}
DirectRows(local, remote) ==
    {r \in rows : /\ r.group = NULL
                  /\ \/ r.sender = local /\ r.rcpt = remote
                     \/ r.sender = remote /\ r.rcpt = local}

ListDirectConversation(local, remote, limit) == Page(DirectRows(local, remote), limit)

ListGroupConversation(g, limit) == Page({r \in rows : r.group = g}, limit)

GetMessagesNoFallback(conv, limit) ==
    IF conv \in Groups THEN ListGroupConversation(conv, limit)
    ELSE ListDirectConversation(Lib, conv, limit)
\* GetMessages: a group, or a direct conversation, which is looked up under the
\* SKALL ID when there is nothing under the libp2p ID.
GetMessages(conv, limit) ==
    IF conv \in Groups THEN ListGroupConversation(conv, limit)
    ELSE LET found == ListDirectConversation(Lib, conv, limit) IN
         IF found # <<>> THEN found ELSE ListDirectConversation(Hex, conv, limit)

Conversations == Remotes \cup Groups

----------------------------------------------------------------------------
(* Properties.                                                             *)

\* The rows that belong to a conversation: those of the group, or those between the
\* user, under either name, and the remote peer.
Belongs(r, conv) ==
    IF conv \in Groups THEN r.group = conv
    ELSE r.group = NULL /\ \E me \in {Lib, Hex} : {r.sender, r.rcpt} = {me, conv}

\* A page shows messages of its conversation only, each once: neither a message to
\* a group nor one without a recipient, or between others, shows up in the direct
\* conversation with its sender.
PageIsOfConversation ==
    \A conv \in Conversations, limit \in 1..MaxRows :
        LET page == GetMessages(conv, limit) IN
        /\ Len(page) <= limit
        /\ \A k \in DOMAIN page : Belongs(page[k], conv)
        /\ \A k, l \in DOMAIN page : page[k] = page[l] => k = l

\* A conversation that has messages is not shown empty, although its rows may be
\* stored under either name of the user.  It need not be shown whole: where rows
\* have both names, those with the SKALL ID are left out.
NeverEmpty ==
    \A conv \in Conversations :
        (\E r \in rows : Belongs(r, conv)) => GetMessages(conv, 1) # <<>>

SameWidth(page) == \A k, l \in DOMAIN page : Len(Text(page[k].ts)) = Len(Text(page[l].ts))
InOrder(page) == \A k, l \in DOMAIN page : k < l => page[k].ts <= page[l].ts

\* Among timestamps that are written with the same number of digits, a page is
\* in chronological order.
SameWidthInOrder ==
    \A conv \in Conversations :
        LET page == GetMessages(conv, MaxRows) IN SameWidth(page) => InOrder(page)
=============================================================================
