------------------------------ MODULE Sidebar ------------------------------
(***************************************************************************)
(* The left panel of the user interface: three lists under tabs, a cursor  *)
(* in the active one, and the keys that move it.  The lists are copies:    *)
(* they change only when the application reads them from the service       *)
(* again, and the cursor is a position, not an entry.  A list is sorted,   *)
(* so its entries determine it: it is modelled as their set.               *)
(***************************************************************************)
EXTENDS Naturals, SequencesExt

CONSTANTS Peers,
          Groups,     \* the groups of the process
          SortKey     \* the order of every list: the peers by their IDs, then the groups

Convs == Peers \cup Groups

ASSUME SidebarAssumption ==
    /\ IsFiniteSet(Peers) /\ IsFiniteSet(Groups)
    /\ SortKey \in [Convs -> Nat] /\ IsInjective(SortKey)

Tabs == <<"conversations", "groups", "peers">>

VARIABLES tab,     \* activeTab, a position in Tabs
          cursor,  \* 0 is the first row
          list     \* the lists as they were read last, by tab

sidebarVars == <<tab, cursor, list>>

ActiveList == list[Tabs[tab]]

SidebarTypeOK ==
    /\ tab \in DOMAIN Tabs
    /\ cursor \in 0..Cardinality(Convs)
    /\ list \in [ToSet(Tabs) -> SUBSET Convs]

SidebarInit == tab = 1 /\ cursor = 0 /\ list = [t \in ToSet(Tabs) |-> {}]

----------------------------------------------------------------------------
(* What the service answers, given the peers in the store.                 *)

ListPeers(stored) == Peers \cap stored
ListGroups == Groups
ListConversations(stored) == ListPeers(stored) \cup ListGroups

----------------------------------------------------------------------------
(* The keys, while the sidebar has the focus.                              *)

KeyTabKeepsCursor ==
    /\ \E step \in {1, Len(Tabs) - 1} : tab' = ((tab - 1 + step) % Len(Tabs)) + 1
    /\ UNCHANGED <<cursor, list>>
\* tab and shift+tab.
KeyTab ==
    /\ \E step \in {1, Len(Tabs) - 1} : tab' = ((tab - 1 + step) % Len(Tabs)) + 1
    /\ cursor' = 0
    /\ UNCHANGED list

\* up and down; in an empty list len - 1 is below zero, as it is in Go.
KeyMove ==
    /\ \/ cursor > 0 /\ cursor' = cursor - 1
       \/ cursor + 1 < Cardinality(ActiveList) /\ cursor' = cursor + 1
    /\ UNCHANGED <<tab, list>>

\* SelectedConversation, SelectedGroupID and SelectedPeer: at most one entry.
Position(c, entries) == Cardinality({d \in entries : SortKey[d] < SortKey[c]})
Selected == {c \in ActiveList : Position(c, ActiveList) = cursor}

\* The application puts a new list in place; clampCursor does not run, because
\* the messages that would call it do not reach the sidebar.
SetList(t, entries) == list' = [list EXCEPT ![t] = entries] /\ UNCHANGED <<tab, cursor>>
SetConversations(stored) ==
    /\ list' = [list EXCEPT !.conversations = ListConversations(stored), !.groups = ListGroups]
    /\ UNCHANGED <<tab, cursor>>

----------------------------------------------------------------------------
\* The cursor never points behind the list it is in, although the lists are
\* replaced under it and clampCursor is never reached: tabs of different
\* lengths start at the top, and no list ever shrinks.
CursorInList == cursor = 0 \/ cursor < Cardinality(ActiveList)
=============================================================================
