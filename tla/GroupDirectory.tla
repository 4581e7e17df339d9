--------------------------- MODULE GroupDirectory ---------------------------
(***************************************************************************)
(* What the group part of the chat service promises about its durable      *)
(* state: the groups and memberships that a restart brings back.  Every    *)
(* operation is one atomic step, a membership belongs to a group that      *)
(* exists, and a member who leaves is remembered as a former member.       *)
(***************************************************************************)
CONSTANTS Groups,   \* group identifiers
          Peers     \* SKALL peer identifiers

VARIABLES groups,   \* the groups that exist
          current,  \* <<group, peer>>: the peer is a member of the group
          former    \* <<group, peer>>: the peer has left the group

vars == <<groups, current, former>>

Init == groups = {} /\ current = {} /\ former = {}

Create(g) ==
    /\ groups' = groups \cup {g}
    /\ UNCHANGED <<current, former>>

Join(g, p) ==
    /\ g \in groups
    /\ current' = current \cup {<<g, p>>}
    /\ former' = former \ {<<g, p>>}
    /\ UNCHANGED groups

Leave(g, p) ==
    /\ g \in groups
    /\ current' = current \ {<<g, p>>}
    /\ former' = former \cup {<<g, p>>}
    /\ UNCHANGED groups

Delete(g) ==
    /\ groups' = groups \ {g}
    /\ current' = {m \in current : m[1] # g}
    /\ former' = {m \in former : m[1] # g}

Next ==
    \E g \in Groups :
        \/ Create(g)
        \/ Delete(g)
        \/ \E p \in Peers : Join(g, p) \/ Leave(g, p)

Spec == Init /\ [][Next]_vars
=============================================================================
