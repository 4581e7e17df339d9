----------------------------- MODULE GroupDedup -----------------------------
(***************************************************************************)
(* groups.Manager.RouteGroupMessage with its per-group set of message IDs  *)
(* that were seen.  The test and the insertion are one critical section;   *)
(* the member list is read in a second one, and delivery is outside both.  *)
(* Groups may be deleted and created again, and members come and go, in    *)
(* between.  Beyond maxSeenPerGroup IDs, half of them are dropped in the   *)
(* random order of a Go map.                                               *)
(***************************************************************************)
EXTENDS Naturals, FiniteSetsExt

CONSTANTS Callers, Groups, Ids, Members, None,
          MaxSeen,      \* maxSeenPerGroup
          MaxDelivered  \* bound: how far deliveries are counted

ASSUME DedupAssumption ==
    /\ None \notin Groups \cup Ids
    /\ MaxSeen \in Nat \ {0} /\ MaxDelivered \in Nat \ {0, 1}

VARIABLES
    groups,     \* m.groups
    members,    \* members[g]: the members of g
    seen,       \* m.seen[g], {} when there is no entry
    call,       \* call[c]: a RouteGroupMessage in progress
    delivered,  \* history: delivered[g][i][p]: how often p got message i of g
    forgotten   \* history: <<g, i>> that pruning or DeleteGroup has dropped

vars == <<groups, members, seen, call, delivered, forgotten>>

Idle == [at |-> "idle", group |-> None, id |-> None, todo |-> {}]

TypeOK ==
    /\ groups \subseteq Groups
    /\ members \in [Groups -> SUBSET Members]
    /\ seen \in [Groups -> SUBSET Ids] /\ \A g \in Groups \ groups : seen[g] = {}
    /\ call \in [Callers -> [at : {"idle", "view", "deliver"}, group : Groups \cup {None},
                             id : Ids \cup {None}, todo : SUBSET Members]]
    /\ delivered \in [Groups -> [Ids -> [Members -> 0..MaxDelivered]]]
    /\ forgotten \subseteq Groups \X Ids

Init ==
    /\ groups = {} /\ members = [g \in Groups |-> {}]
    /\ seen = [g \in Groups |-> {}]
    /\ call = [c \in Callers |-> Idle]
    /\ delivered = [g \in Groups |-> [i \in Ids |-> [p \in Members |-> 0]]]
    /\ forgotten = {}

----------------------------------------------------------------------------

CreateGroup(g) ==
    /\ g \notin groups
    /\ groups' = groups \cup {g}
    /\ UNCHANGED <<members, seen, call, delivered, forgotten>>

DeleteGroup(g) ==
    /\ g \in groups
    /\ groups' = groups \ {g}
    /\ members' = [members EXCEPT ![g] = {}]
    /\ seen' = [seen EXCEPT ![g] = {}]
    /\ forgotten' = forgotten \cup ({g} \X seen[g])
    /\ UNCHANGED <<call, delivered>>

AddMember(g, p) ==
    /\ g \in groups /\ p \notin members[g]
    /\ members' = [members EXCEPT ![g] = @ \cup {p}]
    /\ UNCHANGED <<groups, seen, call, delivered, forgotten>>

RemoveMember(g, p) ==
    /\ g \in groups /\ p \in members[g]
    /\ members' = [members EXCEPT ![g] = @ \ {p}]
    /\ UNCHANGED <<groups, seen, call, delivered, forgotten>>

\* pruneSeen: what may be left of s.
PruneNothing(s) == {s}
PruneSeen(s) ==
    IF Cardinality(s) <= MaxSeen THEN {s}
    ELSE {s \ dead : dead \in kSubset(Cardinality(s) \div 2, s)}

\* The ID is recorded and the set pruned, in one critical section.
Record(g, i) ==
    /\ seen' \in {[seen EXCEPT ![g] = rest] : rest \in PruneSeen(seen[g] \cup {i})}
    /\ forgotten' = forgotten \cup ({g} \X ((seen[g] \cup {i}) \ seen'[g]))

MarkMessageSeen(g, i) ==
    /\ g \in groups
    /\ Record(g, i)
    /\ UNCHANGED <<groups, members, call, delivered>>

\* A duplicate or an unknown group is an error: nothing happens.
RouteUnchecked(c, g, i) ==
    /\ call[c] = Idle /\ g \in groups
    /\ Record(g, i)
    /\ call' = [call EXCEPT ![c] = [at |-> "view", group |-> g, id |-> i, todo |-> {}]]
    /\ UNCHANGED <<groups, members, delivered>>
RouteGroupMessage(c, g, i) ==
    /\ call[c] = Idle /\ g \in groups /\ i \notin seen[g]
    /\ Record(g, i)
    /\ call' = [call EXCEPT ![c] = [at |-> "view", group |-> g, id |-> i, todo |-> {}]]
    /\ UNCHANGED <<groups, members, delivered>>

\* ViewMembers, for a group that may be gone by now; the connected members
\* other than the sender are any subset.
ViewMembers(c) ==
    /\ call[c].at = "view"
    /\ IF call[c].group \in groups
       THEN \E rcpts \in SUBSET members[call[c].group] :
                call' = [call EXCEPT ![c].at = "deliver", ![c].todo = rcpts]
       ELSE call' = [call EXCEPT ![c] = Idle]
    /\ UNCHANGED <<groups, members, seen, delivered, forgotten>>

\* The deliver callback for one member; an error skips the member.
Deliver(c, p) ==
    /\ call[c].at = "deliver" /\ p \in call[c].todo
    /\ call' = [call EXCEPT ![c].todo = @ \ {p}]
    /\ \/ delivered' = [delivered EXCEPT ![call[c].group][call[c].id][p] =
                            IF @ < MaxDelivered THEN @ + 1 ELSE @]
       \/ UNCHANGED delivered
    /\ UNCHANGED <<groups, members, seen, forgotten>>

Return(c) ==
    /\ call[c].at = "deliver" /\ call[c].todo = {}
    /\ call' = [call EXCEPT ![c] = Idle]
    /\ UNCHANGED <<groups, members, seen, delivered, forgotten>>

Next ==
    \/ \E g \in Groups :
        \/ CreateGroup(g) \/ DeleteGroup(g)
        \/ \E p \in Members : AddMember(g, p) \/ RemoveMember(g, p)
        \/ \E i \in Ids : MarkMessageSeen(g, i)
    \/ \E c \in Callers :
        \/ \E g \in Groups, i \in Ids : RouteGroupMessage(c, g, i)
        \/ ViewMembers(c)
        \/ \E p \in Members : Deliver(c, p)
        \/ Return(c)

Spec == Init /\ [][Next]_vars

----------------------------------------------------------------------------
(* Properties.                                                             *)

\* The deduplication set stays within maxSeenPerGroup, whatever is routed.
SeenBounded == \A g \in Groups : Cardinality(seen[g]) <= MaxSeen

\* RouteGroupMessage: "duplicate message IDs are rejected to avoid repeated
\* delivery" - no member gets a message twice, even if several goroutines route
\* it at once, as long as pruning or DeleteGroup has not dropped its ID.
DeliveredOnce ==
    \A g \in Groups, i \in Ids, p \in Members :
        delivered[g][i][p] > 1 => <<g, i>> \in forgotten

=============================================================================
