---------------------------- MODULE GroupService ----------------------------
(***************************************************************************)
(* The group operations of chat.P2PService.  Each call first changes the   *)
(* in-memory groups.Manager under its mutex and then writes the SQLite     *)
(* store, one statement at a time (the store has a single connection), and *)
(* nothing is locked across the two halves.  Several goroutines call the   *)
(* service at once, a statement may fail, the process may exit between any *)
(* two steps and start again (groups.LoadFromStore), and the command       *)
(* `skall groups create` writes the same database from another process.    *)
(*                                                                         *)
(* An early return that changes nothing (unknown group, group exists) is a *)
(* stuttering step.  Names and timestamps are left out.                    *)
(***************************************************************************)
EXTENDS FiniteSets

CONSTANTS Callers,      \* goroutines that call the service
          Groups,       \* group identifiers
          Peers,        \* SKALL peer identifiers
          None,         \* no group, no peer
          CliGroups,    \* the groups `skall groups create` may be run for
          StoreFaults   \* whether a store statement may fail

ASSUME NoneAssumption == None \notin Groups /\ None \notin Peers
ASSUME CliAssumption == CliGroups \subseteq Groups
ASSUME FaultsAssumption == StoreFaults \in BOOLEAN

VARIABLES
    up,          \* the process runs
    memGroups,   \* Manager.groups: the groups in memory
    members,     \* <<group, peer>>: Group.Members of the groups in memory
    dbGroups,    \* table groups
    dbRows,      \* <<group, peer>>: the keys of table group_memberships
    dbActive,    \* those rows with active = 1
    dbPeers,     \* table peers
    pc,          \* pc[c]: the statement caller c executes next, or "idle"
    grp, who,    \* the arguments of c's call
    tainted      \* history: groups whose two copies were changed by calls that
                 \* overlapped, or by something other than a completed call,
                 \* since the process started

memVars == <<memGroups, members>>
dbVars == <<dbGroups, dbRows, dbActive, dbPeers>>
callVars == <<pc, grp, who>>
vars == <<up, memVars, dbVars, callVars, tainted>>

Statements == {"idle", "upsertGroup", "joinPeer", "joinRow",
               "leavePeer", "leaveRow", "deleteGroup"}

TypeOK ==
    /\ up \in BOOLEAN
    /\ memGroups \in SUBSET Groups
    /\ members \in SUBSET (Groups \X Peers)
    /\ dbGroups \in SUBSET Groups
    /\ dbRows \in SUBSET (Groups \X Peers)
    /\ dbActive \in SUBSET (Groups \X Peers)
    /\ dbPeers \in SUBSET Peers
    /\ pc \in [Callers -> Statements]
    /\ grp \in [Callers -> Groups \cup {None}]
    /\ who \in [Callers -> Peers \cup {None}]
    /\ tainted \in SUBSET Groups

Init ==
    /\ up = FALSE
    /\ memGroups = {} /\ members = {}
    /\ dbGroups = {} /\ dbRows = {} /\ dbActive = {} /\ dbPeers = {}
    /\ pc = [c \in Callers |-> "idle"]
    /\ grp = [c \in Callers |-> None]
    /\ who = [c \in Callers |-> None]
    /\ tainted = {}

Busy(g) == \E c \in Callers : pc[c] # "idle" /\ grp[c] = g

----------------------------------------------------------------------------
(* The two halves of a call.                                               *)

Begin(c, stmt, g, p) ==
    /\ up /\ pc[c] = "idle"
    /\ pc' = [pc EXCEPT ![c] = stmt]
    /\ grp' = [grp EXCEPT ![c] = g]
    /\ who' = [who EXCEPT ![c] = p]
    /\ tainted' = IF Busy(g) THEN tainted \cup {g} ELSE tainted
    /\ UNCHANGED <<up, dbVars>>

Return(c) ==
    /\ pc' = [pc EXCEPT ![c] = "idle"]
    /\ grp' = [grp EXCEPT ![c] = None]
    /\ who' = [who EXCEPT ![c] = None]

\* DELETE FROM groups ... ON DELETE CASCADE, and delete(m.groups, id), whose
\* members go with the group.
NoCascade(pairs, g) == pairs
Cascade(pairs, g) == {m \in pairs : m[1] # g}

\* groups.Manager, each method under its mutex.  ErrGroupAlreadyExists ends
\* CreateGroup.
MgrCreateGroup(g) ==
    /\ g \notin memGroups
    /\ memGroups' = memGroups \cup {g}
    /\ UNCHANGED members

\* ErrMemberAlreadyAdded is ignored by JoinGroup, which writes the store all the
\* same, and ErrMemberNotFound by LeaveGroup; ErrGroupNotFound ends either call.
MgrAddMember(g, p) ==
    /\ g \in memGroups
    /\ members' = members \cup {<<g, p>>}
    /\ UNCHANGED memGroups

MgrRemoveMember(g, p) ==
    /\ g \in memGroups
    /\ members' = members \ {<<g, p>>}
    /\ UNCHANGED memGroups

\* ErrGroupNotFound is ignored by DeleteGroup.
MgrDeleteGroup(g) ==
    /\ memGroups' = memGroups \ {g}
    /\ members' = {m \in members : m[1] # g}

CreateGroup(c, g) == MgrCreateGroup(g) /\ Begin(c, "upsertGroup", g, None)
JoinGroup(c, g, p) == MgrAddMember(g, p) /\ Begin(c, "joinPeer", g, p)
LeaveGroup(c, g, p) == MgrRemoveMember(g, p) /\ Begin(c, "leavePeer", g, p)
DeleteGroup(c, g) == MgrDeleteGroup(g) /\ Begin(c, "deleteGroup", g, None)

----------------------------------------------------------------------------
(* The store statements.                                                   *)

UpsertGroup(c) ==
    /\ pc[c] = "upsertGroup"
    /\ dbGroups' = dbGroups \cup {grp[c]}
    /\ Return(c)
    /\ UNCHANGED <<up, memVars, dbRows, dbActive, dbPeers, tainted>>

\* SetGroupMembership begins with UpsertPeer, a statement of its own.
SkipUpsertPeer(c) ==
    /\ pc[c] \in {"joinPeer", "leavePeer"}
    /\ pc' = [pc EXCEPT ![c] = IF @ = "joinPeer" THEN "joinRow" ELSE "leaveRow"]
    /\ UNCHANGED <<up, memVars, dbVars, grp, who, tainted>>
UpsertPeer(c) ==
    /\ pc[c] \in {"joinPeer", "leavePeer"}
    /\ dbPeers' = dbPeers \cup {who[c]}
    /\ pc' = [pc EXCEPT ![c] = IF @ = "joinPeer" THEN "joinRow" ELSE "leaveRow"]
    /\ UNCHANGED <<up, memVars, dbGroups, dbRows, dbActive, grp, who, tainted>>

LeaveDeletesRow(c) ==
    /\ pc[c] \in {"joinRow", "leaveRow"}
    /\ grp[c] \in dbGroups
    /\ LET row == <<grp[c], who[c]>> IN
       IF pc[c] = "joinRow"
       THEN dbRows' = dbRows \cup {row} /\ dbActive' = dbActive \cup {row}
       ELSE dbRows' = dbRows \ {row} /\ dbActive' = dbActive \ {row}
    /\ Return(c)
    /\ UNCHANGED <<up, memVars, dbGroups, dbPeers, tainted>>
UpsertMembershipUnchecked(c) ==
    /\ pc[c] \in {"joinRow", "leaveRow"}
    /\ LET row == <<grp[c], who[c]>> IN
       /\ dbRows' = dbRows \cup {row}
       /\ dbActive' = IF pc[c] = "joinRow" THEN dbActive \cup {row}
                                           ELSE dbActive \ {row}
    /\ Return(c)
    /\ UNCHANGED <<up, memVars, dbGroups, dbPeers, tainted>>
UpsertMembership(c) ==
    /\ pc[c] \in {"joinRow", "leaveRow"}
    /\ grp[c] \in dbGroups
    /\ LET row == <<grp[c], who[c]>> IN
       /\ dbRows' = dbRows \cup {row}
       /\ dbActive' = IF pc[c] = "joinRow" THEN dbActive \cup {row}
                                           ELSE dbActive \ {row}
    /\ Return(c)
    /\ UNCHANGED <<up, memVars, dbGroups, dbPeers, tainted>>

\* FOREIGN KEY (group_id) REFERENCES groups(group_id): the statement fails and
\* the call returns its error; memory keeps what it has.
ForeignKeyFails(c) ==
    /\ pc[c] \in {"joinRow", "leaveRow"}
    /\ grp[c] \notin dbGroups
    /\ Return(c)
    /\ UNCHANGED <<up, memVars, dbVars, tainted>>

\* sql.ErrNoRows when the row is not there: nothing is deleted.
DeleteGroupRow(c) ==
    /\ pc[c] = "deleteGroup"
    /\ dbGroups' = dbGroups \ {grp[c]}
    /\ dbRows' = Cascade(dbRows, grp[c])
    /\ dbActive' = Cascade(dbActive, grp[c])
    /\ Return(c)
    /\ UNCHANGED <<up, memVars, dbPeers, tainted>>

\* Any statement may fail (disk full, database locked): the call returns the
\* error and its memory half stands.
StatementFails(c) ==
    /\ StoreFaults
    /\ pc[c] # "idle"
    /\ Return(c)
    /\ tainted' = tainted \cup {grp[c]}
    /\ UNCHANGED <<up, memVars, dbVars>>

\* `skall groups create` in another process: the row, and nobody's memory.
CliCreateGroup(g) ==
    /\ g \in CliGroups
    /\ dbGroups' = dbGroups \cup {g}
    /\ tainted' = IF up THEN tainted \cup {g} ELSE tainted
    /\ UNCHANGED <<up, memVars, dbRows, dbActive, dbPeers, callVars>>

----------------------------------------------------------------------------
(* The life of the process.                                                *)

\* The process ends (quit or crash): calls in flight and memory are gone.
Exit ==
    /\ up
    /\ up' = FALSE
    /\ memGroups' = {} /\ members' = {}
    /\ pc' = [c \in Callers |-> "idle"]
    /\ grp' = [c \in Callers |-> None]
    /\ who' = [c \in Callers |-> None]
    /\ tainted' = {}
    /\ UNCHANGED dbVars

\* LoadFromStore restores every group and its active members; a group whose
\* members cannot be read is restored without them.
RestoreEveryRow(unread) == {m \in dbRows : m[1] \notin unread}
RestoredMembers(unread) == {m \in dbActive : m[1] \in dbGroups /\ m[1] \notin unread}

Start ==
    /\ ~up
    /\ up' = TRUE
    /\ \E unread \in SUBSET dbGroups :
        /\ unread # {} => StoreFaults
        /\ memGroups' = dbGroups
        /\ members' = RestoredMembers(unread)
        /\ tainted' = unread
    /\ UNCHANGED <<dbVars, callVars>>

\* ListGroups fails: runTUI logs the error and goes on with an empty manager.
StartWithoutGroups ==
    /\ StoreFaults
    /\ ~up
    /\ up' = TRUE
    /\ tainted' = dbGroups
    /\ UNCHANGED <<memVars, dbVars, callVars>>

Call(c) ==
    \E g \in Groups :
        \/ CreateGroup(c, g)
        \/ DeleteGroup(c, g)
        \/ \E p \in Peers : JoinGroup(c, g, p) \/ LeaveGroup(c, g, p)

Statement(c) ==
    \/ UpsertGroup(c)
    \/ UpsertPeer(c)
    \/ UpsertMembership(c)
    \/ ForeignKeyFails(c)
    \/ DeleteGroupRow(c)
    \/ StatementFails(c)

Next ==
    \/ \E c \in Callers : Call(c) \/ Statement(c)
    \/ \E g \in Groups : CliCreateGroup(g)
    \/ Exit
    \/ Start
    \/ StartWithoutGroups

Spec == Init /\ [][Next]_vars

----------------------------------------------------------------------------
(* Properties.                                                             *)

\* A membership row belongs to a row of groups, whatever calls interleave:
\* DeleteGroup's cascade (store.go, DeleteGroup) removes the memberships that a
\* concurrent JoinGroup wrote, and a JoinGroup that comes too late fails.
RowsHaveGroups == \A m \in dbRows : m[1] \in dbGroups

\* Every membership row names a peer that ListPeers shows, although the schema
\* declares no foreign key for it: SetGroupMembership writes the peer first, and
\* a process that exits between the two statements leaves only the peer.
RowsHavePeers == \A m \in dbRows : m[2] \in dbPeers

SameGroup(g) ==
    /\ g \in memGroups <=> g \in dbGroups
    /\ \A p \in Peers : <<g, p>> \in members <=> <<g, p>> \in dbActive

\* When no call on a group is in flight, memory and store agree on the group
\* and on its members: SendGroup fans out to the members that a restart will
\* bring back.  Only calls on the same group that overlapped, a failed
\* statement, or the command line may leave them apart.
Coherent == up => \A g \in Groups \ tainted : ~Busy(g) => SameGroup(g)

\* LeaveGroup keeps the membership row, for the history: a row goes only with
\* its group.
HistoryKept ==
    [][\A m \in dbRows : m \in dbRows' \/ m[1] \notin dbGroups']_vars

Directory == INSTANCE GroupDirectory
    WITH groups <- dbGroups, current <- dbActive, former <- dbRows \ dbActive

\* Whatever the interleaving and wherever the process stops, the database moves
\* only by whole group operations of the abstract directory.
ImplementsDirectory == Directory!Spec
=============================================================================
