------------------------- MODULE GroupServiceProofs -------------------------
(***************************************************************************)
(* Proofs about GroupService, for any callers, groups and peers.           *)
(***************************************************************************)
EXTENDS GroupService, TLAPS

JoinSteps == {"joinPeer", "joinRow"}
LeaveSteps == {"leavePeer", "leaveRow"}

\* A call in flight has the arguments its statements use, and once it reaches
\* the membership statement its peer is in the store.
ArgsInv ==
    \A c \in Callers :
        /\ pc[c] # "idle" => up /\ grp[c] \in Groups
        /\ pc[c] \in JoinSteps \cup LeaveSteps => who[c] \in Peers
        /\ pc[c] \in {"joinRow", "leaveRow"} => who[c] \in dbPeers

TypeInv == TypeOK /\ ArgsInv

\* What a call in flight has already done to memory, and not yet to the store.
HalfDone(c, g) ==
    /\ pc[c] = "upsertGroup" =>
        g \in memGroups /\ g \notin dbGroups /\ \A p \in Peers : <<g, p>> \notin members
    /\ pc[c] \in JoinSteps =>
        /\ g \in memGroups /\ g \in dbGroups /\ <<g, who[c]>> \in members
        /\ \A p \in Peers \ {who[c]} : <<g, p>> \in members <=> <<g, p>> \in dbActive
    /\ pc[c] \in LeaveSteps =>
        /\ g \in memGroups /\ g \in dbGroups /\ <<g, who[c]>> \notin members
        /\ \A p \in Peers \ {who[c]} : <<g, p>> \in members <=> <<g, p>> \in dbActive
    /\ pc[c] = "deleteGroup" =>
        g \notin memGroups /\ \A p \in Peers : <<g, p>> \notin members

\* An untainted group has at most one call in flight, which is half done, and
\* is the same in memory and store when it has none.
GroupInv(g) ==
    /\ ~Busy(g) => SameGroup(g)
    /\ \A c \in Callers : pc[c] # "idle" /\ grp[c] = g =>
        /\ HalfDone(c, g)
        /\ \A d \in Callers : pc[d] # "idle" /\ grp[d] = g => d = c

\* An active membership is a membership row, and memory lists members only
\* for groups it holds.
MembersHaveGroups ==
    /\ \A m \in members : m[1] \in memGroups
    /\ dbActive \subseteq dbRows

StoreInv == RowsHaveGroups /\ RowsHavePeers /\ MembersHaveGroups

IInv ==
    /\ TypeInv
    /\ StoreInv
    /\ up => \A g \in Groups \ tainted : GroupInv(g)
    /\ ~up => memGroups = {} /\ members = {} /\ tainted = {}

----------------------------------------------------------------------------
(* Type correctness.                                                       *)

LEMMA InitType == Init => TypeInv
  BY NoneAssumption DEF Init, TypeInv, TypeOK, ArgsInv, Statements, JoinSteps, LeaveSteps

\* What Begin and Return do to the bookkeeping of calls.
LEMMA BeginType ==
  ASSUME TypeInv, NEW c \in Callers, NEW g \in Groups, NEW stmt \in Statements,
         NEW p \in Peers \cup {None}, Begin(c, stmt, g, p),
         stmt \in JoinSteps \cup LeaveSteps => p \in Peers,
         stmt \notin {"joinRow", "leaveRow"},
         memGroups' \in SUBSET Groups, members' \in SUBSET (Groups \X Peers)
  PROVE  TypeInv'
  BY DEF TypeInv, TypeOK, ArgsInv, Begin, dbVars, JoinSteps, LeaveSteps

LEMMA ReturnType ==
  ASSUME TypeInv, NEW c \in Callers, Return(c), UNCHANGED up,
         dbPeers' \in SUBSET Peers, dbPeers \subseteq dbPeers',
         memGroups' \in SUBSET Groups, members' \in SUBSET (Groups \X Peers),
         dbGroups' \in SUBSET Groups, dbRows' \in SUBSET (Groups \X Peers),
         dbActive' \in SUBSET (Groups \X Peers), tainted' \in SUBSET Groups
  PROVE  TypeInv'
  BY DEF TypeInv, TypeOK, ArgsInv, Return, JoinSteps, LeaveSteps, Statements

LEMMA NextType == TypeInv /\ [Next]_vars => TypeInv'
  <1> SUFFICES ASSUME TypeInv, [Next]_vars PROVE TypeInv'
    OBVIOUS
  <1>1. ASSUME NEW c \in Callers, NEW g \in Groups, CreateGroup(c, g) PROVE TypeInv'
    BY <1>1, BeginType DEF CreateGroup, MgrCreateGroup, TypeInv, TypeOK, Statements,
      JoinSteps, LeaveSteps
  <1>2. ASSUME NEW c \in Callers, NEW g \in Groups, DeleteGroup(c, g) PROVE TypeInv'
    BY <1>2, BeginType DEF DeleteGroup, MgrDeleteGroup, TypeInv, TypeOK, Statements,
      JoinSteps, LeaveSteps
  <1>3. ASSUME NEW c \in Callers, NEW g \in Groups, NEW p \in Peers, JoinGroup(c, g, p)
        PROVE TypeInv'
    BY <1>3, BeginType DEF JoinGroup, MgrAddMember, TypeInv, TypeOK, Statements,
      JoinSteps, LeaveSteps
  <1>4. ASSUME NEW c \in Callers, NEW g \in Groups, NEW p \in Peers, LeaveGroup(c, g, p)
        PROVE TypeInv'
    BY <1>4, BeginType DEF LeaveGroup, MgrRemoveMember, TypeInv, TypeOK, Statements,
      JoinSteps, LeaveSteps
  <1>5. ASSUME NEW c \in Callers, UpsertGroup(c) PROVE TypeInv'
    BY <1>5, ReturnType DEF UpsertGroup, memVars, TypeInv, TypeOK, ArgsInv
  <1>6. ASSUME NEW c \in Callers, UpsertPeer(c) PROVE TypeInv'
    BY <1>6 DEF UpsertPeer, memVars, TypeInv, TypeOK, ArgsInv, Statements, JoinSteps,
      LeaveSteps
  <1>7. ASSUME NEW c \in Callers, UpsertMembership(c) PROVE TypeInv'
    BY <1>7, ReturnType
       DEF UpsertMembership, memVars, TypeInv, TypeOK, ArgsInv, JoinSteps, LeaveSteps
  <1>8. ASSUME NEW c \in Callers, ForeignKeyFails(c) PROVE TypeInv'
    BY <1>8, ReturnType DEF ForeignKeyFails, memVars, dbVars, TypeInv, TypeOK
  <1>9. ASSUME NEW c \in Callers, DeleteGroupRow(c) PROVE TypeInv'
    BY <1>9, ReturnType DEF DeleteGroupRow, Cascade, memVars, TypeInv, TypeOK
  <1>10. ASSUME NEW c \in Callers, StatementFails(c) PROVE TypeInv'
    BY <1>10, ReturnType DEF StatementFails, memVars, dbVars, TypeInv, TypeOK, ArgsInv
  <1>11. ASSUME NEW g \in Groups, CliCreateGroup(g) PROVE TypeInv'
    BY <1>11 DEF CliCreateGroup, memVars, callVars, TypeInv, TypeOK, ArgsInv
  <1>12. CASE Exit
    BY <1>12 DEF Exit, dbVars, TypeInv, TypeOK, ArgsInv, Statements, JoinSteps, LeaveSteps
  <1>13. CASE Start
    BY <1>13 DEF Start, RestoredMembers, dbVars, callVars, TypeInv, TypeOK, ArgsInv
  <1>14. CASE StartWithoutGroups
    BY <1>14 DEF StartWithoutGroups, memVars, dbVars, callVars, TypeInv, TypeOK, ArgsInv
  <1>15. CASE UNCHANGED vars
    BY <1>15 DEF vars, memVars, dbVars, callVars, TypeInv, TypeOK, ArgsInv
  <1> QED
    BY <1>1, <1>2, <1>3, <1>4, <1>5, <1>6, <1>7, <1>8, <1>9, <1>10, <1>11, <1>12, <1>13,
       <1>14, <1>15 DEF Next, Call, Statement

\* Every variable of the group service keeps its type, and a call in flight
\* always has the arguments that its next store statement uses.
THEOREM TypeCorrect == Spec => []TypeOK
  <1>1. Spec => []TypeInv
    BY InitType, NextType, PTL DEF Spec
  <1>2. TypeInv => TypeOK
    BY DEF TypeInv
  <1> QED
    BY <1>1, <1>2, PTL

----------------------------------------------------------------------------
(* The store's own integrity.                                              *)

\* No interleaving of statements breaks the foreign key or writes a membership
\* row whose peer is missing.
LEMMA NextStore == TypeInv /\ StoreInv /\ [Next]_vars => StoreInv'
  <1> SUFFICES ASSUME TypeInv, StoreInv, [Next]_vars PROVE StoreInv'
    OBVIOUS
  <1> USE DEF StoreInv, RowsHaveGroups, RowsHavePeers, MembersHaveGroups
  <1>1. ASSUME NEW c \in Callers, NEW g \in Groups, CreateGroup(c, g) PROVE StoreInv'
    BY <1>1 DEF CreateGroup, MgrCreateGroup, Begin, dbVars
  <1>2. ASSUME NEW c \in Callers, NEW g \in Groups, DeleteGroup(c, g) PROVE StoreInv'
    BY <1>2 DEF DeleteGroup, MgrDeleteGroup, Begin, dbVars
  <1>3. ASSUME NEW c \in Callers, NEW g \in Groups, NEW p \in Peers, JoinGroup(c, g, p)
        PROVE StoreInv'
    BY <1>3 DEF JoinGroup, MgrAddMember, Begin, dbVars
  <1>4. ASSUME NEW c \in Callers, NEW g \in Groups, NEW p \in Peers, LeaveGroup(c, g, p)
        PROVE StoreInv'
    BY <1>4 DEF LeaveGroup, MgrRemoveMember, Begin, dbVars
  <1>5. ASSUME NEW c \in Callers, UpsertGroup(c) PROVE StoreInv'
    BY <1>5 DEF UpsertGroup, memVars
  <1>6. ASSUME NEW c \in Callers, UpsertPeer(c) PROVE StoreInv'
    BY <1>6 DEF UpsertPeer, memVars
  <1>7. ASSUME NEW c \in Callers, UpsertMembership(c) PROVE StoreInv'
    BY <1>7 DEF UpsertMembership, memVars, TypeInv, ArgsInv
  <1>8. ASSUME NEW c \in Callers, ForeignKeyFails(c) PROVE StoreInv'
    BY <1>8 DEF ForeignKeyFails, memVars, dbVars
  <1>9. ASSUME NEW c \in Callers, DeleteGroupRow(c) PROVE StoreInv'
    BY <1>9 DEF DeleteGroupRow, Cascade, memVars
  <1>10. ASSUME NEW c \in Callers, StatementFails(c) PROVE StoreInv'
    BY <1>10 DEF StatementFails, memVars, dbVars
  <1>11. ASSUME NEW g \in Groups, CliCreateGroup(g) PROVE StoreInv'
    BY <1>11 DEF CliCreateGroup, memVars
  <1>12. CASE Exit
    BY <1>12 DEF Exit, dbVars
  <1>13. CASE Start
    BY <1>13 DEF Start, RestoredMembers, dbVars
  <1>14. CASE StartWithoutGroups
    BY <1>14 DEF StartWithoutGroups, memVars, dbVars
  <1>15. CASE UNCHANGED vars
    BY <1>15 DEF vars, memVars, dbVars
  <1> QED
    BY <1>1, <1>2, <1>3, <1>4, <1>5, <1>6, <1>7, <1>8, <1>9, <1>10, <1>11, <1>12, <1>13,
       <1>14, <1>15 DEF Next, Call, Statement

\* Whatever goroutines call, and wherever the process stops, every membership
\* row has its group and its peer.
THEOREM StoreIntegrity == Spec => [](RowsHaveGroups /\ RowsHavePeers)
  <1>1. Init => TypeInv /\ StoreInv
    BY InitType DEF Init, StoreInv, RowsHaveGroups, RowsHavePeers, MembersHaveGroups
  <1>2. TypeInv /\ StoreInv /\ [Next]_vars => (TypeInv /\ StoreInv)'
    BY NextType, NextStore
  <1>3. StoreInv => RowsHaveGroups /\ RowsHavePeers
    BY DEF StoreInv
  <1> QED
    BY <1>1, <1>2, <1>3, PTL DEF Spec

\* No membership row lacks its peer: the upsert of the peer comes first, and no
\* crash or failure undoes it.
COROLLARY RowsAlwaysHavePeers == Spec => []RowsHavePeers
  BY StoreIntegrity, PTL

\* A membership row disappears only when DeleteGroup removes its group: leaving
\* a group keeps the row.
THEOREM HistoryIsKept == Spec => HistoryKept
  <1>1. ASSUME [Next]_vars
        PROVE [\A m \in dbRows : m \in dbRows' \/ m[1] \notin dbGroups']_vars
    <2>1. ASSUME NEW c \in Callers, Call(c) PROVE UNCHANGED dbRows
      BY <2>1 DEF Call, CreateGroup, MgrCreateGroup, DeleteGroup, MgrDeleteGroup,
        JoinGroup, MgrAddMember, LeaveGroup, MgrRemoveMember, Begin, dbVars
    <2>2. ASSUME NEW c \in Callers, Statement(c)
          PROVE \A m \in dbRows : m \in dbRows' \/ m[1] \notin dbGroups'
      BY <2>2 DEF Statement, UpsertGroup, UpsertPeer, UpsertMembership, ForeignKeyFails,
                  DeleteGroupRow, Cascade, StatementFails, dbVars
    <2>3. ASSUME (\E g \in Groups : CliCreateGroup(g)) \/ Exit \/ Start \/ StartWithoutGroups
          PROVE UNCHANGED dbRows
      BY <2>3 DEF CliCreateGroup, Exit, Start, StartWithoutGroups, dbVars
    <2> QED
      BY <1>1, <2>1, <2>2, <2>3 DEF Next
  <1> QED
    BY <1>1, PTL DEF Spec, HistoryKept

----------------------------------------------------------------------------
(* Agreement of memory and store.                                          *)

\* g looks the same after the step, in memory and in the store.
Untouched(g) ==
    /\ g \in memGroups' <=> g \in memGroups
    /\ g \in dbGroups' <=> g \in dbGroups
    /\ \A p \in Peers : <<g, p>> \in members' <=> <<g, p>> \in members
    /\ \A p \in Peers : <<g, p>> \in dbActive' <=> <<g, p>> \in dbActive

\* A step that touches neither g nor the calls on g keeps GroupInv(g); a call
\* on g may move from the peer statement to the membership statement.
LEMMA Frame ==
  ASSUME TypeInv, NEW g \in Groups, GroupInv(g), Untouched(g),
         \A d \in Callers : pc'[d] # "idle" /\ grp'[d] = g <=> pc[d] # "idle" /\ grp[d] = g,
         \A d \in Callers : pc[d] # "idle" /\ grp[d] = g =>
            /\ who'[d] = who[d]
            /\ \/ pc'[d] = pc[d]
               \/ pc[d] = "joinPeer" /\ pc'[d] = "joinRow"
               \/ pc[d] = "leavePeer" /\ pc'[d] = "leaveRow"
  PROVE  GroupInv(g)'
  <1>1. Busy(g)' <=> Busy(g)
    BY DEF Busy
  <1>2. SameGroup(g)' <=> SameGroup(g)
    BY DEF SameGroup, Untouched
  <1>3. ASSUME NEW d \in Callers, pc'[d] # "idle", grp'[d] = g PROVE HalfDone(d, g)'
    <2>1. HalfDone(d, g) /\ pc[d] # "idle"
      BY <1>3 DEF GroupInv
    <2> QED
      BY <1>3, <2>1 DEF HalfDone, Untouched, TypeInv, ArgsInv, JoinSteps, LeaveSteps
  <1> QED
    BY <1>1, <1>2, <1>3 DEF GroupInv

\* A call that begins on another group.
LEMMA BeginElsewhere ==
  ASSUME TypeInv, NEW g \in Groups, GroupInv(g), Untouched(g), NEW c \in Callers,
         NEW h \in Groups, h # g, NEW stmt, NEW p, Begin(c, stmt, h, p)
  PROVE  GroupInv(g)'
  <1>1. \A d \in Callers : d # c => pc'[d] = pc[d] /\ grp'[d] = grp[d] /\ who'[d] = who[d]
    BY DEF Begin, TypeInv, TypeOK
  <1>2. pc[c] = "idle" /\ grp'[c] = h
    BY DEF Begin, TypeInv, TypeOK
  <1> QED
    BY <1>1, <1>2, Frame

\* The first call on g: the group agreed before it, and it is half done now.
LEMMA BeginHere ==
  ASSUME TypeInv, NEW g \in Groups, ~Busy(g), NEW c \in Callers,
         NEW stmt \in Statements, stmt # "idle", NEW p, Begin(c, stmt, g, p), HalfDone(c, g)'
  PROVE  GroupInv(g)'
  <1>1. \A d \in Callers : d # c => pc'[d] = pc[d] /\ grp'[d] = grp[d]
    BY DEF Begin, TypeInv, TypeOK
  <1>2. pc'[c] # "idle" /\ grp'[c] = g
    BY DEF Begin, TypeInv, TypeOK
  <1>3. \A d \in Callers : pc'[d] # "idle" /\ grp'[d] = g => d = c
    BY <1>1 DEF Busy
  <1>4. Busy(g)'
    BY <1>2 DEF Busy
  <1> QED
    BY <1>3, <1>4 DEF GroupInv

\* A call on another group returns.
LEMMA ReturnElsewhere ==
  ASSUME TypeInv, NEW g \in Groups, GroupInv(g), Untouched(g), NEW c \in Callers,
         pc[c] # "idle", grp[c] # g, Return(c)
  PROVE  GroupInv(g)'
  <1>1. \A d \in Callers : d # c => pc'[d] = pc[d] /\ grp'[d] = grp[d] /\ who'[d] = who[d]
    BY DEF Return, TypeInv, TypeOK
  <1>2. pc'[c] = "idle"
    BY DEF Return, TypeInv, TypeOK
  <1> QED
    BY <1>1, <1>2, Frame

\* The only call on g returns: the group must agree again.
LEMMA ReturnHere ==
  ASSUME TypeInv, NEW g \in Groups, GroupInv(g), NEW c \in Callers,
         pc[c] # "idle", grp[c] = g, Return(c), SameGroup(g)'
  PROVE  GroupInv(g)'
  <1>1. \A d \in Callers : d # c => pc'[d] = pc[d] /\ grp'[d] = grp[d]
    BY DEF Return, TypeInv, TypeOK
  <1>2. pc'[c] = "idle"
    BY DEF Return, TypeInv, TypeOK
  <1>3. \A d \in Callers : pc[d] # "idle" /\ grp[d] = g => d = c
    BY DEF GroupInv
  <1>4. \A d \in Callers : ~(pc'[d] # "idle" /\ grp'[d] = g)
    BY <1>1, <1>2, <1>3
  <1> QED
    BY <1>4 DEF GroupInv

\* Memory starts from the store: groups that were read agree.
LEMMA StartAgrees ==
  ASSUME IInv, Start \/ StartWithoutGroups, NEW g \in Groups, g \notin tainted'
  PROVE  GroupInv(g)'
  <1>1. ~Busy(g)'
    BY DEF IInv, TypeInv, ArgsInv, Busy, Start, StartWithoutGroups, callVars
  <1>2. SameGroup(g)'
    BY DEF IInv, StoreInv, RowsHaveGroups, MembersHaveGroups, SameGroup, Start,
           StartWithoutGroups, RestoredMembers, memVars, dbVars
  <1>3. \A c \in Callers : ~(pc'[c] # "idle" /\ grp'[c] = g)
    BY <1>1 DEF Busy
  <1> QED
    BY <1>2, <1>3 DEF GroupInv

\* The step of one call keeps the agreement of a group it leaves untainted.
LEMMA CallAgrees ==
  ASSUME IInv, up, NEW c \in Callers, Call(c), NEW g \in Groups, g \notin tainted'
  PROVE  GroupInv(g)'
  <1> USE DEF JoinSteps, LeaveSteps
  <1>0. TypeInv /\ g \notin tainted /\ GroupInv(g)
    BY DEF IInv, Call, CreateGroup, MgrCreateGroup, DeleteGroup, MgrDeleteGroup,
      JoinGroup, MgrAddMember, LeaveGroup, MgrRemoveMember, Begin
  <1>1. ASSUME NEW stmt, NEW p, Begin(c, stmt, g, p)
        PROVE /\ ~Busy(g) /\ SameGroup(g) /\ UNCHANGED dbVars
              /\ pc'[c] = stmt /\ who'[c] = p
    BY <1>0, <1>1 DEF Begin, GroupInv, TypeInv, TypeOK
  <1>2. ASSUME NEW h \in Groups, CreateGroup(c, h) PROVE GroupInv(g)'
    <2>1. CASE h = g
      <3>1. \A p \in Peers : <<g, p>> \notin members
        BY <1>2, <2>1 DEF IInv, StoreInv, MembersHaveGroups, CreateGroup, MgrCreateGroup
      <3>2. HalfDone(c, g)'
        BY <1>1, <1>2, <2>1, <3>1 DEF CreateGroup, MgrCreateGroup, HalfDone, SameGroup, dbVars
      <3> QED
        BY <1>0, <1>1, <1>2, <2>1, <3>2, BeginHere DEF CreateGroup, MgrCreateGroup, Statements
    <2>2. CASE h # g
      BY <1>0, <1>2, <2>2, BeginElsewhere DEF CreateGroup, MgrCreateGroup, Begin, dbVars,
        Untouched
    <2> QED
      BY <2>1, <2>2
  <1>3. ASSUME NEW h \in Groups, DeleteGroup(c, h) PROVE GroupInv(g)'
    <2>1. CASE h = g
      <3>1. HalfDone(c, g)'
        BY <1>1, <1>3, <2>1 DEF DeleteGroup, MgrDeleteGroup, HalfDone
      <3> QED
        BY <1>0, <1>1, <1>3, <2>1, <3>1, BeginHere DEF DeleteGroup, MgrDeleteGroup, Statements
    <2>2. CASE h # g
      <3>1. Untouched(g)
        BY <1>3, <2>2 DEF DeleteGroup, MgrDeleteGroup, Begin, dbVars, Untouched
      <3> QED
        BY <1>0, <1>3, <2>2, <3>1, BeginElsewhere DEF DeleteGroup, MgrDeleteGroup
    <2> QED
      BY <2>1, <2>2
  <1>4. ASSUME NEW h \in Groups, NEW p \in Peers, JoinGroup(c, h, p) PROVE GroupInv(g)'
    <2>1. CASE h = g
      <3>1. HalfDone(c, g)'
        BY <1>1, <1>4, <2>1 DEF JoinGroup, MgrAddMember, HalfDone, SameGroup, dbVars
      <3> QED
        BY <1>0, <1>1, <1>4, <2>1, <3>1, BeginHere DEF JoinGroup, MgrAddMember, Statements
    <2>2. CASE h # g
      BY <1>0, <1>4, <2>2, BeginElsewhere DEF JoinGroup, MgrAddMember, Begin, dbVars, Untouched
    <2> QED
      BY <2>1, <2>2
  <1>5. ASSUME NEW h \in Groups, NEW p \in Peers, LeaveGroup(c, h, p) PROVE GroupInv(g)'
    <2>1. CASE h = g
      <3>1. HalfDone(c, g)'
        BY <1>1, <1>5, <2>1 DEF LeaveGroup, MgrRemoveMember, HalfDone, SameGroup, dbVars
      <3> QED
        BY <1>0, <1>1, <1>5, <2>1, <3>1, BeginHere DEF LeaveGroup, MgrRemoveMember, Statements
    <2>2. CASE h # g
      BY <1>0, <1>5, <2>2, BeginElsewhere DEF LeaveGroup, MgrRemoveMember, Begin, dbVars,
        Untouched
    <2> QED
      BY <2>1, <2>2
  <1> QED
    BY <1>2, <1>3, <1>4, <1>5 DEF Call

\* So does the statement of a call.
LEMMA StatementAgrees ==
  ASSUME IInv, up, NEW c \in Callers, Statement(c), NEW g \in Groups, g \notin tainted'
  PROVE  GroupInv(g)'
  <1> USE DEF JoinSteps, LeaveSteps
  <1>0. TypeInv /\ StoreInv /\ g \notin tainted /\ GroupInv(g)
    BY DEF IInv, Statement, UpsertGroup, UpsertPeer, UpsertMembership, ForeignKeyFails,
           DeleteGroupRow, StatementFails
  <1>1. pc[c] # "idle"
    BY DEF Statement, UpsertGroup, UpsertPeer, UpsertMembership, ForeignKeyFails,
           DeleteGroupRow, StatementFails
  <1>2. grp[c] = g => HalfDone(c, g)
    BY <1>0, <1>1 DEF GroupInv
  <1>3. grp[c] \in Groups
    BY <1>0, <1>1 DEF TypeInv, ArgsInv
  <1>4. g \notin dbGroups => \A p \in Peers : <<g, p>> \notin dbActive
    BY <1>0 DEF StoreInv, RowsHaveGroups, MembersHaveGroups
  <1>5. CASE UpsertGroup(c)
    <2>1. CASE grp[c] = g
      <3>1. SameGroup(g)'
        BY <1>2, <1>4, <1>5, <2>1 DEF UpsertGroup, HalfDone, SameGroup, memVars
      <3> QED
        BY <1>0, <1>1, <1>5, <2>1, <3>1, ReturnHere DEF UpsertGroup
    <2>2. CASE grp[c] # g
      BY <1>0, <1>1, <1>5, <2>2, ReturnElsewhere DEF UpsertGroup, Untouched, memVars
    <2> QED
      BY <2>1, <2>2
  <1>6. CASE UpsertPeer(c)
    <2>1. Untouched(g) /\ UNCHANGED <<grp, who>>
      BY <1>6 DEF UpsertPeer, Untouched, memVars
    <2>2. \A d \in Callers :
             \/ pc'[d] = pc[d]
             \/ pc[d] = "joinPeer" /\ pc'[d] = "joinRow"
             \/ pc[d] = "leavePeer" /\ pc'[d] = "leaveRow"
      BY <1>0, <1>6 DEF UpsertPeer, TypeInv, TypeOK
    <2> QED
      BY <1>0, <2>1, <2>2, Frame
  <1>7. CASE UpsertMembership(c)
    <2>1. CASE grp[c] = g
      <3>1. SameGroup(g)'
        BY <1>2, <1>7, <2>1 DEF UpsertMembership, HalfDone, SameGroup, memVars
      <3> QED
        BY <1>0, <1>1, <1>7, <2>1, <3>1, ReturnHere DEF UpsertMembership
    <2>2. CASE grp[c] # g
      <3>1. Untouched(g)
        BY <1>7, <2>2 DEF UpsertMembership, Untouched, memVars
      <3> QED
        BY <1>0, <1>1, <1>7, <2>2, <3>1, ReturnElsewhere DEF UpsertMembership
    <2> QED
      BY <2>1, <2>2
  <1>8. CASE ForeignKeyFails(c)
    <2>1. grp[c] # g
      BY <1>2, <1>8 DEF ForeignKeyFails, HalfDone
    <2> QED
      BY <1>0, <1>1, <1>8, <2>1, ReturnElsewhere DEF ForeignKeyFails, Untouched, memVars,
        dbVars
  <1>9. CASE DeleteGroupRow(c)
    <2>1. CASE grp[c] = g
      <3>1. SameGroup(g)'
        BY <1>2, <1>9, <2>1 DEF DeleteGroupRow, Cascade, HalfDone, SameGroup, memVars
      <3> QED
        BY <1>0, <1>1, <1>9, <2>1, <3>1, ReturnHere DEF DeleteGroupRow
    <2>2. CASE grp[c] # g
      <3>1. Untouched(g)
        BY <1>9, <2>2 DEF DeleteGroupRow, Cascade, Untouched, memVars
      <3> QED
        BY <1>0, <1>1, <1>9, <2>2, <3>1, ReturnElsewhere DEF DeleteGroupRow
    <2> QED
      BY <2>1, <2>2
  <1>10. CASE StatementFails(c)
    <2>1. grp[c] # g
      BY <1>10 DEF StatementFails
    <2> QED
      BY <1>0, <1>1, <1>10, <2>1, ReturnElsewhere DEF StatementFails, Untouched, memVars,
        dbVars
  <1> QED
    BY <1>5, <1>6, <1>7, <1>8, <1>9, <1>10 DEF Statement

LEMMA InitIInv == Init => IInv
  BY InitType DEF Init, IInv, StoreInv, RowsHaveGroups, RowsHavePeers, MembersHaveGroups

LEMMA NextIInv == IInv /\ [Next]_vars => IInv'
  <1> SUFFICES ASSUME IInv, [Next]_vars PROVE IInv'
    OBVIOUS
  <1>1. TypeInv' /\ StoreInv'
    BY NextType, NextStore DEF IInv
  <1>2. ~up' => (memGroups = {} /\ members = {} /\ tainted = {})'
    <2>1. ASSUME NEW c \in Callers, Call(c) \/ Statement(c) PROVE up'
      <3>1. up
        BY <2>1 DEF IInv, TypeInv, ArgsInv, Call, CreateGroup, MgrCreateGroup,
          DeleteGroup, MgrDeleteGroup, JoinGroup, MgrAddMember, LeaveGroup,
          MgrRemoveMember,
              Begin, Statement, UpsertGroup, UpsertPeer, UpsertMembership, ForeignKeyFails,
              DeleteGroupRow, StatementFails
      <3> QED
        BY <2>1, <3>1 DEF Call, CreateGroup, MgrCreateGroup, DeleteGroup, MgrDeleteGroup,
          JoinGroup, MgrAddMember, LeaveGroup, MgrRemoveMember, Begin, Statement,
              UpsertGroup, UpsertPeer, UpsertMembership, ForeignKeyFails, DeleteGroupRow,
              StatementFails
    <2>2. CASE Exit \/ Start \/ StartWithoutGroups \/ UNCHANGED vars
      BY <2>2 DEF IInv, Exit, Start, StartWithoutGroups, vars, memVars
    <2>3. ASSUME NEW g \in Groups, CliCreateGroup(g)
          PROVE ~up' => (memGroups = {} /\ members = {} /\ tainted = {})'
      BY <2>3 DEF IInv, CliCreateGroup, memVars
    <2> QED
      BY <2>1, <2>2, <2>3 DEF Next
  <1>3. ASSUME up', NEW g \in Groups \ tainted' PROVE GroupInv(g)'
    <2>1. ASSUME NEW c \in Callers, Call(c) \/ Statement(c) PROVE GroupInv(g)'
      <3>1. up
        BY <2>1 DEF IInv, TypeInv, ArgsInv, Call, CreateGroup, MgrCreateGroup,
          DeleteGroup, MgrDeleteGroup, JoinGroup, MgrAddMember, LeaveGroup,
          MgrRemoveMember,
              Begin, Statement, UpsertGroup, UpsertPeer, UpsertMembership, ForeignKeyFails,
              DeleteGroupRow, StatementFails
      <3> QED
        BY <1>3, <2>1, <3>1, CallAgrees, StatementAgrees
    <2>2. CASE Start \/ StartWithoutGroups
      BY <1>3, <2>2, StartAgrees
    <2>3. ASSUME NEW h \in Groups, CliCreateGroup(h) PROVE GroupInv(g)'
      <3>1. up /\ g # h /\ g \notin tainted
        BY <1>3, <2>3 DEF CliCreateGroup
      <3>2. Untouched(g) /\ UNCHANGED callVars
        BY <2>3, <3>1 DEF CliCreateGroup, Untouched, memVars
      <3> QED
        BY <3>1, <3>2, Frame DEF IInv, callVars
    <2>4. CASE UNCHANGED vars
      BY <1>3, <2>4, Frame DEF IInv, vars, memVars, dbVars, callVars, Untouched
    <2>5. CASE Exit
      BY <1>3, <2>5 DEF Exit
    <2> QED
      BY <2>1, <2>2, <2>3, <2>4, <2>5 DEF Next
  <1> QED
    BY <1>1, <1>2, <1>3 DEF IInv

\* For any number of callers: a group whose calls never overlapped since the
\* process started, and for which no statement failed, has the same members in
\* memory and in the store whenever no call on it is in flight, restarts included.
THEOREM CoherentAlways == Spec => []Coherent
  <1>1. IInv => Coherent
    BY DEF IInv, Coherent, GroupInv
  <1> QED
    BY <1>1, InitIInv, NextIInv, PTL DEF Spec

----------------------------------------------------------------------------
(* Refinement.                                                             *)

\* Every step of the service is a step of the abstract directory on the
\* durable state, or leaves it alone.
LEMMA StepRefines == TypeInv /\ StoreInv /\ [Next]_vars => [Directory!Next]_Directory!vars
  <1> SUFFICES ASSUME TypeInv, StoreInv, [Next]_vars
               PROVE  Directory!Next \/ UNCHANGED <<dbGroups, dbActive, dbRows \ dbActive>>
    BY DEF Directory!vars
   <1> USE DEF Directory!Next, Directory!Create, Directory!Join, Directory!Leave,
    Directory!Delete
  <1>1. ASSUME NEW c \in Callers, Call(c) \/ ForeignKeyFails(c) \/ StatementFails(c)
        PROVE UNCHANGED <<dbGroups, dbActive, dbRows \ dbActive>>
    BY <1>1 DEF Call, CreateGroup, MgrCreateGroup, DeleteGroup, MgrDeleteGroup,
      JoinGroup, MgrAddMember, LeaveGroup, MgrRemoveMember, Begin, ForeignKeyFails,
                StatementFails, dbVars
  <1>2. ASSUME NEW c \in Callers, UpsertGroup(c) PROVE Directory!Next
    <2>1. grp[c] \in Groups
      BY <1>2 DEF UpsertGroup, TypeInv, ArgsInv
    <2>2. Directory!Create(grp[c])
      BY <1>2 DEF UpsertGroup
    <2> QED
      BY <2>1, <2>2
  <1>3. ASSUME NEW c \in Callers, UpsertPeer(c)
        PROVE UNCHANGED <<dbGroups, dbActive, dbRows \ dbActive>>
    BY <1>3 DEF UpsertPeer
  <1>4. ASSUME NEW c \in Callers, UpsertMembership(c) PROVE Directory!Next
    <2>1. grp[c] \in Groups /\ who[c] \in Peers
      BY <1>4 DEF UpsertMembership, TypeInv, ArgsInv, JoinSteps, LeaveSteps
    <2>2. Directory!Join(grp[c], who[c]) \/ Directory!Leave(grp[c], who[c])
      BY <1>4 DEF UpsertMembership
    <2> QED
      BY <2>1, <2>2
  <1>5. ASSUME NEW c \in Callers, DeleteGroupRow(c) PROVE Directory!Next
    <2>1. grp[c] \in Groups
      BY <1>5 DEF DeleteGroupRow, TypeInv, ArgsInv
    <2>2. Directory!Delete(grp[c])
      BY <1>5 DEF DeleteGroupRow, Cascade
    <2> QED
      BY <2>1, <2>2
  <1>6. ASSUME NEW g \in Groups, CliCreateGroup(g) PROVE Directory!Next
    <2>1. Directory!Create(g)
      BY <1>6 DEF CliCreateGroup
    <2> QED
      BY <2>1
  <1>7. CASE Exit \/ Start \/ StartWithoutGroups \/ UNCHANGED vars
    BY <1>7 DEF Exit, Start, StartWithoutGroups, vars, dbVars
  <1> QED
    BY <1>1, <1>2, <1>3, <1>4, <1>5, <1>6, <1>7 DEF Next, Statement

\* The durable groups and memberships behave as the abstract directory, whose
\* operations are atomic, whatever calls interleave and wherever the process
\* stops.
THEOREM Refinement == Spec => ImplementsDirectory
  <1>1. Init => Directory!Init
    BY DEF Init, Directory!Init
  <1>2. Init => TypeInv /\ StoreInv
    BY InitIInv DEF IInv
  <1>3. TypeInv /\ StoreInv /\ [Next]_vars => (TypeInv /\ StoreInv)'
    BY NextType, NextStore
  <1> QED
    BY <1>1, <1>2, <1>3, StepRefines, PTL DEF Spec, ImplementsDirectory, Directory!Spec
=============================================================================
