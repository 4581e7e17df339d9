-------------------------- MODULE GroupDedupProofs --------------------------
(***************************************************************************)
(* For any number of goroutines that route, any groups, members and IDs:   *)
(* the set of IDs that were seen is bounded, and while it holds an ID, no  *)
(* member gets the message of that ID twice.                               *)
(***************************************************************************)
EXTENDS GroupDedup, FiniteSetTheorems, TLAPS

Call == [at : {"idle", "view", "deliver"}, group : Groups \cup {None},
         id : Ids \cup {None}, todo : SUBSET Members]

\* A call in progress is about a message of a group.
CallsHaveMessage ==
    \A c \in Callers : call[c].at # "idle" => call[c].group \in Groups /\ call[c].id \in Ids

TypeInv == TypeOK /\ CallsHaveMessage

\* Pruning counts the IDs: the set it counts is finite.
BoundInv == \A g \in Groups : IsFiniteSet(seen[g]) /\ Cardinality(seen[g]) <= MaxSeen

About(c, g, i) == call[c].at # "idle" /\ call[c].group = g /\ call[c].id = i

\* A message whose ID was not dropped: it is routed or was delivered only if its
\* ID is in the set; one call at most routes it; and who is still to get it has
\* not got it.
OnceInv(g, i) ==
    /\ \A c \in Callers : About(c, g, i) => i \in seen[g]
    /\ \A p \in Members : delivered[g][i][p] <= 1
    /\ \A p \in Members : delivered[g][i][p] > 0 => i \in seen[g]
    /\ \A c, d \in Callers : About(c, g, i) /\ About(d, g, i) => c = d
    /\ \A c \in Callers, p \in Members :
        About(c, g, i) /\ (call[c].at = "view" \/ p \in call[c].todo) => delivered[g][i][p] = 0

Unforgotten == \A g \in Groups, i \in Ids : <<g, i>> \notin forgotten => OnceInv(g, i)

----------------------------------------------------------------------------
(* pruneSeen.                                                              *)

\* One ID more than the limit is pruned to at most the limit, and what is left
\* was there before.
LEMMA PruneBounds ==
    ASSUME NEW s, IsFiniteSet(s), Cardinality(s) <= MaxSeen + 1, NEW rest \in PruneSeen(s)
    PROVE  rest \subseteq s /\ IsFiniteSet(rest) /\ Cardinality(rest) <= MaxSeen
<1>1. Cardinality(s) \in Nat /\ MaxSeen \in Nat \ {0}
  BY FS_CardinalityType, DedupAssumption
<1>2. CASE Cardinality(s) <= MaxSeen
  BY <1>2 DEF PruneSeen
<1>3. CASE ~(Cardinality(s) <= MaxSeen)
  <2> DEFINE half == Cardinality(s) \div 2
  <2>1. PICK dead \in kSubset(half, s) : rest = s \ dead
    BY <1>3 DEF PruneSeen
  <2>2. dead \subseteq s /\ Cardinality(dead) = half
    BY <2>1 DEF kSubset
  <2>3. half \in Nat /\ half >= 1
    BY <1>1, <1>3
  <2> HIDE DEF half
  <2>4. s \cap dead = dead
    BY <2>2
  <2>5. IsFiniteSet(s \ dead) /\ Cardinality(s \ dead) = Cardinality(s) - Cardinality(dead)
    BY <2>4, FS_Difference
  <2> QED BY <1>1, <2>1, <2>2, <2>3, <2>5
<1> QED BY <1>2, <1>3

\* What Record leaves of the sets, and what it notes of the IDs it drops.
LEMMA RecordKeeps ==
    ASSUME TypeInv, BoundInv, NEW g \in Groups, NEW i \in Ids, Record(g, i)
    PROVE  /\ seen' \in [Groups -> SUBSET Ids] /\ BoundInv'
           /\ \A h \in Groups \ {g} : seen'[h] = seen[h]
           /\ forgotten \subseteq forgotten' /\ forgotten' \subseteq Groups \X Ids
           /\ \A j \in Ids : j \in seen[g] \cup {i} /\ <<g, j>> \notin forgotten' => j \in seen'[g]
<1> DEFINE s == seen[g] \cup {i}
<1>1. PICK rest \in PruneSeen(s) : seen' = [seen EXCEPT ![g] = rest]
  BY DEF Record
<1>2. seen \in [Groups -> SUBSET Ids] /\ forgotten \subseteq Groups \X Ids
  BY DEF TypeInv, TypeOK
<1>3. IsFiniteSet(s) /\ Cardinality(s) <= MaxSeen + 1
  BY FS_AddElement, FS_CardinalityType, DedupAssumption DEF BoundInv
<1>4. rest \subseteq s /\ IsFiniteSet(rest) /\ Cardinality(rest) <= MaxSeen
  BY <1>3, PruneBounds
<1>5. s \subseteq Ids
  BY <1>2
<1>6. forgotten' = forgotten \cup ({g} \X (s \ rest)) /\ seen'[g] = rest
  BY <1>1, <1>2 DEF Record
<1> HIDE DEF s
<1>7. seen' \in [Groups -> SUBSET Ids] /\ BoundInv' /\ \A h \in Groups \ {g} : seen'[h] = seen[h]
  BY <1>1, <1>2, <1>4, <1>5 DEF BoundInv
<1>8. forgotten \subseteq forgotten' /\ forgotten' \subseteq Groups \X Ids
  BY <1>2, <1>5, <1>6
<1>9. \A j \in Ids : j \in s /\ <<g, j>> \notin forgotten' => j \in seen'[g]
  BY <1>6
<1> QED BY <1>7, <1>8, <1>9 DEF s

----------------------------------------------------------------------------
(* Types and the bound.                                                    *)

SetInv == TypeInv /\ BoundInv

\* A step of one call.
LEMMA CallMoves ==
    ASSUME TypeInv, NEW c \in Callers, NEW r \in Call, call' = [call EXCEPT ![c] = r],
           r.at # "idle" => r.group \in Groups /\ r.id \in Ids
    PROVE  call' \in [Callers -> Call] /\ CallsHaveMessage'
BY DEF TypeInv, TypeOK, CallsHaveMessage, Call

\* One more delivery of message i of group g to member p.
LEMMA CountMoves ==
    ASSUME TypeInv, NEW g \in Groups, NEW i \in Ids, NEW p \in Members,
           NEW n \in 0..MaxDelivered, delivered' = [delivered EXCEPT ![g][i][p] = n]
    PROVE  /\ delivered' \in [Groups -> [Ids -> [Members -> 0..MaxDelivered]]]
           /\ delivered'[g][i][p] = n
           /\ \A h \in Groups, j \in Ids, q \in Members :
                <<h, j, q>> # <<g, i, p>> => delivered'[h][j][q] = delivered[h][j][q]
<1> DEFINE D == delivered[g]
           R == [D[i] EXCEPT ![p] = n]
<1>1. delivered \in [Groups -> [Ids -> [Members -> 0..MaxDelivered]]]
  BY DEF TypeInv, TypeOK
<1>2. D \in [Ids -> [Members -> 0..MaxDelivered]]
  BY <1>1
<1>3. R \in [Members -> 0..MaxDelivered] /\ R[p] = n /\ \A q \in Members \ {p} : R[q] = D[i][q]
  BY <1>2
<1>4. delivered' = [delivered EXCEPT ![g] = [D EXCEPT ![i] = R]]
  BY <1>1
<1> HIDE DEF D, R
<1>5. /\ [D EXCEPT ![i] = R] \in [Ids -> [Members -> 0..MaxDelivered]]
      /\ [D EXCEPT ![i] = R][i] = R /\ \A j \in Ids \ {i} : [D EXCEPT ![i] = R][j] = D[j]
  BY <1>2, <1>3
<1>6. /\ delivered' \in [Groups -> [Ids -> [Members -> 0..MaxDelivered]]]
      /\ delivered'[g] = [D EXCEPT ![i] = R]
      /\ \A h \in Groups \ {g} : delivered'[h] = delivered[h]
  BY <1>1, <1>4, <1>5
<1> QED BY <1>3, <1>5, <1>6 DEF D

\* Deliver counts one more, up to the bound.
LEMMA CountIncrement ==
    ASSUME TypeInv, NEW g \in Groups, NEW i \in Ids, NEW p \in Members
    PROVE  LET k == delivered[g][i][p]
               n == IF k < MaxDelivered THEN k + 1 ELSE k IN
           k \in 0..MaxDelivered /\ n \in 0..MaxDelivered /\ n <= k + 1
<1>1. delivered[g][i][p] \in 0..MaxDelivered
  BY DEF TypeInv, TypeOK
<1> QED BY <1>1, DedupAssumption

LEMMA IdleIsCall == Idle \in Call /\ Idle.at = "idle"
BY Zenon DEF Idle, Call

\* The record that RouteGroupMessage starts a call with.
Begun(g, i) == [at |-> "view", group |-> g, id |-> i, todo |-> {}]

LEMMA BegunIsCall ==
    ASSUME NEW g \in Groups, NEW i \in Ids
    PROVE  /\ Begun(g, i) \in Call /\ Begun(g, i).at = "view"
           /\ Begun(g, i).group = g /\ Begun(g, i).id = i
BY Zenon DEF Begun, Call

LEMMA SetInvKeeps == SetInv /\ [Next]_vars => SetInv'
<1> SUFFICES ASSUME SetInv, [Next]_vars PROVE SetInv'
  OBVIOUS
<1> USE DEF SetInv
<1>0. call \in [Callers -> Call]
  BY DEF TypeInv, TypeOK, Call
<1>1. ASSUME NEW g \in Groups, CreateGroup(g) PROVE SetInv'
  BY <1>1 DEF CreateGroup, TypeInv, TypeOK, CallsHaveMessage, BoundInv
<1>2. ASSUME NEW g \in Groups, DeleteGroup(g) PROVE SetInv'
  <2>1. TypeInv'
    BY <1>2 DEF DeleteGroup, TypeInv, TypeOK, CallsHaveMessage
  <2>2. BoundInv'
    BY <1>2, FS_EmptySet, DedupAssumption DEF DeleteGroup, TypeInv, TypeOK, BoundInv
  <2> QED BY <2>1, <2>2
<1>3. ASSUME NEW g \in Groups, NEW p \in Members, AddMember(g, p) \/ RemoveMember(g, p)
      PROVE  SetInv'
  <2>1. members' \in [Groups -> SUBSET Members]
    <3>1. members \in [Groups -> SUBSET Members]
      BY DEF TypeInv, TypeOK
    <3>2. CASE AddMember(g, p)
      BY <3>1, <3>2 DEF AddMember
    <3>3. CASE RemoveMember(g, p)
      BY <3>1, <3>3 DEF RemoveMember
    <3> QED BY <1>3, <3>2, <3>3
  <2> QED BY <1>3, <2>1 DEF AddMember, RemoveMember, TypeInv, TypeOK, CallsHaveMessage, BoundInv
<1>4. ASSUME NEW g \in Groups, NEW i \in Ids, MarkMessageSeen(g, i) PROVE SetInv'
  BY <1>4, RecordKeeps DEF MarkMessageSeen, TypeInv, TypeOK, CallsHaveMessage
<1>5. ASSUME NEW c \in Callers, NEW g \in Groups, NEW i \in Ids, RouteGroupMessage(c, g, i)
      PROVE  SetInv'
  <2>1. call' = [call EXCEPT ![c] = Begun(g, i)]
    BY <1>5 DEF RouteGroupMessage, Begun
  <2>2. call' \in [Callers -> Call] /\ CallsHaveMessage'
    BY <2>1, BegunIsCall, CallMoves
  <2> QED BY <1>5, <2>2, RecordKeeps DEF RouteGroupMessage, TypeInv, TypeOK, Call
<1>6. ASSUME NEW c \in Callers, ViewMembers(c) PROVE SetInv'
  <2>1. call' \in [Callers -> Call] /\ CallsHaveMessage'
    <3>1. CASE call[c].group \in groups
      <4>1. PICK rcpts \in SUBSET members[call[c].group] :
                call' = [call EXCEPT ![c].at = "deliver", ![c].todo = rcpts]
        BY <1>6, <3>1 DEF ViewMembers
      <4> DEFINE r == [call[c] EXCEPT !.at = "deliver", !.todo = rcpts]
      <4>2. rcpts \subseteq Members
        BY <3>1, <4>1 DEF TypeInv, TypeOK
      <4>3. /\ r \in Call /\ r.group \in Groups /\ r.id \in Ids
            /\ call' = [call EXCEPT ![c] = r]
        BY <1>0, <1>6, <4>1, <4>2 DEF ViewMembers, TypeInv, CallsHaveMessage, Call
      <4> QED BY <4>3, CallMoves
    <3>2. CASE call[c].group \notin groups
      BY <1>6, <3>2, IdleIsCall, CallMoves DEF ViewMembers
    <3> QED BY <3>1, <3>2
  <2> QED BY <1>6, <2>1 DEF ViewMembers, TypeInv, TypeOK, Call, BoundInv
<1>7. ASSUME NEW c \in Callers, NEW p \in Members, Deliver(c, p) PROVE SetInv'
  <2> DEFINE r == [call[c] EXCEPT !.todo = @ \ {p}]
  <2>1. /\ r \in Call /\ r.group \in Groups /\ r.id \in Ids
        /\ call' = [call EXCEPT ![c] = r]
    BY <1>0, <1>7 DEF Deliver, TypeInv, CallsHaveMessage, Call
  <2>2. call' \in [Callers -> Call] /\ CallsHaveMessage'
    BY <2>1, CallMoves
  <2>3. delivered' \in [Groups -> [Ids -> [Members -> 0..MaxDelivered]]]
    <3>1. PICK g \in Groups, i \in Ids : call[c].group = g /\ call[c].id = i
      BY <1>7 DEF Deliver, TypeInv, CallsHaveMessage
    <3>2. PICK n \in 0..MaxDelivered :
            delivered' = [delivered EXCEPT ![g][i][p] = n] \/ UNCHANGED delivered
      BY <1>7, <3>1, CountIncrement DEF Deliver
    <3>3. CASE delivered' = [delivered EXCEPT ![g][i][p] = n]
      BY <3>3, CountMoves
    <3>4. CASE UNCHANGED delivered
      BY <3>4 DEF TypeInv, TypeOK
    <3> QED BY <3>2, <3>3, <3>4
  <2> QED BY <1>7, <2>2, <2>3 DEF Deliver, TypeInv, TypeOK, Call, BoundInv
<1>8. ASSUME NEW c \in Callers, Return(c) PROVE SetInv'
  <2>1. call' \in [Callers -> Call] /\ CallsHaveMessage'
    BY <1>8, IdleIsCall, CallMoves DEF Return
  <2> QED BY <1>8, <2>1 DEF Return, TypeInv, TypeOK, Call, BoundInv
<1>9. CASE UNCHANGED vars
  BY <1>9 DEF vars, TypeInv, TypeOK, CallsHaveMessage, BoundInv
<1> QED BY <1>1, <1>2, <1>3, <1>4, <1>5, <1>6, <1>7, <1>8, <1>9 DEF Next

LEMMA InitSetInv == Init => SetInv
<1> SUFFICES ASSUME Init PROVE SetInv
  OBVIOUS
<1>1. delivered \in [Groups -> [Ids -> [Members -> 0..MaxDelivered]]]
  BY DedupAssumption DEF Init
<1>2. call \in [Callers -> Call] /\ CallsHaveMessage
  BY IdleIsCall DEF Init, CallsHaveMessage
<1>3. TypeInv
  BY <1>1, <1>2 DEF Init, TypeInv, TypeOK, Call
<1>4. BoundInv
  BY FS_EmptySet, DedupAssumption DEF Init, BoundInv
<1> QED BY <1>3, <1>4 DEF SetInv

\* The set of a group's IDs never outgrows maxSeenPerGroup, for every limit and
\* whatever is routed or marked: half of one ID too many is at least one ID.
THEOREM SeenAlwaysBounded == Spec => [](TypeOK /\ SeenBounded)
<1>1. SetInv => TypeOK /\ SeenBounded
  BY DEF SetInv, TypeInv, BoundInv, SeenBounded
<1> QED BY <1>1, InitSetInv, SetInvKeeps, PTL DEF Spec

----------------------------------------------------------------------------
(* At most one delivery.                                                   *)

\* A step that neither routes nor drops the ID.
LEMMA OnceFrame ==
    ASSUME NEW h \in Groups, NEW j \in Ids, OnceInv(h, j),
           j \in seen[h] => j \in seen'[h], UNCHANGED <<call, delivered>>
    PROVE  OnceInv(h, j)'
BY DEF OnceInv, About

\* A step of call c that is not about this message, afterwards.
LEMMA OnceOtherCall ==
    ASSUME NEW h \in Groups, NEW j \in Ids, OnceInv(h, j), TypeInv,
           NEW c \in Callers, NEW r, call' = [call EXCEPT ![c] = r],
           ~(r.at # "idle" /\ r.group = h /\ r.id = j),
           j \in seen[h] => j \in seen'[h],
           \A p \in Members : delivered'[h][j][p] = delivered[h][j][p]
    PROVE  OnceInv(h, j)'
<1>1. \A d \in Callers : About(d, h, j)' => d # c /\ About(d, h, j) /\ call'[d] = call[d]
  BY DEF About, TypeInv, TypeOK
<1> QED BY <1>1 DEF OnceInv

\* A step of call c that is about this message and goes on with fewer members.
LEMMA OnceSameCall ==
    ASSUME NEW h \in Groups, NEW j \in Ids, OnceInv(h, j), TypeInv,
           NEW c \in Callers, NEW r, call' = [call EXCEPT ![c] = r], About(c, h, j),
           r.at = "deliver", r.group = h, r.id = j,
           UNCHANGED seen,
           \A p \in Members : delivered'[h][j][p] <= 1,
           \A p \in Members : p \in r.todo => delivered'[h][j][p] = 0
    PROVE  OnceInv(h, j)'
<1>1. \A d \in Callers : d # c => call'[d] = call[d]
  BY DEF TypeInv, TypeOK
<1>2. call'[c] = r
  BY DEF TypeInv, TypeOK
<1>3. \A d \in Callers : About(d, h, j)' <=> d = c
  BY <1>1, <1>2 DEF About, OnceInv
<1>4. j \in seen'[h]
  BY DEF OnceInv
<1>5. \A d \in Callers, p \in Members :
        About(d, h, j)' /\ (call'[d].at = "view" \/ p \in call'[d].todo) => delivered'[h][j][p] = 0
  BY <1>2, <1>3
<1> QED BY <1>3, <1>4, <1>5 DEF OnceInv

LEMMA OnceKeeps == SetInv /\ Unforgotten /\ [Next]_vars => Unforgotten'
<1> SUFFICES ASSUME SetInv, Unforgotten, [Next]_vars,
                    NEW h \in Groups, NEW j \in Ids, <<h, j>> \notin forgotten'
             PROVE  OnceInv(h, j)'
  BY DEF Unforgotten
<1> USE DEF SetInv
<1>0. /\ call \in [Callers -> Call] /\ seen \in [Groups -> SUBSET Ids]
      /\ delivered[h][j] \in [Members -> 0..MaxDelivered]
  BY DEF TypeInv, TypeOK, Call
<1>1. ASSUME NEW g \in Groups, CreateGroup(g) PROVE OnceInv(h, j)'
  BY <1>1, OnceFrame DEF CreateGroup, Unforgotten
<1>2. ASSUME NEW g \in Groups, DeleteGroup(g) PROVE OnceInv(h, j)'
  <2>1. OnceInv(h, j)
    BY <1>2 DEF DeleteGroup, Unforgotten
  <2>2. j \in seen[h] => j \in seen'[h]
    BY <1>0, <1>2 DEF DeleteGroup
  <2> QED BY <1>2, <2>1, <2>2, OnceFrame DEF DeleteGroup
<1>3. ASSUME NEW g \in Groups, NEW p \in Members, AddMember(g, p) \/ RemoveMember(g, p)
      PROVE  OnceInv(h, j)'
  BY <1>3, OnceFrame DEF AddMember, RemoveMember, Unforgotten
<1>4. ASSUME NEW g \in Groups, NEW i \in Ids, MarkMessageSeen(g, i) PROVE OnceInv(h, j)'
  <2>1. forgotten \subseteq forgotten' /\ (j \in seen[h] => j \in seen'[h])
    BY <1>4, RecordKeeps DEF MarkMessageSeen
  <2> QED BY <1>4, <2>1, OnceFrame DEF MarkMessageSeen, Unforgotten
<1>5. ASSUME NEW c \in Callers, NEW g \in Groups, NEW i \in Ids, RouteGroupMessage(c, g, i)
      PROVE  OnceInv(h, j)'
  <2>1. /\ forgotten \subseteq forgotten' /\ (j \in seen[h] => j \in seen'[h])
        /\ (g = h /\ i = j => j \in seen'[h])
    BY <1>5, RecordKeeps DEF RouteGroupMessage
  <2>2. OnceInv(h, j)
    BY <2>1 DEF Unforgotten
  <2>3. call' = [call EXCEPT ![c] = Begun(g, i)] /\ UNCHANGED delivered
    BY <1>5 DEF RouteGroupMessage, Begun
  <2>4. /\ Begun(g, i) \in Call /\ Begun(g, i).at = "view"
        /\ Begun(g, i).group = g /\ Begun(g, i).id = i
    BY BegunIsCall
  <2>5. CASE g = h /\ i = j
    <3>1. /\ \A d \in Callers : ~About(d, h, j)
          /\ \A p \in Members : delivered[h][j][p] = 0
      BY <1>0, <1>5, <2>2, <2>5 DEF RouteGroupMessage, OnceInv
    <3>2. \A d \in Callers : About(d, h, j)' => d = c
      BY <1>0, <2>3, <3>1 DEF About
    <3> QED BY <2>1, <2>3, <2>5, <3>1, <3>2 DEF OnceInv
  <2>6. CASE ~(g = h /\ i = j)
    BY <2>1, <2>2, <2>3, <2>4, <2>6, OnceOtherCall
  <2> QED BY <2>5, <2>6
<1>6. ASSUME NEW c \in Callers, ViewMembers(c) PROVE OnceInv(h, j)'
  <2>1. OnceInv(h, j)
    BY <1>6 DEF ViewMembers, Unforgotten
  <2>2. CASE call[c].group \in groups
    <3>1. PICK rcpts \in SUBSET members[call[c].group] :
              call' = [call EXCEPT ![c].at = "deliver", ![c].todo = rcpts]
      BY <1>6, <2>2 DEF ViewMembers
    <3> DEFINE r == [call[c] EXCEPT !.at = "deliver", !.todo = rcpts]
    <3>2. /\ call' = [call EXCEPT ![c] = r] /\ r.at = "deliver" /\ r.todo = rcpts
          /\ r.group = call[c].group /\ r.id = call[c].id
      BY <1>0, <3>1 DEF Call
    <3> HIDE DEF r
    <3>3. CASE About(c, h, j)
      <4>1. \A p \in Members : delivered[h][j][p] = 0
        BY <1>6, <2>1, <3>3 DEF ViewMembers, OnceInv
      <4>2. r.group = h /\ r.id = j
        BY <3>2, <3>3 DEF About
      <4>3. /\ \A p \in Members : delivered'[h][j][p] <= 1
            /\ \A p \in Members : p \in r.todo => delivered'[h][j][p] = 0
            /\ UNCHANGED seen
        BY <1>6, <4>1 DEF ViewMembers
      <4> QED BY <2>1, <3>2, <3>3, <4>2, <4>3, OnceSameCall
    <3>4. CASE ~About(c, h, j)
      <4>1. ~(r.at # "idle" /\ r.group = h /\ r.id = j)
        BY <1>6, <3>2, <3>4 DEF About, ViewMembers
      <4> QED BY <1>6, <2>1, <3>2, <4>1, OnceOtherCall DEF ViewMembers
    <3> QED BY <3>3, <3>4
  <2>3. CASE call[c].group \notin groups
    BY <1>6, <2>1, <2>3, IdleIsCall, OnceOtherCall DEF ViewMembers
  <2> QED BY <2>2, <2>3
<1>7. ASSUME NEW c \in Callers, NEW p \in Members, Deliver(c, p) PROVE OnceInv(h, j)'
  <2> DEFINE r == [call[c] EXCEPT !.todo = @ \ {p}]
  <2>1. OnceInv(h, j) /\ UNCHANGED seen
    BY <1>7 DEF Deliver, Unforgotten
  <2>2. /\ call' = [call EXCEPT ![c] = r] /\ r.at = "deliver" /\ r.todo = call[c].todo \ {p}
        /\ r.group = call[c].group /\ r.id = call[c].id
    BY <1>0, <1>7 DEF Deliver, Call
  <2> HIDE DEF r
  <2>3. PICK g \in Groups, i \in Ids : call[c].group = g /\ call[c].id = i
    BY <1>7 DEF Deliver, TypeInv, CallsHaveMessage
  <2>4. /\ \A q \in Members : <<h, j, q>> # <<g, i, p>> => delivered'[h][j][q] = delivered[h][j][q]
        /\ delivered[g][i][p] \in Nat /\ delivered'[g][i][p] <= delivered[g][i][p] + 1
    <3>1. CASE UNCHANGED delivered
      BY <3>1, <2>3, CountIncrement
    <3>2. CASE ~UNCHANGED delivered
      <4> DEFINE k == delivered[g][i][p]
                 n == IF k < MaxDelivered THEN k + 1 ELSE k
      <4>1. k \in 0..MaxDelivered /\ n \in 0..MaxDelivered /\ n <= k + 1
        BY CountIncrement
      <4>2. delivered' = [delivered EXCEPT ![g][i][p] = n]
        BY <1>7, <2>3, <3>2 DEF Deliver
      <4> HIDE DEF n
      <4> QED BY <4>1, <4>2, CountMoves
    <3> QED BY <3>1, <3>2
  <2>5. CASE g = h /\ i = j
    <3>1. About(c, h, j)
      BY <1>7, <2>3, <2>5 DEF Deliver, About
    <3>2. delivered[h][j][p] = 0
      BY <1>7, <2>1, <3>1 DEF Deliver, OnceInv
    <3>3. \A q \in Members : delivered'[h][j][q] <= 1
      BY <2>1, <2>4, <2>5, <3>2 DEF OnceInv
    <3>4. \A q \in Members : q \in r.todo => delivered'[h][j][q] = 0
      BY <2>1, <2>2, <2>4, <3>1 DEF OnceInv
    <3> QED BY <2>1, <2>2, <2>3, <2>5, <3>1, <3>3, <3>4, OnceSameCall
  <2>6. CASE ~(g = h /\ i = j)
    <3>1. \A q \in Members : delivered'[h][j][q] = delivered[h][j][q]
      BY <2>4, <2>6
    <3>2. ~(r.at # "idle" /\ r.group = h /\ r.id = j)
      BY <2>2, <2>3, <2>6
    <3> QED BY <2>1, <2>2, <3>1, <3>2, OnceOtherCall
  <2> QED BY <2>5, <2>6
<1>8. ASSUME NEW c \in Callers, Return(c) PROVE OnceInv(h, j)'
  <2>1. OnceInv(h, j)
    BY <1>8 DEF Return, Unforgotten
  <2> QED BY <1>8, <2>1, IdleIsCall, OnceOtherCall DEF Return
<1>9. CASE UNCHANGED vars
  BY <1>9, OnceFrame DEF vars, Unforgotten
<1> QED BY <1>1, <1>2, <1>3, <1>4, <1>5, <1>6, <1>7, <1>8, <1>9 DEF Next

\* "duplicate message IDs are rejected to avoid repeated delivery", for any
\* number of concurrent calls: the test and the insertion are one critical
\* section, so a second call for the same ID finds it in the set unless pruning
\* or DeleteGroup has dropped it.
THEOREM AlwaysOnce == Spec => []DeliveredOnce
<1>1. Init => Unforgotten
  BY DEF Init, Unforgotten, OnceInv, About, Idle
<1>2. SetInv /\ Unforgotten => DeliveredOnce
  <2> SUFFICES ASSUME SetInv, Unforgotten, NEW g \in Groups, NEW i \in Ids, NEW p \in Members,
                      delivered[g][i][p] > 1
               PROVE  <<g, i>> \in forgotten
    BY DEF DeliveredOnce
  <2>1. delivered[g][i][p] \in 0..MaxDelivered
    BY DEF SetInv, TypeInv, TypeOK
  <2> QED BY <2>1, DedupAssumption DEF Unforgotten, OnceInv
<1> QED BY <1>1, <1>2, InitSetInv, SetInvKeeps, OnceKeeps, PTL DEF Spec
=============================================================================
