------------------------ MODULE SessionTable_proofs -------------------------
(***************************************************************************)
(* TableInv, the conjunction of the safety properties of SessionTable with *)
(* what they need to be inductive, is an invariant for every value of the  *)
(* constants; so is the action property NoEvictionInVain.  First what the  *)
(* steps do to the three counts: the slots of s.pending, the               *)
(* pendingAttaches of a session, and userSessions with the table it        *)
(* describes.  Then one lemma per action, in the order of the handshake,   *)
(* of the lanes and of the server.                                         *)
(***************************************************************************)
EXTENDS SessionTable, FiniteSetTheorems, TLAPS

\* The handlers in a handshake.
Handshaking == {h \in Handlers : pc[h] \in HandshakePcs}

-----------------------------------------------------------------------------
(* Counting                                                                *)

\* Taking one element out of a finite set takes one from its cardinality.
LEMMA RemoveOne ==
    ASSUME NEW S, IsFiniteSet(S), NEW x \in S
    PROVE  /\ IsFiniteSet(S \ {x}) /\ Cardinality(S) \in Nat /\ Cardinality(S) # 0
           /\ Cardinality(S \ {x}) = Cardinality(S) - 1
<1>1. Cardinality(S) \in Nat BY FS_CardinalityType
<1>2. Cardinality(S) # 0 BY FS_EmptySet
<1>3. Cardinality(S \ {x}) = IF x \in S THEN Cardinality(S) - 1 ELSE Cardinality(S)
  BY FS_RemoveElement
<1> QED BY <1>1, <1>2, <1>3, FS_RemoveElement

\* Adding a new element to a finite set adds one to its cardinality.
LEMMA AddOne ==
    ASSUME NEW S, IsFiniteSet(S), NEW x, x \notin S
    PROVE  Cardinality(S \cup {x}) = Cardinality(S) + 1
<1>1. Cardinality(S \cup {x}) = IF x \in S THEN Cardinality(S) ELSE Cardinality(S) + 1
  BY FS_AddElement
<1> QED BY <1>1

\* Taking a subset out of a finite set takes its size from the cardinality.
LEMMA RemoveSubset ==
    ASSUME NEW S, IsFiniteSet(S), NEW E \in SUBSET S
    PROVE  /\ IsFiniteSet(S \ E) /\ Cardinality(S \ E) \in Nat
           /\ Cardinality(S \ E) = Cardinality(S) - Cardinality(E)
<1>1. S \cap E = E OBVIOUS
<1>2. IsFiniteSet(S \ E) /\ Cardinality(S \ E) = Cardinality(S) - Cardinality(S \cap E)
  BY FS_Difference, Zenon
<1>3. Cardinality(S \ E) \in Nat BY <1>2, FS_CardinalityType
<1> QED BY <1>1, <1>2, <1>3, Zenon

\* The handlers in a handshake can be counted.
LEMMA HandshakingFinite == IsFiniteSet(Handshaking) /\ Cardinality(Handshaking) \in Nat
BY TableAssumption, FS_Subset, FS_CardinalityType DEF Handshaking

\* The handlers on their way to attach to a session can be counted.
LEMMA HoldersFinite ==
    ASSUME NEW s \in Sessions
    PROVE  IsFiniteSet(Holders(s)) /\ Cardinality(Holders(s)) \in Nat
BY TableAssumption, FS_Subset, FS_CardinalityType DEF Holders

\* The sessions of the table, and those of a user, can be counted.
LEMMA LiveFinite ==
    ASSUME NEW u \in Users
    PROVE  /\ IsFiniteSet(Live) /\ Cardinality(Live) \in Nat
           /\ IsFiniteSet(UserLive(u)) /\ Cardinality(UserLive(u)) \in Nat
<1>1. IsFiniteSet(Live) BY TableAssumption, FS_Subset DEF Live
<1>2. IsFiniteSet(UserLive(u)) BY <1>1, FS_Subset DEF UserLive
<1> QED BY <1>1, <1>2, FS_CardinalityType

-----------------------------------------------------------------------------
(* The slots for pending handshakes                                        *)

\* A handler in a handshake holds a slot, so the count can be decremented.
LEMMA SlotIsHeld ==
    ASSUME TypeOK, SlotAccounting, NEW h \in Handlers, pc[h] \in HandshakePcs
    PROVE  pending - 1 \in Nat
<1>1. Handshaking # {} BY DEF Handshaking
<1>2. pending = Cardinality(Handshaking) BY DEF SlotAccounting, Handshaking
<1>3. Cardinality(Handshaking) # 0 BY <1>1, HandshakingFinite, FS_EmptySet
<1> QED BY <1>2, <1>3, HandshakingFinite

\* The deferred release in handleQUICConn: a return gives back the slot the handler holds, and no other.
LEMMA ReturnKeepsSlots ==
    ASSUME TypeOK, SlotAccounting, NEW h \in Handlers, NEW to \in Pcs \ HandshakePcs, Return(h, to)
    PROVE  SlotAccounting' /\ pending' \in Nat
<1>1. Handshaking' = Handshaking \ {h} BY DEF Handshaking, TypeOK, Return
<1>2. Cardinality(Handshaking') = IF h \in Handshaking THEN Cardinality(Handshaking) - 1
                                                       ELSE Cardinality(Handshaking)
  BY <1>1, HandshakingFinite, FS_RemoveElement, Zenon
<1>3. h \in Handshaking <=> pc[h] \in HandshakePcs BY DEF Handshaking
<1>4. pending = Cardinality(Handshaking) /\ pending <= MaxPending BY DEF SlotAccounting, Handshaking
<1>5. pending' \in Nat BY SlotIsHeld DEF TypeOK, Return
<1>6. pending' = Cardinality(Handshaking') BY <1>2, <1>3, <1>4 DEF Return
<1>7. pending' <= MaxPending BY <1>4, TableAssumption DEF Return, TypeOK
<1> QED BY <1>5, <1>6, <1>7 DEF SlotAccounting, Handshaking

\* A handler that neither enters nor leaves its handshake leaves the slots alone.
LEMMA MoveKeepsSlots ==
    ASSUME TypeOK, SlotAccounting, NEW h \in Handlers, NEW to \in Pcs,
           pc' = [pc EXCEPT ![h] = to], pc[h] \in HandshakePcs <=> to \in HandshakePcs,
           UNCHANGED pending
    PROVE  SlotAccounting'
<1>1. Handshaking' = Handshaking BY DEF Handshaking, TypeOK
<1> QED BY <1>1 DEF SlotAccounting, Handshaking

\* handleQUICConn takes a slot only below the limit.
LEMMA TakeKeepsSlots ==
    ASSUME TypeOK, SlotAccounting, NEW h \in Handlers, pc[h] \notin HandshakePcs, pending < MaxPending,
           pc' = [pc EXCEPT ![h] = "accept"], pending' = pending + 1
    PROVE  SlotAccounting' /\ pending' \in Nat
<1>1. Handshaking' = Handshaking \cup {h} /\ h \notin Handshaking
  BY DEF Handshaking, TypeOK, HandshakePcs
<1>2. Cardinality(Handshaking') = Cardinality(Handshaking) + 1
  BY <1>1, HandshakingFinite, AddOne
<1>3. pending = Cardinality(Handshaking) /\ pending \in Nat BY DEF SlotAccounting, Handshaking, TypeOK
<1> QED BY <1>2, <1>3, TableAssumption DEF SlotAccounting, Handshaking

-----------------------------------------------------------------------------
(* The attaches                                                            *)

\* A session whose pendingAttaches is zero has no worker on its way.
LEMMA ZeroMeansNoHolder ==
    ASSUME AttachAccounting, NEW s \in Sessions, Current(s), pendingAttaches[s] = 0
    PROVE  \A h \in Handlers : session[h] = s => pc[h] \notin AttachPcs
<1>1. Holders(s) = {} BY HoldersFinite, FS_EmptySet DEF AttachAccounting
<1> QED BY <1>1 DEF Holders

\* A handler that neither acquires nor releases an attach leaves the holders of all sessions alone.
LEMMA MoveKeepsHolders ==
    ASSUME TypeOK, NEW h \in Handlers, NEW to, pc' = [pc EXCEPT ![h] = to],
           UNCHANGED session, pc[h] \in AttachPcs <=> to \in AttachPcs
    PROVE  \A t \in Sessions : Holders(t)' = Holders(t)
BY DEF TypeOK, Holders

\* A handler that returns without an attach leaves the holders of all sessions alone.
LEMMA ReturnKeepsHolders ==
    ASSUME TypeOK, NEW h \in Handlers, pc[h] \notin AttachPcs, NEW to, Return(h, to)
    PROVE  \A t \in Sessions : Holders(t)' = Holders(t)
BY TableAssumption DEF TypeOK, Holders, Return

\* Incrementing pendingAttaches as the handler starts to hold an attach keeps the count right.
LEMMA AcquireAddsHolder ==
    ASSUME TypeOK, AttachAccounting, NEW h \in Handlers, pc[h] \notin AttachPcs,
           pc' = [pc EXCEPT ![h] = "ack"], UNCHANGED <<session, table, origin>>,
           NEW s \in Sessions, session[h] = s,
           pendingAttaches' = IF Current(s) THEN [pendingAttaches EXCEPT ![s] = @ + 1] ELSE pendingAttaches
    PROVE  AttachAccounting'
<1>1. Holders(s)' = Holders(s) \cup {h} /\ h \notin Holders(s)
  BY DEF TypeOK, Holders, AttachPcs
<1>2. \A t \in Sessions \ {s} : Holders(t)' = Holders(t)
  BY DEF TypeOK, Holders, AttachPcs
<1>3. Cardinality(Holders(s)') = Cardinality(Holders(s)) + 1
  BY <1>1, HoldersFinite, AddOne
<1>4. \A t \in Sessions : Current(t)' <=> Current(t) BY DEF Current
<1>5. ASSUME NEW t \in Sessions, Current(t)' PROVE pendingAttaches'[t] = Cardinality(Holders(t)')
  <2>1. CASE t = s BY <1>3, <1>4, <1>5, <2>1 DEF AttachAccounting, TypeOK
  <2>2. CASE t # s BY <1>2, <1>4, <1>5, <2>2 DEF AttachAccounting, TypeOK
  <2> QED BY <2>1, <2>2
<1> QED BY <1>5 DEF AttachAccounting

\* releaseSessionAttach as the handler stops to hold its attach keeps the count right.
LEMMA ReleaseRemovesHolder ==
    ASSUME TypeOK, AttachAccounting, NEW h \in Handlers, pc[h] \in AttachPcs,
           ReleaseAttach(session[h]), UNCHANGED <<table, origin>>,
           NEW to \in Pcs \ AttachPcs, pc' = [pc EXCEPT ![h] = to],
           session' = session \/ session' = [session EXCEPT ![h] = NoSession]
    PROVE  AttachAccounting' /\ pendingAttaches' \in [Sessions -> Nat]
<1> DEFINE s == session[h]
<1>1. s \in Sessions BY DEF TypeOK, AttachPcs
<1>2. \A t \in Sessions : Holders(t)' = Holders(t) \ {h} BY TableAssumption DEF TypeOK, Holders
<1>3. h \in Holders(s) /\ \A t \in Sessions \ {s} : h \notin Holders(t) BY DEF Holders
<1>4. \A t \in Sessions : Current(t)' <=> Current(t) BY DEF Current
<1>5. /\ Cardinality(Holders(s) \ {h}) = Cardinality(Holders(s)) - 1
      /\ Cardinality(Holders(s)) \in Nat /\ Cardinality(Holders(s)) # 0
  BY <1>1, <1>3, HoldersFinite, RemoveOne
<1>6. pendingAttaches' = [pendingAttaches EXCEPT ![s] = Less(pendingAttaches[s], 1)]
  BY DEF ReleaseAttach
<1>7. pendingAttaches' \in [Sessions -> Nat] BY <1>1, <1>6 DEF TypeOK, Less
<1>8. ASSUME NEW t \in Sessions, Current(t)' PROVE pendingAttaches'[t] = Cardinality(Holders(t)')
  <2>1. CASE t = s
    <3>1. pendingAttaches[s] = Cardinality(Holders(s)) BY <1>1, <1>4, <1>8, <2>1 DEF AttachAccounting
    <3>2. Less(pendingAttaches[s], 1) = Cardinality(Holders(s)) - 1 BY <1>5, <3>1 DEF Less
    <3> QED BY <1>1, <1>2, <1>5, <1>6, <2>1, <3>2, Zenon DEF TypeOK
  <2>2. CASE t # s
    <3>1. Holders(t)' = Holders(t) BY <1>2, <1>3, <2>2
    <3> QED BY <1>1, <1>4, <1>6, <1>8, <2>2, <3>1 DEF AttachAccounting, TypeOK
  <2> QED BY <2>1, <2>2
<1> QED BY <1>7, <1>8 DEF AttachAccounting

\* With the holders and the counts unchanged, the counts stay right for the sessions that stay in the table.
LEMMA KeptHoldersKeepAttaches ==
    ASSUME AttachAccounting, \A t \in Sessions : Holders(t)' = Holders(t),
           \A t \in Sessions : Current(t)' => Current(t), UNCHANGED pendingAttaches
    PROVE  AttachAccounting'
BY DEF AttachAccounting

-----------------------------------------------------------------------------
(* The accounts of the table                                               *)

\* Taking a session out of the table and of the count of its user keeps the accounts (the deletion code that
\* setup failure, reaper and creator share).
LEMMA RemoveKeepsAccounts ==
    ASSUME TypeOK, KeysAreIds, UserAccounting, SessionLimits,
           NEW s \in Sessions, Current(s), Remove(s), UNCHANGED origin
    PROVE  /\ KeysAreIds' /\ UserAccounting' /\ SessionLimits'
           /\ table' \in [SessionIds -> Sessions \cup {NoSession}]
           /\ userSessions' \in [Users -> Nat]
           /\ \A t \in Sessions : Current(t)' <=> Current(t) /\ t # s
<1>1. PICK i \in SessionIds, u \in Users :
          /\ origin[s] \in Requests /\ i = origin[s].id /\ u = origin[s].user
          /\ table[i] = s /\ s # NoSession
  BY TableAssumption DEF Current, TypeOK
<1>2. table' = [table EXCEPT ![i] = NoSession] BY <1>1 DEF Remove
<1>3. Live' = Live \ {i} BY <1>1, <1>2 DEF Live, TypeOK
<1>4. UserLive(u)' = UserLive(u) \ {i} /\ i \in UserLive(u)
  BY <1>1, <1>2, <1>3 DEF UserLive, Live, TypeOK
<1>5. \A v \in Users \ {u} : UserLive(v)' = UserLive(v)
  BY <1>1, <1>2, <1>3 DEF UserLive, Live, TypeOK
<1>6. Cardinality(UserLive(u)') = Cardinality(UserLive(u)) - 1
  BY <1>4, LiveFinite, RemoveOne
<1>7. Cardinality(UserLive(u)) \in Nat /\ Cardinality(UserLive(u)) # 0
  BY <1>4, LiveFinite, RemoveOne, Zenon
<1>8. userSessions' = [userSessions EXCEPT ![u] = userSessions[u] - 1] /\ userSessions[u] - 1 \in Nat
  <2>1. userSessions[u] = Cardinality(UserLive(u)) BY DEF UserAccounting
  <2>2. Less(userSessions[u], 1) = userSessions[u] - 1 /\ userSessions[u] - 1 \in Nat
    BY <1>7, <2>1 DEF Less
  <2> QED BY <1>1, <2>2, Zenon DEF Remove
<1>9. UserAccounting' BY <1>1, <1>5, <1>6, <1>8 DEF UserAccounting, TypeOK
<1>10. Cardinality(Live') <= MaxSessions
  <2>1. i \in Live BY <1>4 DEF UserLive
  <2>2. Cardinality(Live') = Cardinality(Live) - 1 /\ Cardinality(Live) \in Nat
    BY <1>3, <2>1, LiveFinite, RemoveOne
  <2> QED BY <2>2, TableAssumption DEF SessionLimits
<1>11. SessionLimits'
  <2>1. \A v \in Users : userSessions'[v] <= userSessions[v] /\ userSessions'[v] \in Nat
    BY <1>8 DEF TypeOK
  <2>2. \A v \in Users : MaxUserSessions[v] \in Nat BY TableAssumption
  <2> QED BY <1>10, <2>1, <2>2 DEF SessionLimits, TypeOK
<1>12. KeysAreIds' BY <1>2, <1>3 DEF KeysAreIds, Live, TypeOK
<1>13. \A t \in Sessions : Current(t)' <=> Current(t) /\ t # s
  BY <1>1, <1>2, TableAssumption DEF Current, TypeOK
<1> QED BY <1>1, <1>2, <1>8, <1>9, <1>11, <1>12, <1>13, TableAssumption DEF TypeOK

\* What evictSupersededUserSessionsLocked may evict, and that evicting anything at all makes room: under the
\* limits, a table or a user is at most full, so one session less is enough.
LEMMA EvictKeepsAccounts ==
    ASSUME TypeOK, UserAccounting, SessionLimits,
           NEW u \in Users, NEW E \in SUBSET SessionIds, CanEvict(u, E)
    PROVE  /\ E \subseteq UserLive(u)
           /\ Cardinality(E) \in Nat
           /\ Cardinality(Live \ E) \in Nat /\ IsFiniteSet(Live \ E)
           /\ Cardinality(UserLive(u) \ E) = userSessions[u] - Cardinality(E)
           /\ IsFiniteSet(UserLive(u) \ E)
           /\ Cardinality(Live \ E) <= MaxSessions
           /\ Less(userSessions[u], Cardinality(E)) = userSessions[u] - Cardinality(E)
           /\ userSessions[u] - Cardinality(E) \in Nat
           /\ E # {} => HasRoom(u, E)
<1>1. E \subseteq UserLive(u) /\ E \subseteq Live BY DEF CanEvict, Evictable, UserLive
<1>2. IsFiniteSet(E) /\ Cardinality(E) \in Nat BY <1>1, LiveFinite, FS_Subset, FS_CardinalityType
<1>3. /\ Cardinality(Live \ E) = Cardinality(Live) - Cardinality(E)
      /\ IsFiniteSet(Live \ E) /\ Cardinality(Live \ E) \in Nat
  <2>1. IsFiniteSet(Live) /\ E \in SUBSET Live BY <1>1, LiveFinite
  <2> QED BY <2>1, RemoveSubset, Zenon
<1>4. /\ Cardinality(UserLive(u) \ E) = Cardinality(UserLive(u)) - Cardinality(E)
      /\ IsFiniteSet(UserLive(u) \ E) /\ Cardinality(UserLive(u) \ E) \in Nat
  <2>1. IsFiniteSet(UserLive(u)) /\ E \in SUBSET UserLive(u) BY <1>1, LiveFinite
  <2> QED BY <2>1, RemoveSubset, Zenon
<1>5. userSessions[u] = Cardinality(UserLive(u)) /\ userSessions[u] \in Nat
  BY DEF UserAccounting, TypeOK
<1>6. Less(userSessions[u], Cardinality(E)) = userSessions[u] - Cardinality(E)
  BY <1>2, <1>4, <1>5 DEF Less
<1>7. Cardinality(Live) \in Nat /\ Cardinality(Live) <= MaxSessions /\ userSessions[u] <= MaxUserSessions[u]
  BY LiveFinite DEF SessionLimits
<1>8. E # {} => Cardinality(E) >= 1 BY <1>2, FS_EmptySet
<1>9. MaxSessions \in Nat /\ MaxUserSessions[u] \in Nat BY TableAssumption
<1>10. E # {} => HasRoom(u, E) BY <1>2, <1>3, <1>5, <1>7, <1>8, <1>9 DEF HasRoom
<1> QED BY <1>1, <1>2, <1>3, <1>4, <1>5, <1>6, <1>7, <1>9, <1>10

\* getOrCreateSession refuses for a limit only when the eviction removed nothing.
LEMMA NothingIsEvictedInVain ==
    ASSUME NEW h \in Handlers, NEW r \in Requests, NEW E \in SUBSET SessionIds,
           TableInv, LimitReached(h, r, E)
    PROVE  UNCHANGED <<table, userSessions, closing>>
<1>1. r.user \in Users BY TableAssumption
<1>2. E = {} BY <1>1, EvictKeepsAccounts, Zenon DEF TableInv, LimitReached
<1>3. table' = table BY <1>2 DEF LimitReached, TableInv, TypeOK
<1>4. Cardinality(E) = 0 BY <1>2, FS_EmptySet
<1>5. userSessions \in [Users -> Nat] BY DEF TableInv, TypeOK
<1>6. Less(userSessions[r.user], 0) = userSessions[r.user] BY <1>1, <1>5 DEF Less
<1>7. userSessions' = userSessions BY <1>1, <1>4, <1>6 DEF LimitReached, TableInv, TypeOK
<1>8. closing' = closing BY <1>2 DEF LimitReached, Evicted
<1> QED BY <1>3, <1>7, <1>8

\* Each conjunct of the invariant depends on a few variables only.
LEMMA Frame ==
    /\ UNCHANGED <<table, origin>> /\ KeysAreIds => KeysAreIds'
    /\ UNCHANGED <<table, userSessions, origin>> /\ UserAccounting => UserAccounting'
    /\ UNCHANGED <<table, userSessions>> /\ SessionLimits => SessionLimits'
    /\ UNCHANGED <<session, origin, reaping, old>> /\ HeldAreCreated => HeldAreCreated'
    /\ UNCHANGED <<pc, session, ready>> /\ SetupIsExclusive => SetupIsExclusive'
    /\ UNCHANGED <<table, origin, pendingAttaches, pc, session>> /\ AttachAccounting => AttachAccounting'
    /\ UNCHANGED <<table, origin, old, ready, pc, session, server>> /\ SetupIsProtected => SetupIsProtected'
    /\ UNCHANGED <<table, origin, pc, session, server>> /\ AttachIsProtected => AttachIsProtected'
    /\ UNCHANGED <<alive, server>> /\ ClosedIsDisconnected => ClosedIsDisconnected'
    /\ UNCHANGED <<table, origin, relayPaths, closing, alive>> /\ NoOrphanLane => NoOrphanLane'
    /\ UNCHANGED <<pc, pending>> /\ SlotAccounting => SlotAccounting'
<1>1. UNCHANGED table => Live' = Live BY DEF Live
<1>2. UNCHANGED <<table, origin>> => \A u \in Users : UserLive(u)' = UserLive(u) BY DEF UserLive, Live
<1>3. UNCHANGED <<pc, session>> => \A s \in Sessions : Holders(s)' = Holders(s) BY DEF Holders
<1>4. UNCHANGED <<table, origin>> => \A s \in Sessions : Current(s)' = Current(s) BY DEF Current
<1>5. UNCHANGED <<table, origin>> /\ KeysAreIds => KeysAreIds' BY <1>1 DEF KeysAreIds
<1>6. UNCHANGED <<table, userSessions, origin>> /\ UserAccounting => UserAccounting'
  BY <1>2 DEF UserAccounting
<1>7. UNCHANGED <<table, userSessions>> /\ SessionLimits => SessionLimits' BY <1>1 DEF SessionLimits
<1>8. UNCHANGED <<session, origin, reaping, old>> /\ HeldAreCreated => HeldAreCreated'
  BY DEF HeldAreCreated
<1>9. UNCHANGED <<pc, session, ready>> /\ SetupIsExclusive => SetupIsExclusive' BY DEF SetupIsExclusive
<1>10. UNCHANGED <<table, origin, pendingAttaches, pc, session>> /\ AttachAccounting => AttachAccounting'
  BY <1>3, <1>4 DEF AttachAccounting
<1>11. UNCHANGED <<table, origin, old, ready, pc, session, server>> /\ SetupIsProtected => SetupIsProtected'
  BY DEF SetupIsProtected, Current
<1>12. UNCHANGED <<table, origin, pc, session, server>> /\ AttachIsProtected => AttachIsProtected'
  BY DEF AttachIsProtected, Current
<1>13. UNCHANGED <<alive, server>> /\ ClosedIsDisconnected => ClosedIsDisconnected'
  BY DEF ClosedIsDisconnected
<1>14. UNCHANGED <<table, origin, relayPaths, closing, alive>> /\ NoOrphanLane => NoOrphanLane'
  BY <1>4 DEF NoOrphanLane
<1>15. UNCHANGED <<pc, pending>> /\ SlotAccounting => SlotAccounting' BY DEF SlotAccounting
<1> QED BY <1>5, <1>6, <1>7, <1>8, <1>9, <1>10, <1>11, <1>12, <1>13, <1>14, <1>15

\* deleteIdleSession and deleteSessionIfUnattached: whether or not they delete, the accounts are kept, and what
\* they delete had neither a lane nor a worker on its way.
LEMMA RemoveIfUnattached ==
    ASSUME TableInv, NEW s \in Sessions, UNCHANGED origin,
           IF Unattached(s) THEN Remove(s) ELSE UNCHANGED <<table, userSessions, closing>>
    PROVE  /\ KeysAreIds' /\ UserAccounting' /\ SessionLimits'
           /\ table' \in [SessionIds -> Sessions \cup {NoSession}]
           /\ userSessions' \in [Users -> Nat]
           /\ closing' = IF Unattached(s) THEN closing \cup {s} ELSE closing
           /\ \A t \in Sessions : Current(t)' <=> Current(t) /\ ~(t = s /\ Unattached(s))
           /\ Unattached(s) =>
                /\ relayPaths[s] = {}
                /\ \A g \in Handlers : session[g] = s => pc[g] \notin AttachPcs
<1>1. CASE Unattached(s)
  <2>1. Current(s) /\ Remove(s) /\ pendingAttaches[s] = 0 /\ relayPaths[s] = {} BY <1>1 DEF Unattached
  <2>2. \A g \in Handlers : session[g] = s => pc[g] \notin AttachPcs
    BY <2>1, ZeroMeansNoHolder DEF TableInv
  <2>3. /\ KeysAreIds' /\ UserAccounting' /\ SessionLimits'
        /\ table' \in [SessionIds -> Sessions \cup {NoSession}]
        /\ userSessions' \in [Users -> Nat]
        /\ \A t \in Sessions : Current(t)' <=> Current(t) /\ t # s
    BY <2>1, RemoveKeepsAccounts DEF TableInv
  <2>4. closing' = closing \cup {s} BY <2>1 DEF Remove
  <2> QED BY <1>1, <2>1, <2>2, <2>3, <2>4
<1>2. CASE ~Unattached(s)
  <2>1. UNCHANGED <<table, userSessions, closing>> BY <1>2
  <2>2. \A t \in Sessions : Current(t)' <=> Current(t) BY <2>1 DEF Current
  <2>3. KeysAreIds' /\ UserAccounting' /\ SessionLimits' BY <2>1, Frame DEF TableInv
  <2> QED BY <1>2, <2>1, <2>2, <2>3 DEF TableInv, TypeOK
<1> QED BY <1>1, <1>2

\* getOrCreateSession evicts and inserts: the delicate step.  The evicted sessions have no worker on its way, the
\* object of the new session is held by nobody, and HasRoom leaves room for one.
LEMMA CreateSessionInv ==
    ASSUME NEW h \in Handlers, NEW r \in Requests, NEW E \in SUBSET SessionIds, NEW s \in Sessions,
           TableInv, CreateSession(h, r, E, s)
    PROVE  TableInv'
<1>1. PICK i \in SessionIds, u \in Users : i = r.id /\ u = r.user BY TableAssumption
<1>2. /\ E \subseteq UserLive(u)
      /\ Cardinality(E) \in Nat
      /\ Cardinality(Live \ E) \in Nat /\ IsFiniteSet(Live \ E)
      /\ Cardinality(UserLive(u) \ E) = userSessions[u] - Cardinality(E)
      /\ IsFiniteSet(UserLive(u) \ E)
      /\ Less(userSessions[u], Cardinality(E)) = userSessions[u] - Cardinality(E)
      /\ userSessions[u] - Cardinality(E) \in Nat
  BY <1>1, EvictKeepsAccounts, Zenon DEF TableInv, CreateSession
<1>3. i \notin Live /\ i \notin E BY <1>1, <1>2, Zenon DEF CreateSession, Live, UserLive
<1>4. \A j \in SessionIds : table[j] # s
  BY TableAssumption, Zenon DEF TableInv, KeysAreIds, Live, CreateSession, Unreferenced, Current
<1>5. /\ table' \in [SessionIds -> Sessions \cup {NoSession}]
      /\ table' = [j \in SessionIds |-> IF j = i THEN s ELSE IF j \in E THEN NoSession ELSE table[j]]
      /\ s # NoSession
      /\ origin' = [origin EXCEPT ![s] = r]
      /\ origin' \in [Sessions -> Requests \cup {NoRequest}]
  BY <1>1, TableAssumption DEF TableInv, TypeOK, CreateSession
<1>6. Live' = (Live \ E) \cup {i} BY <1>5 DEF Live
<1>7. UserLive(u)' = (UserLive(u) \ E) \cup {i}
  BY <1>1, <1>3, <1>4, <1>5, <1>6 DEF UserLive, Live, TableInv, TypeOK
<1>8. \A v \in Users \ {u} : UserLive(v)' = UserLive(v)
  <2>1. SUFFICES ASSUME NEW v \in Users \ {u}
                 PROVE  \A j \in SessionIds : j \in UserLive(v)' <=> j \in UserLive(v)
    BY Zenon DEF UserLive, Live
  <2>2. i \notin UserLive(v) /\ i \notin UserLive(v)'
    BY <1>1, <1>3, <1>5 DEF UserLive, TableInv, TypeOK
  <2>3. \A j \in E : j \notin UserLive(v) /\ j \notin UserLive(v)'
    <3>1. \A j \in E : origin[table[j]].user = u BY <1>2 DEF UserLive
    <3>2. \A j \in E : j \notin Live' BY <1>3, <1>6
    <3>3. UserLive(v)' \subseteq Live' BY DEF UserLive
    <3>4. \A j \in UserLive(v) : origin[table[j]].user = v BY DEF UserLive
    <3>5. u # v BY <2>1
    <3>6. \A j \in E : j \notin UserLive(v) BY <3>1, <3>4, <3>5
    <3> QED BY <3>2, <3>3, <3>6
  <2>4. \A j \in SessionIds \ (E \cup {i}) : table'[j] = table[j] /\ origin'[table'[j]] = origin[table[j]]
    BY <1>4, <1>5 DEF TableInv, TypeOK
  <2>5. \A j \in SessionIds \ (E \cup {i}) : j \in UserLive(v)' <=> j \in UserLive(v)
    BY <2>4, Zenon DEF UserLive, Live
  <2> QED BY <2>2, <2>3, <2>5
<1>9. KeysAreIds'
  BY <1>1, <1>4, <1>5, <1>6, TableAssumption DEF KeysAreIds, Live, TableInv, TypeOK
<1>10. userSessions' = [userSessions EXCEPT ![u] = userSessions[u] - Cardinality(E) + 1]
  BY <1>1, <1>2 DEF CreateSession
<1>11. UserAccounting'
  <2>1. i \notin UserLive(u) \ E BY <1>3 DEF UserLive
  <2>2. Cardinality(UserLive(u)') = userSessions[u] - Cardinality(E) + 1
    BY <1>2, <1>7, <2>1, AddOne
  <2> QED BY <1>8, <1>10, <2>2 DEF UserAccounting, TableInv, TypeOK
<1>12. SessionLimits'
  <2>1. Cardinality(Live \ E) < MaxSessions /\ userSessions[u] - Cardinality(E) < MaxUserSessions[u]
    BY <1>1 DEF CreateSession, HasRoom
  <2>2. i \notin Live \ E BY <1>3
  <2>3. Cardinality(Live') = Cardinality(Live \ E) + 1 BY <1>2, <1>6, <2>2, AddOne
  <2>4. Cardinality(Live') <= MaxSessions BY <1>2, <2>1, <2>3, TableAssumption
  <2>5. MaxUserSessions[u] \in Nat BY TableAssumption
  <2>6. userSessions[u] - Cardinality(E) + 1 <= MaxUserSessions[u]
    <3>1. userSessions[u] - Cardinality(E) \in Nat BY <1>2
    <3> QED BY <2>1, <2>5, <3>1
  <2> QED BY <1>10, <2>4, <2>6 DEF SessionLimits, TableInv, TypeOK
<1>13. \A t \in Sessions \ {s} : Current(t)' <=> Current(t) /\ origin[t].id \notin E
  BY <1>1, <1>3, <1>5, TableAssumption DEF Current, TableInv, TypeOK, Live
<1>14. Current(s)' BY <1>1, <1>5, TableAssumption DEF Current, TableInv, TypeOK
<1>15. \A g \in Handlers : session[g] # s BY Zenon DEF CreateSession, Unreferenced
<1>16. SlotAccounting' BY MoveKeepsSlots, Zenon DEF TableInv, CreateSession, Pcs, HandshakePcs
<1>17. AttachAccounting'
  <2>1. \A t \in Sessions \ {s} : Holders(t)' = Holders(t)
    BY DEF Holders, CreateSession, TableInv, TypeOK, AttachPcs
  <2>2. Holders(s)' = {} BY <1>15 DEF Holders, CreateSession, TableInv, TypeOK, AttachPcs
  <2>3. pendingAttaches' = [pendingAttaches EXCEPT ![s] = 0] BY Zenon DEF CreateSession
  <2>4. pendingAttaches'[s] = Cardinality(Holders(s)') BY <2>2, <2>3, FS_EmptySet DEF TableInv, TypeOK
  <2> QED BY <1>13, <2>1, <2>3, <2>4 DEF AttachAccounting, TableInv, TypeOK
\* The evicted sessions are ready and no worker is about to attach to them.
<1>18. \A t \in Sessions : Current(t) /\ origin[t].id \in E =>
           /\ t \in ready /\ t \in Evicted(E)
           /\ \A g \in Handlers : session[g] = t => pc[g] \notin AttachPcs
  <2>1. SUFFICES ASSUME NEW t \in Sessions, Current(t), origin[t].id \in E
                 PROVE  /\ t \in ready /\ t \in Evicted(E)
                        /\ \A g \in Handlers : session[g] = t => pc[g] \notin AttachPcs
    OBVIOUS
  <2>2. table[origin[t].id] = t BY <2>1 DEF Current
  <2>3. t \in ready /\ pendingAttaches[t] = 0
    BY <2>1, <2>2, Zenon DEF CreateSession, CanEvict, Evictable
  <2>4. t \in Evicted(E) BY <2>1, <2>2, Zenon DEF Evicted
  <2> QED BY <2>1, <2>3, <2>4, ZeroMeansNoHolder DEF TableInv
<1> HIDE DEF Evicted
<1>19. Evicted(E) \subseteq Sessions
  <2>1. \A j \in E : j \in SessionIds /\ table[j] # NoSession BY <1>2 DEF UserLive, Live
  <2>2. \A j \in E : table[j] \in Sessions BY <2>1 DEF TableInv, TypeOK
  <2> QED BY <2>2 DEF Evicted
<1>20. TypeOK'
  <2>1. userSessions' \in [Users -> Nat]
    BY <1>2, <1>10 DEF TableInv, TypeOK
  <2>2. /\ ready' \subseteq Sessions /\ setupErr' \subseteq ready' /\ old' \subseteq Sessions
        /\ closing' \subseteq Sessions /\ pendingAttaches' \in [Sessions -> Nat]
    BY <1>19 DEF TableInv, TypeOK, CreateSession
  <2>3. /\ pc' \in [Handlers -> Pcs] /\ created' \in [Handlers -> BOOLEAN]
        /\ session' \in [Handlers -> Sessions \cup {NoSession}]
    BY DEF TableInv, TypeOK, CreateSession, Pcs, HandshakePcs
  <2>4. \A g \in Handlers : session'[g] = NoSession <=> pc'[g] \in {"idle", "accept", "auth", "linger"}
    BY <1>5 DEF TableInv, TypeOK, CreateSession
  <2>5. UNCHANGED <<relayPaths, alive, pending, reaping, server>> BY Zenon DEF CreateSession
  <2> QED BY <1>5, <2>1, <2>2, <2>3, <2>4, <2>5, Zenon DEF TableInv, TypeOK
<1> USE DEF TableInv, TypeOK, CreateSession
<1>21. HeldAreCreated' BY TableAssumption DEF HeldAreCreated, Unreferenced
<1>22. SetupIsExclusive' BY <1>15 DEF SetupIsExclusive, AttachPcs
<1>23. SetupIsProtected'
  BY <1>13, <1>14, <1>15, <1>18 DEF SetupIsProtected, SetupIsExclusive
<1>24. AttachIsProtected'
  BY <1>13, <1>14, <1>15, <1>18 DEF AttachIsProtected, AttachPcs
<1>25. ClosedIsDisconnected' BY DEF ClosedIsDisconnected
<1>26. NoOrphanLane' BY <1>13, <1>14, <1>18 DEF NoOrphanLane, Unreferenced
<1> QED BY <1>9, <1>11, <1>12, <1>16, <1>17, <1>20, <1>21, <1>22, <1>23, <1>24, <1>25, <1>26, Zenon

-----------------------------------------------------------------------------
(* The handshake                                                           *)

\* A handler that holds no attach may return at any time, whatever early return it takes.
LEMMA ReturnInv ==
    ASSUME TableInv, NEW h \in Handlers, NEW to \in {"idle", "linger"}, Return(h, to),
           pc[h] \notin AttachPcs, alive' \subseteq alive,
           UNCHANGED <<table, userSessions, sessionVars, relayPaths, closing, reaping, server>>
    PROVE  TableInv'
<1>1. SlotAccounting' /\ pending' \in Nat BY ReturnKeepsSlots DEF TableInv, Pcs, HandshakePcs
<1>2. AttachAccounting'
  <2>1. \A t \in Sessions : Holders(t)' = Holders(t) BY ReturnKeepsHolders DEF TableInv, AttachPcs
  <2>2. \A t \in Sessions : Current(t)' => Current(t) BY DEF sessionVars, Current
  <2> QED BY <2>1, <2>2, KeptHoldersKeepAttaches DEF TableInv, sessionVars
<1>3. KeysAreIds' /\ UserAccounting' /\ SessionLimits' BY Frame DEF TableInv, sessionVars
<1> USE TableAssumption DEF TableInv, TypeOK, Return, sessionVars
<1>4. TypeOK' BY <1>1 DEF Pcs
<1>5. HeldAreCreated' BY DEF HeldAreCreated
<1>6. SetupIsExclusive' BY DEF SetupIsExclusive, AttachPcs
<1>7. SetupIsProtected' BY DEF SetupIsProtected, Current
<1>8. AttachIsProtected' BY DEF AttachIsProtected, Current, AttachPcs
<1>9. ClosedIsDisconnected' BY DEF ClosedIsDisconnected
<1>10. NoOrphanLane' BY DEF NoOrphanLane, Current
<1> HIDE DEF TypeOK
<1> QED BY <1>1, <1>2, <1>3, <1>4, <1>5, <1>6, <1>7, <1>8, <1>9, <1>10, Zenon

\* A handler may move on with the stream of its worker, while it holds its attach, or after it has served.
LEMMA GotoInv ==
    ASSUME TableInv, NEW h \in Handlers, NEW to \in Pcs, Goto(h, to),
           \/ pc[h] \in AttachPcs /\ to \in AttachPcs
           \/ pc[h] = "accept" /\ to = "auth"
           \/ pc[h] = "serving" /\ to = "delete",
           UNCHANGED <<tableVars, sessionVars, laneVars, reaping, server>>
    PROVE  TableInv'
<1>1. SlotAccounting' BY MoveKeepsSlots, Zenon DEF TableInv, Goto, Pcs, HandshakePcs, AttachPcs
<1>2. AttachAccounting'
  <2>1. \A t \in Sessions : Holders(t)' = Holders(t) BY DEF TableInv, TypeOK, Goto, Holders, AttachPcs
  <2>2. \A t \in Sessions : Current(t)' => Current(t) BY Zenon DEF tableVars, sessionVars, Current
  <2> QED BY <2>1, <2>2, KeptHoldersKeepAttaches DEF TableInv, sessionVars
<1>3. /\ KeysAreIds' /\ UserAccounting' /\ SessionLimits' /\ HeldAreCreated'
      /\ ClosedIsDisconnected' /\ NoOrphanLane'
  BY Frame, Zenon DEF TableInv, Goto, tableVars, sessionVars, laneVars
<1> USE DEF TableInv, TypeOK, Goto, tableVars, sessionVars, laneVars
<1>4. TypeOK' BY DEF Pcs, HandshakePcs, AttachPcs
<1>5. SetupIsExclusive' BY DEF SetupIsExclusive, AttachPcs
<1>6. SetupIsProtected' BY DEF SetupIsProtected, Current, AttachPcs
<1>7. AttachIsProtected' BY DEF AttachIsProtected, Current, AttachPcs
<1> QED BY <1>1, <1>2, <1>3, <1>4, <1>5, <1>6, <1>7, Zenon

\* AcceptStream returns: the handler goes on to read the request.
LEMMA AcceptStreamInv ==
    ASSUME TableInv, NEW h \in Handlers, AcceptStream(h)
    PROVE  TableInv'
BY GotoInv DEF AcceptStream, Pcs, HandshakePcs

\* The early returns of handleQUICConn that change nothing but the handler: no stream, a request refused by
\* refuseAuth, the end of a refusal, a wait that is cancelled, a session under another identity.
LEMMA LeavingInv ==
    ASSUME TableInv, NEW h \in Handlers,
           \/ AuthFails(h) \/ AuthRefused(h) \/ LingerEnds(h) \/ WaitCancelled(h)
           \/ \E r \in Requests : IdentityMismatch(h, r)
    PROVE  TableInv'
<1>1. CASE AuthFails(h) \/ LingerEnds(h)
  BY <1>1, ReturnInv DEF AuthFails, LingerEnds, AttachPcs, tableVars
<1>2. CASE AuthRefused(h) \/ WaitCancelled(h) \/ \E r \in Requests : IdentityMismatch(h, r)
  BY <1>2, ReturnInv, Zenon DEF AuthRefused, WaitCancelled, IdentityMismatch, Refuse, AttachPcs, tableVars, laneVars
<1> QED BY <1>1, <1>2

\* A connection takes a slot.
LEMMA AcceptInv ==
    ASSUME NEW h \in Handlers, TableInv, Accept(h)
    PROVE  TableInv'
<1>1. SlotAccounting' /\ pending' \in Nat
  BY TakeKeepsSlots, Zenon DEF TableInv, Accept, Pcs, HandshakePcs
<1>2. \A t \in Sessions : Holders(t)' = Holders(t)
  BY DEF TableInv, TypeOK, Accept, Holders, AttachPcs, HandshakePcs
<1> USE TableAssumption DEF TableInv, TypeOK, Accept, tableVars, sessionVars, laneVars, handlerVars
<1>3. TypeOK'
  BY <1>1 DEF Pcs, HandshakePcs
<1>4. SetupIsExclusive'
  BY DEF SetupIsExclusive, AttachPcs
<1>5. AttachAccounting'
  BY <1>2 DEF AttachAccounting, Current
<1>6. SetupIsProtected'
  BY DEF SetupIsProtected, Current
<1>7. AttachIsProtected'
  BY DEF AttachIsProtected, Current, AttachPcs
<1>8. ClosedIsDisconnected'
  BY DEF ClosedIsDisconnected
<1>9. NoOrphanLane'
  BY DEF NoOrphanLane, Current
<1>10. KeysAreIds' /\ UserAccounting' /\ SessionLimits' /\ HeldAreCreated'
  BY Frame
<1> HIDE DEF TypeOK
<1> QED BY <1>1, <1>2, <1>3, <1>4, <1>5, <1>6, <1>7, <1>8, <1>9, <1>10, Zenon

\* A worker finds its session.
LEMMA FindSessionInv ==
    ASSUME NEW h \in Handlers, NEW r \in Requests, TableInv, FindSession(h, r)
    PROVE  TableInv'
<1>1. SlotAccounting' /\ pending' \in Nat
  BY MoveKeepsSlots, TableAssumption, Zenon DEF TableInv, TypeOK, FindSession, Pcs, HandshakePcs
<1>2. \A t \in Sessions : Holders(t)' = Holders(t)
  BY DEF TableInv, TypeOK, FindSession, Holders, AttachPcs, HandshakePcs
<1> USE TableAssumption DEF TableInv, TypeOK, FindSession, tableVars, sessionVars, laneVars, handlerVars
<1>3. TypeOK'
  BY <1>1 DEF Pcs, HandshakePcs
<1>4. HeldAreCreated'
  BY DEF HeldAreCreated
<1>5. SetupIsExclusive'
  BY DEF SetupIsExclusive, AttachPcs
<1>6. AttachAccounting'
  BY <1>2 DEF AttachAccounting, Current
<1>7. SetupIsProtected'
  BY DEF SetupIsProtected, Current
<1>8. AttachIsProtected'
  BY DEF AttachIsProtected, Current, AttachPcs
<1>9. KeysAreIds' /\ UserAccounting' /\ SessionLimits' /\ ClosedIsDisconnected' /\ NoOrphanLane'
  BY Frame
<1> HIDE DEF TypeOK
<1> QED BY <1>1, <1>2, <1>3, <1>4, <1>5, <1>6, <1>7, <1>8, <1>9, Zenon

\* getOrCreateSession refuses: nothing was evicted, so only the handler has moved.
LEMMA LimitReachedInv ==
    ASSUME NEW h \in Handlers, NEW r \in Requests, NEW E \in SUBSET SessionIds,
           TableInv, LimitReached(h, r, E)
    PROVE  TableInv'
<1>1. UNCHANGED <<table, userSessions, closing>> BY NothingIsEvictedInVain
<1> QED BY <1>1, ReturnInv DEF LimitReached, Refuse, AttachPcs

\* The creator closes ready and acquires its attach.
LEMMA SetupSucceedsInv ==
    ASSUME NEW h \in Handlers, TableInv, SetupSucceeds(h)
    PROVE  TableInv'
<1>1. session[h] \in Sessions BY DEF TableInv, TypeOK, SetupSucceeds
<1>2. SlotAccounting' BY MoveKeepsSlots, Zenon DEF TableInv, SetupSucceeds, Goto, Pcs, HandshakePcs
<1>3. AttachAccounting'
  BY <1>1, AcquireAddsHolder, Zenon DEF TableInv, SetupSucceeds, Goto, AttachPcs, tableVars
<1> USE DEF TableInv, TypeOK, SetupSucceeds, Goto, tableVars, laneVars
<1>4. TypeOK' BY <1>1 DEF Pcs, HandshakePcs
<1>5. SetupIsExclusive' BY <1>1 DEF SetupIsExclusive, AttachPcs
<1>6. SetupIsProtected' BY DEF SetupIsProtected, Current
<1>7. AttachIsProtected' BY Zenon DEF AttachIsProtected, SetupIsProtected, Current, AttachPcs
<1>8. /\ KeysAreIds' /\ UserAccounting' /\ SessionLimits' /\ HeldAreCreated'
      /\ ClosedIsDisconnected' /\ NoOrphanLane'
  BY Frame
<1> QED BY <1>2, <1>3, <1>4, <1>5, <1>6, <1>7, <1>8, Zenon

\* SessionHandler failed: the creator removes the session, which nobody can have attached to.
LEMMA SetupFailsInv ==
    ASSUME NEW h \in Handlers, TableInv, SetupFails(h)
    PROVE  TableInv'
<1>1. PICK s \in Sessions : s = session[h] BY DEF TableInv, TypeOK, SetupFails
<1>2. /\ KeysAreIds' /\ UserAccounting' /\ SessionLimits'
      /\ table' \in [SessionIds -> Sessions \cup {NoSession}]
      /\ userSessions' \in [Users -> Nat]
      /\ closing' = closing \cup {s}
      /\ \A t \in Sessions : Current(t)' <=> Current(t) /\ t # s
  <2>1. CASE Current(s)
    BY <1>1, <2>1, RemoveKeepsAccounts, Zenon DEF TableInv, SetupFails, Remove
  <2>2. CASE ~Current(s)
    <3>1. UNCHANGED <<table, userSessions, origin>> /\ closing' = closing \cup {s}
      BY <1>1, <2>2, Zenon DEF SetupFails, tableVars
    <3>2. KeysAreIds' /\ UserAccounting' /\ SessionLimits' BY <3>1, Frame DEF TableInv
    <3>3. \A t \in Sessions : Current(t)' <=> Current(t) BY <3>1 DEF Current
    <3> QED BY <2>2, <3>1, <3>2, <3>3 DEF TableInv, TypeOK
  <2> QED BY <2>1, <2>2, Zenon
<1>3. SlotAccounting' /\ pending' \in Nat
  BY ReturnKeepsSlots, Zenon DEF TableInv, SetupFails, Refuse, Pcs, HandshakePcs
<1>4. AttachAccounting'
  <2>1. \A t \in Sessions : Holders(t)' = Holders(t)
    BY ReturnKeepsHolders, Zenon DEF TableInv, SetupFails, Refuse, AttachPcs
  <2> QED BY <1>2, <2>1, KeptHoldersKeepAttaches, Zenon DEF TableInv, SetupFails
<1>5. /\ Return(h, "linger") /\ pc[h] = "setup" /\ session[h] = s
      /\ ready' = ready \cup {s} /\ setupErr' = setupErr \cup {s}
      /\ UNCHANGED <<origin, pendingAttaches, old, relayPaths, alive, reaping, server>>
  BY <1>1, Zenon DEF SetupFails, Refuse
<1> USE <1>5, TableAssumption DEF TableInv, TypeOK, Return
<1>6. TypeOK' BY <1>2, <1>3, Zenon DEF Pcs
<1>7. HeldAreCreated' BY DEF HeldAreCreated
<1>8. SetupIsExclusive' BY Zenon DEF SetupIsExclusive, AttachPcs
<1>9. SetupIsProtected' BY <1>2, Zenon DEF SetupIsProtected, SetupIsExclusive
\* Nobody can hold an attach of a session that is still in setup.
<1>10. AttachIsProtected' BY <1>2, Zenon DEF AttachIsProtected, SetupIsExclusive, AttachPcs
<1>11. ClosedIsDisconnected' BY DEF ClosedIsDisconnected
<1>12. NoOrphanLane' BY <1>2, Zenon DEF NoOrphanLane
<1> QED BY <1>2, <1>3, <1>4, <1>6, <1>7, <1>8, <1>9, <1>10, <1>11, <1>12, Zenon


-----------------------------------------------------------------------------
(* The handshake, from its attach on                                       *)

\* Another worker finds ready closed: it acquires its attach, or is refused.
LEMMA JoinSessionInv ==
    ASSUME NEW h \in Handlers, TableInv, JoinSession(h)
    PROVE  TableInv'
<1>1. PICK s \in Sessions : s = session[h] BY DEF TableInv, TypeOK, JoinSession
<1>2. CASE Current(s) /\ s \notin setupErr
  <2>1. /\ pendingAttaches' = [pendingAttaches EXCEPT ![s] = @ + 1] /\ Goto(h, "ack")
        /\ pc[h] = "waiting" /\ s \in ready
        /\ UNCHANGED <<tableVars, origin, ready, setupErr, old, laneVars, reaping, server>>
    BY <1>1, <1>2, Zenon DEF JoinSession
  <2>2. SlotAccounting' BY <2>1, MoveKeepsSlots, Zenon DEF TableInv, Goto, Pcs, HandshakePcs
  <2>3. AttachAccounting' BY <1>1, <1>2, <2>1, AcquireAddsHolder, Zenon DEF TableInv, Goto, AttachPcs, tableVars
  <2>4. /\ KeysAreIds' /\ UserAccounting' /\ SessionLimits' /\ HeldAreCreated'
        /\ ClosedIsDisconnected' /\ NoOrphanLane'
    BY <2>1, Frame DEF TableInv, Goto, tableVars, laneVars
  <2> USE <1>1, <2>1 DEF TableInv, TypeOK, Goto, tableVars, laneVars
  <2>5. TypeOK' BY DEF Pcs, HandshakePcs
  <2>6. SetupIsExclusive' BY DEF SetupIsExclusive, AttachPcs
  <2>7. SetupIsProtected' BY DEF SetupIsProtected, Current
  <2>8. AttachIsProtected' BY <1>2 DEF AttachIsProtected, Current, AttachPcs
  <2> QED BY <2>2, <2>3, <2>4, <2>5, <2>6, <2>7, <2>8, Zenon
<1>3. CASE ~(Current(s) /\ s \notin setupErr)
  BY <1>1, <1>3, ReturnInv, Zenon DEF JoinSession, Refuse, AttachPcs, tableVars, laneVars, sessionVars
<1> QED BY <1>2, <1>3

\* The ack is written, or cannot be.
LEMMA AckInv ==
    ASSUME TableInv, NEW h \in Handlers, AckWritten(h) \/ AckFails(h)
    PROVE  TableInv'
BY GotoInv, Zenon DEF AckWritten, AckFails, AttachPcs, Pcs, HandshakePcs

\* A failed handshake gives its attach back.
LEMMA UndoAttachInv ==
    ASSUME NEW h \in Handlers, TableInv, UndoAttach(h)
    PROVE  TableInv'
<1>1. SlotAccounting' /\ pending' \in Nat
  BY MoveKeepsSlots, ReturnKeepsSlots, Zenon DEF TableInv, TypeOK, UndoAttach, Goto, Pcs, HandshakePcs
<1>2. AttachAccounting' /\ pendingAttaches' \in [Sessions -> Nat]
  <2>1. CASE created[h]
    BY <2>1, ReleaseRemovesHolder, Zenon DEF TableInv, UndoAttach, Goto, AttachPcs, Pcs, HandshakePcs, tableVars
  <2>2. CASE ~created[h]
    BY <2>2, ReleaseRemovesHolder, Zenon DEF TableInv, UndoAttach, Return, AttachPcs, Pcs, HandshakePcs, tableVars
  <2> QED BY <2>1, <2>2, Zenon
<1> USE TableAssumption DEF TableInv, TypeOK, UndoAttach, Goto, Return, tableVars
<1>3. TypeOK'
  <2>1. /\ pc' \in [Handlers -> Pcs] /\ created' \in [Handlers -> BOOLEAN]
        /\ session' \in [Handlers -> Sessions \cup {NoSession}] /\ alive' \subseteq Handlers
    <3>1. CASE created[h] BY <3>1, Zenon DEF Pcs, HandshakePcs
    <3>2. CASE ~created[h] BY <3>2, Zenon DEF Pcs
    <3> QED BY <3>1, <3>2, Zenon
  <2>2. \A g \in Handlers : session'[g] = NoSession <=> pc'[g] \in {"idle", "accept", "auth", "linger"}
    <3>1. CASE created[h] BY <3>1
    <3>2. CASE ~created[h] BY <3>2, Zenon
    <3> QED BY <3>1, <3>2, Zenon
  <2>3. UNCHANGED <<table, userSessions, origin, ready, setupErr, old, relayPaths, closing, reaping, server>>
    OBVIOUS
  <2> HIDE DEF UndoAttach, Goto, Return
  <2> QED BY <1>1, <1>2, <2>1, <2>2, <2>3, Zenon
<1>11. /\ \A g \in Handlers \ {h} : pc'[g] = pc[g] /\ session'[g] = session[g]
       /\ \/ pc'[h] = "undoDelete" /\ session'[h] = session[h]
          \/ pc'[h] = "idle" /\ session'[h] = NoSession
       /\ pc[h] = "undo"
  <2>1. CASE created[h] BY <2>1
  <2>2. CASE ~created[h] BY <2>2
  <2> QED BY <2>1, <2>2, Zenon
<1>12. UNCHANGED <<table, origin, ready, old, reaping, server>> BY Zenon
<1>4. HeldAreCreated'
  <2> HIDE DEF UndoAttach, Goto, Return, TypeOK, tableVars
  <2> QED BY <1>11, <1>12 DEF HeldAreCreated
<1>5. SetupIsExclusive'
  <2> HIDE DEF UndoAttach, Goto, Return, TypeOK, tableVars
  <2> QED BY <1>11, <1>12 DEF SetupIsExclusive, AttachPcs
<1>6. SetupIsProtected'
  <2> HIDE DEF UndoAttach, Goto, Return, TypeOK, tableVars
  <2> QED BY <1>11, <1>12 DEF SetupIsProtected, Current
<1>7. AttachIsProtected'
  <2> HIDE DEF UndoAttach, Goto, Return, TypeOK, tableVars
  <2> QED BY <1>11, <1>12 DEF AttachIsProtected, Current, AttachPcs
<1>8. ClosedIsDisconnected' BY DEF ClosedIsDisconnected
<1>9. NoOrphanLane' BY Zenon DEF NoOrphanLane, Current
<1>10. KeysAreIds' /\ UserAccounting' /\ SessionLimits'
  BY Frame, Zenon
<1> HIDE DEF TypeOK
<1> QED BY <1>1, <1>2, <1>3, <1>4, <1>5, <1>6, <1>7, <1>8, <1>9, <1>10, Zenon

\* The relay takes the connection as a lane.
LEMMA AttachServerConnInv ==
    ASSUME NEW h \in Handlers, TableInv, AttachServerConn(h)
    PROVE  TableInv'
<1>1. SlotAccounting' BY MoveKeepsSlots, Zenon DEF TableInv, AttachServerConn, Goto, Pcs, HandshakePcs
<1>2. AttachAccounting'
  <2>1. \A t \in Sessions : Holders(t)' = Holders(t)
    BY MoveKeepsHolders, Zenon DEF TableInv, AttachServerConn, Goto, AttachPcs
  <2>2. \A t \in Sessions : Current(t)' => Current(t) BY Zenon DEF AttachServerConn, tableVars, sessionVars, Current
  <2> QED BY <2>1, <2>2, KeptHoldersKeepAttaches, Zenon DEF TableInv, AttachServerConn, sessionVars
<1> USE DEF TableInv, TypeOK, AttachServerConn, Goto, tableVars, sessionVars
<1>3. TypeOK' BY DEF Pcs, HandshakePcs
<1>4. SetupIsExclusive' BY DEF SetupIsExclusive, AttachPcs
<1>5. SetupIsProtected' BY DEF SetupIsProtected, Current
<1>6. AttachIsProtected' BY DEF AttachIsProtected, Current, AttachPcs
<1>7. NoOrphanLane'
  <2>1. PromptSetup => Current(session[h]) \/ alive = {}
    BY DEF AttachIsProtected, ClosedIsDisconnected, AttachPcs
  <2> QED BY <2>1 DEF NoOrphanLane, Current
<1>8. KeysAreIds' /\ UserAccounting' /\ SessionLimits' /\ HeldAreCreated' /\ ClosedIsDisconnected'
  BY Frame, Zenon
<1> QED BY <1>1, <1>2, <1>3, <1>4, <1>5, <1>6, <1>7, <1>8, Zenon

\* An attached worker gives back its attach and its slot.
LEMMA FinishHandshakeInv ==
    ASSUME NEW h \in Handlers, TableInv, FinishHandshake(h)
    PROVE  TableInv'
<1>1. SlotAccounting' /\ pending' \in Nat
  <2>1. Handshaking' = Handshaking \ {h} /\ h \in Handshaking
    BY DEF Handshaking, TableInv, TypeOK, FinishHandshake, HandshakePcs
  <2>2. pending = Cardinality(Handshaking) /\ pending \in Nat /\ pending <= MaxPending
    BY DEF SlotAccounting, Handshaking, TypeOK, TableInv
  <2>3. Cardinality(Handshaking') = Cardinality(Handshaking) - 1 /\ Cardinality(Handshaking) # 0
    BY <2>1, HandshakingFinite, RemoveOne
  <2> QED BY <2>2, <2>3, TableAssumption DEF FinishHandshake, SlotAccounting, Handshaking
<1>2. AttachAccounting' /\ pendingAttaches' \in [Sessions -> Nat]
  BY ReleaseRemovesHolder, Zenon DEF TableInv, FinishHandshake, AttachPcs, Pcs, HandshakePcs, tableVars
<1> USE DEF TableInv, TypeOK, FinishHandshake, tableVars, laneVars
<1>3. TypeOK' BY <1>1, <1>2 DEF Pcs, HandshakePcs
<1>4. SetupIsExclusive' BY DEF SetupIsExclusive, AttachPcs
<1>5. SetupIsProtected' BY DEF SetupIsProtected, Current
<1>6. AttachIsProtected' BY DEF AttachIsProtected, Current, AttachPcs
<1>7. /\ KeysAreIds' /\ UserAccounting' /\ SessionLimits' /\ HeldAreCreated'
      /\ ClosedIsDisconnected' /\ NoOrphanLane'
  BY Frame, Zenon
<1> QED BY <1>1, <1>2, <1>3, <1>4, <1>5, <1>6, <1>7, Zenon

\* The connection or the server has ended.
LEMMA StopServingInv ==
    ASSUME TableInv, NEW h \in Handlers, StopServing(h)
    PROVE  TableInv'
<1>1. CASE created[h] BY <1>1, GotoInv, Zenon DEF StopServing, Pcs
<1>2. CASE ~created[h] BY <1>2, ReturnInv, Zenon DEF StopServing, AttachPcs, tableVars, laneVars
<1> QED BY <1>1, <1>2

-----------------------------------------------------------------------------
(* Deletion, lanes and time                                                *)

\* The creator of a session deletes it when it was left alone.
LEMMA DeleteIfUnattachedInv ==
    ASSUME NEW h \in Handlers, TableInv, DeleteIfUnattached(h)
    PROVE  TableInv'
<1>1. PICK s \in Sessions : s = session[h] BY DEF TableInv, TypeOK, DeleteIfUnattached
<1>2. /\ KeysAreIds' /\ UserAccounting' /\ SessionLimits'
      /\ table' \in [SessionIds -> Sessions \cup {NoSession}]
      /\ userSessions' \in [Users -> Nat]
      /\ closing' = IF Unattached(s) THEN closing \cup {s} ELSE closing
      /\ \A t \in Sessions : Current(t)' <=> Current(t) /\ ~(t = s /\ Unattached(s))
      /\ Unattached(s) =>
            /\ relayPaths[s] = {}
            /\ \A g \in Handlers : session[g] = s => pc[g] \notin AttachPcs
  BY <1>1, RemoveIfUnattached, Zenon DEF DeleteIfUnattached, sessionVars
<1>3. SlotAccounting' /\ pending' \in Nat
  BY ReturnKeepsSlots DEF TableInv, DeleteIfUnattached, Pcs, HandshakePcs
<1>4. AttachAccounting'
  <2>1. \A t \in Sessions : Holders(t)' = Holders(t)
    BY ReturnKeepsHolders, Zenon DEF TableInv, DeleteIfUnattached, AttachPcs
  <2> QED BY <1>2, <2>1, KeptHoldersKeepAttaches, Zenon DEF TableInv, DeleteIfUnattached, sessionVars
<1>5. /\ Return(h, "idle") /\ pc[h] \in {"delete", "undoDelete"} /\ session[h] = s /\ alive' \subseteq alive
      /\ UNCHANGED <<origin, ready, setupErr, pendingAttaches, old, relayPaths, reaping, server>>
  BY <1>1, Zenon DEF DeleteIfUnattached, sessionVars
<1> USE <1>5, TableAssumption DEF TableInv, TypeOK, Return
<1>6. TypeOK' BY <1>2, <1>3, Zenon DEF Pcs
<1>7. HeldAreCreated' BY Zenon DEF HeldAreCreated
<1>8. SetupIsExclusive' BY Zenon DEF SetupIsExclusive, AttachPcs
<1>9. SetupIsProtected' BY <1>2, Zenon DEF SetupIsProtected, SetupIsExclusive
<1>10. AttachIsProtected' BY <1>2, Zenon DEF AttachIsProtected, AttachPcs
<1>11. ClosedIsDisconnected' BY DEF ClosedIsDisconnected
<1>12. NoOrphanLane' BY <1>2, Zenon DEF NoOrphanLane
<1> QED BY <1>2, <1>3, <1>4, <1>6, <1>7, <1>8, <1>9, <1>10, <1>11, <1>12, Zenon

\* The reaper deletes a session of its list if it is still idle.
LEMMA DeleteIdleSessionInv ==
    ASSUME NEW s \in Sessions, TableInv, DeleteIdleSession(s)
    PROVE  TableInv'
<1>1. /\ KeysAreIds' /\ UserAccounting' /\ SessionLimits'
      /\ table' \in [SessionIds -> Sessions \cup {NoSession}]
      /\ userSessions' \in [Users -> Nat]
      /\ closing' = IF Unattached(s) THEN closing \cup {s} ELSE closing
      /\ \A t \in Sessions : Current(t)' <=> Current(t) /\ ~(t = s /\ Unattached(s))
      /\ Unattached(s) =>
            /\ relayPaths[s] = {}
            /\ \A g \in Handlers : session[g] = s => pc[g] \notin AttachPcs
  BY RemoveIfUnattached, Zenon DEF DeleteIdleSession, sessionVars
<1>2. /\ s \in reaping /\ reaping' = reaping \ {s}
      /\ UNCHANGED <<origin, ready, setupErr, pendingAttaches, old, relayPaths, alive,
                     pc, session, created, pending, server>>
  BY DEF DeleteIdleSession, sessionVars, handlerVars
<1>3. AttachAccounting'
  <2>1. \A t \in Sessions : Holders(t)' = Holders(t) BY <1>2, Zenon DEF Holders
  <2> QED BY <1>1, <1>2, <2>1, KeptHoldersKeepAttaches, Zenon DEF TableInv
<1> USE <1>2 DEF TableInv, TypeOK
<1>4. TypeOK' BY <1>1, Zenon
<1>5. HeldAreCreated' BY DEF HeldAreCreated
<1>6. SetupIsProtected'
  <2>1. CASE ~PromptSetup BY <2>1 DEF SetupIsProtected
  <2>2. CASE PromptSetup
    <3>1. s \in ready BY <2>2 DEF SetupIsProtected, HeldAreCreated
    <3>2. \A h \in Handlers : pc[h] = "setup" => session[h] \in Sessions /\ session[h] # s
      BY <3>1 DEF SetupIsExclusive
    <3>3. \A t \in Sessions : Current(t) /\ t # s => Current(t)' BY <1>1
    <3>4. \A h \in Handlers : pc'[h] = "setup" => Current(session[h])' \/ server' = "swapped"
      BY <2>2, <3>2, <3>3 DEF SetupIsProtected
    <3>5. old' \subseteq ready' BY <2>2 DEF SetupIsProtected
    <3> QED BY <3>4, <3>5 DEF SetupIsProtected
  <2> QED BY <2>1, <2>2
<1>7. AttachIsProtected'
  <2>1. \A h \in Handlers : pc[h] \in AttachPcs => session[h] \in Sessions BY DEF AttachPcs
  <2>2. \A h \in Handlers : pc[h] \in AttachPcs /\ Current(session[h]) => Current(session[h])'
    BY <1>1, <2>1, Zenon
  <2> QED BY <2>2 DEF AttachIsProtected
<1>8. NoOrphanLane' BY <1>1, Zenon DEF NoOrphanLane
<1>9. SetupIsExclusive' /\ ClosedIsDisconnected' /\ SlotAccounting'
  BY Frame, Zenon
<1> QED BY <1>1, <1>3, <1>4, <1>5, <1>6, <1>7, <1>8, <1>9, Zenon

\* A connection ends.
LEMMA ConnDiesInv ==
    ASSUME NEW h \in Handlers, TableInv, ConnDies(h)
    PROVE  TableInv'
<1> USE TableAssumption DEF TableInv, TypeOK, ConnDies, tableVars, sessionVars, laneVars, handlerVars
<1>1. TypeOK'
  BY Zenon DEF Pcs, HandshakePcs
<1>2. ClosedIsDisconnected'
  BY DEF ClosedIsDisconnected
<1>3. NoOrphanLane'
  BY Zenon DEF NoOrphanLane, Current
<1>4. /\ KeysAreIds' /\ UserAccounting' /\ SessionLimits' /\ HeldAreCreated' /\ SetupIsExclusive'
      /\ AttachAccounting' /\ SetupIsProtected' /\ AttachIsProtected' /\ SlotAccounting'
  BY Frame, Zenon
<1> HIDE DEF TypeOK
<1> QED BY <1>1, <1>2, <1>3, <1>4, Zenon

\* watchPath takes a dead lane out of the relay.
LEMMA WatchRemovesInv ==
    ASSUME NEW h \in Handlers, NEW s \in Sessions, TableInv, WatchRemoves(h, s)
    PROVE  TableInv'
<1> USE TableAssumption DEF TableInv, TypeOK, WatchRemoves, tableVars, sessionVars, laneVars, handlerVars
<1>1. TypeOK'
  BY Zenon DEF Pcs, HandshakePcs
<1>2. NoOrphanLane'
  BY Zenon DEF NoOrphanLane, Current
<1>3. /\ KeysAreIds' /\ UserAccounting' /\ SessionLimits' /\ HeldAreCreated' /\ SetupIsExclusive'
      /\ AttachAccounting' /\ SetupIsProtected' /\ AttachIsProtected' /\ ClosedIsDisconnected'
      /\ SlotAccounting'
  BY Frame, Zenon
<1> HIDE DEF TypeOK
<1> QED BY <1>1, <1>2, <1>3, Zenon

\* The relay of a removed session is closed.
LEMMA RelayClosesInv ==
    ASSUME NEW s \in Sessions, TableInv, RelayCloses(s)
    PROVE  TableInv'
<1> USE TableAssumption DEF TableInv, TypeOK, RelayCloses, tableVars, sessionVars, laneVars, handlerVars
<1>1. TypeOK'
  BY Zenon DEF Pcs, HandshakePcs
<1>2. ClosedIsDisconnected'
  BY DEF ClosedIsDisconnected
<1>3. NoOrphanLane'
  BY DEF NoOrphanLane, Current
<1>4. /\ KeysAreIds' /\ UserAccounting' /\ SessionLimits' /\ HeldAreCreated' /\ SetupIsExclusive'
      /\ AttachAccounting' /\ SetupIsProtected' /\ AttachIsProtected' /\ SlotAccounting'
  BY Frame, Zenon
<1> HIDE DEF TypeOK
<1> QED BY <1>1, <1>2, <1>3, <1>4, Zenon

\* Time passes for a session.
LEMMA AgesInv ==
    ASSUME NEW s \in Sessions, TableInv, Ages(s)
    PROVE  TableInv'
<1> USE TableAssumption DEF TableInv, TypeOK, Ages, tableVars, sessionVars, laneVars, handlerVars
<1>1. TypeOK'
  BY Zenon DEF Pcs, HandshakePcs
<1>2. HeldAreCreated'
  BY DEF HeldAreCreated
<1>3. SetupIsProtected'
  BY Zenon DEF SetupIsProtected, Current
<1>4. /\ KeysAreIds' /\ UserAccounting' /\ SessionLimits' /\ SetupIsExclusive' /\ AttachAccounting'
      /\ AttachIsProtected' /\ ClosedIsDisconnected' /\ NoOrphanLane' /\ SlotAccounting'
  BY Frame, Zenon
<1> HIDE DEF TypeOK
<1> QED BY <1>1, <1>2, <1>3, <1>4, Zenon

\* The reaper lists the sessions to delete.
LEMMA ReapScanInv ==
    ASSUME TableInv, ReapScan
    PROVE  TableInv'
<1> USE TableAssumption DEF TableInv, TypeOK, ReapScan, Stale, tableVars, sessionVars, laneVars, handlerVars
<1>1. TypeOK'
  BY Zenon DEF Pcs, HandshakePcs
<1>2. HeldAreCreated'
  BY DEF HeldAreCreated
<1>3. /\ KeysAreIds' /\ UserAccounting' /\ SessionLimits' /\ SetupIsExclusive' /\ AttachAccounting'
      /\ SetupIsProtected' /\ AttachIsProtected' /\ ClosedIsDisconnected' /\ NoOrphanLane'
      /\ SlotAccounting'
  BY Frame, Zenon
<1> HIDE DEF TypeOK
<1> QED BY <1>1, <1>2, <1>3, Zenon

-----------------------------------------------------------------------------
(* Close                                                                   *)

\* Close cancels the context.
LEMMA CloseCancelsInv ==
    ASSUME TableInv, CloseCancels
    PROVE  TableInv'
<1> USE TableAssumption DEF TableInv, TypeOK, CloseCancels, tableVars, sessionVars, laneVars, handlerVars
<1>1. TypeOK'
  BY Zenon DEF Pcs, HandshakePcs
<1>2. SetupIsProtected'
  BY DEF SetupIsProtected, Current
<1>3. AttachIsProtected'
  BY Zenon DEF AttachIsProtected, Current, AttachPcs
<1>4. ClosedIsDisconnected'
  BY DEF ClosedIsDisconnected
<1>5. /\ KeysAreIds' /\ UserAccounting' /\ SessionLimits' /\ HeldAreCreated' /\ SetupIsExclusive'
      /\ AttachAccounting' /\ NoOrphanLane' /\ SlotAccounting'
  BY Frame, Zenon
<1> HIDE DEF TypeOK
<1> QED BY <1>1, <1>2, <1>3, <1>4, <1>5, Zenon

\* Close ends the connections.
LEMMA CloseDisconnectsInv ==
    ASSUME TableInv, CloseDisconnects
    PROVE  TableInv'
<1> USE TableAssumption DEF TableInv, TypeOK, CloseDisconnects, tableVars, sessionVars, laneVars, handlerVars
<1>1. TypeOK'
  BY Zenon DEF Pcs, HandshakePcs
<1>2. SetupIsProtected'
  BY Zenon DEF SetupIsProtected, Current
<1>3. AttachIsProtected'
  BY Zenon DEF AttachIsProtected, Current, AttachPcs
<1>4. ClosedIsDisconnected'
  BY DEF ClosedIsDisconnected
<1>5. NoOrphanLane'
  BY DEF NoOrphanLane, Current
<1>6. /\ KeysAreIds' /\ UserAccounting' /\ SessionLimits' /\ HeldAreCreated' /\ SetupIsExclusive'
      /\ AttachAccounting' /\ SlotAccounting'
  BY Frame, Zenon
<1> HIDE DEF TypeOK
<1> QED BY <1>1, <1>2, <1>3, <1>4, <1>5, <1>6, Zenon

\* Close swaps the table for an empty one.
LEMMA CloseSwapsInv ==
    ASSUME TableInv, CloseSwaps
    PROVE  TableInv'
<1>1. /\ table' = [i \in SessionIds |-> NoSession] /\ userSessions' = [u \in Users |-> 0]
      /\ closing' = closing \cup {table[i] : i \in Live} /\ server = "disconnected" /\ server' = "swapped"
      /\ UNCHANGED <<sessionVars, relayPaths, alive, handlerVars, reaping>>
  BY Zenon DEF CloseSwaps
<1>2. Live' = {} /\ \A u \in Users : UserLive(u)' = {} BY <1>1 DEF Live, UserLive
<1>3. alive = {} /\ alive' = {} BY <1>1 DEF TableInv, ClosedIsDisconnected
<1>4. \A t \in Sessions : ~Current(t)'
  BY <1>1, TableAssumption DEF TableInv, TypeOK, Current, sessionVars
<1>5. TypeOK'
  <2>1. {table[i] : i \in Live} \subseteq Sessions BY DEF TableInv, TypeOK, Live
  <2> QED BY <1>1, <2>1, Zenon DEF TableInv, TypeOK, sessionVars, handlerVars
<1>6. KeysAreIds' BY <1>2, Zenon DEF KeysAreIds
<1>7. UserAccounting'
  <2>1. \A u \in Users : Cardinality(UserLive(u)') = 0 BY <1>2, FS_EmptySet
  <2> QED BY <1>1, <2>1, Zenon DEF UserAccounting
<1>8. SessionLimits'
  <2>1. Cardinality(Live') = 0 BY <1>2, FS_EmptySet
  <2>2. \A u \in Users : userSessions'[u] <= MaxUserSessions[u]
    <3>1. \A u \in Users : 0 <= MaxUserSessions[u] BY TableAssumption
    <3> QED BY <1>1, <3>1
  <2>3. 0 <= MaxSessions BY TableAssumption
  <2> QED BY <2>1, <2>2, <2>3 DEF SessionLimits
<1>9. AttachAccounting' BY <1>4 DEF AttachAccounting
<1>10. SetupIsProtected' /\ AttachIsProtected' /\ ClosedIsDisconnected' /\ NoOrphanLane'
  BY <1>1, <1>3, Zenon DEF TableInv, SetupIsProtected, AttachIsProtected, ClosedIsDisconnected, NoOrphanLane, sessionVars
<1>11. HeldAreCreated' /\ SetupIsExclusive' /\ SlotAccounting'
  BY <1>1, Frame DEF TableInv, sessionVars, handlerVars
<1> QED BY <1>5, <1>6, <1>7, <1>8, <1>9, <1>10, <1>11 DEF TableInv

-----------------------------------------------------------------------------
(* The theorems                                                            *)

\* The server starts with an empty table.
LEMMA InitEstablishesInv == Init => TableInv
<1> SUFFICES ASSUME Init PROVE TableInv OBVIOUS
<1> USE TableAssumption DEF Init
<1>1. TypeOK BY DEF TypeOK, Pcs
<1>2. Live = {} /\ \A u \in Users : UserLive(u) = {} BY DEF Live, UserLive
<1>3. KeysAreIds BY <1>2 DEF KeysAreIds
<1>4. UserAccounting BY <1>2, FS_EmptySet DEF UserAccounting
<1>5. SessionLimits
  <2>1. \A u \in Users : 0 <= MaxUserSessions[u] OBVIOUS
  <2> QED BY <1>2, <2>1, FS_EmptySet DEF SessionLimits
<1>6. HeldAreCreated BY DEF HeldAreCreated
<1>7. SetupIsExclusive BY DEF SetupIsExclusive, AttachPcs
<1>8. AttachAccounting BY DEF AttachAccounting, Current
<1>9. SetupIsProtected BY DEF SetupIsProtected
<1>10. AttachIsProtected BY DEF AttachIsProtected, AttachPcs
<1>11. ClosedIsDisconnected BY DEF ClosedIsDisconnected
<1>12. NoOrphanLane BY DEF NoOrphanLane
<1>13. SlotAccounting
  <2>1. {h \in Handlers : pc[h] \in HandshakePcs} = {} BY DEF HandshakePcs
  <2>2. Cardinality({h \in Handlers : pc[h] \in HandshakePcs}) = 0 BY <2>1, FS_EmptySet, Zenon
  <2>3. 0 <= MaxPending OBVIOUS
  <2> QED BY <2>2, <2>3 DEF SlotAccounting
<1> QED BY <1>1, <1>3, <1>4, <1>5, <1>6, <1>7, <1>8, <1>9, <1>10, <1>11, <1>12, <1>13 DEF TableInv

\* Steps of the rest of the system.
LEMMA StutteringInv == TableInv /\ UNCHANGED vars => TableInv'
<1> SUFFICES ASSUME TableInv, UNCHANGED vars PROVE TableInv' OBVIOUS
<1>1. TypeOK' BY DEF TableInv, vars, TypeOK
<1> QED BY <1>1, Frame DEF TableInv, vars

\* getOrCreateSession, first critical section.
LEMMA LookupInv ==
    ASSUME NEW h \in Handlers, NEW r \in Requests, TableInv, Lookup(h, r)
    PROVE  TableInv'
BY FindSessionInv, LeavingInv, CreateSessionInv, LimitReachedInv DEF Lookup

\* The steps of handleQUICConn after authentication, and of the creator of a session.
LEMMA HandlerStepInv ==
    ASSUME NEW h \in Handlers, TableInv, HandlerStep(h)
    PROVE  TableInv'
BY LeavingInv, SetupSucceedsInv, SetupFailsInv, JoinSessionInv, AckInv, UndoAttachInv,
   AttachServerConnInv, FinishHandshakeInv, StopServingInv, DeleteIfUnattachedInv DEF HandlerStep

\* Every step of every goroutine keeps the invariant.
LEMMA NextPreservesInv == TableInv /\ [Next]_vars => TableInv'
<1> SUFFICES ASSUME TableInv, [Next]_vars PROVE TableInv' OBVIOUS
<1>1. ASSUME NEW h \in Handlers, Accept(h) \/ AwaitStream(h) \/ Authenticate(h) \/ HandlerStep(h) \/ ConnDies(h)
      PROVE  TableInv'
  BY <1>1, AcceptInv, AcceptStreamInv, LeavingInv, LookupInv, HandlerStepInv, ConnDiesInv DEF AwaitStream, Authenticate
<1>2. ASSUME NEW s \in Sessions, SessionStep(s) PROVE TableInv'
  BY <1>2, RelayClosesInv, AgesInv, DeleteIdleSessionInv, WatchRemovesInv DEF SessionStep
<1>3. CASE ReapScan BY <1>3, ReapScanInv
<1>4. CASE CloseCancels BY <1>4, CloseCancelsInv
<1>5. CASE CloseDisconnects BY <1>5, CloseDisconnectsInv
<1>6. CASE CloseSwaps BY <1>6, CloseSwapsInv
<1>7. CASE UNCHANGED vars BY <1>7, StutteringInv
<1> QED BY <1>1, <1>2, <1>3, <1>4, <1>5, <1>6, <1>7 DEF Next

\* THE INVARIANT.  The table of server.go keeps TableInv for any number of connections, ids, users, sessions and
\* any limits, through every interleaving of handlers, reaper, watchers and Close.
THEOREM TableInvariance == Spec => []TableInv
BY InitEstablishesInv, NextPreservesInv, PTL DEF Spec

\* userSessions is the number of sessions each user has in the table.
THEOREM UserAccountingHolds == Spec => []UserAccounting
<1>1. TableInv => UserAccounting BY DEF TableInv
<1> QED BY <1>1, TableInvariance, PTL

\* MaxSessions and the limit of each user are never exceeded.
THEOREM SessionLimitsHold == Spec => []SessionLimits
<1>1. TableInv => SessionLimits BY DEF TableInv
<1> QED BY <1>1, TableInvariance, PTL

\* pendingAttaches counts the handshakes on their way to a session of the table.
THEOREM AttachAccountingHolds == Spec => []AttachAccounting
<1>1. TableInv => AttachAccounting BY DEF TableInv
<1> QED BY <1>1, TableInvariance, PTL

\* With prompt setups, a worker that was accepted attaches to a session that is still in the table.
THEOREM AttachIsProtectedHolds == Spec => []AttachIsProtected
<1>1. TableInv => AttachIsProtected BY DEF TableInv
<1> QED BY <1>1, TableInvariance, PTL

\* With prompt setups, an open lane belongs to a session of the table or to one that is being closed.
THEOREM NoOrphanLaneHolds == Spec => []NoOrphanLane
<1>1. TableInv => NoOrphanLane BY DEF TableInv
<1> QED BY <1>1, TableInvariance, PTL

\* The slots taken in s.pending are those of the handshakes in progress.
THEOREM SlotAccountingHolds == Spec => []SlotAccounting
<1>1. TableInv => SlotAccounting BY DEF TableInv
<1> QED BY <1>1, TableInvariance, PTL

\* A step that takes a handler from authentication to the linger of a refusal leaves the table alone.
LEMMA RefusalKeepsTable ==
    ASSUME TableInv, [Next]_vars, NEW h \in Handlers, pc[h] = "auth", pc'[h] = "linger"
    PROVE  table' = table
<1> USE DEF TableInv, TypeOK
<1>1. ASSUME NEW g \in Handlers, Accept(g) \/ AuthFails(g) \/ AcceptStream(g) \/ AuthRefused(g) \/ ConnDies(g)
      PROVE  table' = table
  BY <1>1, Zenon DEF Accept, AuthFails, AcceptStream, AuthRefused, ConnDies, tableVars
<1>2. ASSUME NEW g \in Handlers, NEW r \in Requests, Lookup(g, r) PROVE table' = table
  <2>1. CASE FindSession(g, r) \/ IdentityMismatch(g, r)
    BY <2>1, Zenon DEF FindSession, IdentityMismatch, tableVars
  <2>2. ASSUME NEW E \in SUBSET SessionIds, NEW s \in Sessions, CreateSession(g, r, E, s) PROVE FALSE
    BY <2>2, Zenon DEF CreateSession
  <2>3. ASSUME NEW E \in SUBSET SessionIds, LimitReached(g, r, E) PROVE table' = table
    BY <2>3, NothingIsEvictedInVain, Zenon
  <2> QED BY <1>2, <2>1, <2>2, <2>3, Zenon DEF Lookup
<1>3. ASSUME NEW g \in Handlers, HandlerStep(g) PROVE table' = table
  <2>1. CASE \/ LingerEnds(g) \/ SetupSucceeds(g) \/ JoinSession(g) \/ WaitCancelled(g) \/ AckWritten(g)
             \/ AckFails(g) \/ UndoAttach(g) \/ AttachServerConn(g) \/ FinishHandshake(g) \/ StopServing(g)
    BY <2>1, Zenon DEF LingerEnds, SetupSucceeds, JoinSession, WaitCancelled, AckWritten, AckFails, UndoAttach,
                AttachServerConn, FinishHandshake, StopServing, tableVars
  <2>2. CASE SetupFails(g) BY <2>2 DEF SetupFails, Refuse, Return
  <2>3. CASE DeleteIfUnattached(g) BY <2>3 DEF DeleteIfUnattached, Return
  <2> QED BY <1>3, <2>1, <2>2, <2>3, Zenon DEF HandlerStep
<1>4. ASSUME NEW s \in Sessions, SessionStep(s) PROVE FALSE
  BY <1>4, Zenon DEF SessionStep, RelayCloses, Ages, DeleteIdleSession, WatchRemoves, handlerVars
<1>5. CASE ReapScan \/ CloseCancels \/ CloseDisconnects \/ CloseSwaps \/ UNCHANGED vars
  BY <1>5, Zenon DEF ReapScan, CloseCancels, CloseDisconnects, CloseSwaps, handlerVars, vars
<1> QED BY <1>1, <1>2, <1>3, <1>4, <1>5, Zenon DEF Next, AwaitStream, Authenticate

\* A request that getOrCreateSession refuses for a limit or another identity has cost nobody a session.
THEOREM NoEvictionInVainHolds == Spec => NoEvictionInVain
<1>1. TableInv /\ [Next]_vars =>
          [\A h \in Handlers : pc[h] = "auth" /\ pc'[h] = "linger" => table' = table]_vars
  BY RefusalKeepsTable
<1> QED BY <1>1, TableInvariance, PTL DEF Spec, NoEvictionInVain

=============================================================================
