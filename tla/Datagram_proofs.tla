-------------------------- MODULE Datagram_proofs ---------------------------
(***************************************************************************)
(* Proofs about UDP through the tunnel: the datagrams of an association    *)
(* find it, at both ends and for any lanes, ids and associations           *)
(* (DatagramRouter); and what an association reads is what was written,    *)
(* for any lengths, budgets and bounds, whatever is lost, doubled or       *)
(* overtaken on the way, until its sender numbers its packets anew         *)
(* (DatagramAssociation).                                                  *)
(***************************************************************************)
EXTENDS DatagramRouter, Datagram_lemmas
-----------------------------------------------------------------------------
(* The router                                                              *)

\* An id belongs to one connection, and so does whatever has it.
IdsHaveOneConn ==
    /\ \A a \in Assocs : phase[a] # "unused" => via[origin[a].id] = origin[a].conn
    /\ \A c \in Conns : frame[c] # None => via[frame[c]] = c

\* The map has an association under its own id.
KeysAreIds ==
    \A i \in Ids : associations[i] # None =>
        phase[associations[i]] # "unused" /\ origin[associations[i]].id = i

(***************************************************************************)
(* OpenIsRouted is not inductive: removeAssociation deletes by id, and     *)
(* hits no other association only because the one that is being closed is  *)
(* itself still in the map.                                                *)
(***************************************************************************)
LiveIsRouted ==
    \A a \in Assocs :
        phase[a] \in {"open", "removing"} /\ watcher[origin[a].conn] = "watching" /\ ~closed
            => associations[origin[a].id] = a

MarkedIsClosed == relay \in {"marked", "drained"} <=> closed

RouterInv ==
    /\ TypeOK
    /\ IdsHaveOneConn
    /\ KeysAreIds
    /\ LiveIsRouted
    /\ ClosedIsUnrouted
    /\ MarkedIsClosed
    /\ ClosedStaysEmpty

\* A new association takes an id nobody uses.
LEMMA NewAssociationInv ==
    ASSUME RouterInv, NEW a \in Assocs, NEW id \in Ids, NewAssociation(a, id)
    PROVE  RouterInv'
<1> USE RouterAssumption DEF NewAssociation, Create, RouterInv, routerVars, loopVars, watchVars
<1>1. TypeOK'
  <2>1. [id |-> id, conn |-> picked] \in [id : Ids, conn : Conns]
    BY DEF TypeOK
  <2>2. origin' \in [Assocs -> [id : Ids, conn : Conns] \cup {None}]
    BY <2>1 DEF TypeOK
  <2>3. \A b \in Assocs : phase'[b] = "unused" <=> origin'[b] = None
    BY <2>1 DEF TypeOK
  <2>4. associations' \in [Ids -> Assocs \cup {None}] /\ via' \in [Ids -> Conns \cup {None}]
    BY DEF TypeOK
  <2> QED BY <2>2, <2>3, <2>4 DEF TypeOK
<1>2. IdsHaveOneConn'
  BY DEF TypeOK, IdsHaveOneConn
<1>3. \A b \in Assocs : phase[b] # "unused" => origin[b].id # id
  BY DEF TypeOK, IdsHaveOneConn
<1>4. KeysAreIds'
  BY <1>3 DEF TypeOK, KeysAreIds
<1>5. LiveIsRouted'
  BY <1>3 DEF TypeOK, LiveIsRouted
<1>6. ClosedIsUnrouted' /\ MarkedIsClosed' /\ ClosedStaysEmpty'
  BY DEF TypeOK, ClosedIsUnrouted, MarkedIsClosed, ClosedStaysEmpty
<1> QED BY <1>1, <1>2, <1>4, <1>5, <1>6

\* acceptAssociation fills a place that is empty.
LEMMA AcceptAssociationInv ==
    ASSUME RouterInv, NEW c \in Conns, NEW a \in Assocs, AcceptAssociation(c, a)
    PROVE  RouterInv'
<1> USE RouterAssumption DEF AcceptAssociation, RouterInv, connVars, routerVars, watchVars
<1>1. CASE closed \/ associations[frame[c]] # None
  <2>1. TypeOK' /\ IdsHaveOneConn'
    BY <1>1 DEF TypeOK, IdsHaveOneConn, assocVars
  <2>2. KeysAreIds' /\ LiveIsRouted' /\ ClosedIsUnrouted' /\ MarkedIsClosed' /\ ClosedStaysEmpty'
    BY <1>1 DEF KeysAreIds, LiveIsRouted, ClosedIsUnrouted, MarkedIsClosed, ClosedStaysEmpty, assocVars
  <2> QED BY <2>1, <2>2
<1>2. CASE ~(closed \/ associations[frame[c]] # None)
  <2>1. PICK id \in Ids : id = frame[c] /\ via[id] = c /\ associations[id] = None
    BY <1>2 DEF TypeOK, IdsHaveOneConn
  <2>2. /\ ~closed
        /\ phase[a] = "unused"
        /\ origin' = [origin EXCEPT ![a] = [id |-> id, conn |-> c]]
        /\ phase' = [phase EXCEPT ![a] = "open"]
        /\ associations' = [associations EXCEPT ![id] = a]
    BY <1>2, <2>1 DEF Create
  <2>3. TypeOK'
    <3>1. [id |-> id, conn |-> c] \in [id : Ids, conn : Conns]
      OBVIOUS
    <3>2. origin' \in [Assocs -> [id : Ids, conn : Conns] \cup {None}]
      BY <2>2, <3>1 DEF TypeOK
    <3>3. \A b \in Assocs : phase'[b] = "unused" <=> origin'[b] = None
      BY <2>2, <3>1 DEF TypeOK
    <3>4. associations' \in [Ids -> Assocs \cup {None}]
      BY <2>2 DEF TypeOK
    <3> QED BY <2>2, <3>2, <3>3, <3>4 DEF TypeOK
  <2>4. IdsHaveOneConn'
    BY <2>1, <2>2 DEF TypeOK, IdsHaveOneConn
  <2>5. KeysAreIds'
    BY <2>1, <2>2 DEF TypeOK, KeysAreIds
  <2>6. LiveIsRouted'
    <3> SUFFICES ASSUME NEW b \in Assocs, b # a, phase[b] \in {"open", "removing"},
                        watcher[origin[b].conn] = "watching"
                 PROVE  associations'[origin[b].id] = b
      BY <2>2 DEF LiveIsRouted, TypeOK
    <3>1. associations[origin[b].id] = b /\ origin[b].id # id
      BY <2>1, <2>2 DEF LiveIsRouted, TypeOK
    <3> QED BY <2>2, <3>1 DEF TypeOK
  <2>7. ClosedIsUnrouted' /\ MarkedIsClosed' /\ ClosedStaysEmpty'
    BY <2>2 DEF TypeOK, ClosedIsUnrouted, MarkedIsClosed, ClosedStaysEmpty
  <2> QED BY <2>3, <2>4, <2>5, <2>6, <2>7
<1> QED BY <1>1, <1>2

\* removeAssociation finds the association it is called for, or one of a
\* lane that is being swept.
LEMMA RemoveAssociationInv ==
    ASSUME RouterInv, NEW a \in Assocs, RemoveAssociation(a)
    PROVE  RouterInv'
<1> USE RouterAssumption DEF RemoveAssociation, RouterInv, connVars, routerVars, loopVars, watchVars
<1>1. TypeOK' /\ IdsHaveOneConn' /\ KeysAreIds'
  BY DEF TypeOK, IdsHaveOneConn, KeysAreIds
<1>2. LiveIsRouted'
  <2> SUFFICES ASSUME NEW b \in Assocs, b # a, phase[b] \in {"open", "removing"},
                      watcher[origin[b].conn] = "watching", ~closed
               PROVE  associations'[origin[b].id] = b
    BY DEF LiveIsRouted, TypeOK
  <2>1. associations[origin[b].id] = b
    BY DEF LiveIsRouted
  <2>2. origin[a].id # origin[b].id
    BY <2>1 DEF LiveIsRouted, IdsHaveOneConn, TypeOK
  <2> QED BY <2>1, <2>2 DEF TypeOK
<1>3. ClosedIsUnrouted'
  BY DEF TypeOK, KeysAreIds, ClosedIsUnrouted
<1>4. MarkedIsClosed' /\ ClosedStaysEmpty'
  BY DEF TypeOK, MarkedIsClosed, ClosedStaysEmpty
<1> QED BY <1>1, <1>2, <1>3, <1>4

\* closeConn only takes out what belongs to the lane it sweeps.
LEMMA CloseConnInv ==
    ASSUME RouterInv, NEW c \in Conns, CloseConn(c)
    PROVE  RouterInv'
<1> USE RouterAssumption DEF CloseConn, RouterInv, assocVars, connVars, routerVars, loopVars
<1>1. Of(c) \subseteq Assocs /\ None \notin Of(c)
  BY DEF Of
<1>2. TypeOK' /\ IdsHaveOneConn'
  BY <1>1 DEF TypeOK, IdsHaveOneConn
<1>3. KeysAreIds'
  BY DEF TypeOK, KeysAreIds
<1>4. LiveIsRouted'
  BY DEF TypeOK, LiveIsRouted, Of
<1>5. ClosedIsUnrouted' /\ MarkedIsClosed' /\ ClosedStaysEmpty'
  BY DEF TypeOK, ClosedIsUnrouted, MarkedIsClosed, ClosedStaysEmpty
<1> QED BY <1>2, <1>3, <1>4, <1>5

\* The steps that leave the map alone.
LEMMA OtherStepInv ==
    ASSUME RouterInv,
           \/ \E c \in Conns :
                 \/ PickPath(c) \/ LoopEnds(c) \/ ConnDies(c) \/ SweepEnds(c)
                 \/ \E id \in Ids : PeerOpens(id, c) \/ RouteUnknown(c, id)
           \/ \E a \in Assocs : BeginClose(a)
           \/ RelayCloses \/ RouterMarks
    PROVE  RouterInv'
<1> USE RouterAssumption DEF RouterInv, TypeOK, IdsHaveOneConn, KeysAreIds, LiveIsRouted, ClosedIsUnrouted,
        MarkedIsClosed, ClosedStaysEmpty, assocVars, connVars, routerVars, loopVars, watchVars
<1>1. ASSUME NEW c \in Conns, PickPath(c) PROVE RouterInv'
  BY <1>1 DEF PickPath
<1>2. ASSUME NEW c \in Conns, LoopEnds(c) PROVE RouterInv'
  BY <1>2 DEF LoopEnds
<1>3. ASSUME NEW c \in Conns, ConnDies(c) PROVE RouterInv'
  BY <1>3 DEF ConnDies
<1>4. ASSUME NEW c \in Conns, SweepEnds(c) PROVE RouterInv'
  BY <1>4 DEF SweepEnds
<1>5. ASSUME NEW c \in Conns, NEW id \in Ids, PeerOpens(id, c) PROVE RouterInv'
  <2>1. TypeOK'
    BY <1>5 DEF PeerOpens
  <2>2. IdsHaveOneConn'
    BY <1>5 DEF PeerOpens
  <2>3. KeysAreIds' /\ LiveIsRouted' /\ ClosedIsUnrouted' /\ MarkedIsClosed' /\ ClosedStaysEmpty'
    BY <1>5 DEF PeerOpens
  <2> QED BY <2>1, <2>2, <2>3
<1>6. ASSUME NEW c \in Conns, NEW id \in Ids, RouteUnknown(c, id) PROVE RouterInv'
  <2>1. TypeOK'
    BY <1>6 DEF RouteUnknown
  <2>2. IdsHaveOneConn'
    BY <1>6 DEF RouteUnknown
  <2>3. KeysAreIds' /\ LiveIsRouted' /\ ClosedIsUnrouted' /\ MarkedIsClosed' /\ ClosedStaysEmpty'
    BY <1>6 DEF RouteUnknown
  <2> QED BY <2>1, <2>2, <2>3
<1>7. ASSUME NEW a \in Assocs, BeginClose(a) PROVE RouterInv'
  <2>1. TypeOK'
    BY <1>7 DEF BeginClose
  <2>2. IdsHaveOneConn'
    BY <1>7 DEF BeginClose
  <2>3. \A b \in Assocs : phase'[b] = "unused" <=> phase[b] = "unused"
    BY <1>7 DEF BeginClose
  <2>4. KeysAreIds'
    BY <1>7, <2>3 DEF BeginClose
  <2>5. LiveIsRouted' /\ ClosedIsUnrouted' /\ MarkedIsClosed' /\ ClosedStaysEmpty'
    BY <1>7 DEF BeginClose
  <2> QED BY <2>1, <2>2, <2>4, <2>5
<1>8. CASE RelayCloses
  BY <1>8 DEF RelayCloses
<1>9. CASE RouterMarks
  BY <1>9 DEF RouterMarks
<1> QED BY <1>1, <1>2, <1>3, <1>4, <1>5, <1>6, <1>7, <1>8, <1>9, Zenon

(***************************************************************************)
(* The inductive invariant of the router, at either end of the tunnel.     *)
(***************************************************************************)
THEOREM RouterInvariance == Spec => []RouterInv
<1>1. Init => RouterInv
  <2> SUFFICES ASSUME Init PROVE RouterInv
    OBVIOUS
  <2>1. TypeOK
    BY RouterAssumption, Zenon DEF Init, TypeOK
  <2>2. IdsHaveOneConn /\ KeysAreIds /\ LiveIsRouted
    BY RouterAssumption DEF Init, IdsHaveOneConn, KeysAreIds, LiveIsRouted
  <2>3. ClosedIsUnrouted /\ ClosedStaysEmpty
    BY DEF Init, ClosedIsUnrouted, ClosedStaysEmpty
  <2>4. MarkedIsClosed
    BY DEF Init, MarkedIsClosed
  <2> QED BY <2>1, <2>2, <2>3, <2>4 DEF RouterInv
<1>2. RouterInv /\ [Next]_vars => RouterInv'
  <2> SUFFICES ASSUME RouterInv, [Next]_vars PROVE RouterInv'
    OBVIOUS
  <2>1. ASSUME NEW c \in Conns, ConnStep(c) PROVE RouterInv'
    BY <2>1, AcceptAssociationInv, CloseConnInv, OtherStepInv DEF ConnStep
  <2>2. ASSUME NEW a \in Assocs, AssocStep(a) PROVE RouterInv'
    BY <2>2, NewAssociationInv, RemoveAssociationInv, OtherStepInv DEF AssocStep
  <2>3. CASE RelayCloses \/ RouterMarks
    BY <2>3, OtherStepInv
  <2>4. CASE RouterDrains
    BY <2>4, RouterAssumption DEF RouterDrains, RouterInv, TypeOK, IdsHaveOneConn, KeysAreIds, LiveIsRouted,
       ClosedIsUnrouted, MarkedIsClosed, ClosedStaysEmpty, assocVars, connVars, routerVars, loopVars, watchVars
  <2>5. CASE UNCHANGED vars
    BY <2>5 DEF vars, RouterInv, TypeOK, IdsHaveOneConn, KeysAreIds, LiveIsRouted,
       ClosedIsUnrouted, MarkedIsClosed, ClosedStaysEmpty, Of
  <2> QED BY <2>1, <2>2, <2>3, <2>4, <2>5 DEF Next
<1> QED BY <1>1, <1>2, PTL DEF Spec

\* The datagrams of an open association find it, unless its lane was swept or the
\* router closed, and none finds one whose Close has returned.
THEOREM RoutedIffInUseHolds == Spec => []RoutedIffInUse
<1>1. RouterInv => RoutedIffInUse
  BY DEF RouterInv, LiveIsRouted, RoutedIffInUse, OpenIsRouted
<1> QED BY <1>1, RouterInvariance, PTL

\* After close of the router no association is registered any more.
THEOREM ClosedStaysEmptyHolds == Spec => []ClosedStaysEmpty
<1>1. RouterInv => ClosedStaysEmpty
  BY DEF RouterInv
<1> QED BY <1>1, RouterInvariance, PTL

-----------------------------------------------------------------------------
(* The association                                                         *)

\* What datagram n was when it was written, and the frame of its i-th fragment.
Whole(n) == Datagram(n, written[n])

Part(n, i) == FrameOf(n, written[n], i - 1)

Sent == {Whole(n) : n \in 1..Len(written)}

IsOwnFrame(f) ==
    \E n \in 1..Len(written) : \E i \in 1..Total(written[n]) : f = Part(n, i)

IsOwn(d) ==
    d.packetID \in 1..Len(written) /\ d.remaining > 0 /\ IsOwnEntry(d, d.packetID, written[d.packetID])

\* Some entry of the store has the i-th fragment of datagram n.
Has(s, n, i) == \E q \in 1..Len(s) : s[q].packetID = n /\ s[q].fragments[i] # Nil

\* Packet numbers count the datagrams written.
Numbered ==
    /\ written \in Seq(Nat) /\ nextPacket = Len(written)
    /\ \A n \in 1..Len(written) : written[n] <= MaxPayload

\* Whatever the receiver has in hand was sent.
HandIsOwn ==
    /\ \A f \in network : IsOwnFrame(f)
    /\ taken = <<>> \/ (payload = <<>> /\ \E f : taken = <<f>> /\ IsOwnFrame(f) /\ f.total > 1)
    /\ payload = <<>> \/ \E p \in Sent : payload = <<p>>
    /\ recvQueue \in Seq(Sent) /\ received \subseteq Sent

\* So was what its store holds, and the store keeps its bound.
StoreIsOwn ==
    /\ pending \in Seq(Entries) /\ Len(pending) <= MaxPending /\ OneEach(pending)
    /\ \A i \in 1..Len(pending) : IsOwn(pending[i])

(***************************************************************************)
(* While the receiver loses nothing, each datagram is at hand, or every    *)
(* fragment of it is yet to come or in the store. NoDatagramVanishes says  *)
(* less: that one is yet to come, which the last fragment to arrive does   *)
(* not preserve by itself.                                                 *)
(***************************************************************************)
Accounted ==
    calm => /\ closing = "open"
            /\ \A n \in 1..Len(written) : Total(written[n]) <= MaxFragments =>
                  \/ Whole(n) \in InHand
                  \/ \A i \in 1..Total(written[n]) : Part(n, i) \in network \cup Range(taken) \/ Has(pending, n, i)

OwnInv == Numbered /\ HandIsOwn /\ StoreIsOwn /\ Accounted

\* The frames Write sends.
LEMMA FramesAre ==
    ASSUME NEW n \in Nat, NEW len \in Nat
    PROVE  Frames(n, Datagram(n, len)) = {FrameOf(n, len, i - 1) : i \in 1..Total(len)}
<1> DEFINE t == Total(len)
<1>1. Len(Datagram(n, len)) = len /\ t \in Nat
  BY DatagramIs, TotalBounds
<1>2. Frames(n, Datagram(n, len)) = {FrameOf(n, len, k) : k \in 0..t - 1}
  BY <1>1 DEF Frames, FrameOf
<1> HIDE DEF t
<1>3. \A k \in 0..t - 1 : k + 1 \in 1..t /\ (k + 1) - 1 = k
  BY <1>1
<1>4. \A i \in 1..t : i - 1 \in 0..t - 1
  BY <1>1
<1>5. {FrameOf(n, len, k) : k \in 0..t - 1} = {FrameOf(n, len, i - 1) : i \in 1..t}
  BY <1>3, <1>4
<1> QED BY <1>2, <1>5 DEF t

(***************************************************************************)
(* The rest of deliverFragment, for the j-th fragment of datagram n: the   *)
(* store stays sound; the fragment is in it, or the datagram is complete;  *)
(* and if nothing expired or was crowded out, every other fragment that    *)
(* was in the store still is.                                              *)
(***************************************************************************)
LEMMA ReassembleStore ==
    ASSUME Numbered, StoreIsOwn, NEW n \in 1..Len(written), NEW j \in 1..Total(written[n]),
           Total(written[n]) > 1, taken = <<Part(n, j)>>, NEW k, Reassemble(k)
    PROVE  /\ StoreIsOwn'
           /\ payload' = payload \/ payload' = <<Whole(n)>>
           /\ Has(pending', n, j) \/ payload' = <<Whole(n)>>
           /\ calm' => \A m \in 1..Len(written) : \A i \in 1..Total(written[m]) :
                         Has(pending, m, i) => Has(pending', m, i) \/ (m = n /\ payload' = <<Whole(n)>>)
<1> DEFINE f == Part(n, j)
           len == written[n]
           store == PendingFor(f, k)
           at == Position(store, n)
           d == store[at]
           e == Filled(d, f)
<1>1. n \in Nat /\ len \in Nat /\ len <= MaxPayload /\ MaxPayload \in Nat
  BY AssociationAssumption DEF Numbered
<1>2. j - 1 \in 0..Total(len) - 1 /\ (j - 1) + 1 = j /\ j \in 1..Total(len) /\ Total(len) \in Nat
  <2>1. Total(len) \in Nat \ {0}
    BY <1>1, TotalBounds, Zenon
  <2>2. j \in 1..Total(len)
    OBVIOUS
  <2> HIDE DEF len
  <2> QED BY <2>1, <2>2
<1>3. f = FrameOf(n, len, j - 1) /\ f.packetID = n /\ f.total = Total(len) /\ f.index = j - 1
  BY DEF Part, FrameOf
<1>4. len > Budget
  <2>1. len <= Budget => Total(len) = 1
    BY <1>1, TotalBounds, Zenon
  <2>2. Total(len) > 1
    OBVIOUS
  <2> HIDE DEF len
  <2> QED BY <1>1, <2>1, <2>2, AssociationAssumption
<1>5. NewPending(n, Total(len)) \in Entries /\ IsOwnEntry(NewPending(n, Total(len)), n, len) /\ NewPending(n, Total(len)).remaining > 0
  BY <1>1, <1>4, NewIsOwn
<1>6. taken[1] = f
  OBVIOUS
<1>7. /\ k \in 0..Len(pending)
      /\ calm' = (calm /\ k = 0 /\ (Position(pending, n) # 0 \/ Len(pending) < MaxPending))
      /\ IF d.total # f.total \/ d.fragments[j] # Nil
           THEN pending' = store /\ UNCHANGED payload
         ELSE IF e.size > MaxPayload
           THEN pending' = DropPending(store, at) /\ UNCHANGED payload
         ELSE IF IsComplete(e)
           THEN pending' = DropPending(store, at) /\ payload' = <<Payload(e.fragments)>>
         ELSE pending' = [store EXCEPT ![at] = e] /\ UNCHANGED payload
      /\ UNCHANGED written
  <2> HIDE DEF f
  <2> QED BY <1>2, <1>3, <1>6, Zenon DEF Reassemble
<1> HIDE DEF f, store
<1>8. /\ store \in Seq(Entries) /\ Len(store) <= MaxPending /\ OneEach(store)
      /\ \A i \in 1..Len(store) : IsIn(store[i], pending) \/ store[i] = NewPending(n, Total(len))
      /\ at \in 1..Len(store) /\ d.packetID = n
      /\ k = 0 /\ (Position(pending, n) # 0 \/ Len(pending) < MaxPending)
            => \A i \in 1..Len(pending) : IsIn(pending[i], store)
  <2>1. NewPending(f.packetID, f.total) \in Entries
    BY <1>3, <1>5
  <2>2. pending \in Seq(Entries) /\ OneEach(pending) /\ Len(pending) <= MaxPending /\ k \in 0..Len(pending)
    BY <1>7 DEF StoreIsOwn
  <2> HIDE DEF at, d
  <2>3. /\ store \in Seq(Entries) /\ Len(store) <= MaxPending /\ OneEach(store)
        /\ \A i \in 1..Len(store) : IsIn(store[i], pending) \/ store[i] = NewPending(f.packetID, f.total)
        /\ Position(store, f.packetID) \in 1..Len(store)
        /\ store[Position(store, f.packetID)].packetID = f.packetID
        /\ k = 0 /\ (Position(pending, f.packetID) # 0 \/ Len(pending) < MaxPending)
              => \A i \in 1..Len(pending) : IsIn(pending[i], store)
    BY <2>1, <2>2, PendingForIs DEF store
  <2> QED BY <1>3, <2>3 DEF at, d
<1>9. \A i \in 1..Len(store) : IsOwn(store[i])
  <2>1. IsOwn(NewPending(n, Total(len)))
    <3>1. NewPending(n, Total(len)).packetID = n
      BY DEF NewPending
    <3> QED BY <1>5, <3>1 DEF IsOwn
  <2> QED BY <1>8, <2>1 DEF StoreIsOwn, IsIn
<1> HIDE DEF at, d, e
<1>10. d \in Entries /\ IsOwnEntry(d, n, len) /\ d.total = Total(len)
  <2>1. d \in Entries /\ IsOwn(d)
    BY <1>8, <1>9 DEF d
  <2> QED BY <1>8, <2>1 DEF IsOwn, IsOwnEntry
<1>11. ASSUME NEW m, NEW i, calm', Has(pending, m, i) PROVE Has(store, m, i)
  <2>1. PICK q \in 1..Len(pending) : pending[q].packetID = m /\ pending[q].fragments[i] # Nil
    BY <1>11 DEF Has
  <2>2. IsIn(pending[q], store)
    <3>1. k = 0 /\ (Position(pending, n) # 0 \/ Len(pending) < MaxPending)
      BY <1>7, <1>11, Zenon
    <3> QED BY <1>8, <3>1
  <2> QED BY <2>1, <2>2 DEF Has, IsIn
<1>12. ASSUME NEW x, IsOwn(x) PROVE IsOwn(x)'
  BY <1>7, <1>12 DEF IsOwn
<1>13. CASE d.fragments[j] # Nil
  <2>1. pending' = store /\ payload' = payload
    BY <1>7, <1>13
  <2>2. StoreIsOwn'
    BY <1>8, <1>9, <1>12, <2>1 DEF StoreIsOwn
  <2>3. Has(pending', n, j)
    BY <1>8, <1>13, <2>1 DEF Has, d
  <2> QED BY <1>11, <2>1, <2>2, <2>3
<1>14. CASE d.fragments[j] = Nil
  <2>1. /\ e \in Entries /\ IsOwnEntry(e, n, len) /\ e.size <= len
        /\ \A i \in 1..Total(len) : e.fragments[i] = IF i = j THEN Fragment(Datagram(n, len), j - 1) ELSE d.fragments[i]
        /\ Fragment(Datagram(n, len), j - 1) # Nil
    BY <1>1, <1>2, <1>3, <1>10, <1>14, FilledIs DEF e
  <2>2. ~(e.size > MaxPayload)
    BY <1>1, <2>1 DEF Entries
  <2>3. CASE IsComplete(e)
    <3>1. pending' = DropPending(store, at) /\ payload' = <<Payload(e.fragments)>>
      BY <1>3, <1>7, <1>10, <1>14, <2>2, <2>3
    <3>2. Payload(e.fragments) = Whole(n)
      BY <1>1, <2>1, <2>3, CompleteIs DEF IsComplete, Whole
    <3>3. /\ pending' \in Seq(Entries) /\ Len(pending') = Len(store) - 1 /\ OneEach(pending')
          /\ \A i \in 1..Len(pending') : \E q \in 1..Len(store) : q # at /\ pending'[i] = store[q]
          /\ \A q \in 1..Len(store) : q # at => IsIn(store[q], pending')
      BY <1>8, <3>1, DropPendingIs
    <3>4. Len(pending') <= MaxPending
      BY <1>8, <3>3, AssociationAssumption
    <3>5. \A i \in 1..Len(pending') : IsOwn(pending'[i])
      BY <1>9, <3>3
    <3>6. StoreIsOwn'
      BY <1>12, <3>3, <3>4, <3>5 DEF StoreIsOwn, OneEach
    <3>7. ASSUME NEW m, NEW i, Has(store, m, i), m # n PROVE Has(pending', m, i)
      <4>1. PICK q \in 1..Len(store) : store[q].packetID = m /\ store[q].fragments[i] # Nil
        BY <3>7 DEF Has
      <4>2. q # at
        BY <1>8, <3>7, <4>1 DEF d
      <4>3. IsIn(store[q], pending')
        BY <3>3, <4>2
      <4>4. PICK r \in 1..Len(pending') : pending'[r] = store[q]
        BY <4>3 DEF IsIn
      <4> QED BY <4>1, <4>4 DEF Has
    <3> QED BY <1>11, <3>1, <3>2, <3>6, <3>7
  <2>4. CASE ~IsComplete(e)
    <3>1. pending' = [store EXCEPT ![at] = e] /\ payload' = payload
      BY <1>3, <1>7, <1>10, <1>14, <2>2, <2>4
    <3>2. /\ pending' \in Seq(Entries) /\ Len(pending') = Len(store)
          /\ \A i \in 1..Len(store) : pending'[i] = IF i = at THEN e ELSE store[i]
      BY <1>8, <2>1, <3>1
    <3>3. e.packetID = n /\ e.remaining \in Nat /\ e.remaining # 0 /\ e.remaining > 0
      BY <2>1, <2>4 DEF IsOwnEntry, Entries, IsComplete
    <3>4. \A i \in 1..Len(store) : pending'[i].packetID = store[i].packetID
      BY <1>8, <3>2, <3>3 DEF d
    <3>5. OneEach(pending')
      BY <1>8, <3>2, <3>4 DEF OneEach
    <3>6. IsOwn(e)
      BY <2>1, <3>3 DEF IsOwn
    <3>7. \A i \in 1..Len(pending') : IsOwn(pending'[i])
      BY <1>9, <3>2, <3>6
    <3>8. StoreIsOwn'
      BY <1>8, <1>12, <3>2, <3>5, <3>7 DEF StoreIsOwn, OneEach
    <3>9. Has(pending', n, j)
      BY <1>2, <1>8, <2>1, <3>2, <3>3, Zenon DEF Has
    <3>10. ASSUME NEW m \in 1..Len(written), NEW i \in 1..Total(written[m]), Has(store, m, i) PROVE Has(pending', m, i)
      <4>1. PICK q \in 1..Len(store) : store[q].packetID = m /\ store[q].fragments[i] # Nil
        BY <3>10 DEF Has
      <4>2. CASE q # at
        BY <3>2, <4>1, <4>2 DEF Has
      <4>3. CASE q = at
        <5>1. m = n /\ i \in 1..Total(len) /\ d.fragments[i] # Nil
          BY <1>8, <4>1, <4>3 DEF d
        <5>2. e.fragments[i] # Nil
          BY <2>1, <5>1
        <5> QED BY <1>8, <3>2, <3>3, <4>1, <4>3, <5>1, <5>2 DEF Has
      <4> QED BY <4>2, <4>3
    <3> QED BY <1>11, <3>1, <3>8, <3>9, <3>10, Zenon
  <2> QED BY <2>3, <2>4
<1> QED BY <1>13, <1>14

\* What was sent stays sent.
LEMMA SentStays ==
    ASSUME Numbered, NEW len \in Nat, written' = Append(written, len)
    PROVE  /\ written' \in Seq(Nat) /\ Len(written') = Len(written) + 1 /\ written'[Len(written) + 1] = len
           /\ \A n \in 1..Len(written) : n \in 1..Len(written') /\ written'[n] = written[n]
           /\ Sent \subseteq Sent'
           /\ \A f : IsOwnFrame(f) => IsOwnFrame(f)'
           /\ \A d : IsOwn(d) => IsOwn(d)'
<1>1. /\ written' \in Seq(Nat) /\ Len(written') = Len(written) + 1 /\ written'[Len(written) + 1] = len
      /\ \A n \in 1..Len(written) : n \in 1..Len(written') /\ written'[n] = written[n]
  BY DEF Numbered
<1>2. Sent \subseteq Sent'
  BY <1>1 DEF Sent, Whole
<1>3. ASSUME NEW f, IsOwnFrame(f) PROVE IsOwnFrame(f)'
  <2>0. PICK n \in 1..Len(written) : \E i \in 1..Total(written[n]) : f = Part(n, i)
    BY <1>3 DEF IsOwnFrame
  <2>1. PICK i \in 1..Total(written[n]) : f = Part(n, i)
    BY <2>0
  <2>2. n \in 1..Len(written') /\ i \in 1..Total(written'[n]) /\ f = FrameOf(n, written'[n], i - 1)
    BY <1>1, <2>1 DEF Part
  <2> QED BY <2>2 DEF IsOwnFrame, Part
<1>4. ASSUME NEW d, IsOwn(d) PROVE IsOwn(d)'
  BY <1>1, <1>4 DEF IsOwn
<1> QED BY <1>1, <1>2, <1>3, <1>4

\* A sequence over a set is one over a larger set.
LEMMA SeqWidens ==
    ASSUME NEW S, NEW T, S \subseteq T, NEW s \in Seq(S)
    PROVE  s \in Seq(T)
OBVIOUS

\* Write preserves the invariant: its number is new, and so are its frames.
LEMMA WriteOwn ==
    ASSUME OwnInv, NEW len \in Nat, Write(len)
    PROVE  OwnInv'
<1>0. PICK n \in Nat : n = Len(written) + 1
  BY DEF OwnInv, Numbered
<1>1. /\ len <= MaxPayload /\ nextPacket' = nextPacket + 1 /\ written' = Append(written, len)
      /\ taken' = taken /\ pending' = pending /\ payload' = payload /\ recvQueue' = recvQueue
      /\ received' = received /\ closing' = closing /\ calm' = calm
  BY DEF Write, receiverVars
<1>2. network' = IF Total(len) > MaxFragments THEN network
                 ELSE network \cup Frames(nextPacket + 1, Datagram(n, len))
  BY <1>0 DEF Write
<1>3. Numbered /\ n \in Nat /\ nextPacket + 1 = n
  BY <1>0 DEF OwnInv, Numbered
<1>4. /\ written' \in Seq(Nat) /\ Len(written') = n /\ written'[n] = len /\ n \in 1..Len(written')
      /\ \A m \in 1..Len(written) : m \in 1..Len(written') /\ written'[m] = written[m]
      /\ Sent \subseteq Sent'
      /\ \A f : IsOwnFrame(f) => IsOwnFrame(f)'
      /\ \A d : IsOwn(d) => IsOwn(d)'
  BY <1>0, <1>1, <1>3, SentStays
<1>5. Frames(nextPacket + 1, Datagram(n, len)) = {FrameOf(n, len, i - 1) : i \in 1..Total(len)}
  BY <1>3, FramesAre
<1>6. \A m \in 1..Len(written') : m \in 1..Len(written) \/ m = n
  BY <1>0, <1>3, <1>4
<1>7. Numbered'
  <2>1. \A m \in 1..Len(written') : written'[m] <= MaxPayload
    BY <1>1, <1>3, <1>4, <1>6 DEF Numbered
  <2> QED BY <1>1, <1>3, <1>4, <2>1 DEF Numbered
<1>8. HandIsOwn'
  <2>0. HandIsOwn BY DEF OwnInv
  <2>1. \A i \in 1..Total(len) : IsOwnFrame(FrameOf(n, len, i - 1))'
    BY <1>4 DEF IsOwnFrame, Part
  <2>2. \A f \in network' : IsOwnFrame(f)'
    BY <1>2, <1>4, <1>5, <2>0, <2>1 DEF HandIsOwn
  <2>3. taken' = <<>> \/ (payload' = <<>> /\ \E f : taken' = <<f>> /\ IsOwnFrame(f)' /\ f.total > 1)
    BY <1>1, <1>4, <2>0 DEF HandIsOwn
  <2>4. payload' = <<>> \/ \E p \in Sent' : payload' = <<p>>
    BY <1>1, <1>4, <2>0 DEF HandIsOwn
  <2>5. recvQueue' \in Seq(Sent') /\ received' \subseteq Sent'
    BY <1>1, <1>4, <2>0, SeqWidens DEF HandIsOwn
  <2> QED BY <2>2, <2>3, <2>4, <2>5 DEF HandIsOwn
<1>9. StoreIsOwn'
  BY <1>1, <1>4 DEF OwnInv, StoreIsOwn, OneEach
<1>10. Accounted'
  <2> SUFFICES ASSUME calm'
               PROVE  /\ closing' = "open"
                      /\ \A m \in 1..Len(written') : Total(written'[m]) <= MaxFragments =>
                            \/ Whole(m)' \in InHand'
                            \/ \A i \in 1..Total(written'[m]) :
                                  Part(m, i)' \in network' \cup Range(taken') \/ Has(pending', m, i)
    BY DEF Accounted, Has
  <2>1. calm
    BY <1>1
  <2>2. Accounted
    BY DEF OwnInv
  <2>3. InHand' = InHand
    BY <1>1 DEF InHand
  <2>4. ASSUME NEW m \in 1..Len(written), Total(written[m]) <= MaxFragments
        PROVE  \/ Whole(m)' \in InHand'
               \/ \A i \in 1..Total(written'[m]) :
                     Part(m, i)' \in network' \cup Range(taken') \/ Has(pending', m, i)
    <3>1. Whole(m)' = Whole(m) /\ written'[m] = written[m]
      BY <1>4 DEF Whole
    <3>2. \A i : Part(m, i)' = Part(m, i)
      BY <1>4 DEF Part
    <3>3. \/ Whole(m) \in InHand
          \/ \A i \in 1..Total(written[m]) : Part(m, i) \in network \cup Range(taken) \/ Has(pending, m, i)
      BY <2>1, <2>2, <2>4 DEF Accounted
    <3>4. network \subseteq network' /\ taken' = taken /\ pending' = pending
      BY <1>1, <1>2
    <3> QED BY <2>3, <3>1, <3>2, <3>3, <3>4
  <2>5. ASSUME Total(len) <= MaxFragments
        PROVE  \A i \in 1..Total(len) : Part(n, i)' \in network'
    <3>1. ~(Total(len) > MaxFragments)
      BY <2>5, TotalBounds, AssociationAssumption
    <3>2. Frames(nextPacket + 1, Datagram(n, len)) \subseteq network'
      BY <1>2, <3>1
    <3>3. \A i : Part(n, i)' = FrameOf(n, len, i - 1)
      BY <1>4 DEF Part
    <3> QED BY <1>5, <3>2, <3>3
  <2>6. closing' = "open"
    BY <1>1, <2>1, <2>2 DEF Accounted
  <2>7. ASSUME NEW m \in 1..Len(written'), Total(written'[m]) <= MaxFragments
        PROVE  \/ Whole(m)' \in InHand'
               \/ \A i \in 1..Total(written'[m]) :
                     Part(m, i)' \in network' \cup Range(taken') \/ Has(pending', m, i)
    <3>1. CASE m \in 1..Len(written)
      BY <1>4, <2>4, <2>7, <3>1
    <3>2. CASE m = n
      BY <1>4, <2>5, <2>7, <3>2
    <3> QED BY <1>6, <3>1, <3>2
  <2> QED BY <2>6, <2>7
<1> QED BY <1>7, <1>8, <1>9, <1>10 DEF OwnInv

\* A step that leaves the sender alone and loses nothing.
LEMMA AccountedStays ==
    ASSUME Accounted, written' = written, calm' => calm, calm' => closing' = "open",
           calm' => InHand \subseteq InHand',
           calm' => \A m \in 1..Len(written) : \A i \in 1..Total(written[m]) :
              Part(m, i) \in network \cup Range(taken) \/ Has(pending, m, i)
                 => Whole(m) \in InHand' \/ Part(m, i) \in network' \cup Range(taken') \/ Has(pending', m, i)
    PROVE  Accounted'
<1>a. \A m : Whole(m)' = Whole(m)
  BY DEF Whole
<1>b. \A m, i : Part(m, i)' = Part(m, i)
  BY DEF Part
<1>c. \A m, i : Has(pending, m, i)' <=> Has(pending', m, i)
  BY Zenon DEF Has
<1> SUFFICES ASSUME calm'
             PROVE  \A m \in 1..Len(written) : Total(written[m]) <= MaxFragments =>
                          \/ Whole(m) \in InHand'
                          \/ \A i \in 1..Total(written[m]) :
                                Part(m, i) \in network' \cup Range(taken') \/ Has(pending', m, i)
  BY <1>a, <1>b, <1>c DEF Accounted
<1> TAKE m \in 1..Len(written)
<1> HAVE Total(written[m]) <= MaxFragments
<1>1. \/ Whole(m) \in InHand
      \/ \A i \in 1..Total(written[m]) : Part(m, i) \in network \cup Range(taken) \/ Has(pending, m, i)
  BY DEF Accounted
<1> QED BY <1>1

\* A step of the receiver does not change what was sent.
LEMMA SenderAlone ==
    ASSUME Numbered, written' = written, nextPacket' = nextPacket
    PROVE  Numbered' /\ Sent' = Sent /\ (\A f : IsOwnFrame(f)' <=> IsOwnFrame(f)) /\ (\A d : IsOwn(d)' <=> IsOwn(d))
<1>1. Numbered' BY DEF Numbered
<1>2. Sent' = Sent BY DEF Sent, Whole
<1>3. \A f : IsOwnFrame(f)' <=> IsOwnFrame(f) BY DEF IsOwnFrame, Part
<1>4. \A d : IsOwn(d)' <=> IsOwn(d) BY DEF IsOwn
<1> QED BY <1>1, <1>2, <1>3, <1>4

\* Nor, if it leaves the store alone, what is in it.
LEMMA StoreStays ==
    ASSUME StoreIsOwn, written' = written, pending' = pending
    PROVE  StoreIsOwn'
BY DEF StoreIsOwn, OneEach, IsOwn

\* The first part of deliverFragment: a frame is dropped, delivered, or taken
\* in hand.
LEMMA DeliverFragmentOwn ==
    ASSUME OwnInv, NEW f \in network, DeliverFragment(f)
    PROVE  OwnInv'
<1>0. Numbered /\ HandIsOwn /\ StoreIsOwn /\ Accounted
  BY DEF OwnInv
<1>1. /\ taken = <<>> /\ payload = <<>> /\ network' \subseteq network /\ network \ {f} \subseteq network'
      /\ nextPacket' = nextPacket /\ written' = written /\ pending' = pending /\ recvQueue' = recvQueue
      /\ received' = received /\ closing' = closing /\ calm' = calm
  BY DEF DeliverFragment
<1>2. \/ closing # "open" /\ taken' = taken /\ payload' = payload
      \/ closing = "open" /\ f.total = 1 /\ payload' = <<f.fragment>> /\ taken' = taken
      \/ closing = "open" /\ f.total # 1 /\ taken' = <<f>> /\ payload' = payload
  BY DEF DeliverFragment
<1>3. /\ Numbered' /\ Sent' = Sent /\ \A g : IsOwnFrame(g)' <=> IsOwnFrame(g)
      /\ StoreIsOwn'
  BY <1>0, <1>1, SenderAlone, StoreStays
<1>3a. PICK n \in 1..Len(written) : \E i \in 1..Total(written[n]) : f = Part(n, i)
  BY <1>0 DEF HandIsOwn, IsOwnFrame
<1>4. PICK i \in 1..Total(written[n]) : f = Part(n, i)
  BY <1>3a
<1>5. n \in Nat /\ written[n] \in Nat /\ Total(written[n]) \in Nat \ {0}
  <2>1. n \in Nat /\ written[n] \in Nat BY <1>0 DEF Numbered
  <2> QED BY <2>1, TotalBounds, Zenon
<1>6. f.total = Total(written[n]) /\ f.fragment = Fragment(Whole(n), i - 1)
  BY <1>4 DEF Part, FrameOf, Whole
<1>7. f.total = 1 => f.fragment = Whole(n)
  <2> SUFFICES ASSUME f.total = 1 PROVE f.fragment = Whole(n)
    OBVIOUS
  <2>1. i = 1 /\ i - 1 = 0 /\ Total(written[n]) = 1
    BY <1>5, <1>6
  <2>2. Fragment(Datagram(n, written[n]), 0) = Datagram(n, written[n])
    BY <1>5, <2>1, OneFragment
  <2> QED BY <1>6, <2>1, <2>2 DEF Whole
<1>8. IsOwnFrame(f) /\ Whole(n) \in Sent
  BY <1>0, <1>4 DEF HandIsOwn, Sent
<1>9. HandIsOwn'
  <2>1. \A g \in network' : IsOwnFrame(g)'
    BY <1>0, <1>1, <1>3 DEF HandIsOwn
  <2>2. recvQueue' \in Seq(Sent') /\ received' \subseteq Sent'
    BY <1>0, <1>1, <1>3 DEF HandIsOwn
  <2>3. f.total # 1 => f.total > 1
    BY <1>5, <1>6
  <2>4. taken' = <<>> \/ (payload' = <<>> /\ \E g : taken' = <<g>> /\ IsOwnFrame(g)' /\ g.total > 1)
    BY <1>1, <1>2, <1>3, <1>8, <2>3
  <2>5. payload' = <<>> \/ \E p \in Sent' : payload' = <<p>>
    BY <1>1, <1>2, <1>3, <1>7, <1>8
  <2> QED BY <2>1, <2>2, <2>4, <2>5 DEF HandIsOwn
<1>10. Accounted'
  <2>1. ASSUME calm' PROVE closing' = "open" /\ closing = "open"
    BY <1>0, <1>1, <2>1 DEF Accounted
  <2>2. Range(<<>>) = {} /\ Range(<<f>>) = {f} /\ Range(<<f.fragment>>) = {f.fragment}
    BY RangeOne
  <2>3. Range(taken) = {} /\ Range(payload) = {}
    BY <1>1, <2>2
  <2>4. InHand \subseteq InHand'
    BY <1>1, <2>3 DEF InHand
  <2>5. ASSUME calm', NEW m \in 1..Len(written), NEW j \in 1..Total(written[m]),
               Part(m, j) \in network \cup Range(taken) \/ Has(pending, m, j)
        PROVE  Whole(m) \in InHand' \/ Part(m, j) \in network' \cup Range(taken') \/ Has(pending', m, j)
    <3>1. CASE Part(m, j) = f
      <4>1. m = n
        BY <1>4, <3>1 DEF Part, FrameOf
      <4>2. CASE f.total = 1
        <5>1. payload' = <<f.fragment>>
          BY <1>2, <2>1, <2>5, <4>2
        <5>2. f.fragment \in InHand'
          BY <2>2, <5>1 DEF InHand
        <5> QED BY <1>7, <4>1, <4>2, <5>2
      <4>3. CASE f.total # 1
        <5>1. taken' = <<f>>
          BY <1>2, <2>1, <2>5, <4>3
        <5> QED BY <2>2, <3>1, <5>1
      <4> QED BY <4>2, <4>3
    <3>2. CASE Part(m, j) # f
      BY <1>1, <2>3, <2>5, <3>2
    <3> QED BY <3>1, <3>2
  <2> QED BY <1>0, <1>1, <2>1, <2>4, <2>5, AccountedStays
<1> QED BY <1>3, <1>9, <1>10 DEF OwnInv

\* The rest of it.
LEMMA ReassembleOwn ==
    ASSUME OwnInv, NEW k, Reassemble(k)
    PROVE  OwnInv'
<1>0. Numbered /\ HandIsOwn /\ StoreIsOwn /\ Accounted
  BY DEF OwnInv
<1>1. /\ taken # <<>> /\ taken' = <<>> /\ nextPacket' = nextPacket /\ written' = written /\ network' = network
      /\ recvQueue' = recvQueue /\ received' = received /\ closing' = closing /\ (calm' => calm)
  BY Zenon DEF Reassemble
<1>2. PICK f : taken = <<f>> /\ IsOwnFrame(f) /\ f.total > 1 /\ payload = <<>>
  BY <1>0, <1>1 DEF HandIsOwn
<1>2a. PICK n \in 1..Len(written) : \E j \in 1..Total(written[n]) : f = Part(n, j)
  BY <1>2 DEF IsOwnFrame
<1>3. PICK j \in 1..Total(written[n]) : f = Part(n, j)
  BY <1>2a
<1>4. Total(written[n]) > 1
  BY <1>2, <1>3 DEF Part, FrameOf
<1>5. /\ StoreIsOwn'
      /\ payload' = payload \/ payload' = <<Whole(n)>>
      /\ Has(pending', n, j) \/ payload' = <<Whole(n)>>
      /\ calm' => \A m \in 1..Len(written) : \A i \in 1..Total(written[m]) :
                    Has(pending, m, i) => Has(pending', m, i) \/ (m = n /\ payload' = <<Whole(n)>>)
  BY <1>0, <1>2, <1>3, <1>4, ReassembleStore
<1>6. Numbered' /\ Sent' = Sent /\ \A g : IsOwnFrame(g)' <=> IsOwnFrame(g)
  BY <1>0, <1>1, SenderAlone
<1>7. Whole(n) \in Sent
  BY DEF Sent
<1>8. HandIsOwn'
  BY <1>0, <1>1, <1>2, <1>5, <1>6, <1>7 DEF HandIsOwn
<1>9. Accounted'
  <2>1. Range(<<>>) = {} /\ Range(<<f>>) = {f} /\ Range(<<Whole(n)>>) = {Whole(n)}
    BY RangeOne
  <2>2. InHand \subseteq InHand'
    BY <1>1, <1>2, <2>1 DEF InHand
  <2>3. payload' = <<Whole(n)>> => Whole(n) \in InHand'
    BY <2>1 DEF InHand
  <2>4. ASSUME calm', NEW m \in 1..Len(written), NEW i \in 1..Total(written[m]),
               Part(m, i) \in network \cup Range(taken) \/ Has(pending, m, i)
        PROVE  Whole(m) \in InHand' \/ Part(m, i) \in network' \cup Range(taken') \/ Has(pending', m, i)
    <3>1. CASE Part(m, i) \in network
      BY <1>1, <3>1
    <3>2. CASE Part(m, i) = f
      <4>1. m = n /\ i - 1 = j - 1
        BY <1>3, <3>2 DEF Part, FrameOf
      <4>2. i = j
        <5>1. i \in Int /\ j \in Int OBVIOUS
        <5> QED BY <4>1, <5>1
      <4> QED BY <1>5, <2>3, <4>1, <4>2
    <3>3. CASE Has(pending, m, i)
      BY <1>5, <2>3, <2>4, <3>3
    <3> QED BY <1>2, <2>1, <2>4, <3>1, <3>2, <3>3
  <2>5. calm' => closing' = "open"
    BY <1>0, <1>1 DEF Accounted
  <2> QED BY <1>0, <1>1, <2>2, <2>4, <2>5, AccountedStays
<1> QED BY <1>5, <1>6, <1>8, <1>9 DEF OwnInv

\* deliver, Read and Close, and the receiver that is opened again.
LEMMA QueueOwn ==
    ASSUME OwnInv, Deliver \/ Read \/ CloseChannel \/ CloseDropsPending \/ ReceiverReopens \/ UNCHANGED associationVars
    PROVE  OwnInv'
<1>0. Numbered /\ HandIsOwn /\ StoreIsOwn /\ Accounted
  BY DEF OwnInv
<1>1. nextPacket' = nextPacket /\ written' = written /\ network' = network /\ taken' = taken
  BY DEF Deliver, Read, CloseChannel, CloseDropsPending, ReceiverReopens, associationVars
<1>2. Numbered' /\ Sent' = Sent /\ \A g : IsOwnFrame(g)' <=> IsOwnFrame(g)
  BY <1>0, <1>1, SenderAlone
<1>3. CASE Deliver
  <2>1. /\ payload # <<>> /\ payload' = <<>> /\ pending' = pending /\ received' = received /\ closing' = closing
        /\ \/ recvQueue' = recvQueue \o payload /\ calm' = calm
           \/ recvQueue' = recvQueue /\ calm' = FALSE
    BY <1>3 DEF Deliver
  <2>2. PICK p \in Sent : payload = <<p>>
    BY <1>0, <2>1 DEF HandIsOwn
  <2>3. recvQueue \in Seq(Sent)
    BY <1>0 DEF HandIsOwn
  <2>4. recvQueue \o <<p>> = Append(recvQueue, p)
    BY <2>3
  <2>5. Range(Append(recvQueue, p)) = Range(recvQueue) \cup {p} /\ Append(recvQueue, p) \in Seq(Sent)
    BY <2>3, RangeAppend
  <2>6. Range(payload) = {p} /\ Range(payload') = {}
    BY <2>1, <2>2, RangeOne
  <2>7. recvQueue' \in Seq(Sent)
    BY <2>1, <2>2, <2>3, <2>4, <2>5
  <2>8. HandIsOwn'
    BY <1>0, <1>1, <1>2, <2>1, <2>7 DEF HandIsOwn
  <2>9. calm' => calm /\ InHand \subseteq InHand'
    BY <2>1, <2>2, <2>4, <2>5, <2>6, Zenon DEF InHand
  <2>10. calm' => closing' = "open"
    BY <1>0, <2>1, <2>9 DEF Accounted
  <2>11. Accounted'
    BY <1>0, <1>1, <2>1, <2>9, <2>10, AccountedStays
  <2>12. StoreIsOwn'
    BY <1>0, <1>1, <2>1, StoreStays
  <2> QED BY <1>2, <2>8, <2>11, <2>12 DEF OwnInv
<1>4. CASE Read
  <2>1. /\ recvQueue # <<>> /\ received' = received \cup {Head(recvQueue)} /\ recvQueue' = Tail(recvQueue)
        /\ payload' = payload /\ pending' = pending /\ closing' = closing /\ calm' = calm
    BY <1>4 DEF Read
  <2>2. recvQueue \in Seq(Sent) /\ received \subseteq Sent
    BY <1>0 DEF HandIsOwn
  <2>3. Range(recvQueue) = {Head(recvQueue)} \cup Range(Tail(recvQueue)) /\ Head(recvQueue) \in Sent /\ Tail(recvQueue) \in Seq(Sent)
    BY <2>1, <2>2, RangeTail
  <2>4. received' \subseteq Sent
    BY <2>1, <2>2, <2>3
  <2>5. HandIsOwn'
    BY <1>0, <1>1, <1>2, <2>1, <2>3, <2>4 DEF HandIsOwn
  <2>6. InHand \subseteq InHand'
    BY <2>1, <2>3 DEF InHand
  <2>7. calm' => closing' = "open"
    BY <1>0, <2>1 DEF Accounted
  <2>8. Accounted'
    BY <1>0, <1>1, <2>1, <2>6, <2>7, AccountedStays
  <2>9. StoreIsOwn'
    BY <1>0, <1>1, <2>1, StoreStays
  <2> QED BY <1>2, <2>5, <2>8, <2>9 DEF OwnInv
<1>5. CASE CloseChannel
  <2>1. ~calm' /\ UNCHANGED <<pending, payload, recvQueue, received>>
    BY <1>5 DEF CloseChannel
  <2>2. HandIsOwn'
    BY <1>0, <1>1, <1>2, <2>1 DEF HandIsOwn
  <2>3. StoreIsOwn'
    BY <1>0, <1>1, <2>1, StoreStays
  <2> QED BY <1>2, <2>1, <2>2, <2>3, Zenon DEF OwnInv, Accounted
<1>6. CASE CloseDropsPending
  <2>1. closing = "closing" /\ pending' = <<>> /\ calm' = calm /\ UNCHANGED <<payload, recvQueue, received>>
    BY <1>6 DEF CloseDropsPending
  <2>2. HandIsOwn'
    BY <1>0, <1>1, <1>2, <2>1 DEF HandIsOwn
  <2>3. StoreIsOwn'
    BY <2>1, AssociationAssumption DEF StoreIsOwn, OneEach
  <2>4. ~calm'
    BY <1>0, <2>1 DEF Accounted
  <2> QED BY <1>2, <2>2, <2>3, <2>4 DEF OwnInv, Accounted
<1>7. CASE ReceiverReopens
  <2>1. closing # "open" /\ pending' = <<>> /\ recvQueue' = <<>> /\ UNCHANGED <<payload, received, calm>>
    BY <1>7 DEF ReceiverReopens
  <2>2. HandIsOwn'
    BY <1>0, <1>1, <1>2, <2>1 DEF HandIsOwn
  <2>3. StoreIsOwn'
    BY <2>1, AssociationAssumption DEF StoreIsOwn, OneEach
  <2>4. ~calm'
    BY <1>0, <2>1 DEF Accounted
  <2> QED BY <1>2, <2>2, <2>3, <2>4 DEF OwnInv, Accounted
<1>8. CASE UNCHANGED associationVars
  <2>1. UNCHANGED <<pending, payload, recvQueue, received, closing, calm>>
    BY <1>8 DEF associationVars
  <2>2. HandIsOwn'
    BY <1>0, <1>1, <1>2, <2>1 DEF HandIsOwn
  <2>3. StoreIsOwn'
    BY <1>0, <1>1, <2>1, StoreStays
  <2>4. Accounted'
    <3>1. InHand' = InHand
      BY <2>1 DEF InHand
    <3>2. calm' => closing' = "open"
      BY <1>0, <2>1 DEF Accounted
    <3> QED BY <1>0, <1>1, <2>1, <3>1, <3>2, AccountedStays
  <2> QED BY <1>2, <2>2, <2>3, <2>4 DEF OwnInv
<1> QED BY <1>3, <1>4, <1>5, <1>6, <1>7, <1>8

-----------------------------------------------------------------------------
(* Numbers that were used before                                           *)

\* Frames are frames, and of several fragments where they are put together.
FramesAreFrames ==
    /\ written \in Seq(Nat) /\ nextPacket \in Nat
    /\ \A f \in network : IsFrame(f)
    /\ taken = <<>> \/ \E f : taken = <<f>> /\ IsFrame(f) /\ f.total > 1

\* The store keeps its bound and its counts, whatever the fragments are from.
StoreIsSound ==
    /\ pending \in Seq(Entries) /\ Len(pending) <= MaxPending /\ OneEach(pending)
    /\ \A i \in 1..Len(pending) : IsSound(pending[i])

SoundInv == FramesAreFrames /\ StoreIsSound /\ (reopened = "sender" => ~calm)

\* Write: a number that may have been used, and fragments of several that are
\* not empty.
LEMMA WriteSound ==
    ASSUME SoundInv, NEW len \in Nat, Write(len)
    PROVE  SoundInv'
<1> DEFINE id == nextPacket + 1
           n == Len(written) + 1
<1>1. /\ written' = Append(written, len) /\ nextPacket' = id
      /\ taken' = taken /\ pending' = pending /\ calm' = calm /\ reopened' = reopened
      /\ network' = network \/ network' = network \cup Frames(id, Datagram(n, len))
  BY DEF Write, receiverVars
<1>2. written \in Seq(Nat) /\ id \in Nat /\ n \in Nat
  BY DEF SoundInv, FramesAreFrames
<1> HIDE DEF id, n
<1>3. ASSUME NEW f \in Frames(id, Datagram(n, len)) PROVE IsFrame(f)
  <2>1. Len(Datagram(n, len)) = len /\ Total(len) \in Nat
    BY <1>2, DatagramIs, TotalBounds
  <2>2. PICK k \in 0..Total(len)-1 :
           f = [packetID |-> id, total |-> Total(len), index |-> k, fragment |-> Fragment(Datagram(n, len), k)]
    BY <1>3, <2>1 DEF Frames
  <2>3. Fragment(Datagram(n, len), k) \in Seq(Bytes) /\ (len > 0 => Fragment(Datagram(n, len), k) # Nil)
    BY <1>2, FragmentSound, Zenon
  <2>4. Total(len) > 1 => len > 0
    BY TotalBounds, AssociationAssumption
  <2> QED BY <1>2, <2>1, <2>2, <2>3, <2>4 DEF IsFrame
<1>4. FramesAreFrames'
  <2>1. written' \in Seq(Nat)
    BY <1>1, <1>2
  <2> QED BY <1>1, <1>2, <1>3, <2>1 DEF SoundInv, FramesAreFrames
<1>5. StoreIsSound'
  BY <1>1 DEF SoundInv, StoreIsSound, OneEach
<1> QED BY <1>1, <1>4, <1>5 DEF SoundInv

\* deliverFragment, up to the store.
LEMMA DeliverFragmentSound ==
    ASSUME SoundInv, NEW f \in network, DeliverFragment(f)
    PROVE  SoundInv'
<1>1. /\ taken = <<>> /\ network' \subseteq network
      /\ nextPacket' = nextPacket /\ written' = written /\ pending' = pending /\ reopened' = reopened /\ calm' = calm
  BY DEF DeliverFragment
<1>2. taken' = taken \/ (f.total # 1 /\ taken' = <<f>>)
  BY DEF DeliverFragment
<1>3. IsFrame(f)
  BY DEF SoundInv, FramesAreFrames
<1>4. f.total # 1 => f.total > 1
  BY <1>3 DEF IsFrame
<1>5. FramesAreFrames'
  BY <1>1, <1>2, <1>3, <1>4 DEF SoundInv, FramesAreFrames
<1>6. StoreIsSound'
  BY <1>1 DEF SoundInv, StoreIsSound, OneEach
<1> QED BY <1>1, <1>5, <1>6 DEF SoundInv

(***************************************************************************)
(* The rest of deliverFragment: the entry it finds under the number of the *)
(* frame may be of another datagram, and is still one entry, with a count  *)
(* that is right.                                                          *)
(***************************************************************************)
LEMMA ReassembleSound ==
    ASSUME SoundInv, NEW k, Reassemble(k)
    PROVE  SoundInv'
<1>1. /\ taken # <<>> /\ taken' = <<>> /\ network' = network /\ k \in 0..Len(pending)
      /\ nextPacket' = nextPacket /\ written' = written /\ reopened' = reopened /\ (calm' => calm)
  BY Zenon DEF Reassemble
<1>2. PICK f : taken = <<f>> /\ IsFrame(f) /\ f.total > 1
  BY <1>1 DEF SoundInv, FramesAreFrames
<1> DEFINE id == f.packetID
           store == PendingFor(f, k)
           at == Position(store, id)
           d == store[at]
           e == Filled(d, f)
<1>3. \/ pending' = store
      \/ pending' = DropPending(store, at)
      \/ d.total = f.total /\ d.fragments[f.index + 1] = Nil /\ e.remaining # 0 /\ pending' = [store EXCEPT ![at] = e]
  <2>1. taken[1] = f
    BY <1>2
  <2> QED BY <2>1, Zenon DEF Reassemble, IsComplete
<1>4. NewPending(id, f.total) \in Entries /\ IsSound(NewPending(id, f.total))
  BY <1>2, NewIsSound DEF IsFrame
<1>5. /\ store \in Seq(Entries) /\ Len(store) <= MaxPending /\ OneEach(store)
      /\ \A i \in 1..Len(store) : IsIn(store[i], pending) \/ store[i] = NewPending(id, f.total)
      /\ at \in 1..Len(store)
  <2>1. pending \in Seq(Entries) /\ OneEach(pending) /\ Len(pending) <= MaxPending
    BY DEF SoundInv, StoreIsSound
  <2> QED BY <1>1, <1>4, <2>1, PendingForIs
<1> HIDE DEF store, at, id, e
<1>6. \A i \in 1..Len(store) : IsSound(store[i])
  BY <1>4, <1>5 DEF SoundInv, StoreIsSound, IsIn
<1>6a. store \in Seq(Entries) /\ Len(store) <= MaxPending /\ OneEach(store) /\ at \in 1..Len(store)
  BY <1>5
<1>7. StoreIsSound'
  <2>1. CASE pending' = store
    BY <1>6a, <1>6, <2>1 DEF StoreIsSound
  <2>2. CASE pending' = DropPending(store, at)
    <3>1. /\ pending' \in Seq(Entries) /\ Len(pending') = Len(store) - 1 /\ OneEach(pending')
          /\ \A i \in 1..Len(pending') : \E q \in 1..Len(store) : q # at /\ pending'[i] = store[q]
      <4> DEFINE r == DropPending(store, at)
      <4>1. /\ r \in Seq(Entries) /\ Len(r) = Len(store) - 1 /\ OneEach(r)
            /\ \A i \in 1..Len(r) : \E q \in 1..Len(store) : q # at /\ r[i] = store[q]
        BY <1>6a, DropPendingIs
      <4>2. pending' = r
        BY <2>2
      <4> HIDE DEF r
      <4> QED BY <4>1, <4>2
    <3>2. Len(pending') <= MaxPending
      <4>1. Len(store) \in Nat /\ MaxPending \in Nat
        BY <1>6a, AssociationAssumption
      <4> QED BY <1>6a, <3>1, <4>1
    <3>3. \A i \in 1..Len(pending') : IsSound(pending'[i])
      BY <1>6, <3>1
    <3> QED BY <3>1, <3>2, <3>3 DEF StoreIsSound, OneEach
  <2>3. CASE d.total = f.total /\ d.fragments[f.index + 1] = Nil /\ e.remaining # 0 /\ pending' = [store EXCEPT ![at] = e]
    <3>1. d \in Entries /\ IsSound(d)
      BY <1>6a, <1>6
    <3>2. e \in Entries /\ e.packetID = d.packetID /\ IsSound(e)
      <4> HIDE DEF d
      <4> QED BY <1>2, <2>3, <3>1, FilledIsSound DEF e
    <3>3. /\ pending' \in Seq(Entries) /\ Len(pending') = Len(store)
          /\ \A i \in 1..Len(store) : pending'[i] = IF i = at THEN e ELSE store[i]
      BY <1>6a, <2>3, <3>2
    <3>4. \A i \in 1..Len(store) : pending'[i].packetID = store[i].packetID /\ IsSound(pending'[i])
      BY <1>6, <3>2, <3>3
    <3>5. OneEach(pending')
      BY <1>6a, <3>3, <3>4 DEF OneEach
    <3> QED BY <1>6a, <3>3, <3>4, <3>5 DEF StoreIsSound, OneEach
  <2> QED BY <1>3, <2>1, <2>2, <2>3
<1>8. FramesAreFrames'
  BY <1>1 DEF SoundInv, FramesAreFrames
<1> QED BY <1>1, <1>7, <1>8 DEF SoundInv

\* The other steps.
LEMMA OtherStepSound ==
    ASSUME SoundInv,
           \/ SenderReopens \/ Deliver \/ Read \/ CloseChannel \/ CloseDropsPending \/ ReceiverReopens
           \/ UNCHANGED associationVars
    PROVE  SoundInv'
<1>1. written' = written /\ network' = network /\ taken' = taken
  BY DEF SenderReopens, receiverVars, Deliver, Read, CloseChannel, CloseDropsPending, ReceiverReopens, associationVars
<1>2. nextPacket' = nextPacket \/ nextPacket' = 0
  BY DEF SenderReopens, Deliver, Read, CloseChannel, CloseDropsPending, ReceiverReopens, associationVars
<1>3. pending' = pending \/ pending' = <<>>
  BY DEF SenderReopens, receiverVars, Deliver, Read, CloseChannel, CloseDropsPending, ReceiverReopens, associationVars
<1>4. reopened' = "sender" => ~calm'
  <2>1. SenderReopens => ~calm'
    BY DEF SenderReopens
  <2>2. ReceiverReopens => reopened' # "sender"
    BY DEF ReceiverReopens
  <2>3. Deliver \/ Read \/ CloseChannel \/ CloseDropsPending \/ UNCHANGED associationVars
           => reopened' = reopened /\ (calm' = calm \/ ~calm')
    BY DEF Deliver, Read, CloseChannel, CloseDropsPending, associationVars
  <2> QED BY <2>1, <2>2, <2>3 DEF SoundInv
<1>5. FramesAreFrames'
  BY <1>1, <1>2 DEF SoundInv, FramesAreFrames
<1>6. StoreIsSound'
  <2>1. CASE pending' = pending
    BY <2>1 DEF SoundInv, StoreIsSound, OneEach
  <2>2. CASE pending' = <<>>
    BY <2>2, AssociationAssumption DEF StoreIsSound, OneEach
  <2> QED BY <1>3, <2>1, <2>2
<1> QED BY <1>4, <1>5, <1>6 DEF SoundInv

AssociationInv == SoundInv /\ (reopened # "sender" => OwnInv)

(***************************************************************************)
(* The inductive invariant of an association: its store is sound; and      *)
(* until the sender was opened again, what it has in hand was sent, its    *)
(* store holds parts of what was sent, and nothing is unaccounted for.     *)
(***************************************************************************)
THEOREM AssociationInvariance == AssociationSpec => []AssociationInv
<1>1. AssociationInit => AssociationInv
  <2> SUFFICES ASSUME AssociationInit PROVE AssociationInv
    OBVIOUS
  <2> USE DEF AssociationInit
  <2>1. Numbered
    BY DEF Numbered
  <2>2. HandIsOwn
    BY DEF HandIsOwn
  <2>3. StoreIsOwn /\ StoreIsSound
    BY AssociationAssumption DEF StoreIsOwn, StoreIsSound, OneEach
  <2>4. Accounted
    BY DEF Accounted
  <2>5. FramesAreFrames
    BY DEF FramesAreFrames
  <2> QED BY <2>1, <2>2, <2>3, <2>4, <2>5 DEF AssociationInv, OwnInv, SoundInv
<1>2. AssociationInv /\ [AssociationNext]_associationVars => AssociationInv'
  <2> SUFFICES ASSUME AssociationInv, [AssociationNext]_associationVars PROVE AssociationInv'
    OBVIOUS
  <2>0. SoundInv /\ (reopened # "sender" => OwnInv)
    BY DEF AssociationInv
  <2>1. ASSUME NEW len \in Lengths, Write(len) PROVE AssociationInv'
    <3>1. len \in Nat BY AssociationAssumption
    <3>2. reopened' = reopened BY <2>1 DEF Write
    <3> QED BY <2>0, <2>1, <3>1, <3>2, WriteOwn, WriteSound DEF AssociationInv
  <2>2. ASSUME NEW f \in network, DeliverFragment(f) PROVE AssociationInv'
    <3>1. reopened' = reopened BY <2>2 DEF DeliverFragment
    <3> QED BY <2>0, <2>2, <3>1, DeliverFragmentOwn, DeliverFragmentSound DEF AssociationInv
  <2>3. ASSUME NEW k, Reassemble(k) PROVE AssociationInv'
    <3>1. reopened' = reopened BY <2>3, Zenon DEF Reassemble
    <3> QED BY <2>0, <2>3, <3>1, ReassembleOwn, ReassembleSound DEF AssociationInv
  <2>4. CASE SenderReopens
    <3>1. reopened' = "sender" BY <2>4 DEF SenderReopens
    <3> QED BY <2>0, <2>4, <3>1, OtherStepSound DEF AssociationInv
  <2>5. CASE Deliver \/ Read \/ CloseChannel \/ CloseDropsPending \/ ReceiverReopens \/ UNCHANGED associationVars
    <3>1. reopened' # "sender" => reopened # "sender"
      BY <2>5 DEF Deliver, Read, CloseChannel, CloseDropsPending, ReceiverReopens, associationVars
    <3> QED BY <2>0, <2>5, <3>1, QueueOwn, OtherStepSound DEF AssociationInv
  <2> QED BY <2>1, <2>2, <2>3, <2>4, <2>5 DEF AssociationNext
<1> QED BY <1>1, <1>2, PTL DEF AssociationSpec

(***************************************************************************)
(* deliverFragment and Read return only datagrams that were written, whole *)
(* and unchanged, for any lengths, budgets and bounds, whatever is lost,   *)
(* doubled, overtaken, expired or evicted and however often the receiver   *)
(* was opened again; until the sender, which numbers its packets anew, is. *)
(***************************************************************************)
THEOREM WholeDatagramsHolds == AssociationSpec => []WholeDatagrams
<1>1. AssociationInv => WholeDatagrams
  <2> SUFFICES ASSUME AssociationInv, reopened # "sender", NEW p \in InHand
               PROVE  \E n \in 1..Len(written) : p = Whole(n)
    BY DEF WholeDatagrams, Whole
  <2>0. HandIsOwn BY DEF AssociationInv, OwnInv
  <2>1. Range(payload) \subseteq Sent
    BY <2>0, RangeOne, Zenon DEF HandIsOwn
  <2>2. Range(recvQueue) \subseteq Sent /\ received \subseteq Sent
    BY <2>0, RangeIs DEF HandIsOwn
  <2> QED BY <2>1, <2>2 DEF InHand, Sent
<1> QED BY <1>1, AssociationInvariance, PTL

\* The store stays within maxPendingDatagrams, has one entry per packet number,
\* and its count of missing fragments is right, whichever end was opened again.
THEOREM PendingIsSoundHolds == AssociationSpec => []PendingIsSound
<1>1. AssociationInv => PendingIsSound
  BY Zenon DEF AssociationInv, SoundInv, StoreIsSound, PendingIsSound, OneEach, IsSound, Missing
<1> QED BY <1>1, AssociationInvariance, PTL

(***************************************************************************)
(* The receiver loses nothing by itself: while nothing expired, there was  *)
(* room and neither end was closed, a datagram that was written is at hand *)
(* or has a fragment that is yet to come.                                  *)
(***************************************************************************)
THEOREM NoDatagramVanishesHolds == AssociationSpec => []NoDatagramVanishes
<1>1. AssociationInv => NoDatagramVanishes
  <2> SUFFICES ASSUME AssociationInv, calm, NEW n \in 1..Len(written),
                      Total(written[n]) <= MaxFragments, written[n] > 0, Whole(n) \notin InHand
               PROVE  Coming(n)
    BY DEF NoDatagramVanishes, Whole
  <2>0. Numbered /\ StoreIsOwn /\ Accounted
    BY DEF AssociationInv, SoundInv, OwnInv
  <2>1. n \in Nat /\ written[n] \in Nat
    BY <2>0 DEF Numbered
  <2> DEFINE t == Total(written[n])
  <2>2. t \in Nat \ {0}
    BY <2>1, TotalBounds, Zenon
  <2>3. \A i \in 1..t : Part(n, i) \in network \cup Range(taken) \/ Has(pending, n, i)
    BY <2>0 DEF Accounted
  <2>4. \A i \in 1..t : Part(n, i).fragment # Nil /\ Part(n, i).fragment[1][1] = n
    <3> TAKE i \in 1..t
    <3>1. i - 1 \in 0..t - 1 BY <2>2
    <3>2. Part(n, i).fragment = Fragment(Datagram(n, written[n]), i - 1)
      BY DEF Part, FrameOf
    <3>3. /\ Fragment(Datagram(n, written[n]), i - 1) # Nil
          /\ Fragment(Datagram(n, written[n]), i - 1)[1][1] = n
      BY <2>1, <3>1, FragmentSound
    <3> QED BY <3>2, <3>3
  <2> HIDE DEF t
  <2>5. \E i \in 1..t : ~Has(pending, n, i)
    <3>1. CASE \E q \in 1..Len(pending) : pending[q].packetID = n
      <4>1. PICK q \in 1..Len(pending) : pending[q].packetID = n
        BY <3>1
      <4>2. IsOwn(pending[q]) /\ pending[q].total = t
        BY <2>0, <4>1, Zenon DEF StoreIsOwn, IsOwn, IsOwnEntry, t
      <4>3. Missing(pending[q]) # {}
        <5>1. pending[q].remaining # 0 /\ pending[q].remaining = Cardinality(Missing(pending[q]))
          <6>1. pending[q] \in Entries BY <2>0 DEF StoreIsOwn
          <6>2. pending[q].remaining \in Nat BY <6>1 DEF Entries
          <6>3. pending[q].remaining > 0 BY <4>2 DEF IsOwn
          <6>4. pending[q].remaining = Cardinality(Missing(pending[q]))
            BY <4>2, Zenon DEF IsOwn, IsOwnEntry
          <6> QED BY <6>2, <6>3, <6>4
        <5> QED BY <5>1, FS_EmptySet, Zenon
      <4>4. PICK i \in 1..t : pending[q].fragments[i] = Nil
        BY <4>2, <4>3 DEF Missing
      <4>5. \A r \in 1..Len(pending) : pending[r].packetID = n => r = q
        BY <2>0, <4>1 DEF StoreIsOwn, OneEach
      <4> QED BY <4>4, <4>5 DEF Has
    <3>2. CASE ~\E q \in 1..Len(pending) : pending[q].packetID = n
      <4>1. 1 \in 1..t BY <2>2
      <4> QED BY <3>2, <4>1 DEF Has
    <3> QED BY <3>1, <3>2
  <2> QED BY <2>3, <2>4, <2>5 DEF Coming
<1> QED BY <1>1, AssociationInvariance, PTL
=============================================================================
