------------------------- MODULE DatagramAssociation -------------------------
(***************************************************************************)
(* What happens to a UDP datagram between Write at one end of an           *)
(* association and Read at the other (datagramAssociation of               *)
(* transport/call/vk-parasite/datagram.go): it is cut into fragments, each *)
(* of them travels in a QUIC datagram of its own, and the other end puts   *)
(* it together again, with a bounded store of unfinished datagrams that    *)
(* expire.                                                                 *)
(*                                                                         *)
(* QUIC datagrams are lost, overtake each other and may come twice.  One   *)
(* goroutine delivers the fragments of an association (acceptDatagramsLoop *)
(* of its connection), so that only Read and Close run against it.         *)
(* Unfinished datagrams expire in the order in which they were begun:      *)
(* those that have expired are a prefix of the store.                      *)
(*                                                                         *)
(* One of the two ends was opened by acceptAssociation.  When it is closed *)
(* the next frame of the other end opens it again, under the same id: a    *)
(* new object, that numbers its packets from 1 and has an empty store.     *)
(***************************************************************************)
EXTENDS Integers, Sequences, FiniteSets, FiniteSetsExt, Functions

CONSTANTS
    Lengths,       \* the lengths of the datagrams written
    MaxWrites,     \* bound: how many datagrams are written
    MaxRepeats,    \* bound: how often a frame comes once more
    Budget,        \* fragmentBudget
    MaxPayload,    \* maxDatagramPayload
    MaxFragments,  \* maxDatagramFragments
    MaxPending,    \* maxPendingDatagrams
    QueueDepth     \* datagramReceiveQueue

ASSUME AssociationAssumption ==
    /\ Lengths \subseteq Nat
    /\ {MaxWrites, MaxRepeats} \subseteq Nat
    /\ {Budget, MaxPayload, MaxFragments, MaxPending, QueueDepth} \subseteq Nat \ {0}

VARIABLES
    nextPacket,   \* nextPacket of the sender
    written,      \* the lengths of the datagrams given to Write
    network,      \* frames that may arrive
    repeats,      \* how often one has come that will come once more
    taken,        \* the frame deliverFragment has in hand, past its first check
    pending,      \* pending of the receiver
    payload,      \* what it has put together and is about to deliver
    recvQueue,    \* recvQueue
    received,     \* what Read has returned
    closing,      \* how far Close of the receiver has come
    reopened,     \* history: which end was closed and opened again
    calm          \* history: nothing expired, crowded out or closed yet

receiverVars == <<taken, pending, payload, recvQueue, received, closing>>
associationVars == <<nextPacket, written, network, repeats, taken, pending, payload, recvQueue, received, closing,
                     reopened, calm>>

\* What is at hand: taken and payload are sequences of at most one element.
InHand == Range(payload) \cup Range(recvQueue) \cup received

(***************************************************************************)
(* The types of the variables: frames name a datagram that was written and *)
(* one of its fragments, and the queue of the receiver keeps its bound.    *)
(***************************************************************************)
AssociationTypeOK ==
    /\ nextPacket \in 0..MaxWrites
    /\ written \in Seq(Lengths)
    /\ \A f \in network \cup Range(taken) :
          f.packetID \in 1..MaxWrites /\ f.index < f.total /\ f.total <= MaxFragments
    /\ repeats \in 0..MaxRepeats
    /\ Len(taken) <= 1
    /\ Len(payload) <= 1
    /\ \A d \in Range(pending) : d.packetID \in 1..MaxWrites /\ Len(d.fragments) = d.total
    /\ Len(recvQueue) <= QueueDepth
    /\ closing \in {"open", "closing", "closed"}
    /\ reopened \in {"neither", "sender", "receiver"}
    /\ calm \in BOOLEAN

\* newDatagramAssociation, at both ends
AssociationInit ==
    /\ nextPacket = 0
    /\ written = <<>>
    /\ network = {}
    /\ repeats = 0
    /\ taken = <<>>
    /\ pending = <<>>
    /\ payload = <<>>
    /\ recvQueue = <<>>
    /\ received = {}
    /\ closing = "open"
    /\ reopened = "neither"
    /\ calm = TRUE

-----------------------------------------------------------------------------
\* The bytes of the n-th datagram
Datagram(n, len) == [i \in 1..len |-> <<n, i>>]

\* Write: how many fragments there are, and which bytes are in each.
Total(len) == IF len > Budget THEN (len + Budget - 1) \div Budget ELSE 1

Fragment(p, index) ==
    LET start == index * Budget
        end == IF start + Budget > Len(p) THEN Len(p) ELSE start + Budget
    IN  SubSeq(p, start + 1, end)

Frames(id, p) ==
    {[packetID |-> id, total |-> Total(Len(p)), index |-> k, fragment |-> Fragment(p, k)] :
        k \in 0..Total(Len(p)) - 1}

(***************************************************************************)
(* Write.  The packet number is used up even if there are too many         *)
(* fragments to send.  A frame that is lost, or that SendDatagram refuses  *)
(* to send, is one that is never delivered.                                *)
(***************************************************************************)
Write(len) ==
    /\ Len(written) < MaxWrites
    /\ len <= MaxPayload
    /\ nextPacket' = nextPacket + 1
    /\ written' = Append(written, len)
    /\ network' = IF Total(len) > MaxFragments THEN network
                  ELSE network \cup Frames(nextPacket + 1, Datagram(Len(written) + 1, len))
    /\ UNCHANGED <<repeats, receiverVars, reopened, calm>>

\* The sender is the end that is opened again: packets are numbered anew.
SenderReopens ==
    /\ reopened # "receiver"
    /\ reopened' = "sender"
    /\ nextPacket' = 0
    /\ calm' = FALSE
    /\ UNCHANGED <<written, network, repeats, receiverVars>>

-----------------------------------------------------------------------------
(***************************************************************************)
(* deliverFragment: a closed association drops the frame, a datagram of    *)
(* one fragment needs no reassembly.  The frame may come once more.        *)
(***************************************************************************)
DeliverFragment(f) ==
    /\ taken = <<>> /\ payload = <<>>
    /\ f \in network
    /\ \/ network' = network \ {f} /\ UNCHANGED repeats
       \/ repeats < MaxRepeats /\ repeats' = repeats + 1 /\ UNCHANGED network
    /\ CASE closing # "open" -> UNCHANGED <<taken, payload>>
         [] closing = "open" /\ f.total = 1 -> payload' = <<f.fragment>> /\ UNCHANGED taken
         [] OTHER -> taken' = <<f>> /\ UNCHANGED payload
    /\ UNCHANGED <<nextPacket, written, pending, recvQueue, received, closing, reopened, calm>>

(***************************************************************************)
(* pendingFor.  The first k datagrams of the store have expired and are    *)
(* dropped, the one that is asked for excepted.  A new one takes the place *)
(* of the oldest if the store is full.  A fragment that is nil is <<>>: no *)
(* fragment of several is empty.                                           *)
(***************************************************************************)
Nil == <<>>

NewPending(id, total) ==
    [packetID |-> id, total |-> total, remaining |-> total, size |-> 0, fragments |-> [i \in 1..total |-> Nil]]

\* Where the entry of a datagram is in a store, 0 if there is none
Position(store, id) ==
    LET at == {i \in 1..Len(store) : store[i].packetID = id} IN IF at = {} THEN 0 ELSE Min(at)

Kept(id, k) ==
    LET at == Position(pending, id)
        rest == SubSeq(pending, k + 1, Len(pending))
    IN  IF at \in 1..k THEN <<pending[at]>> \o rest ELSE rest

\* Mutants: a store that is too large, and one that is full too early.
WithRoomForOneMore(store) == IF Len(store) > MaxPending THEN Tail(store) ELSE store
WithRoomForTwo(store) == IF Len(store) + 1 >= MaxPending /\ store # <<>> THEN Tail(store) ELSE store

\* The oldest gives way.
WithRoom(store) == IF Len(store) >= MaxPending THEN Tail(store) ELSE store

PendingFor(f, k) ==
    LET kept == Kept(f.packetID, k) IN
    IF Position(kept, f.packetID) # 0
      THEN kept
      ELSE Append(WithRoom(kept), NewPending(f.packetID, f.total))

\* The pending datagram d with the fragment of f.
Filled(d, f) ==
    [d EXCEPT !.fragments[f.index + 1] = f.fragment, !.remaining = @ - 1, !.size = @ + Len(f.fragment)]

\* Mutant: the last fragment is not waited for.
IsCompleteButOne(d) == d.remaining <= 1

\* pending.remaining == 0
IsComplete(d) == d.remaining = 0

\* The loop that puts the fragments together
Payload(fragments) ==
    LET upTo[n \in 0..Len(fragments)] == IF n = 0 THEN <<>> ELSE upTo[n - 1] \o fragments[n]
    IN  upTo[Len(fragments)]

\* dropPending
DropPending(store, at) == SubSeq(store, 1, at - 1) \o SubSeq(store, at + 1, Len(store))

\* The rest of deliverFragment, under pendingMu; k datagrams have expired.
Reassemble(k) ==
    LET f == taken[1]
        store == PendingFor(f, k)
        at == Position(store, f.packetID)
        d == Filled(store[at], f)
    IN
    /\ taken # <<>>
    /\ k \in 0..Len(pending)
    /\ taken' = <<>>
    /\ calm' = (calm /\ k = 0 /\ (Position(pending, f.packetID) # 0 \/ Len(pending) < MaxPending))
    /\ IF store[at].total # f.total \/ store[at].fragments[f.index + 1] # Nil
         THEN pending' = store /\ UNCHANGED payload
       ELSE IF d.size > MaxPayload
         THEN pending' = DropPending(store, at) /\ UNCHANGED payload
       ELSE IF IsComplete(d)
         THEN pending' = DropPending(store, at) /\ payload' = <<Payload(d.fragments)>>
       ELSE pending' = [store EXCEPT ![at] = d] /\ UNCHANGED payload
    /\ UNCHANGED <<nextPacket, written, network, repeats, recvQueue, received, closing, reopened>>

\* deliver: into the queue, or nowhere if it is full or the association closed.
Deliver ==
    /\ payload # <<>>
    /\ payload' = <<>>
    /\ \/ Len(recvQueue) < QueueDepth /\ recvQueue' = recvQueue \o payload /\ UNCHANGED calm
       \/ (Len(recvQueue) = QueueDepth \/ closing # "open") /\ UNCHANGED recvQueue /\ calm' = FALSE
    /\ UNCHANGED <<nextPacket, written, network, repeats, taken, pending, received, closing, reopened>>

\* Read, into a buffer that is large enough
Read ==
    /\ recvQueue # <<>>
    /\ received' = received \cup {Head(recvQueue)}
    /\ recvQueue' = Tail(recvQueue)
    /\ UNCHANGED <<nextPacket, written, network, repeats, taken, pending, payload, closing, reopened, calm>>

\* Close: the channel, then, under pendingMu, the store.
CloseChannel ==
    /\ closing = "open"
    /\ closing' = "closing"
    /\ calm' = FALSE
    /\ UNCHANGED <<nextPacket, written, network, repeats, taken, pending, payload, recvQueue, received, reopened>>

CloseDropsPending ==
    /\ closing = "closing"
    /\ closing' = "closed"
    /\ pending' = <<>>
    /\ UNCHANGED <<nextPacket, written, network, repeats, taken, payload, recvQueue, received, reopened, calm>>

\* The receiver is the end that is opened again, by the goroutine that delivers.
ReceiverReopens ==
    /\ reopened # "sender"
    /\ closing # "open"
    /\ taken = <<>> /\ payload = <<>>
    /\ reopened' = "receiver"
    /\ closing' = "open"
    /\ pending' = <<>>
    /\ recvQueue' = <<>>
    /\ UNCHANGED <<nextPacket, written, network, repeats, taken, payload, received, calm>>

AssociationNext ==
    \/ \E len \in Lengths : Write(len)
    \/ SenderReopens
    \/ \E f \in network : DeliverFragment(f)
    \/ \E k \in 0..MaxPending : Reassemble(k)
    \/ Deliver
    \/ Read
    \/ CloseChannel
    \/ CloseDropsPending
    \/ ReceiverReopens

AssociationSpec == AssociationInit /\ [][AssociationNext]_associationVars

-----------------------------------------------------------------------------
(***************************************************************************)
(* Whatever is lost, doubled, overtaken, expired or evicted on the way,    *)
(* and however often the receiver was opened again, Read only returns      *)
(* datagrams that were written, whole and unchanged; as long as the sender *)
(* was not: an unfinished datagram of its old numbering, even one that has *)
(* expired, takes in the fragments of a new one with its number.           *)
(***************************************************************************)
WholeDatagrams ==
    reopened # "sender" =>
        \A p \in InHand : \E n \in 1..Len(written) : p = Datagram(n, written[n])

(***************************************************************************)
(* The store of unfinished datagrams stays within its bound, has one entry *)
(* per packet number, and the count of missing fragments that decides when *)
(* one is finished agrees with the fragments that are missing, also after  *)
(* a fragment has come twice and when numbers were used before.            *)
(***************************************************************************)
PendingIsSound ==
    /\ Len(pending) <= MaxPending
    /\ \A i, j \in 1..Len(pending) : pending[i].packetID = pending[j].packetID => i = j
    /\ \A i \in 1..Len(pending) :
          /\ pending[i].remaining > 0
          /\ pending[i].remaining = Cardinality({n \in 1..pending[i].total : pending[i].fragments[n] = Nil})

\* A fragment of the n-th datagram is on its way.
Coming(n) == \E f \in network \cup Range(taken) : f.fragment # Nil /\ f.fragment[1][1] = n

(***************************************************************************)
(* The receiver itself loses no datagram: as long as nothing has expired,  *)
(* the store and the queue had room and neither end was closed, each       *)
(* datagram written is at hand or has a fragment that is yet to come, in   *)
(* whatever order and however often the others have arrived.               *)
(***************************************************************************)
NoDatagramVanishes ==
    calm => \A n \in 1..Len(written) :
        Total(written[n]) <= MaxFragments /\ written[n] > 0
            => Datagram(n, written[n]) \in InHand \/ Coming(n)
=============================================================================
