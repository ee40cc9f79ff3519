------------------------ MODULE FollowHandshakeProofs ------------------------
(***************************************************************************)
(* What is proved about FollowHandshake for all actors, reports and        *)
(* bounds: type correctness, the agreement of the two sides once nothing   *)
(* is under way, that only what the peer accepted counts as subscribed,    *)
(* and that an Undo is not taken back by an answer that comes late.        *)
(***************************************************************************)
EXTENDS FollowHandshake, TLAPS

Follow(a, i) == Message("Follow", a, i)
Undo(a, i)   == Message("Undo", a, i)
Accept(a, i) == Message("Accept", a, i)

Sent == outbox \cup inbox \cup receipts \cup lost

\* What has been sent is of a generation that was asked for; the last one is undone
\* if its Undo was sent, and only a Follow that was received is accepted.
SentForReason ==
    \A m \in Sent :
        /\ m.id <= outbound[m.actor].id
        /\ m.kind = "Undo" /\ m.id = outbound[m.actor].id => outbound[m.actor].status = "undone"
        /\ m.kind = "Accept" => Follow(m.actor, m.id) \in receipts

\* Nothing was forgotten: the Follow of each generation, the Undo of each but the
\* last one, and of that one if it is undone.
AllSent ==
    \A a \in Actors : \A i \in 1..outbound[a].id :
        /\ Follow(a, i) \in Sent
        /\ i < outbound[a].id \/ outbound[a].status = "undone" => Undo(a, i) \in Sent

\* The peer's row stands for the last message it goes back to.
PeerRow ==
    \A a \in Actors :
        /\ inbound[a].status = "accepted" =>
              /\ Follow(a, inbound[a].id) \in receipts
              /\ a \notin late => Undo(a, inbound[a].id) \notin receipts
        /\ inbound[a].status = "undone" => Undo(a, inbound[a].id) \in receipts
        /\ a \notin late => \A m \in receipts :
              m.kind = "Follow" /\ m.actor = a => m.id <= inbound[a].id

\* The answer to what is pending is under way, or was lost.
Answered ==
    \A a \in Actors : outbound[a].status = "pending" =>
        /\ Accept(a, outbound[a].id) \notin receipts
        /\ inbound[a] = [status |-> "accepted", id |-> outbound[a].id] =>
              Accept(a, outbound[a].id) \in outbox \cup inbox \cup lost

IInv == TypeOK /\ SentForReason /\ AllSent /\ PeerRow /\ Answered /\ AcceptedByPeer

-----------------------------------------------------------------------------
(* Type correctness. *)

LEMMA MessageType ==
    ASSUME NEW k \in {"Follow", "Undo", "Accept"}, NEW a \in Actors, NEW i \in Nat \ {0}
    PROVE  /\ Message(k, a, i) \in Messages
           /\ Message(k, a, i).kind = k
           /\ Message(k, a, i).actor = a
           /\ Message(k, a, i).id = i
BY DEF Message, Messages

LEMMA MessageIs ==
    ASSUME NEW m \in Messages
    PROVE  /\ m = Message(m.kind, m.actor, m.id)
           /\ m.kind \in {"Follow", "Undo", "Accept"} /\ m.actor \in Actors /\ m.id \in Nat \ {0}
BY DEF Message, Messages

\* The rows keep to their types: what each action puts into them.
LEMMA TypeRequests ==
    ASSUME TypeOK, NEW a \in Actors, RequestFollow(a) \/ RequestUndo(a)
    PROVE  TypeOK'
<1>1. CASE RequestFollow(a)
  <2> DEFINE i == outbound[a].id + 1
  <2>1. outbound[a] \in OutboundRows
    BY DEF TypeOK
  <2>2. i \in Nat \ {0}
    BY <2>1 DEF OutboundRows
  <2>3. [status |-> "pending", id |-> i] \in OutboundRows
    BY <2>2 DEF OutboundRows
  <2>4. Message("Follow", a, i) \in Messages
    BY <2>2, MessageType
  <2> HIDE DEF i
  <2>5. outbound' = [outbound EXCEPT ![a] = [status |-> "pending", id |-> i]]
    BY <1>1 DEF RequestFollow, i
  <2>6. outbox' = outbox \cup {Message("Follow", a, i)}
    BY <1>1 DEF RequestFollow, i
  <2>7. UNCHANGED <<enabled, inbound, inbox, receipts, posts, saved, lost, late, faults>>
    BY <1>1 DEF RequestFollow
  <2> QED
    BY <2>3, <2>4, <2>5, <2>6, <2>7 DEF TypeOK
<1>2. CASE RequestUndo(a)
  <2> DEFINE f == [outbound[a] EXCEPT !.status = "undone"]
  <2>1. outbound[a] \in OutboundRows /\ outbound[a].status # "none"
    BY <1>2 DEF TypeOK, RequestUndo
  <2>2. f \in OutboundRows
    BY <2>1 DEF OutboundRows
  <2>3. Message("Undo", a, outbound[a].id) \in Messages
    BY <2>1, MessageType DEF OutboundRows
  <2>4. outbound' = [outbound EXCEPT ![a] = f]
    BY <1>2 DEF RequestUndo
  <2>5. outbox' = outbox \cup {Message("Undo", a, outbound[a].id)}
    BY <1>2 DEF RequestUndo
  <2>6. UNCHANGED <<enabled, inbound, inbox, receipts, posts, saved, lost, late, faults>>
    BY <1>2 DEF RequestUndo
  <2> HIDE DEF f
  <2> QED
    BY <2>2, <2>3, <2>4, <2>5, <2>6 DEF TypeOK
<1> QED
  BY <1>1, <1>2

LEMMA TypeHandled ==
    ASSUME TypeOK, NEW m \in inbox, Handled(m)
    PROVE  inbox' \subseteq Messages /\ faults' \in Nat
BY FaultsAssumption DEF TypeOK, Handled, Fault

LEMMA TypeHandleFollow ==
    ASSUME TypeOK, NEW m \in inbox, HandleFollow(m)
    PROVE  TypeOK'
<1> DEFINE a == m.actor
           i == m.id
<1>1. m \in Messages /\ a \in Actors /\ i \in Nat \ {0}
  BY MessageIs DEF TypeOK
<1>2. inbox' \subseteq Messages /\ faults' \in Nat
  BY TypeHandled DEF HandleFollow
<1>3. receipts' \subseteq Messages
  BY <1>1 DEF TypeOK, HandleFollow
<1>4. inbound' \in [Actors -> InboundRows] /\ outbox' \subseteq Messages /\ late' \subseteq Actors
  <2>1. [status |-> "accepted", id |-> i] \in InboundRows
    BY <1>1 DEF InboundRows
  <2>2. Message("Accept", a, i) \in Messages
    BY <1>1, MessageType
  <2>3. CASE UNCHANGED <<inbound, outbox, late>>
    BY <2>3 DEF TypeOK
  <2>4. CASE /\ inbound' = [inbound EXCEPT ![a] = [status |-> "accepted", id |-> i]]
             /\ outbox' = outbox \cup {Message("Accept", a, i)}
             /\ late' \in {late, late \cup {a}}
    BY <1>1, <2>1, <2>2, <2>4 DEF TypeOK
  <2> QED
    BY <2>3, <2>4 DEF HandleFollow
<1> QED
  BY <1>2, <1>3, <1>4 DEF TypeOK, HandleFollow

LEMMA TypeHandleUndo ==
    ASSUME TypeOK, NEW m \in inbox, HandleUndo(m)
    PROVE  TypeOK'
<1>1. m \in Messages /\ m.actor \in Actors /\ m.id \in Nat \ {0}
  BY MessageIs DEF TypeOK
<1>2. inbox' \subseteq Messages /\ faults' \in Nat
  BY TypeHandled DEF HandleUndo
<1>3. Undone(inbound[m.actor], m.id) \in InboundRows
  <2>1. inbound[m.actor] \in InboundRows
    BY <1>1 DEF TypeOK
  <2> QED
    BY <1>1, <2>1 DEF Undone, InboundRows
<1>4. inbound' \in [Actors -> InboundRows]
  BY <1>1, <1>3 DEF TypeOK, HandleUndo
<1> QED
  BY <1>1, <1>2, <1>4 DEF TypeOK, HandleUndo

LEMMA TypeHandleAccept ==
    ASSUME TypeOK, NEW m \in inbox, HandleAccept(m)
    PROVE  TypeOK'
<1>1. m \in Messages /\ m.actor \in Actors /\ m.id \in Nat \ {0}
  BY MessageIs DEF TypeOK
<1>2. inbox' \subseteq Messages /\ faults' \in Nat
  BY TypeHandled DEF HandleAccept
<1>3. Accepted(outbound[m.actor], m.id) \in OutboundRows
  <2>1. outbound[m.actor] \in OutboundRows
    BY <1>1 DEF TypeOK
  <2> QED
    BY <1>1, <2>1 DEF Accepted, OutboundRows
<1>4. outbound' \in [Actors -> OutboundRows]
  BY <1>1, <1>3 DEF TypeOK, HandleAccept
<1>5. receipts' \subseteq Messages
  BY <1>1 DEF TypeOK, HandleAccept
<1> QED
  BY <1>2, <1>4, <1>5 DEF TypeOK, HandleAccept

\* Messages on their way, and reports.
LEMMA TypeMoves ==
    ASSUME TypeOK
    PROVE  /\ \A m \in outbox : Deliver(m) \/ Exhaust(m) => TypeOK'
           /\ \A m \in inbox : Ignore(m) => TypeOK'
<1>1. ASSUME NEW m \in outbox, Deliver(m) PROVE TypeOK'
  BY <1>1 DEF TypeOK, Deliver, follows
<1>2. ASSUME NEW m \in outbox, Exhaust(m) PROVE TypeOK'
  BY <1>2 DEF TypeOK, Exhaust, Fault, follows
<1>3. ASSUME NEW m \in inbox, Ignore(m) PROVE TypeOK'
  BY <1>3 DEF TypeOK, Ignore, Fault, follows
<1> QED
  BY <1>1, <1>2, <1>3

LEMMA TypeEnabled ==
    ASSUME TypeOK, NEW a \in Actors, SetEnabled(a)
    PROVE  TypeOK'
<1>1. enabled' \in [Actors -> BOOLEAN]
  BY DEF TypeOK, SetEnabled
<1> QED
  BY <1>1 DEF TypeOK, SetEnabled, follows, messages

LEMMA TypeReports ==
    ASSUME TypeOK, NEW r \in Reports,
           Publish(r) \/ DeliverReport(r) \/ HandleReport(r) \/ LoseReport(r)
    PROVE  TypeOK'
<1>1. CASE Publish(r)
  BY <1>1 DEF TypeOK, Publish, follows, messages
<1>2. CASE DeliverReport(r)
  BY <1>2 DEF TypeOK, DeliverReport, follows, messages
<1>3. CASE HandleReport(r)
  BY <1>3 DEF TypeOK, HandleReport, Subscribers, Fault, follows, messages
<1>4. CASE LoseReport(r)
  BY <1>4 DEF TypeOK, LoseReport, Fault, follows, messages
<1> QED
  BY <1>1, <1>2, <1>3, <1>4

LEMMA TypeInit == Init => TypeOK
BY DEF Init, TypeOK, OutboundRows, InboundRows

LEMMA TypeStep == TypeOK /\ [Next]_vars => TypeOK'
<1> SUFFICES ASSUME TypeOK, [Next]_vars PROVE TypeOK'
  OBVIOUS
<1>1. ASSUME NEW a \in Actors, RequestFollow(a) \/ RequestUndo(a) PROVE TypeOK'
  BY <1>1, TypeRequests
<1>2. ASSUME NEW m \in outbox, Deliver(m) \/ Exhaust(m) PROVE TypeOK'
  BY <1>2, TypeMoves
<1>3. ASSUME NEW m \in inbox, Ignore(m) PROVE TypeOK'
  BY <1>3, TypeMoves
<1>4. ASSUME NEW m \in inbox, Handle(m) PROVE TypeOK'
  BY <1>4, TypeHandleFollow, TypeHandleUndo, TypeHandleAccept DEF Handle
<1>5. ASSUME NEW r \in Reports,
             Publish(r) \/ DeliverReport(r) \/ HandleReport(r) \/ LoseReport(r)
      PROVE  TypeOK'
  BY <1>5, TypeReports
<1>6. ASSUME NEW a \in Actors, SetEnabled(a) PROVE TypeOK'
  BY <1>6, TypeEnabled
<1>7. CASE UNCHANGED vars
  BY <1>7 DEF TypeOK, vars, follows, messages
<1> QED
  BY <1>1, <1>2, <1>3, <1>4, <1>5, <1>6, <1>7 DEF Next

\* Every reachable state has the declared shape (the rows of activitypub_follows
\* with their statuses, the messages of the three kinds).
THEOREM TypeCorrect == Spec => []TypeOK
BY TypeInit, TypeStep, PTL DEF Spec

-----------------------------------------------------------------------------
(* The inductive invariant. *)

LEMMA InvInit == Init => IInv
<1> SUFFICES ASSUME Init PROVE IInv
  OBVIOUS
<1>1. TypeOK
  BY TypeInit
<1>2. SentForReason
  BY DEF Init, SentForReason, Sent
<1>3. AllSent
  BY DEF Init, AllSent
<1>4. PeerRow /\ Answered /\ AcceptedByPeer
  BY DEF Init, PeerRow, Answered, AcceptedByPeer
<1> QED
  BY <1>1, <1>2, <1>3, <1>4 DEF IInv

\* Delivery, losses and reports touch neither rows nor receipts and forget nothing.
Moves == /\ UNCHANGED <<outbound, inbound, receipts, late>>
         /\ (outbox \cup inbox \cup lost)' = outbox \cup inbox \cup lost

LEMMA InvMoves ==
    ASSUME IInv, TypeOK', Moves
    PROVE  IInv'
<1>1. Sent' = Sent
  BY DEF Moves, Sent
<1>2. SentForReason'
  BY <1>1 DEF IInv, Moves, SentForReason, Follow
<1>3. AllSent'
  BY <1>1 DEF IInv, Moves, AllSent, Follow, Undo
<1>4. PeerRow'
  BY DEF IInv, Moves, PeerRow, Follow, Undo
<1>5. Answered'
  BY DEF IInv, Moves, Answered, Accept
<1>6. AcceptedByPeer'
  BY DEF IInv, Moves, AcceptedByPeer
<1> QED
  BY <1>2, <1>3, <1>4, <1>5, <1>6 DEF IInv

LEMMA MovesOf ==
    ASSUME TypeOK
    PROVE  /\ \A m \in outbox : Deliver(m) \/ Exhaust(m) => Moves
           /\ \A m \in inbox : Ignore(m) => Moves
           /\ \A r \in Reports :
                 Publish(r) \/ DeliverReport(r) \/ HandleReport(r) \/ LoseReport(r) => Moves
           /\ \A a \in Actors : SetEnabled(a) => Moves
           /\ UNCHANGED vars => Moves
<1>1. ASSUME NEW m \in outbox, Deliver(m) PROVE Moves
  BY <1>1 DEF Deliver, Moves, follows
<1>2. ASSUME NEW m \in outbox, Exhaust(m) PROVE Moves
  BY <1>2 DEF Exhaust, Moves, follows
<1>3. ASSUME NEW m \in inbox, Ignore(m) PROVE Moves
  BY <1>3 DEF Ignore, Moves, follows
<1>4. ASSUME NEW r \in Reports,
             Publish(r) \/ DeliverReport(r) \/ HandleReport(r) \/ LoseReport(r)
      PROVE  Moves
  BY <1>4 DEF Publish, DeliverReport, HandleReport, LoseReport, Moves, follows, messages
<1>5. ASSUME NEW a \in Actors, SetEnabled(a) PROVE Moves
  BY <1>5 DEF SetEnabled, Moves, follows, messages
<1>6. UNCHANGED vars => Moves
  BY DEF vars, Moves, follows, messages
<1> QED
  BY <1>1, <1>2, <1>3, <1>4, <1>5, <1>6

\* The peer's row is of a generation that was asked for.
LEMMA PeerRowOld ==
    ASSUME IInv, NEW a \in Actors
    PROVE  inbound[a].id <= outbound[a].id
<1>1. inbound[a] \in InboundRows /\ outbound[a] \in OutboundRows
  BY DEF IInv, TypeOK
<1>2. CASE inbound[a].status = "none"
  BY <1>1, <1>2 DEF InboundRows, OutboundRows
<1>3. CASE inbound[a].status # "none"
  <2>1. PICK k \in {"Follow", "Undo"} : Message(k, a, inbound[a].id) \in Sent
    BY <1>1, <1>3 DEF IInv, PeerRow, Follow, Undo, Sent, InboundRows
  <2>2. inbound[a].id \in Nat \ {0}
    BY <1>1, <1>3 DEF InboundRows
  <2>3. /\ Message(k, a, inbound[a].id).id = inbound[a].id
        /\ Message(k, a, inbound[a].id).actor = a
    BY DEF Message
  <2> QED
    BY <2>1, <2>3 DEF IInv, SentForReason
<1> QED
  BY <1>2, <1>3

LEMMA InvRequestFollow ==
    ASSUME IInv, TypeOK', NEW a \in Actors, RequestFollow(a)
    PROVE  IInv'
<1> DEFINE i == outbound[a].id + 1
           n == Follow(a, i)
<1>1. /\ outbound[a].id \in Nat
      /\ \A b \in Actors : outbound[b] \in OutboundRows /\ outbound[b].id \in Nat
  BY DEF IInv, TypeOK, OutboundRows
<1>2. /\ outbound[a].status \in {"none", "undone"}
      /\ outbound' = [outbound EXCEPT ![a] = [status |-> "pending", id |-> i]]
      /\ outbox' = outbox \cup {n}
      /\ UNCHANGED <<inbound, inbox, receipts, lost, late>>
  BY DEF RequestFollow, Follow
<1>3. /\ outbound'[a] = [status |-> "pending", id |-> i]
      /\ \A b \in Actors \ {a} : outbound'[b] = outbound[b]
  BY <1>2 DEF IInv, TypeOK
<1>4. Sent' = Sent \cup {n}
  BY <1>2 DEF Sent
<1>5. n.kind = "Follow" /\ n.actor = a /\ n.id = i
  BY DEF Follow, Message
<1>6. Sent \subseteq Messages
  BY DEF IInv, TypeOK, Sent
<1>7. i \in Nat \ {0} /\ i > outbound[a].id
  BY <1>1
<1> HIDE DEF i, n
<1>8. SentForReason'
  <2> SUFFICES ASSUME NEW m \in Sent'
               PROVE  /\ m.id <= outbound'[m.actor].id
                      /\ m.kind = "Undo" /\ m.id = outbound'[m.actor].id
                            => outbound'[m.actor].status = "undone"
                      /\ m.kind = "Accept" => Follow(m.actor, m.id) \in receipts
    BY <1>2 DEF SentForReason, Follow
  <2>1. CASE m = n
    BY <2>1, <1>3, <1>5, <1>7
  <2>2. CASE m \in Sent
    <3>1. /\ m.id <= outbound[m.actor].id
          /\ m.kind = "Undo" /\ m.id = outbound[m.actor].id => outbound[m.actor].status = "undone"
          /\ m.kind = "Accept" => Follow(m.actor, m.id) \in receipts
      BY <2>2 DEF IInv, SentForReason
    <3>2. m.actor \in Actors /\ m.id \in Nat
      BY <2>2, <1>6 DEF Messages
    <3>3. CASE m.actor = a
      <4>1. m.id < i
        BY <3>1, <3>2, <3>3, <1>1, <1>7
      <4> QED
        BY <3>1, <3>2, <3>3, <4>1, <1>3, <1>7
    <3> QED
      BY <3>1, <3>2, <3>3, <1>3
  <2> QED
    BY <2>1, <2>2, <1>4
<1>9. AllSent'
  <2> SUFFICES ASSUME NEW b \in Actors, NEW j \in 1..outbound'[b].id
               PROVE  /\ Follow(b, j) \in Sent'
                      /\ j < outbound'[b].id \/ outbound'[b].status = "undone"
                            => Undo(b, j) \in Sent'
    BY DEF AllSent, Follow, Undo
  <2>1. CASE b = a
    <3>1. outbound'[b].id = i /\ outbound'[b].status = "pending"
      BY <2>1, <1>3
    <3>2. CASE j = i
      BY <2>1, <3>1, <3>2, <1>4, <1>7 DEF n
    <3>3. CASE j # i
      <4>1. j \in 1..outbound[a].id
        BY <3>1, <3>3, <1>1, <1>7 DEF i
      <4>2. outbound[a].status = "undone"
        BY <4>1, <1>1, <1>2 DEF OutboundRows
      <4> QED
        BY <4>1, <4>2, <2>1, <1>4 DEF IInv, AllSent
    <3> QED
      BY <3>2, <3>3
  <2>2. CASE b # a
    <3>1. outbound'[b] = outbound[b]
      BY <2>2, <1>3
    <3> QED
      BY <3>1, <1>4 DEF IInv, AllSent
  <2> QED
    BY <2>1, <2>2
<1>10. PeerRow'
  BY <1>2 DEF IInv, PeerRow, Follow, Undo
<1>11. Answered'
  <2> SUFFICES ASSUME NEW b \in Actors, outbound'[b].status = "pending"
               PROVE  /\ Accept(b, outbound'[b].id) \notin receipts
                      /\ inbound[b] = [status |-> "accepted", id |-> outbound'[b].id] =>
                            Accept(b, outbound'[b].id) \in outbox' \cup inbox \cup lost
    BY <1>2 DEF Answered, Accept
  <2>1. CASE b = a
    <3>1. outbound'[b].id = i
      BY <2>1, <1>3
    <3>2. inbound[a].id <= outbound[a].id /\ inbound[a].id \in Nat
      BY PeerRowOld DEF IInv, TypeOK, InboundRows
    <3>3. inbound[a].id # i
      BY <3>2, <1>1, <1>7
    <3>4. Accept(a, i) \notin receipts
      <4>1. Accept(a, i).actor = a /\ Accept(a, i).id = i
        BY DEF Accept, Message
      <4>2. ~(i <= outbound[a].id)
        BY <1>1, <1>7
      <4> QED
        BY <4>1, <4>2 DEF IInv, SentForReason, Sent
    <3> QED
      BY <2>1, <3>1, <3>3, <3>4
  <2>2. CASE b # a
    <3>1. outbound'[b] = outbound[b]
      BY <2>2, <1>3
    <3> QED
      BY <3>1, <1>2 DEF IInv, Answered
  <2> QED
    BY <2>1, <2>2
<1>12. AcceptedByPeer'
  <2> SUFFICES ASSUME NEW b \in Actors, outbound'[b].status = "accepted"
               PROVE  Message("Follow", b, outbound'[b].id) \in receipts
    BY <1>2 DEF AcceptedByPeer
  <2>1. b # a
    BY <1>3
  <2> QED
    BY <2>1, <1>3 DEF IInv, AcceptedByPeer
<1> QED
  BY <1>8, <1>9, <1>10, <1>11, <1>12 DEF IInv

LEMMA InvRequestUndo ==
    ASSUME IInv, TypeOK', NEW a \in Actors, RequestUndo(a)
    PROVE  IInv'
<1> DEFINE n == Undo(a, outbound[a].id)
<1>1. \A b \in Actors : outbound[b] \in OutboundRows /\ outbound[b].id \in Nat
  BY DEF IInv, TypeOK, OutboundRows
<1>2. /\ outbound' = [outbound EXCEPT ![a].status = "undone"]
      /\ outbox' = outbox \cup {n}
      /\ UNCHANGED <<inbound, inbox, receipts, lost, late>>
  BY DEF RequestUndo, Undo
<1>3. /\ outbound'[a].status = "undone" /\ outbound'[a].id = outbound[a].id
      /\ \A b \in Actors \ {a} : outbound'[b] = outbound[b]
  BY <1>1, <1>2 DEF IInv, TypeOK, OutboundRows
<1>4. Sent' = Sent \cup {n}
  BY <1>2 DEF Sent
<1>5. n.kind = "Undo" /\ n.actor = a /\ n.id = outbound[a].id
  BY DEF Undo, Message
<1> HIDE DEF n
<1>6. SentForReason'
  <2> SUFFICES ASSUME NEW m \in Sent'
               PROVE  /\ m.id <= outbound'[m.actor].id
                      /\ m.kind = "Undo" /\ m.id = outbound'[m.actor].id
                            => outbound'[m.actor].status = "undone"
                      /\ m.kind = "Accept" => Follow(m.actor, m.id) \in receipts
    BY <1>2 DEF SentForReason, Follow
  <2>1. CASE m = n
    BY <2>1, <1>1, <1>3, <1>5
  <2>2. CASE m \in Sent
    <3>1. m.actor \in Actors
      BY <2>2 DEF IInv, TypeOK, Sent, Messages
    <3> QED
      BY <2>2, <3>1, <1>3 DEF IInv, SentForReason
  <2> QED
    BY <2>1, <2>2, <1>4
<1>7. AllSent'
  <2> SUFFICES ASSUME NEW b \in Actors, NEW j \in 1..outbound'[b].id
               PROVE  /\ Follow(b, j) \in Sent'
                      /\ j < outbound'[b].id \/ outbound'[b].status = "undone"
                            => Undo(b, j) \in Sent'
    BY DEF AllSent, Follow, Undo
  <2>1. j \in 1..outbound[b].id
    BY <1>3
  <2>2. Follow(b, j) \in Sent'
    BY <2>1, <1>4 DEF IInv, AllSent
  <2>3. CASE b = a /\ j = outbound[a].id
    BY <2>2, <2>3, <1>4 DEF n
  <2>4. CASE b = a /\ j # outbound[a].id
    BY <2>1, <2>2, <2>4, <1>1, <1>4 DEF IInv, AllSent
  <2>5. CASE b # a
    BY <2>1, <2>2, <2>5, <1>3, <1>4 DEF IInv, AllSent
  <2> QED
    BY <2>3, <2>4, <2>5
<1>8. PeerRow'
  BY <1>2 DEF IInv, PeerRow, Follow, Undo
<1>9. Answered'
  <2> SUFFICES ASSUME NEW b \in Actors, outbound'[b].status = "pending"
               PROVE  /\ Accept(b, outbound'[b].id) \notin receipts
                      /\ inbound[b] = [status |-> "accepted", id |-> outbound'[b].id] =>
                            Accept(b, outbound'[b].id) \in outbox' \cup inbox \cup lost
    BY <1>2 DEF Answered, Accept
  <2>1. outbound'[b] = outbound[b]
    BY <1>3
  <2> QED
    BY <2>1, <1>2 DEF IInv, Answered
<1>10. AcceptedByPeer'
  <2> SUFFICES ASSUME NEW b \in Actors, outbound'[b].status = "accepted"
               PROVE  Message("Follow", b, outbound'[b].id) \in receipts
    BY <1>2 DEF AcceptedByPeer
  <2>1. outbound'[b] = outbound[b]
    BY <1>3
  <2> QED
    BY <2>1 DEF IInv, AcceptedByPeer
<1> QED
  BY <1>6, <1>7, <1>8, <1>9, <1>10 DEF IInv

\* A message that is handled is received, whether or not it is handled again.
LEMMA SentHandled ==
    ASSUME TypeOK, NEW m \in inbox, Handled(m), UNCHANGED <<outbox, lost>>,
           receipts' = receipts \cup {m}
    PROVE  Sent' = Sent
BY DEF Handled, Sent

LEMMA InvHandleFollow ==
    ASSUME IInv, TypeOK', NEW m \in inbox, HandleFollow(m)
    PROVE  IInv'
<1> DEFINE a == m.actor
           i == m.id
           n == Accept(a, i)
<1>1. /\ m.kind = "Follow" /\ a \in Actors /\ i \in Nat \ {0} /\ m = Follow(a, i)
      /\ \A b \in Actors : inbound[b] \in InboundRows /\ inbound[b].id \in Nat
  BY MessageIs DEF IInv, TypeOK, HandleFollow, Follow, InboundRows
<1>2. /\ Handled(m)
      /\ receipts' = receipts \cup {m}
      /\ UNCHANGED <<outbound, lost>>
  BY DEF HandleFollow
<1>3. m \in Sent
  BY DEF Sent
<1>4. n.kind = "Accept" /\ n.actor = a /\ n.id = i
  BY DEF Accept, Message
<1>5. inbox \subseteq inbox' \cup {m} /\ inbox' \subseteq inbox
  BY <1>2 DEF Handled
<1>6. Sent' = Sent \/ Sent' = Sent \cup {n}
  BY <1>2, <1>5 DEF HandleFollow, Sent, Accept
<1>7. \/ UNCHANGED <<inbound, outbox, late>> /\ (m \in receipts \/ AlreadyThere(a, i))
      \/ /\ m \notin receipts /\ ~AlreadyThere(a, i)
         /\ inbound' = [inbound EXCEPT ![a] = [status |-> "accepted", id |-> i]]
         /\ outbox' = outbox \cup {n}
         /\ late' = IF TakenBack(a, i) THEN late \cup {a} ELSE late
  BY DEF HandleFollow, Accept
<1> HIDE DEF n
<1>8. SentForReason'
  <2> SUFFICES ASSUME NEW x \in Sent'
               PROVE  /\ x.id <= outbound[x.actor].id
                      /\ x.kind = "Undo" /\ x.id = outbound[x.actor].id
                            => outbound[x.actor].status = "undone"
                      /\ x.kind = "Accept" => Follow(x.actor, x.id) \in receipts'
    BY <1>2 DEF SentForReason, Follow
  <2>1. CASE x \in Sent
    BY <2>1, <1>2 DEF IInv, SentForReason
  <2>2. CASE x = n
    BY <2>2, <1>1, <1>2, <1>3, <1>4 DEF IInv, SentForReason
  <2> QED
    BY <2>1, <2>2, <1>6
<1>9. AllSent'
  BY <1>2, <1>6 DEF IInv, AllSent, Follow, Undo
<1>10. PeerRow'
  <2> SUFFICES ASSUME NEW b \in Actors
               PROVE  /\ inbound'[b].status = "accepted" =>
                            /\ Follow(b, inbound'[b].id) \in receipts'
                            /\ b \notin late' => Undo(b, inbound'[b].id) \notin receipts'
                      /\ inbound'[b].status = "undone" => Undo(b, inbound'[b].id) \in receipts'
                      /\ b \notin late' => \A x \in receipts' :
                            x.kind = "Follow" /\ x.actor = b => x.id <= inbound'[b].id
    BY DEF PeerRow, Follow, Undo
  <2>1. \A j : Undo(b, j) \in receipts' <=> Undo(b, j) \in receipts
    BY <1>1, <1>2 DEF Undo, Message
  <2>2. CASE inbound'[b] = inbound[b] /\ (b = a => m \in receipts \/ i = inbound[a].id)
    <3>1. b \notin late' => b \notin late
      BY <1>7
    <3>2. b \notin late' => \A x \in receipts' :
                x.kind = "Follow" /\ x.actor = b => x.id <= inbound[b].id
      BY <3>1, <2>2, <1>1, <1>2 DEF IInv, PeerRow
    <3> QED
      BY <3>1, <3>2, <2>1, <2>2, <1>2 DEF IInv, PeerRow
  <2>3. CASE /\ b = a /\ m \notin receipts /\ ~AlreadyThere(a, i)
             /\ inbound'[a] = [status |-> "accepted", id |-> i]
             /\ late' = IF TakenBack(a, i) THEN late \cup {a} ELSE late
    <3>1. inbound[a].id # i
      BY <2>3, <1>1 DEF AlreadyThere, InboundRows
    <3>2. Follow(a, i) \in receipts'
      BY <1>1, <1>2
    <3>3. ASSUME a \notin late'
          PROVE  /\ Undo(a, i) \notin receipts
                 /\ \A x \in receipts : x.kind = "Follow" /\ x.actor = a => x.id <= i
      <4>1. ~TakenBack(a, i)
        BY <2>3, <3>3
      <4>2. \A x \in receipts : x.id \in Nat
        BY DEF IInv, TypeOK, Messages
      <4> QED
        BY <4>1, <4>2, <3>1, <1>1 DEF TakenBack, Undo
    <3> QED
      BY <3>2, <3>3, <2>1, <2>3, <1>1, <1>2
  <2>4. \/ inbound'[b] = inbound[b] /\ (b = a => m \in receipts \/ i = inbound[a].id)
        \/ /\ b = a /\ m \notin receipts /\ ~AlreadyThere(a, i)
           /\ inbound'[a] = [status |-> "accepted", id |-> i]
           /\ late' = IF TakenBack(a, i) THEN late \cup {a} ELSE late
    BY <1>1, <1>7 DEF IInv, TypeOK, AlreadyThere
  <2> QED
    BY <2>2, <2>3, <2>4
<1>11. Answered'
  <2> SUFFICES ASSUME NEW b \in Actors, outbound[b].status = "pending"
               PROVE  /\ Accept(b, outbound[b].id) \notin receipts'
                      /\ inbound'[b] = [status |-> "accepted", id |-> outbound[b].id] =>
                            Accept(b, outbound[b].id) \in outbox' \cup inbox' \cup lost
    BY <1>2 DEF Answered, Accept
  <2> DEFINE c == Accept(b, outbound[b].id)
  <2>1. c.kind = "Accept"
    BY DEF Accept, Message
  <2>2. c \notin receipts'
    BY <2>1, <1>1, <1>2 DEF IInv, Answered
  <2>3. c \in outbox \cup inbox \cup lost => c \in outbox' \cup inbox' \cup lost
    BY <2>1, <1>1, <1>5, <1>7
  <2>4. CASE inbound'[b] = inbound[b]
    BY <2>2, <2>3, <2>4 DEF IInv, Answered
  <2>5. CASE b = a /\ inbound'[a] = [status |-> "accepted", id |-> i] /\ outbox' = outbox \cup {n}
    BY <2>2, <2>5 DEF n
  <2>6. \/ inbound'[b] = inbound[b]
        \/ b = a /\ inbound'[a] = [status |-> "accepted", id |-> i] /\ outbox' = outbox \cup {n}
    BY <1>7 DEF IInv, TypeOK
  <2> QED
    BY <2>4, <2>5, <2>6
<1>12. AcceptedByPeer'
  BY <1>2 DEF IInv, AcceptedByPeer
<1> QED
  BY <1>8, <1>9, <1>10, <1>11, <1>12 DEF IInv

LEMMA InvHandleUndo ==
    ASSUME IInv, TypeOK', NEW m \in inbox, HandleUndo(m)
    PROVE  IInv'
<1> DEFINE a == m.actor
           i == m.id
<1>1. /\ m.kind = "Undo" /\ a \in Actors /\ i \in Nat \ {0} /\ m = Undo(a, i)
      /\ \A b \in Actors : inbound[b] \in InboundRows /\ inbound[b].id \in Nat
  BY MessageIs DEF IInv, TypeOK, HandleUndo, Undo, InboundRows
<1>2. /\ Handled(m)
      /\ receipts' = receipts \cup {m}
      /\ UNCHANGED <<outbound, outbox, lost, late>>
      /\ inbound' = IF m \in receipts THEN inbound ELSE [inbound EXCEPT ![a] = Undone(@, i)]
  BY DEF HandleUndo
<1>3. Sent' = Sent
  BY <1>2, SentHandled DEF IInv
<1>4. inbox \subseteq inbox' \cup {m}
  BY <1>2 DEF Handled
<1>5. SentForReason'
  BY <1>2, <1>3 DEF IInv, SentForReason, Follow
<1>6. AllSent'
  BY <1>2, <1>3 DEF IInv, AllSent, Follow, Undo
<1>7. PeerRow'
  <2> SUFFICES ASSUME NEW b \in Actors
               PROVE  /\ inbound'[b].status = "accepted" =>
                            /\ Follow(b, inbound'[b].id) \in receipts'
                            /\ b \notin late => Undo(b, inbound'[b].id) \notin receipts'
                      /\ inbound'[b].status = "undone" => Undo(b, inbound'[b].id) \in receipts'
                      /\ b \notin late => \A x \in receipts' :
                            x.kind = "Follow" /\ x.actor = b => x.id <= inbound'[b].id
    BY <1>2 DEF PeerRow, Follow, Undo
  <2>1. \A x \in receipts' : x.kind = "Follow" => x \in receipts
    BY <1>1, <1>2
  <2>2. CASE b # a \/ m \in receipts
    <3>1. inbound'[b] = inbound[b]
      BY <2>2, <1>2 DEF IInv, TypeOK
    <3>2. \A j : Undo(b, j) \in receipts' <=> Undo(b, j) \in receipts
      BY <2>2, <1>1, <1>2 DEF Undo, Message
    <3> QED
      BY <3>1, <3>2, <2>1, <1>2 DEF IInv, PeerRow
  <2>3. CASE b = a /\ m \notin receipts
    <3>1. inbound'[a] = Undone(inbound[a], i)
      BY <2>3, <1>1, <1>2 DEF IInv, TypeOK
    <3>2. \A j : Undo(a, j) \in receipts' => Undo(a, j) \in receipts \/ j = i
      BY <1>1, <1>2 DEF Undo, Message
    <3>3. CASE inbound[a].status = "none"
      <4>1. inbound'[a] = [status |-> "undone", id |-> i] /\ inbound[a].id = 0
        BY <3>1, <3>3, <1>1 DEF Undone, InboundRows
      <4>2. a \notin late => \A x \in receipts : x.kind = "Follow" /\ x.actor = a => FALSE
        BY <4>1 DEF IInv, PeerRow, TypeOK, Messages
      <4> QED
        BY <4>1, <4>2, <2>1, <2>3, <1>1, <1>2
    <3>4. CASE inbound[a].status = "accepted" /\ inbound[a].id = i
      <4>1. inbound'[a].status = "undone" /\ inbound'[a].id = i
        BY <3>1, <3>4, <1>1 DEF Undone, InboundRows
      <4> QED
        BY <4>1, <3>4, <2>1, <2>3, <1>1, <1>2 DEF IInv, PeerRow
    <3>5. CASE inbound[a].status = "accepted" /\ inbound[a].id # i
      <4>1. inbound'[a] = inbound[a]
        BY <3>1, <3>5 DEF Undone
      <4> QED
        BY <4>1, <3>2, <3>5, <2>1, <2>3, <1>2 DEF IInv, PeerRow
    <3>6. CASE inbound[a].status = "undone"
      <4>1. inbound'[a] = inbound[a]
        BY <3>1, <3>6 DEF Undone
      <4> QED
        BY <4>1, <3>6, <2>1, <2>3, <1>2 DEF IInv, PeerRow
    <3> QED
      BY <3>3, <3>4, <3>5, <3>6, <1>1 DEF InboundRows
  <2> QED
    BY <2>2, <2>3
<1>8. Answered'
  <2> SUFFICES ASSUME NEW b \in Actors, outbound[b].status = "pending"
               PROVE  /\ Accept(b, outbound[b].id) \notin receipts'
                      /\ inbound'[b] = [status |-> "accepted", id |-> outbound[b].id] =>
                            Accept(b, outbound[b].id) \in outbox \cup inbox' \cup lost
    BY <1>2 DEF Answered, Accept
  <2> DEFINE c == Accept(b, outbound[b].id)
  <2>1. c.kind = "Accept"
    BY DEF Accept, Message
  <2>2. c \notin receipts'
    BY <2>1, <1>1, <1>2 DEF IInv, Answered
  <2>3. inbound'[b].status = "accepted" => inbound'[b] = inbound[b]
    BY <1>1, <1>2 DEF Undone, IInv, TypeOK, InboundRows
  <2>4. c \in inbox => c \in inbox'
    BY <2>1, <1>1, <1>4
  <2> QED
    BY <2>2, <2>3, <2>4 DEF IInv, Answered
<1>9. AcceptedByPeer'
  BY <1>2 DEF IInv, AcceptedByPeer
<1> QED
  BY <1>5, <1>6, <1>7, <1>8, <1>9 DEF IInv

LEMMA InvHandleAccept ==
    ASSUME IInv, TypeOK', NEW m \in inbox, HandleAccept(m)
    PROVE  IInv'
<1> DEFINE a == m.actor
           i == m.id
<1>1. /\ m.kind = "Accept" /\ a \in Actors /\ i \in Nat \ {0} /\ m = Accept(a, i)
      /\ \A b \in Actors : outbound[b] \in OutboundRows /\ outbound[b].id \in Nat
  BY MessageIs DEF IInv, TypeOK, HandleAccept, Accept, OutboundRows
<1>2. /\ Handled(m)
      /\ receipts' = IF outbound[a].id = i THEN receipts \cup {m} ELSE receipts
      /\ UNCHANGED <<inbound, outbox, lost, late>>
      /\ outbound' = IF m \in receipts THEN outbound ELSE [outbound EXCEPT ![a] = Accepted(@, i)]
  BY DEF HandleAccept
<1>3. inbox \subseteq inbox' \cup {m} /\ inbox' \subseteq inbox
  BY <1>2 DEF Handled
<1>4. Sent' \subseteq Sent /\ Sent \subseteq Sent' \cup {m}
  BY <1>2, <1>3 DEF Sent
<1>5. \A x \in receipts' \cup receipts : x.kind # "Accept" => (x \in receipts' <=> x \in receipts)
  BY <1>1, <1>2
<1>6. \A b \in Actors :
         \/ outbound'[b] = outbound[b]
         \/ /\ b = a /\ outbound[b].id = i /\ outbound[b].status = "pending" /\ m \notin receipts
            /\ outbound'[b].id = i /\ outbound'[b].status = "accepted"
  BY <1>1, <1>2 DEF Accepted, IInv, TypeOK, OutboundRows
<1>7. \A b, j : Follow(b, j).kind = "Follow" /\ Undo(b, j).kind = "Undo"
  BY DEF Follow, Undo, Message
<1>8. \A b, j : /\ Follow(b, j) \in receipts' <=> Follow(b, j) \in receipts
                /\ Undo(b, j) \in receipts' <=> Undo(b, j) \in receipts
                /\ Follow(b, j) \in Sent' <=> Follow(b, j) \in Sent
                /\ Undo(b, j) \in Sent' <=> Undo(b, j) \in Sent
  BY <1>1, <1>4, <1>5, <1>7
<1>9. m \in Sent
  BY DEF Sent
<1>10. SentForReason'
  <2> SUFFICES ASSUME NEW x \in Sent'
               PROVE  /\ x.id <= outbound'[x.actor].id
                      /\ x.kind = "Undo" /\ x.id = outbound'[x.actor].id
                            => outbound'[x.actor].status = "undone"
                      /\ x.kind = "Accept" => Follow(x.actor, x.id) \in receipts'
    BY DEF SentForReason, Follow
  <2>1. x \in Sent /\ x.actor \in Actors
    BY <1>4 DEF IInv, TypeOK, Sent, Messages
  <2>2. x.kind = "Accept" => Follow(x.actor, x.id) \in receipts'
    BY <2>1, <1>8 DEF IInv, SentForReason
  <2> QED
    BY <2>1, <2>2, <1>6 DEF IInv, SentForReason
<1>11. AllSent'
  <2> SUFFICES ASSUME NEW b \in Actors, NEW j \in 1..outbound'[b].id
               PROVE  /\ Follow(b, j) \in Sent'
                      /\ j < outbound'[b].id \/ outbound'[b].status = "undone"
                            => Undo(b, j) \in Sent'
    BY DEF AllSent, Follow, Undo
  <2>1. /\ outbound'[b].id = outbound[b].id
        /\ outbound'[b].status = "undone" => outbound[b].status = "undone"
    BY <1>6
  <2> QED
    BY <2>1, <1>8 DEF IInv, AllSent
<1>12. PeerRow'
  BY <1>2, <1>5, <1>8 DEF IInv, PeerRow, Follow, Undo
<1>13. Answered'
  <2> SUFFICES ASSUME NEW b \in Actors, outbound'[b].status = "pending"
               PROVE  /\ Accept(b, outbound'[b].id) \notin receipts'
                      /\ inbound[b] = [status |-> "accepted", id |-> outbound'[b].id] =>
                            Accept(b, outbound'[b].id) \in outbox \cup inbox' \cup lost
    BY <1>2 DEF Answered, Accept
  <2>1. outbound'[b] = outbound[b]
    BY <1>6
  <2>2. Accept(b, outbound[b].id) # m
    <3> SUFFICES ASSUME Accept(b, outbound[b].id) = m PROVE FALSE
      OBVIOUS
    <3>1. b = a /\ outbound[a].id = i
      BY DEF Accept, Message
    <3>2. m \notin receipts
      BY <2>1 DEF IInv, Answered
    <3>3. outbound'[a].status = "accepted"
      BY <3>1, <3>2, <2>1, <1>1, <1>2 DEF Accepted, IInv, TypeOK, OutboundRows
    <3> QED
      BY <3>1, <3>3
  <2> QED
    BY <2>1, <2>2, <1>2, <1>3 DEF IInv, Answered
<1>14. AcceptedByPeer'
  <2> SUFFICES ASSUME NEW b \in Actors, outbound'[b].status = "accepted"
               PROVE  Follow(b, outbound'[b].id) \in receipts'
    BY DEF AcceptedByPeer, Follow
  <2>1. CASE outbound'[b] = outbound[b]
    BY <2>1, <1>8 DEF IInv, AcceptedByPeer, Follow
  <2>2. CASE b = a /\ outbound'[b].id = i
    BY <2>2, <1>1, <1>8, <1>9 DEF IInv, SentForReason
  <2> QED
    BY <2>1, <2>2, <1>6
<1> QED
  BY <1>10, <1>11, <1>12, <1>13, <1>14 DEF IInv

LEMMA InvStep == IInv /\ [Next]_vars => IInv'
<1> SUFFICES ASSUME IInv, [Next]_vars PROVE IInv'
  OBVIOUS
<1>1. TypeOK /\ TypeOK'
  BY TypeStep DEF IInv
<1>2. ASSUME NEW a \in Actors, RequestFollow(a) \/ RequestUndo(a) PROVE IInv'
  BY <1>1, <1>2, InvRequestFollow, InvRequestUndo
<1>3. ASSUME NEW m \in inbox, Handle(m) PROVE IInv'
  BY <1>1, <1>3, InvHandleFollow, InvHandleUndo, InvHandleAccept DEF Handle
<1>4. CASE Moves
  BY <1>1, <1>4, InvMoves
<1> QED
  BY <1>1, <1>2, <1>3, <1>4, MovesOf DEF Next

THEOREM Invariant == Spec => []IInv
BY InvInit, InvStep, PTL DEF Spec

-----------------------------------------------------------------------------
(* What the invariant gives. *)

\* With nothing under way or lost, what was sent about an actor was received.
LEMMA QuietReceived ==
    ASSUME TypeOK, NEW a \in Actors, Quiet(a), NEW m \in Sent, m.actor = a
    PROVE  m \in receipts
BY DEF Quiet, About, Sent

\* The row of the peer is of the last generation, if it was never taken back.
LEMMA QuietGeneration ==
    ASSUME IInv, NEW a \in Actors, Quiet(a), a \notin late, outbound[a].status # "none"
    PROVE  inbound[a].id = outbound[a].id
<1> DEFINE i == outbound[a].id
<1>1. i \in Nat \ {0} /\ inbound[a].id \in Nat
  BY DEF IInv, TypeOK, OutboundRows, InboundRows
<1>2. Follow(a, i) \in Sent
  BY <1>1 DEF IInv, AllSent
<1>3. Follow(a, i).kind = "Follow" /\ Follow(a, i).actor = a /\ Follow(a, i).id = i
  BY DEF Follow, Message
<1>4. Follow(a, i) \in receipts
  BY <1>2, <1>3, QuietReceived DEF IInv
<1>5. i <= inbound[a].id
  BY <1>3, <1>4 DEF IInv, PeerRow
<1>6. inbound[a].id <= i
  BY PeerRowOld
<1> QED
  BY <1>1, <1>5, <1>6

LEMMA AgreementHolds == IInv => FollowsAgreeInOrder
<1> SUFFICES ASSUME IInv, NEW a \in Actors, Quiet(a), a \notin late
             PROVE  Agree(a)
  BY DEF FollowsAgreeInOrder
<1> DEFINE o == outbound[a]
           n == inbound[a]
<1>1. o \in OutboundRows /\ n \in InboundRows
  BY DEF IInv, TypeOK
<1>2. \A j : /\ Undo(a, j).kind = "Undo" /\ Undo(a, j).actor = a /\ Undo(a, j).id = j
             /\ Accept(a, j).actor = a
  BY DEF Undo, Accept, Message
<1>3. CASE o.status = "none"
  <2>1. n.id <= 0
    BY <1>1, <1>3, PeerRowOld DEF OutboundRows
  <2>2. n.status = "none"
    BY <1>1, <2>1 DEF InboundRows
  <2> QED
    BY <1>3, <2>2 DEF Agree
<1>4. CASE o.status \in {"pending", "accepted"}
  <2>1. n.id = o.id
    BY <1>4, QuietGeneration
  <2>2. n.status # "undone"
    <3>1. n.status = "undone" => Undo(a, o.id) \in Sent
      BY <2>1 DEF IInv, PeerRow, Sent
    <3> QED
      BY <3>1, <1>2, <1>4 DEF IInv, SentForReason
  <2>3. n.status = "accepted"
    BY <1>1, <1>4, <2>1, <2>2 DEF InboundRows, OutboundRows
  <2>4. n = [status |-> "accepted", id |-> o.id]
    BY <1>1, <2>1, <2>3 DEF InboundRows
  <2>5. o.status # "pending"
    <3>1. Accept(a, o.id) \notin outbox \cup inbox \cup lost
      BY <1>2 DEF Quiet, About
    <3> QED
      BY <2>4, <3>1 DEF IInv, Answered
  <2>6. o = [status |-> "accepted", id |-> o.id]
    BY <1>1, <1>4, <2>5 DEF OutboundRows
  <2> QED
    BY <2>4, <2>5, <2>6 DEF Agree
<1>5. CASE o.status = "undone"
  <2>1. n.id = o.id /\ o.id \in 1..o.id
    BY <1>1, <1>5, QuietGeneration DEF OutboundRows
  <2>2. Undo(a, o.id) \in Sent
    BY <1>5, <2>1 DEF IInv, AllSent
  <2>3. Undo(a, o.id) \in receipts
    BY <1>2, <2>2, QuietReceived DEF IInv
  <2>4. n.status # "accepted"
    BY <2>1, <2>3 DEF IInv, PeerRow
  <2> QED
    BY <1>5, <2>4 DEF Agree
<1> QED
  BY <1>1, <1>3, <1>4, <1>5 DEF OutboundRows

\* Whatever is undone, asked for again, handled twice or out of order: once nothing
\* is under way or lost, both activitypub_follows rows say the same, unless the
\* peer handled a Follow after what came later than it.
THEOREM AgreementInOrder == Spec => []FollowsAgreeInOrder
BY Invariant, AgreementHolds, PTL

\* Only a generation whose Follow the peer has received counts as accepted on the
\* subscribing side.
THEOREM AcceptedByPeerAlways == Spec => []AcceptedByPeer
<1>1. IInv => AcceptedByPeer
  BY DEF IInv
<1> QED
  BY <1>1, Invariant, PTL

\* An undone subscription is taken up by a new Follow and by nothing else.
THEOREM UndoneStays == Spec => UndoneForGood
<1> DEFINE Undid == \A a \in Actors :
              outbound[a].status = "undone" /\ outbound'[a] # outbound[a] =>
                 outbound'[a] = [status |-> "pending", id |-> outbound[a].id + 1]
<1>1. TypeOK /\ [Next]_vars => [Undid]_vars
  <2> SUFFICES ASSUME TypeOK, Next,
                      NEW a \in Actors, outbound[a].status = "undone", outbound'[a] # outbound[a]
               PROVE  outbound'[a] = [status |-> "pending", id |-> outbound[a].id + 1]
    OBVIOUS
  <2>1. ASSUME NEW b \in Actors, RequestFollow(b)
        PROVE  outbound'[a] = [status |-> "pending", id |-> outbound[a].id + 1]
    BY <2>1 DEF RequestFollow, TypeOK
  <2>2. ASSUME NEW b \in Actors, RequestUndo(b) PROVE FALSE
    BY <2>2 DEF RequestUndo, TypeOK
  <2>3. ASSUME NEW m \in inbox, HandleFollow(m) \/ HandleUndo(m) PROVE FALSE
    BY <2>3 DEF HandleFollow, HandleUndo
  <2>4. ASSUME NEW m \in inbox, HandleAccept(m) PROVE FALSE
    <3>1. m.actor \in Actors
      BY DEF TypeOK, Messages
    <3> QED
      BY <2>4, <3>1 DEF HandleAccept, Accepted, TypeOK
  <2>5. CASE Moves
    BY <2>5 DEF Moves
  <2> QED
    BY <2>1, <2>2, <2>3, <2>4, <2>5, MovesOf DEF Next, Handle
<1>2. Spec => [][Undid]_vars
  BY <1>1, TypeCorrect, PTL DEF Spec
<1> QED
  BY <1>2 DEF UndoneForGood
=============================================================================
