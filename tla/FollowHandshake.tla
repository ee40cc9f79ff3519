--------------------------- MODULE FollowHandshake ---------------------------
(***************************************************************************)
(* How local actors subscribe to an actor of another instance that runs    *)
(* the same code (packages/activitypub: follow-repository.ts,              *)
(* follow-use-cases.ts, federated-report-repository.ts): the subscribing   *)
(* side keeps one outbound row per actor, the peer one inbound row.  They  *)
(* exchange Follow, Accept and Undo activities; each Follow has an URI of  *)
(* its own, its generation.  Whose row is accepted at the peer is sent its *)
(* reports; they are saved for whose row is accepted on this side.         *)
(*                                                                         *)
(* A message is enqueued in the transaction that changes the row, POSTed   *)
(* by the sender's outbox (DeliveryQueue: only messages with one ordering  *)
(* key are kept in order, and a failed one takes the later ones of its key *)
(* with it), and handled from the receiver's inbox in any order.           *)
(*                                                                         *)
(* A definition that stands just before another one and bears its name     *)
(* with a qualifier is a faulty variant that the specification does not    *)
(* use: it shows which property would catch that fault.                    *)
(***************************************************************************)
EXTENDS Integers, FiniteSets

CONSTANTS
    Actors,      \* local actors, one for each project
    Reports,     \* reports of the peer's actor
    MaxFollows,  \* bound: how often each actor follows (a function)
    MaxFaults    \* bound: messages lost, ignored or handled again

ASSUME FollowsAssumption == MaxFollows \in [Actors -> Nat]
ASSUME FaultsAssumption  == MaxFaults \in Nat

VARIABLES
    enabled,    \* activitypub_actors.enabled of this side, by local actor
    outbound,   \* activitypub_follows of this side, by local actor
    inbound,    \* activitypub_follows of the peer, by remote actor
    outbox,     \* Follow, Undo and Accept messages to be delivered
    inbox,      \* those delivered and to be handled
    receipts,   \* the ones whose activity_uri the receiving side has recorded
    posts,      \* where each report is: its Create or Announce goes to the shared inbox
    saved,      \* federated_reports: the actors and the reports saved for their projects
    lost,       \* messages that will have no effect
    late,       \* actors of whom a Follow was handled after what came later
    faults      \* how much of the budget is spent

follows  == <<outbound, inbound>>
messages == <<outbox, inbox, receipts>>
vars     == <<enabled, follows, messages, posts, saved, lost, late, faults>>

-----------------------------------------------------------------------------
(* State. *)

Messages == [kind : {"Follow", "Undo", "Accept"}, actor : Actors, id : Nat \ {0}]
Message(kind, a, i) == [kind |-> kind, actor |-> a, id |-> i]

\* id: the generation of follow_activity_uri, 0 without a row.
OutboundRows == {f \in [status : {"none", "pending", "accepted", "undone"}, id : Nat] :
                    f.status = "none" <=> f.id = 0}
InboundRows  == {f \in [status : {"none", "accepted", "undone"}, id : Nat] :
                    f.status = "none" <=> f.id = 0}

TypeOK == /\ enabled \in [Actors -> BOOLEAN]
          /\ outbound \in [Actors -> OutboundRows]
          /\ inbound \in [Actors -> InboundRows]
          /\ outbox \subseteq Messages /\ inbox \subseteq Messages
          /\ receipts \subseteq Messages /\ lost \subseteq Messages
          /\ posts \in [Reports -> {"unwritten", "outbox", "inbox", "handled", "lost"}]
          /\ saved \subseteq Actors \X Reports
          /\ late \subseteq Actors
          /\ faults \in Nat

Init == /\ enabled = [a \in Actors |-> TRUE]
        /\ outbound = [a \in Actors |-> [status |-> "none", id |-> 0]]
        /\ inbound = [a \in Actors |-> [status |-> "none", id |-> 0]]
        /\ outbox = {} /\ inbox = {} /\ receipts = {}
        /\ posts = [r \in Reports |-> "unwritten"]
        /\ saved = {} /\ lost = {} /\ late = {} /\ faults = 0

Fault == faults < MaxFaults /\ faults' = faults + 1

-----------------------------------------------------------------------------
(* This side: requests.  Each looks whether the actor is enabled before its  *)
(* transaction begins, so it may have been disabled since.                   *)

\* The project's administrator turns federation off, and on again.
SetEnabled(a) ==
    /\ enabled' = [enabled EXCEPT ![a] = ~@]
    /\ UNCHANGED <<follows, messages, posts, saved, lost, late, faults>>

\* A new generation, also after an Undo; a pending or accepted row stays as it is
\* and nothing is sent, its receipt being there.
RequestFollow(a) ==
    LET i == outbound[a].id + 1 IN
    /\ outbound[a].status \in {"none", "undone"}
    /\ i <= MaxFollows[a]
    /\ outbound' = [outbound EXCEPT ![a] = [status |-> "pending", id |-> i]]
    /\ outbox' = outbox \cup {Message("Follow", a, i)}
    /\ UNCHANGED <<enabled, inbound, inbox, receipts, posts, saved, lost, late, faults>>

RequestUndo(a) ==
    /\ outbound[a].status \in {"pending", "accepted"}
    /\ outbound' = [outbound EXCEPT ![a].status = "undone"]
    /\ outbox' = outbox \cup {Message("Undo", a, outbound[a].id)}
    /\ UNCHANGED <<enabled, inbound, inbox, receipts, posts, saved, lost, late, faults>>

-----------------------------------------------------------------------------
(* Delivery.  A Follow and its Undo have one ordering key. *)

Prior(m) == Message("Follow", m.actor, m.id)
Deliverable(m) == m.kind = "Undo" => Prior(m) \notin outbox \cup lost

Deliver(m) ==
    /\ m \in outbox /\ Deliverable(m)
    /\ outbox' = outbox \ {m}
    /\ inbox' = inbox \cup {m}
    /\ UNCHANGED <<enabled, follows, receipts, posts, saved, lost, late, faults>>

\* An actor that is disabled is not there for its peer, who cannot verify what it
\* sends, nor for an Accept.
Hidden(m) == ~enabled[m.actor]

\* The attempts are spent, or the key's Follow failed.
Exhaust(m) ==
    /\ m \in outbox
    /\ \/ Deliverable(m) /\ Fault
       \/ Deliverable(m) /\ Hidden(m) /\ m.kind # "Accept" /\ UNCHANGED faults
       \/ m.kind = "Undo" /\ Prior(m) \in lost /\ UNCHANGED faults
    /\ outbox' = outbox \ {m}
    /\ lost' = lost \cup {m}
    /\ UNCHANGED <<enabled, follows, inbox, receipts, posts, saved, late>>

\* A message is handled without effect (its actor cannot be resolved, is not
\* visible or not the one that is meant), or its attempts are spent.
Ignore(m) ==
    /\ m \in inbox
    /\ Fault \/ (Hidden(m) /\ UNCHANGED faults)
    /\ inbox' = inbox \ {m}
    /\ lost' = lost \cup {m}
    /\ UNCHANGED <<enabled, follows, outbox, receipts, posts, saved, late>>

\* The message is done with, or the worker dies before it can say so.
Handled(m) ==
    \/ inbox' = inbox \ {m} /\ UNCHANGED faults
    \/ Fault /\ UNCHANGED inbox

-----------------------------------------------------------------------------
(* The peer: recordInboundFollow, recordInboundUndoFollow. *)

\* A Follow after its own Undo, or again, changes nothing; any other one does.
AlreadyThereByStatus(a, i) == inbound[a].status = "undone"
AlreadyThere(a, i) == inbound[a].status \in {"accepted", "undone"} /\ inbound[a].id = i

\* History only: the row had gone on to what came later, and this Follow takes it back.
TakenBack(a, i) ==
    /\ inbound[a].id # i
    /\ Message("Undo", a, i) \in receipts
       \/ \E m \in receipts : m.kind = "Follow" /\ m.actor = a /\ m.id > i

HandleFollow(m) ==
    LET a == m.actor  i == m.id IN
    /\ m \in inbox /\ m.kind = "Follow"
    /\ Handled(m)
    /\ receipts' = receipts \cup {m}
    /\ IF m \in receipts \/ AlreadyThere(a, i)
       THEN UNCHANGED <<inbound, outbox, late>>
       ELSE /\ inbound' = [inbound EXCEPT ![a] = [status |-> "accepted", id |-> i]]
            /\ outbox' = outbox \cup {Message("Accept", a, i)}
            /\ late' = IF TakenBack(a, i) THEN late \cup {a} ELSE late
    /\ UNCHANGED <<enabled, outbound, posts, saved, lost>>

\* An Undo that comes first leaves a row for its Follow to meet; one of an earlier
\* generation is ignored.
UndoneNameless(f, i) == IF f.status = "none" THEN [f EXCEPT !.status = "undone"] ELSE f
UndoneAny(f, i) == IF f.status = "none" THEN [status |-> "undone", id |-> i]
                   ELSE [f EXCEPT !.status = "undone"]
Undone(f, i) ==
    CASE f.status = "none"     -> [status |-> "undone", id |-> i]
      [] f.status = "accepted" -> IF f.id = i THEN [f EXCEPT !.status = "undone"] ELSE f
      [] f.status = "undone"   -> f

HandleUndo(m) ==
    /\ m \in inbox /\ m.kind = "Undo"
    /\ Handled(m)
    /\ receipts' = receipts \cup {m}
    /\ inbound' = IF m \in receipts THEN inbound
                  ELSE [inbound EXCEPT ![m.actor] = Undone(@, m.id)]
    /\ UNCHANGED <<enabled, outbound, outbox, posts, saved, lost, late>>

-----------------------------------------------------------------------------
(* This side: recordOutboundAcceptReceipt. *)

\* The row with the Follow's URI is looked for; its status decides.
AcceptedAny(f, i) == IF f.status = "pending" THEN [f EXCEPT !.status = "accepted"] ELSE f
AcceptedUndone(f, i) == IF f.id = i THEN [f EXCEPT !.status = "accepted"] ELSE f
Accepted(f, i) == IF f.id = i /\ f.status = "pending" THEN [f EXCEPT !.status = "accepted"] ELSE f

HandleAccept(m) ==
    LET a == m.actor IN
    /\ m \in inbox /\ m.kind = "Accept"
    /\ Handled(m)
    /\ receipts' = IF outbound[a].id = m.id THEN receipts \cup {m} ELSE receipts
    /\ outbound' = IF m \in receipts THEN outbound
                   ELSE [outbound EXCEPT ![a] = Accepted(@, m.id)]
    /\ UNCHANGED <<enabled, inbound, outbox, posts, saved, lost, late>>

-----------------------------------------------------------------------------
(* Reports of the peer. *)

\* Its followers are one instance's: one message to the shared inbox.
Publish(r) ==
    /\ posts[r] = "unwritten"
    /\ \E a \in Actors : inbound[a].status = "accepted"
    /\ posts' = [posts EXCEPT ![r] = "outbox"]
    /\ UNCHANGED <<enabled, follows, messages, saved, lost, late, faults>>

DeliverReport(r) ==
    /\ posts[r] = "outbox"
    /\ posts' = [posts EXCEPT ![r] = "inbox"]
    /\ UNCHANGED <<enabled, follows, messages, saved, lost, late, faults>>

\* saveInboundReport: the accepted rows of enabled actors are locked, and a report
\* is saved for each project; without any the report is not looked at again.  What
\* comes to the shared inbox is meant for any of them (no recipient).
SubscribersFirst == {a \in Actors : outbound[a] = [status |-> "accepted", id |-> 1] /\ enabled[a]}
Subscribers == {a \in Actors : outbound[a].status = "accepted" /\ enabled[a]}

HandleReport(r) ==
    /\ posts[r] = "inbox"
    /\ saved' = saved \cup (Subscribers \X {r})
    /\ \/ posts' = [posts EXCEPT ![r] = "handled"] /\ UNCHANGED faults
       \/ Fault /\ UNCHANGED posts
    /\ UNCHANGED <<enabled, follows, messages, lost, late>>

\* Attempts spent, a malformed article, or one fetch of an announced one that fails.
LoseReport(r) ==
    /\ posts[r] \in {"outbox", "inbox"}
    /\ Fault
    /\ posts' = [posts EXCEPT ![r] = "lost"]
    /\ UNCHANGED <<enabled, follows, messages, saved, lost, late>>

-----------------------------------------------------------------------------

Handle(m) == HandleFollow(m) \/ HandleUndo(m) \/ HandleAccept(m)

Next == \/ \E a \in Actors : SetEnabled(a) \/ RequestFollow(a) \/ RequestUndo(a)
        \/ \E m \in outbox : Deliver(m) \/ Exhaust(m)
        \/ \E m \in inbox : Ignore(m) \/ Handle(m)
        \/ \E r \in Reports : Publish(r) \/ DeliverReport(r) \/ HandleReport(r) \/ LoseReport(r)

Spec == Init /\ [][Next]_vars

\* Every message that can be delivered or handled is, in the end, or its attempts
\* are spent: the dispatcher is started again and again, and DeliveryQueue settles
\* what it claims.
SomeMessages == [kind : {"Follow", "Undo", "Accept"}, actor : Actors,
                 id : UNION {1..MaxFollows[a] : a \in Actors}]
Fairness == /\ \A m \in SomeMessages : WF_vars(Deliver(m) \/ Exhaust(m)) /\ WF_vars(Handle(m) \/ Ignore(m))
            /\ \A r \in Reports : WF_vars(DeliverReport(r)) /\ WF_vars(HandleReport(r))

FairSpec == Spec /\ Fairness
-----------------------------------------------------------------------------
(* Properties. *)

About(a, ms) == {m \in ms : m.actor = a}
Quiet(a) == About(a, outbox \cup inbox \cup lost) = {}

Agree(a) ==
    /\ outbound[a].status # "pending"
    /\ outbound[a].status = "accepted" => inbound[a] = outbound[a]
    /\ outbound[a].status # "accepted" => inbound[a].status # "accepted"

\* Once nothing is under way, both sides agree on who follows, whatever was
\* undone, asked for again, handled twice or out of order (an Undo before its
\* Follow, an Undo or Accept of an earlier generation), unless a Follow took the
\* row back from what came later.
FollowsAgreeInOrder == \A a \in Actors : Quiet(a) /\ a \notin late => Agree(a)

\* An actor counts as subscribed only with the generation the peer has accepted,
\* not by an answer to an earlier one (recordOutboundAcceptReceipt looks for the
\* row by the Follow's URI).
AcceptedByPeer ==
    \A a \in Actors : outbound[a].status = "accepted" =>
        Message("Follow", a, outbound[a].id) \in receipts

\* An Accept that comes after the Undo does not bring a subscription back: it is
\* taken up again only by a new Follow (requestOutboundFollow).
UndoneForGood ==
    [][\A a \in Actors : outbound[a].status = "undone" /\ outbound'[a] # outbound[a] =>
          outbound'[a] = [status |-> "pending", id |-> outbound[a].id + 1]]_vars

\* What is asked for is answered, unless a message was lost (its attempts spent, or
\* its actor disabled) or it is undone.
EventuallyAnswered ==
    \A a \in Actors : outbound[a].status = "pending" ~>
        outbound[a].status # "pending" \/ About(a, lost) # {}

Subscribed(a) == outbound[a].status = "accepted" /\ enabled[a]

\* A report under way is saved for every actor who is subscribed and enabled and
\* stays so.
EventuallySaved ==
    \A a \in Actors, r \in Reports :
        posts[r] \in {"outbox", "inbox"} /\ Subscribed(a) ~>
            <<a, r>> \in saved \/ posts[r] = "lost" \/ ~Subscribed(a)
=============================================================================
