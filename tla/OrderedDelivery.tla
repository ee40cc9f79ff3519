-------------------------- MODULE OrderedDelivery --------------------------
(***************************************************************************)
(* What the ActivityPub delivery queue promises to the rest of the system, *)
(* with the leases, retries and workers left out: the messages of one      *)
(* ordering sequence settle in the order they were enqueued, a receiver is *)
(* handed a message only after every earlier message of its sequence was   *)
(* delivered, and a message is recorded as delivered only when a receiver  *)
(* did accept it.  DeliveryQueue implements this specification.            *)
(***************************************************************************)
EXTENDS Integers

CONSTANTS Msgs,       \* messages, numbered in the order (created_at, id)
          Sequence,   \* the ordering sequence of each message, or NoSequence
          NoSequence

VARIABLES phase,      \* what is recorded of each message
          accepted    \* the messages some receiver has accepted

vars == <<phase, accepted>>

Phases == {"absent", "open", "delivered", "failed"}

\* The earlier messages of m's ordering sequence.
Older(m) == {p \in Msgs : /\ p < m
                          /\ Sequence[p] = Sequence[m]
                          /\ Sequence[m] # NoSequence}

TypeOK == /\ phase \in [Msgs -> Phases]
          /\ accepted \subseteq Msgs

Init == /\ phase = [m \in Msgs |-> "absent"]
        /\ accepted = {}

Submit(m) ==
    /\ phase[m] = "absent"
    /\ \A n \in Msgs : m \in Older(n) => phase[n] = "absent"
    /\ phase' = [phase EXCEPT ![m] = "open"]
    /\ UNCHANGED accepted

\* A receiver takes the message.  It may take it again after it was settled: a
\* worker that lost its lease still finishes its request.
Accept(m) ==
    /\ phase[m] # "absent"
    /\ \A p \in Older(m) : phase[p] \in {"delivered", "absent"}
    /\ accepted' = accepted \cup {m}
    /\ UNCHANGED phase

Deliver(m) ==
    /\ phase[m] = "open"
    /\ m \in accepted
    /\ phase' = [phase EXCEPT ![m] = "delivered"]
    /\ UNCHANGED accepted

\* Messages are given up, each of them after every earlier one is settled.
Fail(S) ==
    /\ \A m \in S : phase[m] = "open" /\ \A p \in Older(m) : phase[p] # "open"
    /\ phase' = [m \in Msgs |-> IF m \in S THEN "failed" ELSE phase[m]]
    /\ UNCHANGED accepted

\* An operator puts a given-up message back.
Reopen(m) ==
    /\ phase[m] = "failed"
    /\ phase' = [phase EXCEPT ![m] = "open"]
    /\ UNCHANGED accepted

Next == \/ \E m \in Msgs : Submit(m) \/ Accept(m) \/ Deliver(m) \/ Reopen(m)
        \/ \E S \in SUBSET Msgs : Fail(S)

Spec == Init /\ [][Next]_vars

\* A message reaches a receiver only after its predecessors were delivered.
AcceptedInOrder ==
    \A m \in accepted : \A p \in Older(m) : phase[p] \in {"delivered", "absent"}
=============================================================================
