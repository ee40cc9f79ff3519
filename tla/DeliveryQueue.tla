--------------------------- MODULE DeliveryQueue ---------------------------
(***************************************************************************)
(* The PostgreSQL delivery queue of the ActivityPub package: the table     *)
(* activitypub_queue_messages, the transactions that enqueue into it, the  *)
(* dispatcher runs that claim, deliver and finalize one message at a time  *)
(* under a lease extended by a heartbeat, and the operator decisions on    *)
(* exhausted messages (postgres.ts, dispatcher.ts, delivery-heartbeat.ts,  *)
(* operations.ts of packages/activitypub/src).                             *)
(*                                                                         *)
(* Time is kept as countdowns (what is left of a delay or of a lease), so  *)
(* there is no clock to bound.  A dispatcher run works on one message at a *)
(* time and forgets its claim before the next one; a worker's identity     *)
(* therefore stands for the random worker_token of its current claim.      *)
(* Every statement or transaction of the code is one action; what happens  *)
(* between two of them interleaves with every other process.               *)
(*                                                                         *)
(* A definition that stands just before another one and bears its name     *)
(* with a qualifier (LapsedEarly before Lapsed) is a faulty variant of it: *)
(* the specification does not use it, it shows which property would catch  *)
(* that fault.                                                             *)
(***************************************************************************)
EXTENDS Integers, Sequences, FiniteSets

CONSTANTS
    Msgs,             \* messages, numbered in the order (created_at, id)
    Sequence,         \* ordering_key and recipient_origin of a message; an
                      \* inbox message has neither: NoSequence
    NoSequence,
    Workers,          \* dispatcher runs that may be alive at the same time
    None,             \* SQL NULL in worker_token
    Writers,          \* enqueue transactions that may be open at the same time
    Lease,            \* DISPATCHER_LEASE_MS, in ticks
    MaxLease,         \* DISPATCHER_MAX_LEASE_FROM_ATTEMPT_MS, in ticks
    MaxAttempts,      \* DISPATCHER_MAX_ATTEMPTS
    RetryDelays,      \* DISPATCHER_RETRY_DELAYS_MS, in ticks
    RetryAfterDelays, \* delays a receiver may ask for with Retry-After (clamped)
    ScanLimit,        \* LIMIT of the candidate query
    MaxFaults,        \* bound: crashes, database errors, lapses of a live lease
    MaxRequeues       \* bound: operator requeues

ASSUME MsgsAssumption     == Msgs \subseteq Nat /\ IsFiniteSet(Msgs)
ASSUME SequenceAssumption == Sequence = [m \in Msgs |-> Sequence[m]]
ASSUME WorkersAssumption  == None \notin Workers \cup Msgs
ASSUME LeaseAssumption    == /\ Lease \in Nat \ {0}
                             /\ MaxLease \in Nat
                             /\ Lease <= MaxLease
ASSUME RetryAssumption    == /\ MaxAttempts \in Nat \ {0}
                             /\ RetryDelays \in Seq(Nat)
                             /\ Len(RetryDelays) > 0
                             /\ RetryAfterDelays \subseteq Nat
ASSUME BoundsAssumption   == {Writers, ScanLimit, MaxFaults, MaxRequeues} \subseteq Nat

VARIABLES
    row,       \* the table: one row per message, once its transaction commits
    worker,    \* what each dispatcher run has in hand
    posted,    \* messages some worker has sent to their receiver
    accepted,  \* messages some receiver has accepted
    faults,    \* how much of the fault budget is spent
    requeues   \* how much of the requeue budget is spent

vars == <<row, worker, posted, accepted, faults, requeues>>

Failed   == {"retry_exhausted", "permanent_failure"}
Terminal == Failed \cup {"succeeded"}
Waiting  == {"pending", "retry_wait"}
Unseen   == {"absent", "open"}       \* not committed: no other session sees the row
Statuses == Terminal \cup Waiting \cup Unseen \cup {"running"}

Rows == [status : Statuses, wait : Nat, attempts : Nat,
         token : Workers \cup {None}, lease : 0..MaxLease, age : 0..MaxLease]

Outcomes == {"ok", "retryable", "rejected"}

\* ext is what an in-flight heartbeat computed at its SELECT and has yet to
\* write: the rest of the lease it proposes.
WorkerStates == [pc : {"idle", "delivering", "stopping", "finalizing"},
                 msg : Msgs \cup {None}, attempt : Nat, beating : BOOLEAN,
                 ext : 0..MaxLease, lost : BOOLEAN, outcome : Outcomes]

IdleWorker == [pc |-> "idle", msg |-> None, attempt |-> 0, beating |-> FALSE,
               ext |-> 0, lost |-> FALSE, outcome |-> "ok"]

TypeOK == /\ row \in [Msgs -> Rows]
          /\ worker \in [Workers -> WorkerStates]
          /\ posted \subseteq Msgs
          /\ accepted \subseteq Msgs
          /\ faults \in Nat
          /\ requeues \in Nat

AbsentRow == [status |-> "absent", wait |-> 0, attempts |-> 0,
              token |-> None, lease |-> 0, age |-> 0]

Init == /\ row = [m \in Msgs |-> AbsentRow]
        /\ worker = [w \in Workers |-> IdleWorker]
        /\ posted = {}
        /\ accepted = {}
        /\ faults = 0
        /\ requeues = 0

-----------------------------------------------------------------------------
(* The order of a sequence. *)

Kind(m) == IF Sequence[m] = NoSequence THEN "inbox" ELSE "outbox"

Older(m) == {p \in Msgs : /\ p < m
                          /\ Sequence[p] = Sequence[m]
                          /\ Sequence[m] # NoSequence}

\* The row leaves its lease: status s, due again after d.
Released(r, s, d) ==
    [r EXCEPT !.status = s, !.wait = d, !.token = None, !.lease = 0, !.age = 0]

Charge(n) == faults + n <= MaxFaults /\ faults' = faults + n

-----------------------------------------------------------------------------
(* Enqueue: created_at is the start of the transaction, other sessions see  *)
(* the row when it commits.  A transaction that rolls back or meets ON      *)
(* CONFLICT DO NOTHING leaves no row and is not modelled: it is a number    *)
(* that is skipped.                                                         *)

EnqueueBegin(m) ==
    /\ row[m].status = "absent"
    /\ \A n \in Msgs : n > m => row[n].status = "absent"
    /\ Cardinality({n \in Msgs : row[n].status = "open"}) < Writers
    /\ row' = [row EXCEPT ![m].status = "open"]
    /\ UNCHANGED <<worker, posted, accepted, faults, requeues>>

EnqueueCommit(m) ==
    /\ row[m].status = "open"
    /\ row' = [row EXCEPT ![m].status = "pending"]
    /\ UNCHANGED <<worker, posted, accepted, faults, requeues>>

-----------------------------------------------------------------------------
(* Claim: one transaction that returns every expired lease to the queue,    *)
(* reads the due candidates of the preferred kind, and of the other one if  *)
(* it could claim none, gives up those whose predecessor failed and leases  *)
(* the first of the others.                                                 *)

LapsedEarly(r) == r.status = "running" /\ r.lease <= 1
LapsedAtCap(r) == r.status = "running" /\ r.lease = 0 /\ r.age = MaxLease
Lapsed(r) == r.status = "running" /\ r.lease = 0

Recovered(rows) ==
    [m \in Msgs |-> IF Lapsed(rows[m]) THEN Released(rows[m], "pending", 0)
                                       ELSE rows[m]]

Due(rows, m) == rows[m].status \in Waiting /\ rows[m].wait = 0

Candidate(rows, m) ==
    /\ Due(rows, m)
    /\ \A p \in Older(m) : rows[p].status \in Terminal \cup Unseen

\* The candidates the query returns: not those another claim has locked, and
\* at most ScanLimit of them, oldest first.
Scan(rows, kind, locked) ==
    LET found == {m \in Msgs \ locked : Kind(m) = kind /\ Candidate(rows, m)}
    IN  {m \in found : Cardinality({n \in found : n < m}) < ScanLimit}

\* The predecessors that did not succeed; the oldest one decides.
Unfinished(rows, m) == {p \in Older(m) : rows[p].status \notin Unseen \cup {"succeeded"}}
Oldest(S) == CHOOSE m \in S : \A n \in S : m <= n

GateBlind(rows, m) ==
    IF \E p \in Unfinished(rows, m) : rows[p].status \notin Failed THEN "block"
                                                                    ELSE "claim"
Gate(rows, m) ==
    IF Unfinished(rows, m) = {} THEN "claim"
    ELSE IF rows[Oldest(Unfinished(rows, m))].status \in Failed THEN "terminalize"
    ELSE "block"

Claimable(rows, S) == {m \in S : Gate(rows, m) = "claim"}

\* The loop over the candidates ends at the first one it can claim.
PassedOver(rows, S) ==
    {m \in S : /\ Gate(rows, m) = "terminalize"
               /\ \A c \in Claimable(rows, S) : m < c}

GiveUp(rows, S) ==
    [m \in Msgs |->
        IF m \in PassedOver(rows, S)
        THEN Released(rows[m], rows[Oldest(Unfinished(rows, m))].status, 0)
        ELSE rows[m]]

Leased(r, w) == [r EXCEPT !.status = "running", !.token = w, !.lease = Lease,
                          !.age = 0, !.wait = 0, !.attempts = @ + 1]

\* One claim transaction of w over the rows; locked are rows that a concurrent
\* claim of another run has locked (SKIP LOCKED).
ClaimWith(w, kind, locked) ==
    LET other == IF kind = "inbox" THEN "outbox" ELSE "inbox"
        rows0 == Recovered(row)
        scan1 == Scan(rows0, kind, locked)
        rows1 == GiveUp(rows0, scan1)
        scan2 == IF Claimable(rows0, scan1) # {} THEN {} ELSE Scan(rows1, other, locked)
        rows2 == GiveUp(rows1, scan2)
        ready == Claimable(rows0, scan1) \cup Claimable(rows1, scan2)
    IN  /\ worker[w].pc = "idle"
        /\ \/ /\ ready = {}
              /\ row' = rows2
              /\ UNCHANGED worker
           \/ \E m \in ready :
              /\ \A n \in ready : m <= n
              /\ row' = [rows2 EXCEPT ![m] = Leased(rows2[m], w)]
              /\ worker' = [worker EXCEPT ![w] =
                   [IdleWorker EXCEPT !.pc = "delivering", !.msg = m,
                                      !.attempt = rows2[m].attempts + 1]]
        /\ UNCHANGED <<posted, accepted, faults, requeues>>

Claim(w) ==
    \E kind \in {"inbox", "outbox"}, locked \in SUBSET Msgs :
        /\ locked # {} => \E v \in Workers \ {w} : worker[v].pc = "idle"
        /\ ClaimWith(w, kind, locked)

\* A claim that meets no lock of another run.
ClaimAlone(w) == \E kind \in {"inbox", "outbox"} : ClaimWith(w, kind, {})

-----------------------------------------------------------------------------
(* Fencing: a statement of a worker matches its row only with its own token *)
(* while the row runs under an unexpired lease.                             *)

Holds(w) == /\ worker[w].pc # "idle"
            /\ row[worker[w].msg].status = "running"
            /\ row[worker[w].msg].token = w

FencedByStatus(w) == /\ worker[w].pc # "idle"
                     /\ row[worker[w].msg].status = "running"
Fenced(w) == Holds(w) /\ row[worker[w].msg].lease > 0

(* Heartbeat: a timer while the delivery runs, one extension at a time; the  *)
(* extension is a SELECT and an UPDATE with time in between.                *)

ExtensionUncapped(age) == Lease
Extension(age) == IF Lease <= MaxLease - age THEN Lease ELSE MaxLease - age

HeartbeatRead(w) ==
    /\ worker[w].pc = "delivering"
    /\ ~worker[w].beating
    /\ worker' = [worker EXCEPT ![w] =
          IF Fenced(w) THEN [@ EXCEPT !.beating = TRUE,
                                      !.ext = Extension(row[worker[w].msg].age)]
                       ELSE [@ EXCEPT !.lost = TRUE]]
    /\ UNCHANGED <<row, posted, accepted, faults, requeues>>

HeartbeatWrite(w) ==
    /\ worker[w].beating
    /\ worker' = [worker EXCEPT ![w].beating = FALSE, ![w].ext = 0,
                                ![w].lost = @ \/ ~Fenced(w)]
    /\ row' = IF Fenced(w) THEN [row EXCEPT ![worker[w].msg].lease = worker[w].ext]
                           ELSE row
    /\ UNCHANGED <<posted, accepted, faults, requeues>>

\* The query of a heartbeat throws.
HeartbeatError(w) ==
    /\ worker[w].beating
    /\ Charge(1)
    /\ worker' = [worker EXCEPT ![w].beating = FALSE, ![w].ext = 0, ![w].lost = TRUE]
    /\ UNCHANGED <<row, posted, accepted, requeues>>

-----------------------------------------------------------------------------
(* Delivery and its outcome. *)

\* What processQueuedTask reports of a result: it swallows the errors of a
\* request, and the delivery observer throws them again.
ReportedUnobserved(result) == "ok"
Reported(result) == result

\* One request, or a local failure before it.  A failed or timed-out request
\* may have reached its receiver all the same; a rejected one did not.
Deliver(w) ==
    \E result \in Outcomes, sent, taken \in BOOLEAN :
        /\ result # "retryable" => sent
        /\ result = "ok" => taken
        /\ taken => sent /\ result # "rejected"
        /\ worker[w].pc = "delivering"
        /\ worker' = [worker EXCEPT ![w].pc = "stopping",
                                    ![w].outcome = Reported(result)]
        /\ posted' = IF sent THEN posted \cup {worker[w].msg} ELSE posted
        /\ accepted' = IF taken THEN accepted \cup {worker[w].msg} ELSE accepted
        /\ UNCHANGED <<row, faults, requeues>>

\* The heartbeat is stopped once its extension in flight has ended.  A delivery
\* that succeeded under a lost heartbeat is not recorded.
StopHeartbeat(w) ==
    /\ worker[w].pc = "stopping"
    /\ ~worker[w].beating
    /\ worker' = [worker EXCEPT ![w] =
          IF worker[w].lost /\ worker[w].outcome = "ok" THEN IdleWorker
          ELSE [@ EXCEPT !.pc = "finalizing"]]
    /\ UNCHANGED <<row, posted, accepted, faults, requeues>>

Exhausted(attempt) == attempt >= MaxAttempts

BackoffDelays(attempt) ==
    {RetryDelays[IF attempt > Len(RetryDelays) THEN Len(RetryDelays)
                 ELSE IF attempt = 0 THEN 1 ELSE attempt]} \cup RetryAfterDelays

\* The row after its worker recorded the outcome; a retry waits for the delay
\* of its attempt or for the one the receiver asked for.
Finalized(r, outcome, attempt) ==
    IF outcome = "ok" THEN {Released(r, "succeeded", 0)}
    ELSE IF Exhausted(attempt) THEN {Released(r, "retry_exhausted", 0)}
    ELSE IF outcome = "rejected" THEN {Released(r, "permanent_failure", 0)}
    ELSE {Released(r, "retry_wait", d) : d \in BackoffDelays(attempt)}

Recorded(w) ==
    \E r \in Finalized(row[worker[w].msg], worker[w].outcome, worker[w].attempt) :
        row' = [row EXCEPT ![worker[w].msg] = r]

\* The outcome is written if the worker still has its lease; otherwise the
\* update matches nothing and the worker leaves the row as it is.
Finalize(w) ==
    /\ worker[w].pc = "finalizing"
    /\ IF Fenced(w) THEN Recorded(w) ELSE UNCHANGED row
    /\ worker' = [worker EXCEPT ![w] = IdleWorker]
    /\ UNCHANGED <<posted, accepted, faults, requeues>>

\* The finalizing statement throws, committed or not.  An error while success is
\* recorded is handled as a failed delivery, one while a failure is recorded is
\* logged and dropped.
FinalizeError(w) ==
    /\ worker[w].pc = "finalizing"
    /\ Charge(1)
    /\ \/ Fenced(w) /\ Recorded(w)
       \/ UNCHANGED row
    /\ worker' = [worker EXCEPT ![w] =
          IF worker[w].outcome = "ok" THEN [@ EXCEPT !.outcome = "retryable"]
                                      ELSE IdleWorker]
    /\ UNCHANGED <<posted, accepted, requeues>>

\* The process dies; its row keeps the token until the lease runs out.
Crash(w) ==
    /\ worker[w].pc # "idle"
    /\ Charge(1)
    /\ worker' = [worker EXCEPT ![w] = IdleWorker]
    /\ UNCHANGED <<row, posted, accepted, requeues>>

-----------------------------------------------------------------------------
(* Operators decide on exhausted messages.  Their view of the row is current *)
(* (updated_at must match) and the row is locked: a decision on a stale view *)
(* changes nothing and is not modelled.                                      *)

Decidable(m) == row[m].status = "retry_exhausted"

Requeue(m) ==
    /\ Decidable(m)
    /\ requeues < MaxRequeues
    /\ row' = [row EXCEPT ![m] = [Released(@, "pending", 0) EXCEPT !.attempts = 0]]
    /\ requeues' = requeues + 1
    /\ UNCHANGED <<worker, posted, accepted, faults>>

Discard(m) ==
    /\ Decidable(m)
    /\ row' = [row EXCEPT ![m] = Released(@, "permanent_failure", 0)]
    /\ UNCHANGED <<worker, posted, accepted, faults, requeues>>

-----------------------------------------------------------------------------
(* Time. *)

Aged(r) == [r EXCEPT !.wait = IF @ > 0 THEN @ - 1 ELSE 0,
                     !.lease = IF @ > 0 THEN @ - 1 ELSE 0,
                     !.age = IF r.lease > 0 THEN @ + 1 ELSE @]

\* Some worker is about to lose the lease of the message it has in hand.
LiveLapse == \E w \in Workers : Holds(w) /\ row[worker[w].msg].lease = 1

Tick ==
    /\ \E m \in Msgs : row[m].wait > 0 \/ row[m].lease > 0
    /\ Charge(IF LiveLapse THEN 1 ELSE 0)
    /\ row' = [m \in Msgs |-> Aged(row[m])]
    /\ worker' = [w \in Workers |->
          [worker[w] EXCEPT !.ext = IF @ > 0 THEN @ - 1 ELSE 0]]
    /\ UNCHANGED <<posted, accepted, requeues>>

WorkerStep(w) == \/ Claim(w)
                 \/ HeartbeatRead(w) \/ HeartbeatWrite(w) \/ HeartbeatError(w)
                 \/ Deliver(w) \/ StopHeartbeat(w)
                 \/ Finalize(w) \/ FinalizeError(w) \/ Crash(w)

QueueStep(m) == EnqueueBegin(m) \/ EnqueueCommit(m) \/ Requeue(m) \/ Discard(m)

Next == \/ \E w \in Workers : WorkerStep(w)
        \/ \E m \in Msgs : QueueStep(m)
        \/ Tick

Spec == Init /\ [][Next]_vars

\* A transaction ends, time passes, a dispatcher run is started again and again,
\* and a run that is alive goes on: every request and statement it waits for
\* returns (the delivery fetch has a timeout).
Fairness == /\ WF_vars(Tick)
            /\ \A m \in Msgs : WF_vars(EnqueueCommit(m))
            /\ WF_vars(\E w \in Workers : ClaimAlone(w))
            /\ \A w \in Workers : /\ WF_vars(HeartbeatWrite(w))
                                  /\ WF_vars(Deliver(w))
                                  /\ WF_vars(StopHeartbeat(w))
                                  /\ WF_vars(Finalize(w))

FairSpec == Spec /\ Fairness
-----------------------------------------------------------------------------
(* Properties. *)

\* A row carries a worker token and a lease exactly while it runs, and is due
\* at once unless it waits for a retry (the CHECKs of migration 0015, and more).
LeaseFields ==
    \A m \in Msgs :
        /\ row[m].status = "running" <=> row[m].token # None
        /\ row[m].status # "running" => row[m].lease = 0 /\ row[m].age = 0
        /\ row[m].wait > 0 => row[m].status = "retry_wait"

\* No sequence of heartbeats, each computed from what an earlier read returned,
\* carries a lease past MaxLease from the start of its attempt
\* (computeHeartbeatLeaseExpiry).
LeaseCapped == \A m \in Msgs : row[m].age + row[m].lease <= MaxLease

\* A message runs, is sent or is recorded as delivered only when every earlier
\* message of its sequence has been recorded as delivered (the candidate query
\* and the ordering gate).
DeliveredInOrder ==
    \A m \in Msgs :
        m \in posted \/ row[m].status \in {"running", "succeeded"}
            => \A p \in Older(m) : row[p].status \in {"succeeded", "absent"}

\* A message recorded as delivered was accepted by a receiver, whatever leases
\* were lost, statements failed and workers died on the way (finalizeQueueSuccess
\* is reached only by the worker whose delivery succeeded).
SucceededWasAccepted ==
    \A m \in Msgs : row[m].status = "succeeded" => m \in accepted

\* Two workers have the same message in hand only after a fault: a worker whose
\* lease never lapsed is alone with its message (claim and lease recovery).
ExclusiveUnlessFault ==
    \A m \in Msgs : Cardinality({w \in Workers : worker[w].msg = m}) <= 1 + faults

\* A running row leaves its lease only when the lease has run out or by the
\* worker that holds it: a worker that lost its lease changes nothing for the
\* one that has it now (the guards of the finalizing updates and of the heartbeat).
StaleWorkerHarmless ==
    [][\A m \in Msgs :
         row[m].status = "running" /\ row[m].lease > 0
           => \/ row'[m] = row[m]
              \/ row'[m] = Aged(row[m])
              \/ \E w \in Workers : /\ row[m].token = w
                                    /\ worker[w].msg = m
                                    /\ worker'[w] # worker[w]]_vars

\* What was delivered or given up for good stays so, and an exhausted message
\* moves only by an operator's decision (claim, recovery and finalization never
\* touch a terminal row).
TerminalIsFinal ==
    [][\A m \in Msgs :
         /\ row[m].status \in {"succeeded", "permanent_failure"} => row'[m] = row[m]
         /\ row[m].status = "retry_exhausted" =>
              \/ row'[m] = row[m]
              \/ row'[m].status = "permanent_failure"
              \/ row'[m].status = "pending" /\ requeues' = requeues + 1]_vars

\* Every message whose enqueue committed ends delivered or given up: no crash,
\* lost lease or failed statement leaves it stuck, and neither does a
\* predecessor (lease recovery, the retry budget and the ordering gate).
EventuallySettled ==
    \A m \in Msgs : row[m].status \in Waiting \cup {"running"}
                      ~> row[m].status \in Terminal

-----------------------------------------------------------------------------
(* The queue implements ordered delivery. *)

Phase(s) == CASE s \in {"absent", "open"} -> "absent"
              [] s = "succeeded"          -> "delivered"
              [] s \in Failed             -> "failed"
              [] OTHER                    -> "open"

Abstract == INSTANCE OrderedDelivery
                WITH phase <- [m \in Msgs |-> Phase(row[m].status)]

\* With one enqueue transaction of a sequence at a time, what the queue does is
\* what OrderedDelivery allows (the whole queue: enqueue, claim, finalization,
\* operator decisions).
ImplementsOrderedDelivery == Abstract!Spec
=============================================================================
