------------------------- MODULE DeliveryOrderProofs -------------------------
(***************************************************************************)
(* Proofs that the queue keeps the order of its sequences and implements   *)
(* OrderedDelivery when one enqueue transaction is open at a time.         *)
(***************************************************************************)
EXTENDS DeliveryQueueProofs, FiniteSetTheorems

\* Every earlier message of m's sequence has been delivered.
Cleared(m) == \A p \in Older(m) : row[p].status \in {"succeeded", "absent"}

\* The message of an open transaction is the youngest one.
OpenIsLast ==
    \A p, n \in Msgs : row[p].status = "open" /\ n > p => row[n].status = "absent"

\* A message that was sent, or that some worker has in hand, is in the table, and
\* what precedes it is delivered even if its worker has lost the lease.
SentIsCleared ==
    /\ \A m \in posted : row[m].status \notin Unseen
    /\ \A w \in Workers : worker[w].pc # "idle" =>
          /\ row[worker[w].msg].status \notin Unseen
          /\ Cleared(worker[w].msg)

\* The inductive invariant of the order.
OrderInv == LeaseInv /\ OpenIsLast /\ DeliveredInOrder /\ SentIsCleared

-----------------------------------------------------------------------------
(* How a step changes the status of a message. *)

\* What a claim leases has only delivered messages before it, and what it gives
\* up only settled ones.
LEMMA ClaimGate ==
    ASSUME NEW w \in Workers, NEW kind \in {"inbox", "outbox"}, NEW locked,
           TypeOK, ClaimWith(w, kind, locked), NEW m \in Msgs
    PROVE  /\ row'[m].status = "running" /\ ~(row'[m] = row[m]) =>
                 \A p \in Older(m) : row[p].status \in Unseen \cup {"succeeded"}
           /\ row'[m].status \in Failed /\ row[m].status \notin Failed =>
                 \A p \in Older(m) : row[p].status \in Unseen \cup Terminal
<1> DEFINE other == IF kind = "inbox" THEN "outbox" ELSE "inbox"
           rows0 == Recovered(row)
           scan1 == Scan(rows0, kind, locked)
           rows1 == GiveUp(rows0, scan1)
           scan2 == IF Claimable(rows0, scan1) # {} THEN {} ELSE Scan(rows1, other, locked)
           rows2 == GiveUp(rows1, scan2)
           ready == Claimable(rows0, scan1) \cup Claimable(rows1, scan2)
<1>1. /\ rows0 \in [Msgs -> Rows]
      /\ \A n \in Msgs : PutBack(row[n], rows0[n])
  BY RecoveredRows DEF TypeOK
<1>2. scan1 \in SUBSET Msgs /\ \A n \in scan1 : rows0[n].status \in Waiting
  BY DEF Scan, Candidate, Due
<1>3. /\ rows1 \in [Msgs -> Rows]
      /\ \A n \in Msgs : PutBack(rows0[n], rows1[n])
  BY <1>1, <1>2, GiveUpRows
<1>4. scan2 \in SUBSET Msgs /\ \A n \in scan2 : rows1[n].status \in Waiting
  BY DEF Scan, Candidate, Due
<1>5. /\ rows2 \in [Msgs -> Rows]
      /\ \A n \in Msgs : PutBack(rows1[n], rows2[n])
  BY <1>3, <1>4, GiveUpRows
<1>6. \A n \in Msgs : PutBack(row[n], rows1[n]) /\ PutBack(row[n], rows2[n])
  BY <1>1, <1>3, <1>5, PutBackTransitive DEF TypeOK
<1>7. \A n \in Msgs : Older(n) \in SUBSET Msgs
  BY DEF Older
<1>8. \/ row' = rows2
      \/ \E n \in ready : row' = [rows2 EXCEPT ![n] = Leased(rows2[n], w)]
  BY DEF ClaimWith
<1>9. ASSUME row'[m].status = "running", row'[m] # row[m]
      PROVE  \A p \in Older(m) : row[p].status \in Unseen \cup {"succeeded"}
  <2>1. m \in ready
    <3>1. rows2[m].status # "running" \/ rows2[m] = row[m]
      BY <1>6 DEF PutBack, Unleased
    <3> HIDE DEF rows2, ready
    <3> QED
      BY <1>5, <1>8, <1>9, <3>1
  <2>2. \/ Gate(rows0, m) = "claim"
        \/ Gate(rows1, m) = "claim"
    BY <2>1 DEF Claimable
  <2>3. \A rows : Gate(rows, m) = "claim" =>
           \A p \in Older(m) : rows[p].status \in Unseen \cup {"succeeded"}
    BY DEF Gate, Unfinished
  <2>4. ASSUME NEW r \in Rows, NEW s \in Rows, PutBack(r, s),
               s.status \in Unseen \cup {"succeeded"}
        PROVE  r.status \in Unseen \cup {"succeeded"}
    BY <2>4 DEF PutBack, Unseen, Failed
  <2> HIDE DEF rows0, rows1
  <2> QED
    BY <1>1, <1>3, <1>6, <1>7, <2>2, <2>3, <2>4 DEF TypeOK
<1>10. ASSUME row'[m].status \in Failed, row[m].status \notin Failed
       PROVE  \A p \in Older(m) : row[p].status \in Unseen \cup Terminal
  <2>1. rows2[m].status \in Failed
    <3>1. \A n \in ready : Leased(rows2[n], w).status = "running"
      <4>1. \A n \in ready : n \in Msgs
        BY <1>2, <1>4 DEF Claimable
      <4> HIDE DEF ready, rows2
      <4> QED
        BY <1>5, <4>1, LeasedRow
    <3>2. "running" \notin Failed
      BY DEF Failed
    <3> HIDE DEF rows2, ready
    <3> QED
      BY <1>5, <1>8, <1>10, <3>1, <3>2
  <2>2. rows0[m].status \notin Failed
    BY <1>10 DEF Recovered, Released, Failed, TypeOK, Rows
  <2>3. m \in PassedOver(rows0, scan1) \/ m \in PassedOver(rows1, scan2)
    BY <2>1, <2>2 DEF GiveUp
  <2>4. m \in scan1 \/ m \in scan2
    BY <2>3 DEF PassedOver
  <2>5. ASSUME NEW p \in Msgs, rows0[p].status \in Terminal \cup Unseen
        PROVE  row[p].status \in Unseen \cup Terminal
    BY <2>5 DEF Recovered, Released, Terminal, Failed, Unseen, TypeOK, Rows
  <2>6. CASE m \in scan1
    <3>1. \A p \in Older(m) : rows0[p].status \in Terminal \cup Unseen
      BY <2>6 DEF Scan, Candidate
    <3> QED
      BY <1>7, <2>5, <3>1
  <2>7. CASE m \in scan2
    <3>1. /\ \A p \in Older(m) : rows1[p].status \in Terminal \cup Unseen
          /\ Kind(m) = other
      BY <2>7 DEF Scan, Candidate
    <3>2. \A p \in Older(m) : Kind(p) = other /\ p \in Msgs
      BY <3>1 DEF Older, Kind
    <3>3. \A p \in scan1 : Kind(p) = kind
      BY DEF Scan
    <3>4. \A p \in Older(m) : p \notin scan1
      BY <3>2, <3>3
    <3>5. \A p \in Older(m) : rows1[p] = rows0[p]
      BY <3>2, <3>4 DEF GiveUp, PassedOver
    <3> QED
      BY <2>5, <3>1, <3>2, <3>5
  <2> QED
    BY <2>4, <2>6, <2>7
<1> QED
  BY <1>9, <1>10

\* The status a message may take, and by which action.
LEMMA StatusStep ==
    ASSUME LeaseInv, Next, NEW m \in Msgs
    PROVE  \/ row'[m].status = row[m].status
           \/ EnqueueBegin(m) /\ row'[m].status = "open"
           \/ EnqueueCommit(m) /\ row'[m].status = "pending"
           \/ /\ \E w \in Workers : Claim(w)
              /\ row[m].status \in Waiting \cup {"running"}
              /\ row'[m].status \in Failed \cup {"pending", "running"}
           \/ \E w \in Workers : /\ Finalize(w) \/ FinalizeError(w)
                                 /\ Fenced(w) /\ worker[w].msg = m
                                 /\ row'[m].status \in Terminal \cup {"retry_wait"}
                                 /\ row'[m].status = "succeeded" => worker[w].outcome = "ok"
           \/ /\ Requeue(m) \/ Discard(m)
              /\ row[m].status = "retry_exhausted"
              /\ row'[m].status \in {"pending", "permanent_failure"}
<1>1. /\ row \in [Msgs -> Rows]
      /\ worker \in [Workers -> WorkerStates]
  BY DEF LeaseInv, TypeOK
<1>2. ASSUME NEW w \in Workers, Claim(w)
      PROVE  \/ row'[m] = row[m]
             \/ /\ row[m].status \in Waiting \cup {"running"}
                /\ row'[m].status \in Failed \cup {"pending", "running"}
  <2>1. PICK kind \in {"inbox", "outbox"}, locked \in SUBSET Msgs : ClaimWith(w, kind, locked)
    BY <1>2 DEF Claim
  <2>2. \/ PutBack(row[m], row'[m])
        \/ Free(row[m]) /\ \E r \in Rows : row'[m] = Leased(r, w)
    BY <2>1, ClaimedRows DEF LeaseInv
  <2> QED
    BY <2>2, LeasedRow DEF PutBack, Free, Lapsed
<1>3. ASSUME NEW w \in Workers, HeartbeatWrite(w)
      PROVE  row'[m].status = row[m].status
  BY <1>1, <1>3 DEF HeartbeatWrite, Rows
<1>4. ASSUME NEW w \in Workers, Finalize(w) \/ FinalizeError(w)
      PROVE  \/ row'[m] = row[m]
             \/ /\ Fenced(w) /\ worker[w].msg = m
                /\ row'[m].status \in Terminal \cup {"retry_wait"}
                /\ row'[m].status = "succeeded" => worker[w].outcome = "ok"
  <2>1. UNCHANGED row \/ (Fenced(w) /\ Recorded(w))
    BY <1>4 DEF Finalize, FinalizeError
  <2>2. ASSUME Fenced(w), worker[w].msg = m, Recorded(w)
        PROVE  /\ row'[m].status \in Terminal \cup {"retry_wait"}
               /\ row'[m].status = "succeeded" => worker[w].outcome = "ok"
    <3>1. PICK r \in Finalized(row[m], worker[w].outcome, worker[w].attempt) : row'[m] = r
      BY <1>1, <2>2 DEF Recorded
    <3>2. worker[w].outcome \in Outcomes /\ worker[w].attempt \in Nat
      BY <1>1 DEF WorkerStates
    <3> QED
      BY <1>1, <3>1, <3>2, FinalizedRow
  <2> QED
    BY <1>1, <2>1, <2>2 DEF Recorded
<1>5. ASSUME NEW w \in Workers,
             \/ HeartbeatRead(w) \/ HeartbeatError(w) \/ Deliver(w)
             \/ StopHeartbeat(w) \/ Crash(w)
      PROVE  row'[m] = row[m]
  BY <1>5 DEF HeartbeatRead, HeartbeatError, Deliver, StopHeartbeat, Crash
<1>6. ASSUME NEW n \in Msgs, EnqueueBegin(n)
      PROVE  row'[m] = row[m] \/ (n = m /\ row'[m].status = "open")
  BY <1>1, <1>6 DEF EnqueueBegin, Rows
<1>7. ASSUME NEW n \in Msgs, EnqueueCommit(n)
      PROVE  row'[m] = row[m] \/ (n = m /\ row'[m].status = "pending")
  BY <1>1, <1>7 DEF EnqueueCommit, Rows
<1>8. ASSUME NEW n \in Msgs, Requeue(n) \/ Discard(n)
      PROVE  \/ row'[m] = row[m]
             \/ /\ n = m /\ row[m].status = "retry_exhausted"
                /\ row'[m].status \in {"pending", "permanent_failure"}
  BY <1>1, <1>8 DEF Requeue, Discard, Decidable, Released, Rows
<1>9. CASE Tick
  <2>1. row'[m] = Aged(row[m]) /\ row[m].age + row[m].lease <= MaxLease
    BY <1>9 DEF Tick, LeaseInv, LeaseCapped
  <2> QED
    BY <1>1, <2>1, AgedRow
<1> QED
  BY <1>2, <1>3, <1>4, <1>5, <1>6, <1>7, <1>8, <1>9 DEF Next, WorkerStep, QueueStep

\* A worker has the message in hand that it had, or one that it just claimed.
LEMMA HandStep ==
    ASSUME LeaseInv, Next, NEW w \in Workers, worker'[w].pc # "idle"
    PROVE  /\ worker'[w].msg \in Msgs
           /\ \/ worker[w].pc # "idle" /\ worker'[w].msg = worker[w].msg
              \/ /\ Free(row[worker'[w].msg])
                 /\ row'[worker'[w].msg].status = "running"
                 /\ row'[worker'[w].msg] # row[worker'[w].msg]
                 /\ \E kind \in {"inbox", "outbox"}, locked \in SUBSET Msgs : ClaimWith(w, kind, locked)
<1> DEFINE Same(v) == worker'[v].pc # "idle" =>
                         worker[v].pc # "idle" /\ worker'[v].msg = worker[v].msg
<1>1. /\ row \in [Msgs -> Rows]
      /\ worker \in [Workers -> WorkerStates]
      /\ worker[w].pc # "idle" => worker[w].msg \in Msgs
  BY DEF LeaseInv, TypeOK, InHand
<1>2. ASSUME NEW v \in Workers, Claim(v)
      PROVE  \/ Same(w)
             \/ /\ worker'[w].msg \in Msgs
                /\ Free(row[worker'[w].msg])
                /\ row'[worker'[w].msg].status = "running"
                /\ row'[worker'[w].msg] # row[worker'[w].msg]
                /\ \E kind \in {"inbox", "outbox"}, locked \in SUBSET Msgs : ClaimWith(w, kind, locked)
  <2>1. PICK kind \in {"inbox", "outbox"}, locked \in SUBSET Msgs : ClaimWith(v, kind, locked)
    BY <1>2 DEF Claim
  <2>2. CASE worker' = worker \/ v # w
    <3>1. worker'[w] = worker[w]
      BY <1>1, <2>1, <2>2 DEF ClaimWith
    <3> QED
      BY <3>1
  <2>3. CASE worker' # worker /\ v = w
    <3>1. PICK n \in Msgs :
            /\ Free(row[n])
            /\ \E r \in Rows : row'[n] = Leased(r, w)
            /\ worker' = [worker EXCEPT ![w] =
                 [IdleWorker EXCEPT !.pc = "delivering", !.msg = n,
                                    !.attempt = worker'[w].attempt]]
      BY <2>1, <2>3, ClaimedRows DEF LeaseInv
    <3>2. worker'[w].msg = n
      BY <1>1, <3>1 DEF IdleWorker
    <3>3. row'[n].status = "running" /\ row'[n].lease > 0
      BY <3>1, LeasedRow, LeaseAssumption
    <3>4. row'[n] # row[n]
      BY <3>1, <3>3 DEF Free, Lapsed, Waiting
    <3> QED
      BY <2>1, <2>3, <3>1, <3>2, <3>3, <3>4
  <2> QED
    BY <2>2, <2>3
<1>3. ASSUME NEW v \in Workers, HeartbeatRead(v) \/ HeartbeatWrite(v) \/ HeartbeatError(v)
      PROVE  Same(w)
  <2>1. CASE v # w
    BY <1>1, <1>3, <2>1 DEF HeartbeatRead, HeartbeatWrite, HeartbeatError
  <2>2. CASE HeartbeatRead(w)
    BY <1>1, <2>2 DEF HeartbeatRead, WorkerStates
  <2>3. CASE HeartbeatWrite(w)
    BY <1>1, <2>3 DEF HeartbeatWrite, WorkerStates
  <2>4. CASE HeartbeatError(w)
    BY <1>1, <2>4 DEF HeartbeatError, WorkerStates
  <2> QED
    BY <1>3, <2>1, <2>2, <2>3, <2>4
<1>4. ASSUME NEW v \in Workers, Deliver(v) \/ StopHeartbeat(v)
      PROVE  Same(w)
  BY <1>1, <1>4, IdleWorkerType DEF Deliver, StopHeartbeat, WorkerStates
<1>5. ASSUME NEW v \in Workers, Finalize(v) \/ FinalizeError(v) \/ Crash(v)
      PROVE  Same(w)
  BY <1>1, <1>5, IdleWorkerType DEF Finalize, FinalizeError, Crash, WorkerStates
<1>6. ASSUME NEW n \in Msgs, QueueStep(n)
      PROVE  Same(w)
  BY <1>6 DEF QueueStep, EnqueueBegin, EnqueueCommit, Requeue, Discard
<1>7. CASE Tick
  BY <1>1, <1>7 DEF Tick, WorkerStates
<1> QED
  BY <1>1, <1>2, <1>3, <1>4, <1>5, <1>6, <1>7 DEF Next, WorkerStep

-----------------------------------------------------------------------------
(* The invariant of the order. *)

\* With one writer, no transaction is open when another one begins.
LEMMA NoneOpen ==
    ASSUME Writers = 1, NEW m \in Msgs, EnqueueBegin(m), NEW p \in Msgs
    PROVE  row[p].status # "open"
<1> DEFINE S == {n \in Msgs : row[n].status = "open"}
<1>1. IsFiniteSet(S)
  BY MsgsAssumption, FS_Subset
<1>2. Cardinality(S) \in Nat /\ Cardinality(S) < 1
  BY <1>1, FS_CardinalityType DEF EnqueueBegin
<1>3. S = {}
  BY <1>1, <1>2, FS_EmptySet
<1> QED
  BY <1>3

\* With one writer the message of an open transaction stays the youngest one.
LEMMA OpenIsLastStep ==
    ASSUME OrderInv, Next, Writers = 1
    PROVE  OpenIsLast'
<1> SUFFICES ASSUME NEW p \in Msgs, NEW n \in Msgs, row'[p].status = "open", n > p
             PROVE  row'[n].status = "absent"
  BY DEF OpenIsLast
<1>1. CASE row[p].status = "open"
  <2>1. row[n].status = "absent"
    BY <1>1 DEF OrderInv, OpenIsLast
  <2>2. ~EnqueueBegin(n) /\ ~EnqueueCommit(n)
    BY <1>1, <2>1, NoneOpen DEF EnqueueCommit
  <2>3. \A w \in Workers : Fenced(w) => worker[w].msg # n
    BY <2>1 DEF Fenced, Holds
  <2> QED
    BY <2>1, <2>2, <2>3, StatusStep DEF OrderInv, Waiting
<1>2. CASE row[p].status # "open"
  <2>1. EnqueueBegin(p)
    BY <1>2, StatusStep DEF OrderInv, Failed, Terminal
  <2>2. row[n].status = "absent" /\ n # p
    BY <2>1, MsgsAssumption DEF EnqueueBegin
  <2>3. row'[n] = row[n]
    BY <2>1, <2>2 DEF EnqueueBegin, OrderInv, LeaseInv, TypeOK
  <2> QED
    BY <2>2, <2>3
<1> QED
  BY <1>1, <1>2

\* Once a message is in the table, what was cleared stays cleared.
LEMMA ClearedStep ==
    ASSUME OrderInv, Next, NEW m \in Msgs, row[m].status \notin Unseen, Cleared(m)
    PROVE  Cleared(m)' /\ row'[m].status \notin Unseen
<1>1. ASSUME NEW p \in Older(m)
      PROVE  row'[p].status \in {"succeeded", "absent"}
  <2>1. p \in Msgs /\ p < m /\ row[p].status \in {"succeeded", "absent"}
    BY <1>1 DEF Cleared, Older
  <2>2. ~EnqueueBegin(p)
    BY <2>1 DEF EnqueueBegin, Unseen
  <2>3. \A w \in Workers : Fenced(w) => worker[w].msg # p
    BY <2>1 DEF Fenced, Holds
  <2> QED
    BY <2>1, <2>2, <2>3, StatusStep DEF OrderInv, EnqueueCommit, Waiting
<1>2. row'[m].status \notin Unseen
  BY StatusStep DEF OrderInv, EnqueueBegin, Unseen, Failed, Terminal
<1> QED
  BY <1>1, <1>2 DEF Cleared, Older

\* What a claim leases was cleared.
LEMMA ClaimedIsCleared ==
    ASSUME OrderInv, NEW m \in Msgs, Free(row[m]), row'[m].status = "running",
           row'[m] # row[m],
           \E w \in Workers, kind \in {"inbox", "outbox"}, locked \in SUBSET Msgs :
              ClaimWith(w, kind, locked)
    PROVE  Cleared(m) /\ row[m].status \notin Unseen
<1>1. row[m].status \notin Unseen
  BY DEF Free, Lapsed, Waiting, Unseen
<1>2. \A p \in Older(m) : row[p].status \in Unseen \cup {"succeeded"}
  BY ClaimGate DEF OrderInv, LeaseInv
<1>3. \A p \in Older(m) : p \in Msgs /\ m > p
  BY MsgsAssumption DEF Older
<1>4. \A p \in Older(m) : row[p].status # "open"
  BY <1>1, <1>3 DEF OrderInv, OpenIsLast, Unseen
<1> QED
  BY <1>1, <1>2, <1>4 DEF Cleared, Unseen

\* Only a delivery sends a message.
LEMMA PostedStep ==
    ASSUME Next, NEW m \in posted', m \notin posted
    PROVE  \E w \in Workers : worker[w].pc = "delivering" /\ m = worker[w].msg
<1>1. ASSUME NEW w \in Workers, WorkerStep(w), ~Deliver(w)
      PROVE  UNCHANGED posted
  <2>1. CASE Claim(w)
    BY <2>1 DEF Claim, ClaimWith
  <2>2. CASE HeartbeatRead(w) \/ HeartbeatWrite(w) \/ HeartbeatError(w)
    BY <2>2 DEF HeartbeatRead, HeartbeatWrite, HeartbeatError
  <2>3. CASE StopHeartbeat(w) \/ Finalize(w) \/ FinalizeError(w) \/ Crash(w)
    BY <2>3 DEF StopHeartbeat, Finalize, FinalizeError, Crash
  <2> QED
    BY <1>1, <2>1, <2>2, <2>3 DEF WorkerStep
<1>2. ASSUME NEW n \in Msgs, QueueStep(n)
      PROVE  UNCHANGED posted
  BY <1>2 DEF QueueStep, EnqueueBegin, EnqueueCommit, Requeue, Discard
<1>3. Tick => UNCHANGED posted
  BY DEF Tick
<1>4. ASSUME NEW w \in Workers, Deliver(w)
      PROVE  worker[w].pc = "delivering" /\ m = worker[w].msg
  BY <1>4 DEF Deliver
<1> QED
  BY <1>1, <1>2, <1>3, <1>4 DEF Next

\* Every step keeps the order.
LEMMA DeliveredInOrderStep ==
    ASSUME OrderInv, Next
    PROVE  DeliveredInOrder'
<1>1. ASSUME NEW m \in Msgs, row'[m].status \in {"running", "succeeded"}
      PROVE  Cleared(m) /\ row[m].status \notin Unseen
  <2>1. CASE row[m].status \in {"running", "succeeded"}
    BY <2>1 DEF OrderInv, DeliveredInOrder, Cleared, Unseen
  <2>2. CASE row[m].status \notin {"running", "succeeded"}
    <3>1. \A w \in Workers : Fenced(w) => worker[w].msg # m
      BY <2>2 DEF Fenced, Holds
    <3>2. PICK w \in Workers : Claim(w)
      BY <1>1, <2>2, <3>1, StatusStep DEF OrderInv
    <3>3. row[m].status \in Waiting /\ row'[m].status = "running"
      BY <1>1, <2>2, <3>1, StatusStep DEF OrderInv, EnqueueBegin, EnqueueCommit, Failed
    <3>4. row'[m] # row[m] /\ Free(row[m])
      BY <2>2, <3>3 DEF Free
    <3> QED
      BY <3>2, <3>3, <3>4, ClaimedIsCleared DEF Claim
  <2> QED
    BY <2>1, <2>2
<1>2. ASSUME NEW m \in posted'
      PROVE  m \in Msgs /\ Cleared(m) /\ row[m].status \notin Unseen
  <2>1. CASE m \in posted
    BY <2>1 DEF OrderInv, LeaseInv, TypeOK, DeliveredInOrder, SentIsCleared, Cleared
  <2>2. CASE m \notin posted
    <3>2. PICK w \in Workers : worker[w].pc = "delivering" /\ m = worker[w].msg
      BY <1>2, <2>2, PostedStep
    <3> QED
      BY <3>2 DEF OrderInv, LeaseInv, InHand, SentIsCleared
  <2> QED
    BY <2>1, <2>2
<1>3. ASSUME NEW m \in Msgs, m \in posted' \/ row'[m].status \in {"running", "succeeded"}
      PROVE  Cleared(m)'
  BY <1>1, <1>2, <1>3, ClearedStep
<1> QED
  BY <1>3 DEF DeliveredInOrder, Cleared

\* Every step keeps what was sent, or is in hand, behind delivered messages.
LEMMA SentIsClearedStep ==
    ASSUME OrderInv, Next
    PROVE  SentIsCleared'
<1>1. ASSUME NEW m \in posted'
      PROVE  row'[m].status \notin Unseen
  <2>1. CASE m \in posted
    <3>1. m \in Msgs /\ row[m].status \notin Unseen /\ Cleared(m)
      BY <2>1 DEF OrderInv, LeaseInv, TypeOK, DeliveredInOrder, SentIsCleared, Cleared
    <3> QED
      BY <3>1, ClearedStep
  <2>2. CASE m \notin posted
    <3>2. PICK w \in Workers : worker[w].pc = "delivering" /\ m = worker[w].msg
      BY <1>1, <2>2, PostedStep
    <3>3. m \in Msgs /\ row[m].status \notin Unseen /\ Cleared(m)
      BY <3>2 DEF OrderInv, LeaseInv, InHand, SentIsCleared
    <3> QED
      BY <3>3, ClearedStep
  <2> QED
    BY <2>1, <2>2
<1>2. ASSUME NEW w \in Workers, worker'[w].pc # "idle"
      PROVE  row'[worker'[w].msg].status \notin Unseen /\ Cleared(worker[w].msg)'
  <2> DEFINE m == worker'[w].msg
  <2>1. /\ m \in Msgs
        /\ \/ worker[w].pc # "idle" /\ m = worker[w].msg
           \/ /\ Free(row[m]) /\ row'[m].status = "running" /\ row'[m] # row[m]
              /\ \E kind \in {"inbox", "outbox"}, locked \in SUBSET Msgs : ClaimWith(w, kind, locked)
    BY <1>2, HandStep DEF OrderInv
  <2> HIDE DEF m
  <2>2. row[m].status \notin Unseen /\ Cleared(m)
    BY <2>1, ClaimedIsCleared DEF OrderInv, SentIsCleared
  <2>3. row'[m].status \notin Unseen /\ \A p \in Older(m) : row'[p].status \in {"succeeded", "absent"}
    BY <2>1, <2>2, ClearedStep DEF Cleared
  <2> QED
    BY <2>3 DEF m, Cleared
<1> QED
  BY <1>1, <1>2 DEF SentIsCleared

\* The empty table satisfies the invariant of the order.
LEMMA OrderInvInit == Init => OrderInv
<1> SUFFICES ASSUME Init PROVE OrderInv
  OBVIOUS
<1>1. \A m \in Msgs : row[m].status = "absent"
  BY DEF Init, AbsentRow
<1>2. posted = {} /\ \A w \in Workers : worker[w].pc = "idle"
  BY DEF Init, IdleWorker
<1> QED
  BY <1>1, <1>2, LeaseInvInit DEF OrderInv, OpenIsLast, DeliveredInOrder, SentIsCleared

\* Every step keeps the invariant of the order.
LEMMA OrderInvStep == Writers = 1 /\ OrderInv /\ [Next]_vars => OrderInv'
<1>1. ASSUME Writers = 1, OrderInv, Next PROVE OrderInv'
  <2>1. LeaseInv'
    BY <1>1, LeaseInvStep DEF OrderInv
  <2> QED
    BY <1>1, <2>1, OpenIsLastStep, DeliveredInOrderStep, SentIsClearedStep DEF OrderInv
<1>2. ASSUME OrderInv, UNCHANGED vars PROVE OrderInv'
  <2>1. LeaseInv'
    BY <1>2, LeaseInvStep DEF OrderInv
  <2> QED
    BY <1>2, <2>1 DEF vars, OrderInv, OpenIsLast, DeliveredInOrder, SentIsCleared, Cleared
<1> QED
  BY <1>1, <1>2

\* OrderInv holds in every state of a queue with one enqueue transaction at a time.
THEOREM OrderInvariant == ASSUME Writers = 1 PROVE Spec => []OrderInv
<1>1. OrderInv /\ [Next]_vars => OrderInv'
  BY OrderInvStep
<1> QED
  BY <1>1, OrderInvInit, PTL DEF Spec

\* A message is leased, sent or recorded as delivered only after every earlier
\* message of its sequence was recorded as delivered, for any number of messages,
\* workers and faults, if enqueue transactions do not overlap (the candidate
\* query and the ordering gate).
THEOREM DeliveredInOrderCorrect == ASSUME Writers = 1 PROVE Spec => []DeliveredInOrder
<1>1. OrderInv => DeliveredInOrder
  BY DEF OrderInv
<1> QED
  BY <1>1, OrderInvariant, PTL

-----------------------------------------------------------------------------
(* The queue implements OrderedDelivery. *)

\* The phase that each status stands for.
LEMMA PhaseOf ==
    ASSUME NEW s \in Statuses
    PROVE  /\ s \in Unseen => Phase(s) = "absent"
           /\ s = "succeeded" => Phase(s) = "delivered"
           /\ s \in Failed => Phase(s) = "failed"
           /\ s \in Waiting \cup {"running"} => Phase(s) = "open"
<1>1. s \in Unseen => s \notin Failed \cup {"succeeded"}
  BY DEF Unseen, Failed
<1>2. s \in Waiting \cup {"running"} => s \notin Unseen \cup Failed \cup {"succeeded"}
  BY DEF Unseen, Failed, Waiting
<1>3. s = "succeeded" => s \notin Failed \cup Unseen
  BY DEF Unseen, Failed
<1> QED
  BY <1>1, <1>2, <1>3 DEF Phase, Unseen, Failed

\* The phases of the statuses named in the actions.
LEMMA PhaseUnseen ==
    Phase("absent") = "absent" /\ Phase("open") = "absent" /\ Phase("succeeded") = "delivered"
<1>1. {"absent", "open", "succeeded"} \subseteq Statuses /\ {"absent", "open"} = Unseen
  BY DEF Statuses, Unseen, Terminal
<1> QED
  BY <1>1, PhaseOf

\* A step that leaves the phase of every message alone and accepts nothing.
LEMMA Invisible ==
    ASSUME \A m \in Msgs : Phase(row'[m].status) = Phase(row[m].status),
           UNCHANGED accepted
    PROVE  UNCHANGED Abstract!vars
BY DEF Abstract!vars

\* Both specifications order messages alike.
LEMMA AbstractOlder ==
    ASSUME NEW m \in Msgs
    PROVE  Abstract!Older(m) = Older(m)
BY DEF Abstract!Older, Older

\* A claim is invisible but for the messages it gives up.
LEMMA ClaimRefines ==
    ASSUME OrderInv, NEW w \in Workers, Claim(w)
    PROVE  Abstract!Next
<1> DEFINE S == {m \in Msgs : row'[m].status \in Failed /\ row[m].status \notin Failed}
<1>1. PICK kind \in {"inbox", "outbox"}, locked \in SUBSET Msgs : ClaimWith(w, kind, locked)
  BY DEF Claim
<1>2. /\ row \in [Msgs -> Rows]
      /\ row' \in [Msgs -> Rows]
      /\ UNCHANGED accepted
  <2>1. UNCHANGED accepted
    BY <1>1 DEF ClaimWith
  <2>2. TypeOK /\ row \in [Msgs -> Rows]
    BY DEF OrderInv, LeaseInv, TypeOK
  <2> QED
    BY <1>1, <2>1, <2>2, ClaimedRows
<1>3. \A m \in Msgs : row[m].status \in Statuses /\ row'[m].status \in Statuses
  BY <1>2 DEF Rows
<1>4. \A m \in Msgs :
        \/ row'[m] = row[m]
        \/ /\ row[m].status \in Waiting \cup {"running"}
           /\ row'[m].status \in Failed \cup {"pending", "running"}
  <2>1. ASSUME NEW m \in Msgs
        PROVE  \/ PutBack(row[m], row'[m])
               \/ Free(row[m]) /\ \E r \in Rows : row'[m] = Leased(r, w)
    BY <1>1, ClaimedRows DEF OrderInv, LeaseInv
  <2> QED
    BY <2>1, LeasedRow DEF PutBack, Free, Lapsed
<1>5. ASSUME NEW m \in S
      PROVE  /\ Phase(row[m].status) = "open"
             /\ Phase(row'[m].status) = "failed"
             /\ \A p \in Older(m) : p \in Msgs /\ Phase(row[p].status) # "open"
  <2>1. row[m].status \in Waiting \cup {"running"}
    BY <1>4, <1>5
  <2>2. \A p \in Older(m) : p \in Msgs /\ row[p].status \in Unseen \cup Terminal
    BY <1>1, <1>5, ClaimGate DEF OrderInv, LeaseInv, Older
  <2> QED
    BY <1>3, <1>5, <2>1, <2>2, PhaseOf DEF Terminal
<1>6. ASSUME NEW m \in Msgs \ S
      PROVE  Phase(row'[m].status) = Phase(row[m].status)
  <2>1. CASE row'[m] = row[m]
    BY <2>1
  <2>2. CASE /\ row[m].status \in Waiting \cup {"running"}
             /\ row'[m].status \in Failed \cup {"pending", "running"}
    <3>1. row'[m].status \in Waiting \cup {"running"}
      BY <1>6, <2>2 DEF Waiting, Failed
    <3> QED
      BY <1>3, <2>2, <3>1, PhaseOf
  <2> QED
    BY <1>4, <2>1, <2>2
<1>7. S \in SUBSET Msgs
  OBVIOUS
<1> HIDE DEF S
<1>8. Abstract!Fail(S)
  <2>1. \A m \in S : m \in Msgs /\ Abstract!Older(m) = Older(m)
    BY <1>7, AbstractOlder
  <2> QED
    BY <1>2, <1>5, <1>6, <1>7, <2>1 DEF Abstract!Fail
<1> QED
  BY <1>7, <1>8 DEF Abstract!Next

\* A delivery is the acceptance by a receiver, or invisible.
LEMMA DeliverRefines ==
    ASSUME OrderInv, NEW w \in Workers, Deliver(w)
    PROVE  Abstract!Next \/ UNCHANGED Abstract!vars
<1> DEFINE m == worker[w].msg
<1>1. /\ worker[w].pc = "delivering"
      /\ UNCHANGED row
      /\ accepted' = accepted \cup {m} \/ UNCHANGED accepted
  BY DEF Deliver
<1>2. m \in Msgs /\ row[m].status \notin Unseen /\ Cleared(m) /\ row[m].status \in Statuses
  BY <1>1 DEF OrderInv, LeaseInv, TypeOK, Rows, InHand, SentIsCleared
<1> HIDE DEF m
<1>3. CASE UNCHANGED accepted
  BY <1>1, <1>3, Invisible
<1>4. CASE accepted' = accepted \cup {m}
  <2>1. Phase(row[m].status) # "absent"
    <3>1. Unseen = {"absent", "open"}
      BY DEF Unseen
    <3> QED
      BY <1>2, <3>1 DEF Phase
  <2>2. \A p \in Older(m) : p \in Msgs /\ Phase(row[p].status) \in {"delivered", "absent"}
    BY <1>2, PhaseUnseen DEF Cleared, Older
  <2>3. Abstract!Accept(m)
    BY <1>1, <1>2, <1>4, <2>1, <2>2, AbstractOlder DEF Abstract!Accept
  <2> QED
    BY <1>2, <2>3 DEF Abstract!Next
<1> QED
  BY <1>1, <1>3, <1>4

\* Recording an outcome delivers, gives up or is invisible.
LEMMA FinalizeRefines ==
    ASSUME OrderInv, NEW w \in Workers, Finalize(w) \/ FinalizeError(w)
    PROVE  Abstract!Next \/ UNCHANGED Abstract!vars
<1> DEFINE m == worker[w].msg
<1>1. /\ UNCHANGED accepted
      /\ UNCHANGED row \/ (Fenced(w) /\ Recorded(w))
      /\ worker[w].pc = "finalizing"
  BY DEF Finalize, FinalizeError
<1>2. CASE UNCHANGED row
  BY <1>1, <1>2, Invisible
<1>3. CASE Fenced(w) /\ Recorded(w)
  <2>1. /\ m \in Msgs
        /\ row \in [Msgs -> Rows]
        /\ worker[w].outcome \in Outcomes /\ worker[w].attempt \in Nat
        /\ row[m].status = "running"
        /\ Cleared(m)
        /\ worker[w].outcome = "ok" => m \in accepted
    BY <1>1, <1>3 DEF OrderInv, LeaseInv, TypeOK, WorkerStates, InHand, OutcomeAccepted,
                      Fenced, Holds, SentIsCleared
  <2>2. PICK r \in Finalized(row[m], worker[w].outcome, worker[w].attempt) :
            row' = [row EXCEPT ![m] = r]
    BY <1>3 DEF Recorded
  <2>3. /\ r \in Rows
        /\ r.status \in Terminal \cup {"retry_wait"}
        /\ r.status = "succeeded" => worker[w].outcome = "ok"
    BY <2>1, <2>2, FinalizedRow
  <2> HIDE DEF m
  <2>4. /\ row'[m] = r
        /\ \A n \in Msgs \ {m} : row'[n] = row[n]
    BY <2>1, <2>2
  <2>5. Phase(row[m].status) = "open" /\ "running" \in Statuses /\ r.status \in Statuses
    BY <2>1, <2>3 DEF Phase, Failed, Statuses, Rows
  <2>6. \A p \in Older(m) : p \in Msgs /\ Phase(row[p].status) # "open"
    BY <2>1, PhaseUnseen DEF Cleared, Older
  <2>7. CASE r.status = "succeeded"
    <3>1. Phase(row'[m].status) = "delivered"
      BY <2>4, <2>5, <2>7, PhaseOf
    <3>2. Abstract!Deliver(m)
      BY <1>1, <2>1, <2>3, <2>4, <2>5, <2>7, <3>1 DEF Abstract!Deliver
    <3> QED
      BY <2>1, <3>2 DEF Abstract!Next
  <2>8. CASE r.status \in Failed
    <3>1. Phase(row'[m].status) = "failed"
      BY <2>4, <2>5, <2>8, PhaseOf
    <3>2. Abstract!Fail({m})
      BY <1>1, <2>1, <2>4, <2>5, <2>6, <3>1, AbstractOlder DEF Abstract!Fail
    <3> QED
      BY <2>1, <3>2 DEF Abstract!Next
  <2>9. CASE r.status = "retry_wait"
    <3>1. Phase(row'[m].status) = "open"
      BY <2>4, <2>5, <2>9, PhaseOf DEF Waiting
    <3>2. \A n \in Msgs : Phase(row'[n].status) = Phase(row[n].status)
      BY <2>4, <2>5, <3>1
    <3> QED
      BY <1>1, <3>2, Invisible
  <2> QED
    BY <2>3, <2>7, <2>8, <2>9 DEF Terminal
<1> QED
  BY <1>1, <1>2, <1>3

\* A commit submits, a requeue reopens, the rest is invisible.
LEMMA QueueStepRefines ==
    ASSUME OrderInv, NEW m \in Msgs, QueueStep(m)
    PROVE  Abstract!Next \/ UNCHANGED Abstract!vars
<1>1. row \in [Msgs -> Rows] /\ UNCHANGED accepted
  BY DEF OrderInv, LeaseInv, TypeOK, QueueStep, EnqueueBegin, EnqueueCommit, Requeue, Discard
<1>2. CASE EnqueueBegin(m)
  <2>1. /\ row'[m].status = "open" /\ row[m].status = "absent"
        /\ \A n \in Msgs \ {m} : row'[n] = row[n]
    BY <1>1, <1>2 DEF EnqueueBegin, Rows
  <2>2. \A n \in Msgs : Phase(row'[n].status) = Phase(row[n].status)
    BY <2>1, PhaseUnseen
  <2> QED
    BY <1>1, <2>2, Invisible
<1>3. CASE EnqueueCommit(m)
  <2>1. /\ row'[m].status = "pending" /\ row[m].status = "open"
        /\ \A n \in Msgs \ {m} : row'[n] = row[n]
    BY <1>1, <1>3 DEF EnqueueCommit, Rows
  <2>2. \A n \in Msgs : m \in Older(n) => Phase(row[n].status) = "absent"
    <3>1. \A n \in Msgs : m \in Older(n) => n > m
      BY MsgsAssumption DEF Older
    <3> QED
      BY <2>1, <3>1, PhaseUnseen DEF OrderInv, OpenIsLast
  <2>3. Phase(row[m].status) = "absent" /\ Phase(row'[m].status) = "open"
    BY <2>1 DEF Phase, Failed
  <2>4. Abstract!Submit(m)
    BY <1>1, <2>1, <2>2, <2>3, AbstractOlder DEF Abstract!Submit
  <2> QED
    BY <2>4 DEF Abstract!Next
<1>4. CASE Requeue(m)
  <2>1. /\ row'[m].status = "pending" /\ row[m].status = "retry_exhausted"
        /\ \A n \in Msgs \ {m} : row'[n] = row[n]
    BY <1>1, <1>4 DEF Requeue, Decidable, Released, Rows
  <2>2. Phase(row[m].status) = "failed" /\ Phase(row'[m].status) = "open"
    BY <2>1 DEF Phase, Failed
  <2>3. Abstract!Reopen(m)
    BY <1>1, <2>1, <2>2 DEF Abstract!Reopen
  <2> QED
    BY <2>3 DEF Abstract!Next
<1>5. CASE Discard(m)
  <2>1. /\ row'[m].status = "permanent_failure" /\ row[m].status = "retry_exhausted"
        /\ \A n \in Msgs \ {m} : row'[n] = row[n]
    BY <1>1, <1>5 DEF Discard, Decidable, Released, Rows
  <2>2. Phase(row[m].status) = "failed" /\ Phase(row'[m].status) = "failed"
    BY <2>1 DEF Phase, Failed
  <2>3. \A n \in Msgs : Phase(row'[n].status) = Phase(row[n].status)
    BY <2>1, <2>2
  <2> QED
    BY <1>1, <2>3, Invisible
<1> QED
  BY <1>2, <1>3, <1>4, <1>5 DEF QueueStep

\* Every step of the queue is a step of OrderedDelivery or invisible to it.
LEMMA NextRefines == OrderInv /\ [Next]_vars => [Abstract!Next]_Abstract!vars
<1> SUFFICES ASSUME OrderInv, [Next]_vars PROVE Abstract!Next \/ UNCHANGED Abstract!vars
  OBVIOUS
<1>1. ASSUME NEW w \in Workers, WorkerStep(w)
      PROVE  Abstract!Next \/ UNCHANGED Abstract!vars
  <2>1. CASE HeartbeatRead(w) \/ HeartbeatError(w) \/ StopHeartbeat(w) \/ Crash(w)
    <3>1. UNCHANGED row /\ UNCHANGED accepted
      BY <2>1 DEF HeartbeatRead, HeartbeatError, StopHeartbeat, Crash
    <3> QED
      BY <3>1, Invisible
  <2>2. CASE HeartbeatWrite(w)
    <3>1. \A m \in Msgs : row'[m].status = row[m].status
      BY <2>2 DEF HeartbeatWrite, OrderInv, LeaseInv, TypeOK, Rows
    <3>2. UNCHANGED accepted
      BY <2>2 DEF HeartbeatWrite
    <3> QED
      BY <3>1, <3>2, Invisible
  <2> QED
    BY <1>1, <2>1, <2>2, ClaimRefines, DeliverRefines, FinalizeRefines DEF WorkerStep
<1>2. CASE Tick
  <2>1. \A m \in Msgs : row'[m].status = row[m].status
    <3>1. ASSUME NEW m \in Msgs PROVE row'[m].status = row[m].status
      <4>1. row'[m] = Aged(row[m]) /\ row[m] \in Rows /\ row[m].age + row[m].lease <= MaxLease
        BY <1>2 DEF Tick, OrderInv, LeaseInv, LeaseCapped, TypeOK
      <4> QED
        BY <4>1, AgedRow
    <3> QED
      BY <3>1
  <2>2. UNCHANGED accepted
    BY <1>2 DEF Tick
  <2> QED
    BY <2>1, <2>2, Invisible
<1>3. CASE UNCHANGED vars
  BY <1>3, Invisible DEF vars
<1> QED
  BY <1>1, <1>2, <1>3, QueueStepRefines DEF Next

\* The empty table is an initial state of OrderedDelivery.
LEMMA InitRefines == Init => Abstract!Init
<1> SUFFICES ASSUME Init PROVE Abstract!Init
  OBVIOUS
<1>1. \A m \in Msgs : Phase(row[m].status) = "absent"
  BY PhaseUnseen DEF Init, AbsentRow
<1> QED
  BY <1>1 DEF Init, Abstract!Init

\* Every behaviour of the queue is, seen through what is recorded of its messages
\* and accepted by their receivers, a behaviour of OrderedDelivery, for any number
\* of messages, workers and faults, if enqueue transactions do not overlap.
THEOREM QueueImplementsOrderedDelivery ==
    ASSUME Writers = 1 PROVE Spec => ImplementsOrderedDelivery
<1>1. Spec => []OrderInv
  BY OrderInvariant
<1> QED
  BY <1>1, InitRefines, NextRefines, PTL DEF Spec, ImplementsOrderedDelivery, Abstract!Spec
=============================================================================
