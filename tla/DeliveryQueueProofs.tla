------------------------- MODULE DeliveryQueueProofs -------------------------
(***************************************************************************)
(* Proofs about DeliveryQueue, for every set of messages, every set of     *)
(* workers and every value of the bounds.                                  *)
(***************************************************************************)
EXTENDS DeliveryQueue, TLAPS, FiniteSetTheorems

\* The row has no lease.
Unleased(r) ==
    /\ r.status # "running"
    /\ r.token = None
    /\ r.lease = 0 /\ r.age = 0
    /\ r.wait > 0 => r.status = "retry_wait"

\* A claim may take the row or give it up.
Free(r) == r.status \in Waiting \/ Lapsed(r)

\* What recovery and the ordering gate make of a row that a claim does not lease.
PutBack(r, s) ==
    \/ s = r
    \/ /\ Free(r)
       /\ Unleased(s)
       /\ s.wait = 0
       /\ s.status \in Failed \cup {"pending"}

\* A worker that is not idle has a message in hand, and an idle one has no
\* heartbeat in flight.
InHand(w) == /\ worker[w].pc # "idle" => worker[w].msg \in Msgs
             /\ worker[w].beating => worker[w].pc # "idle"

\* An extension in flight, once written, keeps the lease within MaxLease of the
\* start of its attempt, however much time passes before the write.
ExtensionFits(w) ==
    worker[w].beating /\ Fenced(w)
        => worker[w].ext + row[worker[w].msg].age <= MaxLease

\* A worker about to record a delivery saw a receiver accept it.
OutcomeAccepted(w) ==
    worker[w].pc \in {"stopping", "finalizing"} /\ worker[w].outcome = "ok"
        => worker[w].msg \in accepted

\* The inductive invariant of the leases.
LeaseInv == /\ TypeOK
            /\ LeaseFields
            /\ LeaseCapped
            /\ SucceededWasAccepted
            /\ \A w \in Workers : InHand(w) /\ ExtensionFits(w) /\ OutcomeAccepted(w)

-----------------------------------------------------------------------------
(* What the helpers return. *)

\* Releasing a row yields a row without a lease.
LEMMA ReleasedRow ==
    ASSUME NEW r \in Rows, NEW s \in Statuses \ {"running"}, NEW d \in Nat,
           d > 0 => s = "retry_wait"
    PROVE  /\ Released(r, s, d) \in Rows
           /\ Unleased(Released(r, s, d))
           /\ Released(r, s, d).status = s
           /\ Released(r, s, d).wait = d
<1>1. 0 \in 0..MaxLease
  BY LeaseAssumption
<1>2. Released(r, s, d) \in Rows
  BY <1>1 DEF Released, Rows
<1>3. /\ Released(r, s, d).status = s
      /\ Released(r, s, d).wait = d
      /\ Released(r, s, d).token = None
      /\ Released(r, s, d).lease = 0
      /\ Released(r, s, d).age = 0
  BY <1>2 DEF Released, Rows
<1> QED
  BY <1>2, <1>3 DEF Unleased

\* Leasing a row starts an attempt with a full lease.
LEMMA LeasedRow ==
    ASSUME NEW r \in Rows, NEW w \in Workers
    PROVE  /\ Leased(r, w) \in Rows
           /\ Leased(r, w).status = "running"
           /\ Leased(r, w).age = 0
           /\ Leased(r, w).lease = Lease
           /\ Leased(r, w).token = w
           /\ Leased(r, w).wait = 0
<1>1. /\ 0 \in 0..MaxLease
      /\ Lease \in 0..MaxLease
      /\ "running" \in Statuses
  BY LeaseAssumption DEF Statuses
<1>2. r.attempts + 1 \in Nat
  BY DEF Rows
<1>3. Leased(r, w) \in Rows
  BY <1>1, <1>2 DEF Leased, Rows
<1> QED
  BY <1>3 DEF Leased, Rows

\* Time moves the end of a lease nearer by as much as it adds to its age.
LEMMA AgedRow ==
    ASSUME NEW r \in Rows, r.age + r.lease <= MaxLease
    PROVE  /\ Aged(r) \in Rows
           /\ Aged(r).status = r.status
           /\ Aged(r).token = r.token
           /\ Aged(r).age + Aged(r).lease = r.age + r.lease
           /\ r.lease > 0 => Aged(r).age = r.age + 1 /\ Aged(r).lease = r.lease - 1
           /\ r.lease = 0 => Aged(r).lease = 0 /\ Aged(r).age = r.age
<1> DEFINE wait  == IF r.wait > 0 THEN r.wait - 1 ELSE 0
           lease == IF r.lease > 0 THEN r.lease - 1 ELSE 0
           age   == IF r.lease > 0 THEN r.age + 1 ELSE r.age
<1>1. r.lease \in 0..MaxLease /\ r.age \in 0..MaxLease /\ r.wait \in Nat
  BY DEF Rows
<1>2. wait \in Nat /\ lease \in 0..MaxLease /\ age \in 0..MaxLease
  BY <1>1, LeaseAssumption
<1>3. age + lease = r.age + r.lease
  BY <1>1
<1>4. Aged(r) = [r EXCEPT !.wait = wait, !.lease = lease, !.age = age]
  BY DEF Aged
<1> HIDE DEF wait, lease, age
<1>5. /\ Aged(r) \in Rows
      /\ Aged(r).status = r.status
      /\ Aged(r).token = r.token
      /\ Aged(r).lease = lease
      /\ Aged(r).age = age
  BY <1>2, <1>4 DEF Rows
<1> QED
  BY <1>1, <1>3, <1>5 DEF lease, age

\* Every delay a retry may wait for is a number of ticks.
LEMMA BackoffIsDelay ==
    ASSUME NEW attempt \in Nat
    PROVE  BackoffDelays(attempt) \subseteq Nat
<1> DEFINE i == IF attempt > Len(RetryDelays) THEN Len(RetryDelays)
                ELSE IF attempt = 0 THEN 1 ELSE attempt
<1>1. Len(RetryDelays) \in Nat
  BY RetryAssumption
<1>2. i \in 1..Len(RetryDelays)
  BY <1>1, RetryAssumption
<1>3. RetryDelays[i] \in Nat
  BY <1>2, RetryAssumption
<1> QED
  BY <1>3, RetryAssumption DEF BackoffDelays

\* Recording an outcome takes the row's lease away; it becomes succeeded only
\* for a delivery that succeeded.
LEMMA FinalizedRow ==
    ASSUME NEW r \in Rows, NEW outcome \in Outcomes, NEW attempt \in Nat,
           NEW s \in Finalized(r, outcome, attempt)
    PROVE  /\ s \in Rows
           /\ Unleased(s)
           /\ s.status \in Terminal \cup {"retry_wait"}
           /\ s.status = "succeeded" => outcome = "ok"
<1>1. Statuses \ {"running"} = Terminal \cup Waiting \cup Unseen
  BY DEF Statuses, Terminal, Failed, Waiting, Unseen
<1>2. CASE outcome = "ok"
  <2>1. s = Released(r, "succeeded", 0)
    BY <1>2 DEF Finalized
  <2>2. "succeeded" \in Terminal
    BY DEF Terminal
  <2>3. s \in Rows /\ Unleased(s) /\ s.status = "succeeded"
    BY <1>1, <2>1, <2>2, ReleasedRow
  <2> QED
    BY <1>2, <2>2, <2>3
<1>3. CASE outcome # "ok"
  <2>1. \/ \E f \in Failed : s = Released(r, f, 0)
        \/ \E d \in BackoffDelays(attempt) : s = Released(r, "retry_wait", d)
    BY <1>3 DEF Finalized, Failed
  <2>2. CASE \E f \in Failed : s = Released(r, f, 0)
    <3>1. PICK f \in Failed : s = Released(r, f, 0)
      BY <2>2
    <3>2. f \in Terminal /\ f # "succeeded"
      BY <3>1 DEF Terminal, Failed
    <3>3. s \in Rows /\ Unleased(s) /\ s.status = f
      BY <1>1, <3>1, <3>2, ReleasedRow
    <3> QED
      BY <3>2, <3>3
  <2>3. CASE \E d \in BackoffDelays(attempt) : s = Released(r, "retry_wait", d)
    <3>1. PICK d \in BackoffDelays(attempt) : s = Released(r, "retry_wait", d)
      BY <2>3
    <3>2. d \in Nat /\ "retry_wait" \in Waiting
      BY <3>1, BackoffIsDelay DEF Waiting
    <3>3. s \in Rows /\ Unleased(s) /\ s.status = "retry_wait"
      BY <1>1, <3>1, <3>2, ReleasedRow
    <3> QED
      BY <3>3
  <2> QED
    BY <2>1, <2>2, <2>3
<1> QED
  BY <1>2, <1>3

\* Recovery puts back what has lapsed and leaves the rest.
LEMMA RecoveredRows ==
    ASSUME NEW rows \in [Msgs -> Rows]
    PROVE  /\ Recovered(rows) \in [Msgs -> Rows]
           /\ \A m \in Msgs : PutBack(rows[m], Recovered(rows)[m])
<1>1. "pending" \in Statuses \ {"running"}
  BY DEF Statuses, Waiting
<1>2. ASSUME NEW m \in Msgs
      PROVE  /\ Recovered(rows)[m] \in Rows
             /\ PutBack(rows[m], Recovered(rows)[m])
  <2>1. CASE Lapsed(rows[m])
    <3>1. Recovered(rows)[m] = Released(rows[m], "pending", 0)
      BY <2>1 DEF Recovered
    <3> QED
      BY <1>1, <2>1, <3>1, ReleasedRow DEF PutBack, Free
  <2>2. CASE ~Lapsed(rows[m])
    BY <2>2 DEF Recovered, PutBack
  <2> QED
    BY <2>1, <2>2
<1>3. Recovered(rows) = [m \in Msgs |-> Recovered(rows)[m]]
  BY DEF Recovered
<1> QED
  BY <1>2, <1>3

\* Giving up the successors of failed messages changes due candidates only.
LEMMA GiveUpRows ==
    ASSUME NEW rows \in [Msgs -> Rows], NEW S \in SUBSET Msgs,
           \A m \in S : rows[m].status \in Waiting
    PROVE  /\ GiveUp(rows, S) \in [Msgs -> Rows]
           /\ \A m \in Msgs : PutBack(rows[m], GiveUp(rows, S)[m])
<1>1. Failed \subseteq Statuses \ {"running"}
  BY DEF Failed, Terminal, Statuses
<1>2. ASSUME NEW m \in Msgs
      PROVE  /\ GiveUp(rows, S)[m] \in Rows
             /\ PutBack(rows[m], GiveUp(rows, S)[m])
  <2>1. CASE m \in PassedOver(rows, S)
    <3> DEFINE f == rows[Oldest(Unfinished(rows, m))].status
    <3>1. m \in S /\ f \in Failed
      BY <2>1 DEF PassedOver, Gate
    <3>2. GiveUp(rows, S)[m] = Released(rows[m], f, 0)
      BY <2>1 DEF GiveUp
    <3> HIDE DEF f
    <3> QED
      BY <1>1, <3>1, <3>2, ReleasedRow DEF PutBack, Free
  <2>2. CASE m \notin PassedOver(rows, S)
    BY <2>2 DEF GiveUp, PutBack
  <2> QED
    BY <2>1, <2>2
<1>3. GiveUp(rows, S) = [m \in Msgs |-> GiveUp(rows, S)[m]]
  BY DEF GiveUp
<1> QED
  BY <1>2, <1>3

\* What was put back twice was put back.
LEMMA PutBackTransitive ==
    ASSUME NEW r \in Rows, NEW s \in Rows, NEW t \in Rows,
           PutBack(r, s), PutBack(s, t)
    PROVE  PutBack(r, t)
BY DEF PutBack

\* A claim puts rows back; it leases at most one, which was free, to its worker.
LEMMA ClaimedRows ==
    ASSUME NEW w \in Workers, NEW kind, NEW locked, TypeOK, ClaimWith(w, kind, locked)
    PROVE  /\ row' \in [Msgs -> Rows]
           /\ \/ /\ worker' = worker
                 /\ \A m \in Msgs : PutBack(row[m], row'[m])
              \/ \E m \in Msgs :
                   /\ Free(row[m])
                   /\ \E r \in Rows : row'[m] = Leased(r, w)
                   /\ worker' = [worker EXCEPT ![w] =
                        [IdleWorker EXCEPT !.pc = "delivering", !.msg = m,
                                           !.attempt = worker'[w].attempt]]
                   /\ worker'[w].attempt \in Nat
                   /\ \A n \in Msgs \ {m} : PutBack(row[n], row'[n])
<1> DEFINE other == IF kind = "inbox" THEN "outbox" ELSE "inbox"
           rows0 == Recovered(row)
           scan1 == Scan(rows0, kind, locked)
           rows1 == GiveUp(rows0, scan1)
           scan2 == IF Claimable(rows0, scan1) # {} THEN {} ELSE Scan(rows1, other, locked)
           rows2 == GiveUp(rows1, scan2)
           ready == Claimable(rows0, scan1) \cup Claimable(rows1, scan2)
<1>1. /\ rows0 \in [Msgs -> Rows]
      /\ \A m \in Msgs : PutBack(row[m], rows0[m])
  BY RecoveredRows DEF TypeOK
<1>2. scan1 \in SUBSET Msgs /\ \A m \in scan1 : rows0[m].status \in Waiting
  BY DEF Scan, Candidate, Due
<1>3. /\ rows1 \in [Msgs -> Rows]
      /\ \A m \in Msgs : PutBack(rows0[m], rows1[m])
  BY <1>1, <1>2, GiveUpRows
<1>4. scan2 \in SUBSET Msgs /\ \A m \in scan2 : rows1[m].status \in Waiting
  BY DEF Scan, Candidate, Due
<1>5. /\ rows2 \in [Msgs -> Rows]
      /\ \A m \in Msgs : PutBack(rows1[m], rows2[m])
  BY <1>3, <1>4, GiveUpRows
<1>6. \A m \in Msgs : PutBack(row[m], rows1[m]) /\ PutBack(row[m], rows2[m])
  BY <1>1, <1>3, <1>5, PutBackTransitive DEF TypeOK
<1>7. \A m \in ready : m \in Msgs /\ Free(row[m])
  <2>1. \A m \in Claimable(rows0, scan1) : m \in Msgs /\ rows0[m].status \in Waiting
    BY <1>2 DEF Claimable
  <2>2. \A m \in Claimable(rows1, scan2) : m \in Msgs /\ rows1[m].status \in Waiting
    BY <1>4 DEF Claimable
  <2>3. ASSUME NEW r \in Rows, NEW s \in Rows, PutBack(r, s), s.status \in Waiting
        PROVE  Free(r)
    BY <2>3 DEF PutBack, Free
  <2> QED
    BY <1>1, <1>3, <1>6, <2>1, <2>2, <2>3 DEF TypeOK
<1>8. CASE row' = rows2 /\ worker' = worker
  BY <1>5, <1>6, <1>8
<1>9. ASSUME NEW m \in ready,
             row' = [rows2 EXCEPT ![m] = Leased(rows2[m], w)],
             worker' = [worker EXCEPT ![w] =
                 [IdleWorker EXCEPT !.pc = "delivering", !.msg = m,
                                    !.attempt = rows2[m].attempts + 1]]
      PROVE  /\ row' \in [Msgs -> Rows]
             /\ Free(row[m])
             /\ row'[m] = Leased(rows2[m], w) /\ rows2[m] \in Rows
             /\ worker' = [worker EXCEPT ![w] =
                  [IdleWorker EXCEPT !.pc = "delivering", !.msg = m,
                                     !.attempt = worker'[w].attempt]]
             /\ worker'[w].attempt \in Nat
             /\ \A n \in Msgs \ {m} : PutBack(row[n], row'[n])
  <2> HIDE DEF rows0, rows1, rows2, scan1, scan2, ready
  <2>1. m \in Msgs /\ Free(row[m])
    BY <1>7
  <2>2. rows2[m] \in Rows /\ rows2[m].attempts + 1 \in Nat
    BY <1>5, <2>1 DEF Rows
  <2>3. Leased(rows2[m], w) \in Rows
    BY <2>2, LeasedRow
  <2>4. worker'[w].attempt = rows2[m].attempts + 1
    BY <1>9 DEF TypeOK, IdleWorker
  <2> QED
    BY <1>5, <1>6, <1>9, <2>1, <2>2, <2>3, <2>4
<1>10. \/ row' = rows2 /\ worker' = worker
       \/ \E m \in ready :
            /\ row' = [rows2 EXCEPT ![m] = Leased(rows2[m], w)]
            /\ worker' = [worker EXCEPT ![w] =
                 [IdleWorker EXCEPT !.pc = "delivering", !.msg = m,
                                    !.attempt = rows2[m].attempts + 1]]
  BY DEF ClaimWith
<1> HIDE DEF rows0, rows1, rows2, scan1, scan2, ready
<1> QED
  BY <1>7, <1>8, <1>9, <1>10

-----------------------------------------------------------------------------
(* The invariant of the leases. *)

\* What a row must be for LeaseFields and LeaseCapped.
RowFields(r) ==
    /\ r.status = "running" <=> r.token # None
    /\ r.status # "running" => r.lease = 0 /\ r.age = 0
    /\ r.wait > 0 => r.status = "retry_wait"
    /\ r.age + r.lease <= MaxLease

\* A row without a lease satisfies the row properties.
LEMMA UnleasedFields ==
    ASSUME NEW r \in Rows, Unleased(r)
    PROVE  RowFields(r)
BY LeaseAssumption DEF Unleased, RowFields

\* A row that starts an attempt satisfies them too.
LEMMA LeasedFields ==
    ASSUME NEW r \in Rows, NEW w \in Workers
    PROVE  RowFields(Leased(r, w))
<1>1. w # None
  BY WorkersAssumption
<1> QED
  BY <1>1, LeasedRow, LeaseAssumption DEF RowFields

\* A step that takes leases away, starts attempts of workers without a heartbeat
\* and starts no heartbeat keeps the invariant.
LEMMA LeaseInvKept ==
    ASSUME LeaseInv,
           row' \in [Msgs -> Rows],
           worker' \in [Workers -> WorkerStates],
           posted' \subseteq Msgs,
           accepted \subseteq accepted',
           accepted' \subseteq Msgs,
           faults' \in Nat,
           requeues' \in Nat,
           \A m \in Msgs :
               \/ row'[m] = row[m]
               \/ /\ Unleased(row'[m])
                  /\ row'[m].status = "succeeded" => m \in accepted'
               \/ \E w \in Workers, r \in Rows :
                    row'[m] = Leased(r, w) /\ ~worker'[w].beating,
           \A w \in Workers :
               /\ InHand(w)'
               /\ OutcomeAccepted(w)'
               /\ worker'[w].beating => /\ worker[w].beating
                                        /\ worker'[w].msg = worker[w].msg
                                        /\ worker'[w].ext = worker[w].ext
    PROVE  LeaseInv'
<1>1. TypeOK'
  BY DEF TypeOK
<1>2. ASSUME NEW m \in Msgs
      PROVE  /\ RowFields(row'[m])
             /\ row'[m].status = "succeeded" => m \in accepted'
  <2>1. CASE row'[m] = row[m]
    BY <2>1 DEF LeaseInv, LeaseFields, LeaseCapped, SucceededWasAccepted, RowFields
  <2>2. CASE Unleased(row'[m]) /\ (row'[m].status = "succeeded" => m \in accepted')
    BY <2>2, UnleasedFields
  <2>3. CASE \E w \in Workers, r \in Rows : row'[m] = Leased(r, w)
    BY <2>3, LeasedRow, LeasedFields
  <2> QED
    BY <2>1, <2>2, <2>3
<1>3. LeaseFields' /\ LeaseCapped' /\ SucceededWasAccepted'
  BY <1>2 DEF LeaseFields, LeaseCapped, SucceededWasAccepted, RowFields
<1>4. ASSUME NEW w \in Workers, worker'[w].beating, Fenced(w)'
      PROVE  worker'[w].ext + row'[worker'[w].msg].age <= MaxLease
  <2> DEFINE m == worker[w].msg
  <2>1. /\ worker[w].beating /\ worker'[w].msg = m /\ worker'[w].ext = worker[w].ext
        /\ worker[w].pc # "idle"
        /\ m \in Msgs
    BY <1>4 DEF LeaseInv, InHand
  <2>2. row'[m].status = "running" /\ row'[m].token = w /\ row'[m].lease > 0
    BY <1>4, <2>1 DEF Fenced, Holds
  <2>3. row'[m] = row[m]
    <3>1. ~Unleased(row'[m])
      BY <2>2 DEF Unleased
    <3>2. ASSUME NEW v \in Workers, NEW r \in Rows,
                 row'[m] = Leased(r, v), ~worker'[v].beating
          PROVE  FALSE
      <4>1. v = w
        BY <2>2, <3>2, LeasedRow
      <4> QED
        BY <1>4, <3>2, <4>1
    <3> QED
      BY <2>1, <3>1, <3>2
  <2>4. Fenced(w)
    BY <2>1, <2>2, <2>3 DEF Fenced, Holds
  <2> QED
    BY <2>1, <2>3, <2>4 DEF LeaseInv, ExtensionFits
<1>5. \A w \in Workers : ExtensionFits(w)'
  BY <1>4 DEF ExtensionFits
<1> QED
  BY <1>1, <1>3, <1>5 DEF LeaseInv

\* The empty table satisfies the invariant of the leases.
LEMMA LeaseInvInit == Init => LeaseInv
<1> SUFFICES ASSUME Init PROVE LeaseInv
  OBVIOUS
<1>1. AbsentRow \in Rows /\ Unleased(AbsentRow) /\ AbsentRow.status = "absent"
  BY LeaseAssumption DEF AbsentRow, Rows, Unleased, Statuses, Unseen
<1>2. IdleWorker \in WorkerStates
  BY LeaseAssumption DEF IdleWorker, WorkerStates, Outcomes
<1>3. TypeOK
  BY <1>1, <1>2 DEF Init, TypeOK
<1>4. \A m \in Msgs : RowFields(row[m]) /\ row[m].status = "absent"
  BY <1>1, UnleasedFields DEF Init
<1>5. LeaseFields /\ LeaseCapped /\ SucceededWasAccepted
  BY <1>4 DEF LeaseFields, LeaseCapped, SucceededWasAccepted, RowFields
<1>6. \A w \in Workers : InHand(w) /\ ExtensionFits(w) /\ OutcomeAccepted(w)
  BY DEF Init, IdleWorker, InHand, ExtensionFits, OutcomeAccepted
<1> QED
  BY <1>3, <1>5, <1>6 DEF LeaseInv

(* One lemma for each action: its step keeps the invariant. *)

\* An idle worker has no heartbeat.
LEMMA IdleWorkerType ==
    /\ IdleWorker \in WorkerStates
    /\ IdleWorker.pc = "idle"
    /\ ~IdleWorker.beating
BY LeaseAssumption DEF IdleWorker, WorkerStates, Outcomes

\* The fault counter stays a number.
LEMMA ChargeType ==
    ASSUME TypeOK, NEW n \in Nat, Charge(n)
    PROVE  faults' \in Nat
BY DEF TypeOK, Charge

\* A step that only takes the lease of one row away.
LEMMA OneRowStep ==
    ASSUME LeaseInv, NEW m \in Msgs, NEW r \in Rows, Unleased(r),
           r.status # "succeeded",
           row' = [row EXCEPT ![m] = r],
           UNCHANGED <<worker, posted, accepted, faults>>, requeues' \in Nat
    PROVE  LeaseInv'
<1>0. row \in [Msgs -> Rows]
  BY DEF LeaseInv, TypeOK
<1>1. /\ row' \in [Msgs -> Rows]
      /\ row'[m] = r
      /\ \A n \in Msgs \ {m} : row'[n] = row[n]
  BY <1>0
<1>2. \A w \in Workers : /\ InHand(w)'
                         /\ OutcomeAccepted(w)'
                         /\ worker'[w] = worker[w]
  BY DEF LeaseInv, InHand, OutcomeAccepted
<1> QED
  BY <1>1, <1>2, LeaseInvKept DEF LeaseInv, TypeOK

\* Opening and committing an enqueue transaction.
LEMMA EnqueueKeepsInv ==
    ASSUME LeaseInv, NEW m \in Msgs, EnqueueBegin(m) \/ EnqueueCommit(m)
    PROVE  LeaseInv'
<1>1. PICK s \in {"open", "pending"} : row' = [row EXCEPT ![m] = [row[m] EXCEPT !.status = s]]
  BY DEF EnqueueBegin, EnqueueCommit, LeaseInv, TypeOK
<1> DEFINE r == [row[m] EXCEPT !.status = s]
<1>2. row[m] \in Rows /\ row[m].status \in Unseen
  BY DEF LeaseInv, TypeOK, EnqueueBegin, EnqueueCommit, Unseen
<1>3. s \in Statuses
  BY <1>1 DEF Statuses, Unseen, Waiting
<1>4. r \in Rows /\ r.status = s /\ r.wait = row[m].wait /\ r.token = row[m].token
      /\ r.lease = row[m].lease /\ r.age = row[m].age
  BY <1>2, <1>3 DEF Rows
<1>5. /\ row[m].status # "running" /\ row[m].token = None
      /\ row[m].lease = 0 /\ row[m].age = 0 /\ ~(row[m].wait > 0)
  BY <1>2 DEF LeaseInv, LeaseFields, Unseen
<1>6. Unleased(r) /\ r.status # "succeeded"
  BY <1>1, <1>4, <1>5 DEF Unleased
<1>7. UNCHANGED <<worker, posted, accepted, faults, requeues>>
  BY DEF EnqueueBegin, EnqueueCommit
<1> HIDE DEF r
<1>8. row' = [row EXCEPT ![m] = r]
  BY <1>1 DEF r
<1> QED
  BY <1>4, <1>6, <1>7, <1>8, OneRowStep DEF LeaseInv, TypeOK

\* The decisions of an operator.
LEMMA OperatorKeepsInv ==
    ASSUME LeaseInv, NEW m \in Msgs, Requeue(m) \/ Discard(m)
    PROVE  LeaseInv'
<1>1. row[m] \in Rows
  BY DEF LeaseInv, TypeOK
<1>2. {"pending", "permanent_failure"} \subseteq Statuses \ {"running"}
  BY DEF Statuses, Waiting, Terminal, Failed
<1>3. CASE Requeue(m)
  <2> DEFINE r == [Released(row[m], "pending", 0) EXCEPT !.attempts = 0]
  <2>1. /\ Released(row[m], "pending", 0) \in Rows
        /\ Unleased(Released(row[m], "pending", 0))
        /\ Released(row[m], "pending", 0).status = "pending"
    BY <1>1, <1>2, ReleasedRow
  <2>2. r \in Rows /\ Unleased(r) /\ r.status = "pending"
    BY <2>1 DEF Rows, Unleased
  <2>3. /\ row' = [row EXCEPT ![m] = r]
        /\ requeues' \in Nat
        /\ UNCHANGED <<worker, posted, accepted, faults>>
    BY <1>3 DEF Requeue, LeaseInv, TypeOK
  <2> HIDE DEF r
  <2> QED
    BY <2>2, <2>3, OneRowStep
<1>4. CASE Discard(m)
  <2>1. /\ Released(row[m], "permanent_failure", 0) \in Rows
        /\ Unleased(Released(row[m], "permanent_failure", 0))
        /\ Released(row[m], "permanent_failure", 0).status = "permanent_failure"
    BY <1>1, <1>2, ReleasedRow
  <2>2. /\ row' = [row EXCEPT ![m] = Released(row[m], "permanent_failure", 0)]
        /\ UNCHANGED <<worker, posted, accepted, faults, requeues>>
    BY <1>4 DEF Discard
  <2> QED
    BY <2>1, <2>2, OneRowStep DEF LeaseInv, TypeOK
<1> QED
  BY <1>3, <1>4

\* A claim: recovery, the ordering gate and the new lease.
LEMMA ClaimKeepsInv ==
    ASSUME LeaseInv, NEW w \in Workers, Claim(w)
    PROVE  LeaseInv'
<1>1. PICK kind \in {"inbox", "outbox"}, locked \in SUBSET Msgs : ClaimWith(w, kind, locked)
  BY DEF Claim
<1>2. UNCHANGED <<posted, accepted, faults, requeues>>
  BY <1>1 DEF ClaimWith
<1>3. ASSUME NEW r \in Rows, NEW s \in Rows, PutBack(r, s)
      PROVE  s = r \/ (Unleased(s) /\ s.status # "succeeded")
  BY <1>3 DEF PutBack, Failed
<1>4. row' \in [Msgs -> Rows]
  BY <1>1, ClaimedRows DEF LeaseInv
<1>5. CASE worker' = worker /\ \A m \in Msgs : PutBack(row[m], row'[m])
  <2>1. \A v \in Workers : InHand(v)' /\ OutcomeAccepted(v)' /\ worker'[v] = worker[v]
    BY <1>2, <1>5 DEF LeaseInv, InHand, OutcomeAccepted
  <2>2. \A m \in Msgs : row'[m] = row[m] \/ (Unleased(row'[m]) /\ row'[m].status # "succeeded")
    BY <1>3, <1>4, <1>5 DEF LeaseInv, TypeOK
  <2> QED
    BY <1>2, <1>4, <1>5, <2>1, <2>2, LeaseInvKept DEF LeaseInv, TypeOK
<1>6. ASSUME NEW m \in Msgs, NEW r \in Rows,
             row'[m] = Leased(r, w),
             worker' = [worker EXCEPT ![w] =
                 [IdleWorker EXCEPT !.pc = "delivering", !.msg = m,
                                    !.attempt = worker'[w].attempt]],
             worker'[w].attempt \in Nat,
             \A n \in Msgs \ {m} : PutBack(row[n], row'[n])
      PROVE  LeaseInv'
  <2>1. [IdleWorker EXCEPT !.pc = "delivering", !.msg = m,
                           !.attempt = worker'[w].attempt] \in WorkerStates
    BY <1>6, IdleWorkerType DEF WorkerStates
  <2>2. /\ worker' \in [Workers -> WorkerStates]
        /\ \A v \in Workers \ {w} : worker'[v] = worker[v]
        /\ worker'[w].pc = "delivering" /\ worker'[w].msg = m /\ ~worker'[w].beating
    <3>1. worker \in [Workers -> WorkerStates]
      BY DEF LeaseInv, TypeOK
    <3>2. /\ worker' \in [Workers -> WorkerStates]
          /\ \A v \in Workers \ {w} : worker'[v] = worker[v]
      BY <1>6, <2>1, <3>1
    <3>3. worker'[w] = [IdleWorker EXCEPT !.pc = "delivering", !.msg = m,
                                          !.attempt = worker'[w].attempt]
      BY <1>6, <3>1
    <3> QED
      BY <3>2, <3>3, IdleWorkerType DEF WorkerStates
  <2>3. \A v \in Workers :
          /\ InHand(v)'
          /\ OutcomeAccepted(v)'
          /\ worker'[v].beating => worker'[v] = worker[v]
    BY <1>2, <2>2 DEF LeaseInv, InHand, OutcomeAccepted
  <2>4. \A n \in Msgs :
          \/ row'[n] = row[n]
          \/ Unleased(row'[n]) /\ row'[n].status # "succeeded"
          \/ \E v \in Workers, s \in Rows : row'[n] = Leased(s, v) /\ ~worker'[v].beating
    BY <1>3, <1>4, <1>6, <2>2 DEF LeaseInv, TypeOK
  <2> QED
    BY <1>2, <1>4, <2>2, <2>3, <2>4, LeaseInvKept DEF LeaseInv, TypeOK
<1>7. \/ worker' = worker /\ \A m \in Msgs : PutBack(row[m], row'[m])
      \/ \E m \in Msgs, r \in Rows :
           /\ row'[m] = Leased(r, w)
           /\ worker' = [worker EXCEPT ![w] =
                 [IdleWorker EXCEPT !.pc = "delivering", !.msg = m,
                                    !.attempt = worker'[w].attempt]]
           /\ worker'[w].attempt \in Nat
           /\ \A n \in Msgs \ {m} : PutBack(row[n], row'[n])
  BY <1>1, ClaimedRows DEF LeaseInv
<1> QED
  BY <1>5, <1>6, <1>7

\* A step of one worker that starts no heartbeat and leaves the rows alone or
\* records its outcome.
LEMMA OneWorkerStep ==
    ASSUME LeaseInv, NEW w \in Workers, NEW x \in WorkerStates,
           worker' = [worker EXCEPT ![w] = x],
           x.pc # "idle" => x.msg \in Msgs,
           x.beating => /\ worker[w].beating /\ x.pc # "idle"
                        /\ x.msg = worker[w].msg /\ x.ext = worker[w].ext,
           x.pc \in {"stopping", "finalizing"} /\ x.outcome = "ok" => x.msg \in accepted',
           \/ UNCHANGED row
           \/ worker[w].pc \in {"stopping", "finalizing"} /\ Recorded(w),
           posted' \subseteq Msgs, accepted \subseteq accepted', accepted' \subseteq Msgs,
           faults' \in Nat, UNCHANGED requeues
    PROVE  LeaseInv'
<1>1. /\ row \in [Msgs -> Rows]
      /\ worker \in [Workers -> WorkerStates]
      /\ requeues' \in Nat
  BY DEF LeaseInv, TypeOK
<1>2. /\ worker' \in [Workers -> WorkerStates]
      /\ worker'[w] = x
      /\ \A v \in Workers \ {w} : worker'[v] = worker[v]
  BY <1>1
<1>3. \A v \in Workers : /\ InHand(v)'
                         /\ OutcomeAccepted(v)'
                         /\ worker'[v].beating => /\ worker[v].beating
                                                  /\ worker'[v].msg = worker[v].msg
                                                  /\ worker'[v].ext = worker[v].ext
  BY <1>2 DEF LeaseInv, InHand, OutcomeAccepted
<1>4. CASE UNCHANGED row
  <2>1. row' \in [Msgs -> Rows] /\ \A m \in Msgs : row'[m] = row[m]
    BY <1>1, <1>4
  <2> QED
    BY <1>1, <1>2, <1>3, <2>1, LeaseInvKept
<1>5. CASE worker[w].pc \in {"stopping", "finalizing"} /\ Recorded(w)
  <2> DEFINE m == worker[w].msg
  <2>1. /\ m \in Msgs
        /\ worker[w].outcome \in Outcomes
        /\ worker[w].attempt \in Nat
    BY <1>1, <1>5 DEF LeaseInv, InHand, WorkerStates
  <2>2. PICK r \in Finalized(row[m], worker[w].outcome, worker[w].attempt) :
            row' = [row EXCEPT ![m] = r]
    BY <1>5 DEF Recorded
  <2>3. /\ r \in Rows
        /\ Unleased(r)
        /\ r.status = "succeeded" => worker[w].outcome = "ok"
    BY <1>1, <2>1, <2>2, FinalizedRow
  <2>4. r.status = "succeeded" => m \in accepted'
    BY <1>5, <2>1, <2>3 DEF LeaseInv, OutcomeAccepted
  <2> HIDE DEF m
  <2>5. /\ row' \in [Msgs -> Rows]
        /\ row'[m] = r
        /\ \A n \in Msgs \ {m} : row'[n] = row[n]
    BY <1>1, <2>1, <2>2, <2>3
  <2>6. \A n \in Msgs : \/ row'[n] = row[n]
                        \/ /\ Unleased(row'[n])
                           /\ row'[n].status = "succeeded" => n \in accepted'
    BY <2>3, <2>4, <2>5
  <2> QED
    BY <1>1, <1>2, <1>3, <2>5, <2>6, LeaseInvKept
<1> QED
  BY <1>4, <1>5

\* A heartbeat whose query throws.
LEMMA HeartbeatErrorKeepsInv ==
    ASSUME LeaseInv, NEW w \in Workers, HeartbeatError(w)
    PROVE  LeaseInv'
<1> DEFINE x == [worker[w] EXCEPT !.beating = FALSE, !.ext = 0, !.lost = TRUE]
<1>1. worker \in [Workers -> WorkerStates] /\ 0 \in 0..MaxLease
  BY LeaseAssumption DEF LeaseInv, TypeOK
<1>2. /\ x \in WorkerStates
      /\ ~x.beating
      /\ x.pc = worker[w].pc /\ x.msg = worker[w].msg /\ x.outcome = worker[w].outcome
  BY <1>1 DEF WorkerStates
<1>3. worker' = [worker EXCEPT ![w] = x]
  BY <1>1 DEF HeartbeatError
<1>4. faults' \in Nat /\ UNCHANGED <<row, posted, accepted, requeues>>
  BY ChargeType DEF HeartbeatError, LeaseInv
<1>5. InHand(w) /\ OutcomeAccepted(w) /\ posted \subseteq Msgs /\ accepted \subseteq Msgs
  BY DEF LeaseInv, TypeOK
<1> HIDE DEF x
<1> QED
  BY <1>2, <1>3, <1>4, <1>5, OneWorkerStep DEF InHand, OutcomeAccepted

\* A delivery and what it reports.
LEMMA DeliverKeepsInv ==
    ASSUME LeaseInv, NEW w \in Workers, Deliver(w)
    PROVE  LeaseInv'
<1>1. PICK result \in Outcomes, sent \in BOOLEAN, taken \in BOOLEAN :
        /\ result = "ok" => taken
        /\ worker[w].pc = "delivering"
        /\ worker' = [worker EXCEPT ![w].pc = "stopping", ![w].outcome = result]
        /\ posted' = IF sent THEN posted \cup {worker[w].msg} ELSE posted
        /\ accepted' = IF taken THEN accepted \cup {worker[w].msg} ELSE accepted
        /\ UNCHANGED <<row, faults, requeues>>
  BY DEF Deliver, Reported
<1> DEFINE x == [worker[w] EXCEPT !.pc = "stopping", !.outcome = result]
<1>2. worker \in [Workers -> WorkerStates]
  BY DEF LeaseInv, TypeOK
<1>3. /\ x \in WorkerStates
      /\ x.pc = "stopping" /\ x.outcome = result
      /\ x.beating = worker[w].beating /\ x.msg = worker[w].msg /\ x.ext = worker[w].ext
  BY <1>1, <1>2 DEF WorkerStates
<1>4. worker' = [worker EXCEPT ![w] = x]
  BY <1>1, <1>2
<1>5. worker[w].msg \in Msgs
  BY <1>1 DEF LeaseInv, InHand
<1>6. /\ posted' \subseteq Msgs /\ accepted \subseteq accepted' /\ accepted' \subseteq Msgs
      /\ faults' \in Nat
      /\ result = "ok" => worker[w].msg \in accepted'
  BY <1>1, <1>5 DEF LeaseInv, TypeOK
<1> HIDE DEF x
<1> QED
  BY <1>1, <1>3, <1>4, <1>5, <1>6, OneWorkerStep

\* The end of the heartbeat.
LEMMA StopHeartbeatKeepsInv ==
    ASSUME LeaseInv, NEW w \in Workers, StopHeartbeat(w)
    PROVE  LeaseInv'
<1> DEFINE x == IF worker[w].lost /\ worker[w].outcome = "ok" THEN IdleWorker
                ELSE [worker[w] EXCEPT !.pc = "finalizing"]
<1>1. worker \in [Workers -> WorkerStates]
  BY DEF LeaseInv, TypeOK
<1>2. InHand(w) /\ OutcomeAccepted(w) /\ posted \subseteq Msgs /\ accepted \subseteq Msgs
      /\ worker[w].pc = "stopping" /\ ~worker[w].beating
      /\ faults' \in Nat /\ UNCHANGED <<row, posted, accepted, faults, requeues>>
  BY DEF LeaseInv, TypeOK, StopHeartbeat
<1>3. /\ x \in WorkerStates
      /\ ~x.beating
      /\ x.pc # "idle" => x.msg \in Msgs
      /\ x.pc \in {"stopping", "finalizing"} /\ x.outcome = "ok" => x.msg \in accepted
  <2>1. CASE worker[w].lost /\ worker[w].outcome = "ok"
    BY <2>1, IdleWorkerType
  <2>2. CASE ~(worker[w].lost /\ worker[w].outcome = "ok")
    <3>1. x = [worker[w] EXCEPT !.pc = "finalizing"]
      BY <2>2
    <3>2. worker[w].msg \in Msgs
      BY <1>2 DEF InHand
    <3> QED
      BY <1>1, <1>2, <3>1, <3>2 DEF WorkerStates, OutcomeAccepted
  <2> QED
    BY <2>1, <2>2
<1>4. worker' = [worker EXCEPT ![w] = x]
  BY <1>1 DEF StopHeartbeat
<1> HIDE DEF x
<1> QED
  BY <1>2, <1>3, <1>4, OneWorkerStep

\* The fenced update that records the outcome.
LEMMA FinalizeKeepsInv ==
    ASSUME LeaseInv, NEW w \in Workers, Finalize(w)
    PROVE  LeaseInv'
<1>1. /\ worker' = [worker EXCEPT ![w] = IdleWorker]
      /\ UNCHANGED row \/ (worker[w].pc \in {"stopping", "finalizing"} /\ Recorded(w))
      /\ UNCHANGED <<posted, accepted, faults, requeues>>
  BY DEF Finalize
<1>2. posted \subseteq Msgs /\ accepted \subseteq Msgs /\ faults \in Nat
  BY DEF LeaseInv, TypeOK
<1> QED
  BY <1>1, <1>2, IdleWorkerType, OneWorkerStep

\* The update that throws, committed or not.
LEMMA FinalizeErrorKeepsInv ==
    ASSUME LeaseInv, NEW w \in Workers, FinalizeError(w)
    PROVE  LeaseInv'
<1> DEFINE x == IF worker[w].outcome = "ok" THEN [worker[w] EXCEPT !.outcome = "retryable"]
                ELSE IdleWorker
<1>1. worker \in [Workers -> WorkerStates]
  BY DEF LeaseInv, TypeOK
<1>2. /\ UNCHANGED row \/ (worker[w].pc \in {"stopping", "finalizing"} /\ Recorded(w))
      /\ worker[w].pc = "finalizing"
      /\ faults' \in Nat /\ UNCHANGED <<posted, accepted, requeues>>
  BY ChargeType DEF FinalizeError, LeaseInv
<1>3. worker' = [worker EXCEPT ![w] = x]
  BY <1>1 DEF FinalizeError
<1>4. worker[w].msg \in Msgs
  BY <1>2 DEF LeaseInv, InHand
<1>5. /\ x \in WorkerStates
      /\ x.pc # "idle" => x.msg \in Msgs
      /\ x.beating => /\ worker[w].beating /\ x.pc # "idle"
                      /\ x.msg = worker[w].msg /\ x.ext = worker[w].ext
      /\ x.pc \in {"stopping", "finalizing"} => x.outcome # "ok"
  <2>1. CASE worker[w].outcome = "ok"
    <3>1. x = [worker[w] EXCEPT !.outcome = "retryable"]
      BY <2>1
    <3> QED
      BY <1>1, <1>2, <1>4, <3>1 DEF WorkerStates, Outcomes
  <2>2. CASE worker[w].outcome # "ok"
    BY <2>2, IdleWorkerType
  <2> QED
    BY <2>1, <2>2
<1>6. posted \subseteq Msgs /\ accepted \subseteq Msgs
  BY DEF LeaseInv, TypeOK
<1> HIDE DEF x
<1> QED
  BY <1>2, <1>3, <1>5, <1>6, OneWorkerStep

\* The death of a worker.
LEMMA CrashKeepsInv ==
    ASSUME LeaseInv, NEW w \in Workers, Crash(w)
    PROVE  LeaseInv'
<1>1. /\ worker' = [worker EXCEPT ![w] = IdleWorker]
      /\ faults' \in Nat /\ UNCHANGED <<row, posted, accepted, requeues>>
  BY ChargeType DEF Crash, LeaseInv
<1>2. posted \subseteq Msgs /\ accepted \subseteq Msgs
  BY DEF LeaseInv, TypeOK
<1> QED
  BY <1>1, <1>2, IdleWorkerType, OneWorkerStep

\* The lease a heartbeat proposes ends within MaxLease of the attempt's start.
LEMMA ExtensionCapped ==
    ASSUME NEW age \in 0..MaxLease
    PROVE  Extension(age) \in 0..MaxLease /\ Extension(age) + age <= MaxLease
BY LeaseAssumption DEF Extension

\* The SELECT of a heartbeat.
LEMMA HeartbeatReadKeepsInv ==
    ASSUME LeaseInv, NEW w \in Workers, HeartbeatRead(w)
    PROVE  LeaseInv'
<1> DEFINE m == worker[w].msg
<1>1. /\ row \in [Msgs -> Rows]
      /\ worker \in [Workers -> WorkerStates]
      /\ worker[w].pc = "delivering"
      /\ UNCHANGED <<row, posted, accepted, faults, requeues>>
  BY DEF LeaseInv, TypeOK, HeartbeatRead
<1>2. m \in Msgs
  BY <1>1 DEF LeaseInv, InHand
<1>3. Extension(row[m].age) \in 0..MaxLease /\ Extension(row[m].age) + row[m].age <= MaxLease
  BY <1>1, <1>2, ExtensionCapped DEF Rows
<1>4. PICK x \in WorkerStates :
        /\ worker' = [worker EXCEPT ![w] = x]
        /\ x.pc = "delivering" /\ x.msg = m
        /\ x.beating => x.ext = Extension(row[m].age)
  <2>1. CASE Fenced(w)
    <3> DEFINE x == [worker[w] EXCEPT !.beating = TRUE, !.ext = Extension(row[m].age)]
    <3>1. x \in WorkerStates /\ x.pc = "delivering" /\ x.msg = m /\ x.ext = Extension(row[m].age)
      BY <1>1, <1>3 DEF WorkerStates
    <3>2. worker' = [worker EXCEPT ![w] = x]
      BY <1>1, <2>1 DEF HeartbeatRead
    <3> QED
      BY <3>1, <3>2
  <2>2. CASE ~Fenced(w)
    <3> DEFINE x == [worker[w] EXCEPT !.lost = TRUE]
    <3>1. x \in WorkerStates /\ x.pc = "delivering" /\ x.msg = m /\ ~x.beating
      BY <1>1 DEF WorkerStates, HeartbeatRead
    <3>2. worker' = [worker EXCEPT ![w] = x]
      BY <1>1, <2>2 DEF HeartbeatRead
    <3> QED
      BY <3>1, <3>2
  <2> QED
    BY <2>1, <2>2
<1>5. /\ worker' \in [Workers -> WorkerStates]
      /\ worker'[w] = x
      /\ \A v \in Workers \ {w} : worker'[v] = worker[v]
  BY <1>1, <1>4
<1>6. TypeOK' /\ LeaseFields' /\ LeaseCapped' /\ SucceededWasAccepted'
  BY <1>1, <1>5 DEF LeaseInv, TypeOK, LeaseFields, LeaseCapped, SucceededWasAccepted
<1>7. \A v \in Workers \ {w} : InHand(v)' /\ ExtensionFits(v)' /\ OutcomeAccepted(v)'
  BY <1>1, <1>5 DEF LeaseInv, InHand, ExtensionFits, OutcomeAccepted, Fenced, Holds
<1>8. InHand(w)' /\ OutcomeAccepted(w)'
  BY <1>2, <1>4, <1>5 DEF InHand, OutcomeAccepted
<1>9. ExtensionFits(w)'
  <2>1. worker'[w].msg = m /\ row' = row
    BY <1>1, <1>4, <1>5
  <2>2. worker'[w].beating => worker'[w].ext + row'[worker'[w].msg].age <= MaxLease
    BY <1>3, <1>4, <1>5, <2>1
  <2> QED
    BY <2>2 DEF ExtensionFits
<1> QED
  BY <1>6, <1>7, <1>8, <1>9 DEF LeaseInv

\* The UPDATE of a heartbeat, however long after its SELECT.
LEMMA HeartbeatWriteKeepsInv ==
    ASSUME LeaseInv, NEW w \in Workers, HeartbeatWrite(w)
    PROVE  LeaseInv'
<1> DEFINE m == worker[w].msg
<1>1. /\ row \in [Msgs -> Rows]
      /\ worker \in [Workers -> WorkerStates]
      /\ worker[w].beating
      /\ UNCHANGED <<posted, accepted, faults, requeues>>
  BY DEF LeaseInv, TypeOK, HeartbeatWrite
<1>2. m \in Msgs /\ worker[w].pc # "idle"
  BY <1>1 DEF LeaseInv, InHand
<1>3. /\ worker' \in [Workers -> WorkerStates]
      /\ \A v \in Workers \ {w} : worker'[v] = worker[v]
      /\ ~worker'[w].beating
      /\ worker'[w].pc = worker[w].pc /\ worker'[w].msg = m
      /\ worker'[w].outcome = worker[w].outcome
  <2> DEFINE x == [worker[w] EXCEPT !.beating = FALSE, !.ext = 0, !.lost = @ \/ ~Fenced(w)]
  <2>1. 0 \in 0..MaxLease /\ (worker[w].lost \/ ~Fenced(w)) \in BOOLEAN
    BY <1>1, LeaseAssumption DEF WorkerStates
  <2>2. /\ x \in WorkerStates /\ ~x.beating
        /\ x.pc = worker[w].pc /\ x.msg = m /\ x.outcome = worker[w].outcome
    BY <1>1, <2>1 DEF WorkerStates
  <2>3. worker' = [worker EXCEPT ![w] = x]
    BY <1>1 DEF HeartbeatWrite
  <2> HIDE DEF x
  <2> QED
    BY <1>1, <2>2, <2>3
<1>4. InHand(w)' /\ OutcomeAccepted(w)' /\ ExtensionFits(w)'
  BY <1>1, <1>2, <1>3 DEF LeaseInv, InHand, OutcomeAccepted, ExtensionFits
<1>5. CASE ~Fenced(w)
  <2>1. UNCHANGED row
    BY <1>5 DEF HeartbeatWrite
  <2>2. TypeOK' /\ LeaseFields' /\ LeaseCapped' /\ SucceededWasAccepted'
    BY <1>1, <1>3, <2>1 DEF LeaseInv, TypeOK, LeaseFields, LeaseCapped, SucceededWasAccepted
  <2>3. \A v \in Workers \ {w} : InHand(v)' /\ ExtensionFits(v)' /\ OutcomeAccepted(v)'
    BY <1>1, <1>3, <2>1 DEF LeaseInv, InHand, ExtensionFits, OutcomeAccepted, Fenced, Holds
  <2> QED
    BY <1>4, <2>2, <2>3 DEF LeaseInv
<1>6. CASE Fenced(w)
  <2>1. /\ row[m] \in Rows
        /\ row[m].status = "running" /\ row[m].token = w
        /\ worker[w].ext \in 0..MaxLease
        /\ worker[w].ext + row[m].age <= MaxLease
    BY <1>1, <1>2, <1>6 DEF Fenced, Holds, LeaseInv, ExtensionFits, WorkerStates
  <2> DEFINE r == [row[m] EXCEPT !.lease = worker[w].ext]
  <2>2. /\ r \in Rows
        /\ r.status = "running" /\ r.token = w /\ r.age = row[m].age
        /\ r.lease = worker[w].ext /\ r.wait = row[m].wait
    BY <2>1 DEF Rows
  <2>3. row' = [row EXCEPT ![m] = r]
    BY <1>1, <1>6 DEF HeartbeatWrite
  <2> HIDE DEF r, m
  <2>4. /\ row' \in [Msgs -> Rows]
        /\ row'[m] = r
        /\ \A n \in Msgs \ {m} : row'[n] = row[n]
    BY <1>1, <1>2, <2>2, <2>3
  <2>5. \A n \in Msgs : RowFields(row'[n]) /\ (row'[n].status = "succeeded" => n \in accepted')
    <3>1. \A n \in Msgs : RowFields(row[n]) /\ (row[n].status = "succeeded" => n \in accepted)
      BY DEF RowFields, LeaseInv, LeaseFields, LeaseCapped, SucceededWasAccepted
    <3>2. row[m].age \in Nat /\ RowFields(row[m])
      BY <1>2, <2>1, <3>1 DEF Rows
    <3>3. RowFields(r)
      BY <2>1, <2>2, <3>2 DEF RowFields
    <3> QED
      BY <1>1, <2>2, <2>4, <3>1, <3>3
  <2>6. TypeOK' /\ LeaseFields' /\ LeaseCapped' /\ SucceededWasAccepted'
    BY <1>1, <1>3, <2>4, <2>5
       DEF LeaseInv, TypeOK, LeaseFields, LeaseCapped, SucceededWasAccepted, RowFields
  <2>7. ASSUME NEW v \in Workers \ {w}
        PROVE  InHand(v)' /\ ExtensionFits(v)' /\ OutcomeAccepted(v)'
    <3>1. InHand(v)' /\ OutcomeAccepted(v)'
      BY <1>1, <1>3 DEF LeaseInv, InHand, OutcomeAccepted
    <3>2. worker'[v].beating /\ Fenced(v)' => worker[v].msg # m /\ Fenced(v) /\ worker[v].msg \in Msgs
      BY <1>3, <2>2, <2>4 DEF Fenced, Holds, LeaseInv, InHand
    <3>3. ExtensionFits(v)'
      BY <1>3, <2>4, <3>2 DEF LeaseInv, ExtensionFits
    <3> QED
      BY <3>1, <3>3
  <2> QED
    BY <1>4, <2>6, <2>7 DEF LeaseInv
<1> QED
  BY <1>5, <1>6

\* The passing of time.
LEMMA TickKeepsInv ==
    ASSUME LeaseInv, Tick
    PROVE  LeaseInv'
<1>1. /\ row \in [Msgs -> Rows]
      /\ worker \in [Workers -> WorkerStates]
      /\ row' = [m \in Msgs |-> Aged(row[m])]
      /\ worker' = [w \in Workers |->
            [worker[w] EXCEPT !.ext = IF worker[w].ext > 0 THEN worker[w].ext - 1 ELSE 0]]
      /\ UNCHANGED <<posted, accepted, requeues>>
  BY DEF LeaseInv, TypeOK, Tick
<1>2. faults' \in Nat
  BY ChargeType DEF Tick, LeaseInv
<1>3. ASSUME NEW m \in Msgs
      PROVE  /\ row'[m] \in Rows
             /\ row'[m].status = row[m].status /\ row'[m].token = row[m].token
             /\ row'[m].lease > 0 => /\ row[m].lease > 0
                                     /\ row'[m].age = row[m].age + 1
                                     /\ row'[m].age + row'[m].lease <= MaxLease
             /\ RowFields(row'[m])
  <2>1. RowFields(row[m]) /\ row[m] \in Rows
    BY <1>1 DEF RowFields, LeaseInv, LeaseFields, LeaseCapped
  <2>2. row'[m] = Aged(row[m])
    BY <1>1
  <2>3. /\ Aged(row[m]) \in Rows
        /\ Aged(row[m]).status = row[m].status
        /\ Aged(row[m]).token = row[m].token
        /\ Aged(row[m]).age + Aged(row[m]).lease = row[m].age + row[m].lease
        /\ row[m].lease > 0 => Aged(row[m]).age = row[m].age + 1
        /\ row[m].lease = 0 => Aged(row[m]).lease = 0 /\ Aged(row[m]).age = row[m].age
    BY <2>1, AgedRow DEF RowFields
  <2>4. row[m].lease \in Nat /\ row[m].age \in Nat /\ row[m].wait \in Nat
    BY <2>1 DEF Rows
  <2>5. Aged(row[m]).wait > 0 => row[m].wait > 0
    BY <2>1, <2>4 DEF Aged, Rows
  <2> QED
    BY <2>1, <2>2, <2>3, <2>4, <2>5 DEF RowFields
<1>4. row' \in [Msgs -> Rows]
  BY <1>1, <1>3
<1>5. ASSUME NEW w \in Workers
      PROVE  /\ worker'[w] \in WorkerStates
             /\ worker'[w].pc = worker[w].pc /\ worker'[w].msg = worker[w].msg
             /\ worker'[w].beating = worker[w].beating
             /\ worker'[w].outcome = worker[w].outcome
             /\ worker'[w].ext = IF worker[w].ext > 0 THEN worker[w].ext - 1 ELSE 0
  <2>1. worker[w] \in WorkerStates
    BY <1>1
  <2> DEFINE e == IF worker[w].ext > 0 THEN worker[w].ext - 1 ELSE 0
  <2>2. e \in 0..MaxLease
    BY <2>1, LeaseAssumption DEF WorkerStates
  <2>3. worker'[w] = [worker[w] EXCEPT !.ext = e]
    BY <1>1
  <2> HIDE DEF e
  <2>4. /\ worker'[w] \in WorkerStates
        /\ worker'[w].pc = worker[w].pc /\ worker'[w].msg = worker[w].msg
        /\ worker'[w].beating = worker[w].beating
        /\ worker'[w].outcome = worker[w].outcome
        /\ worker'[w].ext = e
    BY <2>1, <2>2, <2>3 DEF WorkerStates
  <2> QED
    BY <2>4 DEF e
<1>6. worker' \in [Workers -> WorkerStates]
  BY <1>1, <1>5
<1>7. TypeOK' /\ LeaseFields' /\ LeaseCapped' /\ SucceededWasAccepted'
  BY <1>1, <1>2, <1>3, <1>4, <1>6
     DEF LeaseInv, TypeOK, LeaseFields, LeaseCapped, SucceededWasAccepted, RowFields
<1>8. ASSUME NEW w \in Workers
      PROVE  InHand(w)' /\ ExtensionFits(w)' /\ OutcomeAccepted(w)'
  <2>0. InHand(w) /\ OutcomeAccepted(w) /\ accepted' = accepted
    BY <1>1 DEF LeaseInv
  <2>1. InHand(w)' /\ OutcomeAccepted(w)'
    BY <1>5, <2>0 DEF InHand, OutcomeAccepted
  <2>2. ASSUME worker'[w].beating, Fenced(w)'
        PROVE  worker'[w].ext + row'[worker'[w].msg].age <= MaxLease
    <3> DEFINE m == worker[w].msg
    <3>0. worker[w] \in WorkerStates
      BY <1>1
    <3>1. worker'[w].msg = m /\ m \in Msgs /\ worker[w].beating /\ worker[w].ext \in Nat
      BY <1>5, <2>0, <2>2, <3>0 DEF InHand, WorkerStates
    <3>2. row'[m].lease > 0 /\ row[m].age \in Nat
      BY <1>1, <2>2, <3>1 DEF Fenced, Rows
    <3>3. /\ Fenced(w)
          /\ row'[m].age = row[m].age + 1
          /\ row'[m].age + row'[m].lease <= MaxLease
          /\ row'[m].lease \in Nat
      BY <1>3, <1>5, <2>2, <3>1, <3>2 DEF Fenced, Holds, Rows
    <3>4. worker[w].ext + row[m].age <= MaxLease
      BY <3>1, <3>3 DEF LeaseInv, ExtensionFits
    <3> HIDE DEF m
    <3> QED
      BY <1>5, <3>1, <3>2, <3>3, <3>4, LeaseAssumption
  <2> QED
    BY <2>1, <2>2 DEF ExtensionFits
<1> QED
  BY <1>7, <1>8 DEF LeaseInv

\* The steps of the specification keep the invariant.
LEMMA LeaseInvStep == LeaseInv /\ [Next]_vars => LeaseInv'
<1> SUFFICES ASSUME LeaseInv, [Next]_vars PROVE LeaseInv'
  OBVIOUS
<1>1. ASSUME NEW w \in Workers, WorkerStep(w) PROVE LeaseInv'
  <2>1. CASE Claim(w)
    BY <2>1, ClaimKeepsInv
  <2>2. CASE HeartbeatRead(w)
    BY <2>2, HeartbeatReadKeepsInv
  <2>3. CASE HeartbeatWrite(w)
    BY <2>3, HeartbeatWriteKeepsInv
  <2>4. CASE HeartbeatError(w)
    BY <2>4, HeartbeatErrorKeepsInv
  <2>5. CASE Deliver(w)
    BY <2>5, DeliverKeepsInv
  <2>6. CASE StopHeartbeat(w)
    BY <2>6, StopHeartbeatKeepsInv
  <2>7. CASE Finalize(w)
    BY <2>7, FinalizeKeepsInv
  <2>8. CASE FinalizeError(w)
    BY <2>8, FinalizeErrorKeepsInv
  <2>9. CASE Crash(w)
    BY <2>9, CrashKeepsInv
  <2> QED
    BY <1>1, <2>1, <2>2, <2>3, <2>4, <2>5, <2>6, <2>7, <2>8, <2>9 DEF WorkerStep
<1>2. ASSUME NEW m \in Msgs, QueueStep(m) PROVE LeaseInv'
  BY <1>2, EnqueueKeepsInv, OperatorKeepsInv DEF QueueStep
<1>3. CASE Tick
  BY <1>3, TickKeepsInv
<1>4. CASE UNCHANGED vars
  BY <1>4 DEF vars, LeaseInv, TypeOK, LeaseFields, LeaseCapped, SucceededWasAccepted,
              InHand, ExtensionFits, OutcomeAccepted, Fenced, Holds
<1> QED
  BY <1>1, <1>2, <1>3, <1>4 DEF Next

\* LeaseInv holds in every state of the queue: the theorems below follow from it.
THEOREM LeaseInvariant == Spec => []LeaseInv
<1> QED
  BY LeaseInvInit, LeaseInvStep, PTL DEF Spec

\* Rows and workers keep their shape, the leases and proposed extensions
\* between 0 and MaxLease included (the state of the queue).
THEOREM TypeCorrect == Spec => []TypeOK
<1>1. LeaseInv => TypeOK
  BY DEF LeaseInv
<1> QED
  BY <1>1, LeaseInvariant, PTL

\* A row carries a token and a lease exactly while it runs (claim, recovery,
\* finalization and the operator decisions agree on what they clear).
THEOREM LeaseFieldsCorrect == Spec => []LeaseFields
<1>1. LeaseInv => LeaseFields
  BY DEF LeaseInv
<1> QED
  BY <1>1, LeaseInvariant, PTL

\* No sequence of heartbeats holds a message longer than MaxLease from the start
\* of its attempt, however long a heartbeat takes between its SELECT and its
\* UPDATE (computeHeartbeatLeaseExpiry).
THEOREM LeaseCapCorrect == Spec => []LeaseCapped
<1>1. LeaseInv => LeaseCapped
  BY DEF LeaseInv
<1> QED
  BY <1>1, LeaseInvariant, PTL

\* What is recorded as delivered was accepted by a receiver, for every number of
\* crashes, lost leases and failing statements (finalizeQueueSuccess).
THEOREM SucceededCorrect == Spec => []SucceededWasAccepted
<1>1. LeaseInv => SucceededWasAccepted
  BY DEF LeaseInv
<1> QED
  BY <1>1, LeaseInvariant, PTL

-----------------------------------------------------------------------------
(* What a step may never do. *)

\* Time changes nothing in a row that waits for nothing.
LEMMA AgedSettledRow ==
    ASSUME NEW r \in Rows, r.wait = 0, r.lease = 0
    PROVE  Aged(r) = r
<1>1. ~(r.wait > 0) /\ ~(r.lease > 0)
  OBVIOUS
<1>2. Aged(r) = [r EXCEPT !.wait = 0, !.lease = 0, !.age = r.age]
  BY <1>1 DEF Aged
<1>3. [r EXCEPT !.wait = 0, !.lease = 0, !.age = r.age] = r
  BY DEF Rows
<1> QED
  BY <1>2, <1>3

\* How a step may change a row: time passes; a claim takes a free row or puts it
\* back; the worker that holds its lease extends or ends it; its enqueue goes on;
\* an operator decides on an exhausted message.
LEMMA RowStep ==
    ASSUME LeaseInv, Next, NEW m \in Msgs
    PROVE  \/ row'[m] = row[m]
           \/ row'[m] = Aged(row[m])
           \/ Free(row[m])
           \/ row[m].status \in Unseen
           \/ \E w \in Workers : /\ Fenced(w)
                                 /\ worker[w].msg = m
                                 /\ worker'[w] # worker[w]
           \/ /\ row[m].status = "retry_exhausted"
              /\ \/ row'[m].status = "permanent_failure"
                 \/ row'[m].status = "pending" /\ requeues' = requeues + 1
<1>1. /\ row \in [Msgs -> Rows]
      /\ worker \in [Workers -> WorkerStates]
  BY DEF LeaseInv, TypeOK
<1>2. ASSUME NEW w \in Workers, Claim(w)
      PROVE  row'[m] = row[m] \/ Free(row[m])
  <2>1. PICK kind \in {"inbox", "outbox"}, locked \in SUBSET Msgs : ClaimWith(w, kind, locked)
    BY <1>2 DEF Claim
  <2>2. PutBack(row[m], row'[m]) \/ Free(row[m])
    BY <2>1, ClaimedRows DEF LeaseInv
  <2> QED
    BY <2>2 DEF PutBack
<1>3. ASSUME NEW w \in Workers, HeartbeatWrite(w)
      PROVE  \/ row'[m] = row[m]
             \/ Fenced(w) /\ worker[w].msg = m /\ worker'[w] # worker[w]
  <2>1. worker[w].beating /\ ~worker'[w].beating
    BY <1>1, <1>3 DEF HeartbeatWrite, WorkerStates
  <2> QED
    BY <1>1, <1>3, <2>1 DEF HeartbeatWrite
<1>4. ASSUME NEW w \in Workers, Finalize(w) \/ FinalizeError(w)
      PROVE  \/ row'[m] = row[m]
             \/ Fenced(w) /\ worker[w].msg = m /\ worker'[w] # worker[w]
  <2>1. worker'[w] # worker[w]
    <3>1. worker[w].pc = "finalizing"
      BY <1>4 DEF Finalize, FinalizeError
    <3>2. worker'[w] = IdleWorker \/ (worker[w].outcome = "ok" /\ worker'[w].outcome = "retryable")
      BY <1>1, <1>4 DEF Finalize, FinalizeError, WorkerStates
    <3> QED
      BY <3>1, <3>2, IdleWorkerType
  <2>2. UNCHANGED row \/ (Fenced(w) /\ Recorded(w))
    BY <1>4 DEF Finalize, FinalizeError
  <2> QED
    BY <1>1, <2>1, <2>2 DEF Recorded
<1>5. ASSUME NEW w \in Workers,
             \/ HeartbeatRead(w) \/ HeartbeatError(w) \/ Deliver(w)
             \/ StopHeartbeat(w) \/ Crash(w)
      PROVE  row'[m] = row[m]
  BY <1>5 DEF HeartbeatRead, HeartbeatError, Deliver, StopHeartbeat, Crash
<1>6. ASSUME NEW n \in Msgs, EnqueueBegin(n) \/ EnqueueCommit(n)
      PROVE  row'[m] = row[m] \/ row[m].status \in Unseen
  BY <1>1, <1>6 DEF EnqueueBegin, EnqueueCommit, Unseen
<1>7. ASSUME NEW n \in Msgs, Requeue(n) \/ Discard(n)
      PROVE  \/ row'[m] = row[m]
             \/ /\ row[m].status = "retry_exhausted"
                /\ \/ row'[m].status = "permanent_failure"
                   \/ row'[m].status = "pending" /\ requeues' = requeues + 1
  <2>1. CASE n # m
    BY <1>1, <1>7, <2>1 DEF Requeue, Discard
  <2>2. CASE n = m
    <3>1. row[m].status = "retry_exhausted"
      BY <1>7, <2>2 DEF Requeue, Discard, Decidable
    <3>2. CASE Requeue(n)
      BY <1>1, <2>2, <3>1, <3>2 DEF Requeue, Released, Rows
    <3>3. CASE Discard(n)
      BY <1>1, <2>2, <3>1, <3>3 DEF Discard, Released, Rows
    <3> QED
      BY <1>7, <3>2, <3>3
  <2> QED
    BY <2>1, <2>2
<1>8. CASE Tick
  BY <1>8 DEF Tick
<1> QED
  BY <1>2, <1>3, <1>4, <1>5, <1>6, <1>7, <1>8 DEF Next, WorkerStep, QueueStep

\* A worker that lost its lease changes nothing for the one that holds it, in
\* whatever order heartbeats, finalizations and claims of any number of workers
\* interleave (the fenced updates).
THEOREM StaleWorkerHarmlessCorrect == Spec => StaleWorkerHarmless
<1>1. LeaseInv /\ [Next]_vars =>
        [\A m \in Msgs :
           row[m].status = "running" /\ row[m].lease > 0
             => \/ row'[m] = row[m]
                \/ row'[m] = Aged(row[m])
                \/ \E w \in Workers : /\ row[m].token = w
                                      /\ worker[w].msg = m
                                      /\ worker'[w] # worker[w]]_vars
  <2> SUFFICES ASSUME LeaseInv, Next, NEW m \in Msgs,
                      row[m].status = "running", row[m].lease > 0
               PROVE  \/ row'[m] = row[m]
                      \/ row'[m] = Aged(row[m])
                      \/ \E w \in Workers : /\ row[m].token = w
                                            /\ worker[w].msg = m
                                            /\ worker'[w] # worker[w]
    OBVIOUS
  <2>1. ~Free(row[m]) /\ row[m].status \notin Unseen /\ row[m].status # "retry_exhausted"
    BY DEF Free, Lapsed, Waiting, Unseen
  <2>2. \A w \in Workers : Fenced(w) /\ worker[w].msg = m => row[m].token = w
    BY DEF Fenced, Holds
  <2> QED
    BY <2>1, <2>2, RowStep
<1> QED
  BY <1>1, LeaseInvariant, PTL DEF Spec, StaleWorkerHarmless

\* A settled message stays settled; only an operator moves an exhausted one
\* (claim, recovery, finalization).
THEOREM TerminalIsFinalCorrect == Spec => TerminalIsFinal
<1>1. LeaseInv /\ [Next]_vars =>
        [\A m \in Msgs :
           /\ row[m].status \in {"succeeded", "permanent_failure"} => row'[m] = row[m]
           /\ row[m].status = "retry_exhausted" =>
                \/ row'[m] = row[m]
                \/ row'[m].status = "permanent_failure"
                \/ row'[m].status = "pending" /\ requeues' = requeues + 1]_vars
  <2> SUFFICES ASSUME LeaseInv, Next, NEW m \in Msgs, row[m].status \in Terminal
               PROVE  \/ row'[m] = row[m]
                      \/ /\ row[m].status = "retry_exhausted"
                         /\ \/ row'[m].status = "permanent_failure"
                            \/ row'[m].status = "pending" /\ requeues' = requeues + 1
    BY DEF Terminal, Failed
  <2>1. row[m].status # "running" /\ row[m].status # "retry_wait"
        /\ ~Free(row[m]) /\ row[m].status \notin Unseen
    BY DEF Free, Lapsed, Waiting, Unseen, Terminal, Failed
  <2>2. row[m] \in Rows /\ row[m].wait = 0 /\ row[m].lease = 0
    <3>1. row[m] \in Rows /\ ~(row[m].wait > 0) /\ row[m].lease = 0
      BY <2>1 DEF LeaseInv, TypeOK, LeaseFields
    <3> QED
      BY <3>1 DEF Rows
  <2>3. Aged(row[m]) = row[m]
    BY <2>2, AgedSettledRow
  <2>4. \A w \in Workers : Fenced(w) => worker[w].msg # m
    BY <2>1 DEF Fenced, Holds
  <2> QED
    BY <2>1, <2>3, <2>4, RowStep
<1> QED
  BY <1>1, LeaseInvariant, PTL DEF Spec, TerminalIsFinal

-----------------------------------------------------------------------------
(* Who has a message in hand. *)

\* The workers with m in hand that have lost its lease, whether they know or not.
Stale(m) == {w \in Workers : worker[w].msg = m /\ ~Fenced(w)}

\* A heartbeat in flight will not shorten the lease it extends.
HeartbeatExtends(w) ==
    worker[w].beating => /\ worker[w].ext <= Lease
                         /\ Fenced(w) => row[worker[w].msg].lease <= worker[w].ext

\* What a worker has in hand, and for how long.
HandInv == /\ \A w \in Workers : worker[w].pc = "idle" => worker[w].msg = None
           /\ \A m \in Msgs : row[m].lease <= Lease
           /\ \A w \in Workers : HeartbeatExtends(w)

\* Every worker that lost its lease with a message in hand is owed to a fault.
StaleCharged ==
    \A m \in Msgs : IsFiniteSet(Stale(m)) /\ Cardinality(Stale(m)) <= faults

\* A set that gains one element at most.
LEMMA OneMore ==
    ASSUME NEW S, IsFiniteSet(S), NEW n \in Nat, Cardinality(S) <= n, NEW T
    PROVE  /\ T \subseteq S => IsFiniteSet(T) /\ Cardinality(T) <= n
           /\ \A x : T \subseteq S \cup {x} => IsFiniteSet(T) /\ Cardinality(T) <= n + 1
<1>1. ASSUME T \subseteq S PROVE IsFiniteSet(T) /\ Cardinality(T) <= n
  <2>1. IsFiniteSet(T) /\ Cardinality(T) <= Cardinality(S)
    BY <1>1, FS_Subset
  <2>2. Cardinality(S) \in Nat /\ Cardinality(T) \in Nat
    BY <2>1, FS_CardinalityType
  <2> QED
    BY <2>1, <2>2
<1>2. ASSUME NEW x, T \subseteq S \cup {x} PROVE IsFiniteSet(T) /\ Cardinality(T) <= n + 1
  <2>1. /\ IsFiniteSet(S \cup {x})
        /\ Cardinality(S \cup {x}) = IF x \in S THEN Cardinality(S) ELSE Cardinality(S) + 1
    BY FS_AddElement
  <2>2. IsFiniteSet(T) /\ Cardinality(T) <= Cardinality(S \cup {x})
    BY <1>2, <2>1, FS_Subset
  <2>3. Cardinality(S) \in Nat /\ Cardinality(T) \in Nat
    BY <2>2, FS_CardinalityType
  <2> QED
    BY <2>1, <2>2, <2>3
<1> QED
  BY <1>1, <1>2

\* An idle worker has nothing in hand.
LEMMA IdleHand == IdleWorker.pc = "idle" /\ IdleWorker.msg = None /\ ~IdleWorker.beating
BY DEF IdleWorker

\* What a heartbeat proposes is no longer than Lease and no shorter than what the
\* row still has.
LEMMA ExtensionCovers ==
    ASSUME NEW r \in Rows, r.lease <= Lease, r.age + r.lease <= MaxLease
    PROVE  /\ Extension(r.age) <= Lease
           /\ r.lease <= Extension(r.age)
BY LeaseAssumption DEF Extension, Rows

\* Recording an outcome changes the row of its message only.
LEMMA RecordedRow ==
    ASSUME LeaseInv, NEW w \in Workers, worker[w].pc = "finalizing", Recorded(w)
    PROVE  /\ row'[worker[w].msg].lease = 0
           /\ \A m \in Msgs : m # worker[w].msg => row'[m] = row[m]
<1>1. PICK r \in Finalized(row[worker[w].msg], worker[w].outcome, worker[w].attempt) :
         row' = [row EXCEPT ![worker[w].msg] = r]
  BY DEF Recorded
<1>2. /\ row \in [Msgs -> Rows] /\ worker[w] \in WorkerStates
      /\ worker[w].msg \in Msgs
  BY DEF LeaseInv, TypeOK, InHand
<1>3. Unleased(r)
  BY <1>1, <1>2, FinalizedRow DEF WorkerStates
<1> QED
  BY <1>1, <1>2, <1>3 DEF Unleased

-----------------------------------------------------------------------------
(* What one step does to the hands of the workers. *)

\* Hands as they are after a step of w: it has nothing in hand, or what it had,
\* and its heartbeat does not begin.
HandKept(w) ==
    /\ worker'[w].pc = "idle" => worker'[w].msg = None
    /\ worker'[w].beating => /\ worker[w].beating
                             /\ worker'[w].msg = worker[w].msg
                             /\ worker'[w].ext = worker[w].ext

\* A step that extends no lease and begins no heartbeat, and leases a row to a
\* worker without a heartbeat only.
LEMMA HandInvKept ==
    ASSUME LeaseInv, HandInv,
           \A w \in Workers : HandKept(w),
           \A m \in Msgs :
               \/ row'[m] = row[m]
               \/ row'[m].lease = 0
               \/ \E w \in Workers, r \in Rows : row'[m] = Leased(r, w) /\ ~worker'[w].beating
    PROVE  HandInv'
<1>1. ASSUME NEW m \in Msgs PROVE row'[m].lease <= Lease
  <2>1. 0 <= Lease /\ Lease <= Lease
    BY LeaseAssumption
  <2>2. \A w \in Workers, r \in Rows : Leased(r, w).lease = Lease
    BY LeasedRow
  <2> QED
    BY <2>1, <2>2 DEF HandInv
<1>2. ASSUME NEW w \in Workers, worker'[w].beating
      PROVE  /\ worker'[w].ext <= Lease
             /\ Fenced(w)' => row'[worker'[w].msg].lease <= worker'[w].ext
  <2> DEFINE m == worker[w].msg
  <2>1. /\ worker[w].beating /\ worker'[w].msg = m /\ worker'[w].ext = worker[w].ext
        /\ worker[w].pc # "idle" /\ m \in Msgs
    BY <1>2 DEF LeaseInv, InHand, HandKept
  <2>2. worker'[w].ext <= Lease
    BY <2>1 DEF HandInv, HeartbeatExtends
  <2>3. ASSUME Fenced(w)' PROVE row'[m] = row[m]
    <3>1. row'[m].lease > 0 /\ row'[m].token = w
      BY <2>1, <2>3 DEF Fenced, Holds
    <3>2. ASSUME NEW v \in Workers, NEW r \in Rows,
                 row'[m] = Leased(r, v), ~worker'[v].beating
          PROVE  FALSE
      <4>1. v = w
        BY <3>1, <3>2, LeasedRow
      <4> QED
        BY <1>2, <3>2, <4>1
    <3> QED
      BY <2>1, <3>1, <3>2
  <2>4. ASSUME Fenced(w)' PROVE row'[m].lease <= worker'[w].ext
    <3>1. Fenced(w)
      BY <2>1, <2>3, <2>4 DEF Fenced, Holds
    <3> QED
      BY <2>1, <2>3, <2>4, <3>1 DEF HandInv, HeartbeatExtends
  <2> QED
    BY <2>1, <2>2, <2>4
<1> QED
  BY <1>1, <1>2 DEF HandInv, HeartbeatExtends, HandKept

\* What a claim does to the hands and the rows: it leases a free row to a worker
\* that was idle, or none.
LEMMA ClaimHands ==
    ASSUME LeaseInv, NEW w \in Workers, Claim(w)
    PROVE  /\ worker[w].pc = "idle"
           /\ \A v \in Workers : v # w => worker'[v] = worker[v]
           /\ \A m \in Msgs : Free(row[m]) \/ row'[m] = row[m]
           /\ \/ worker'[w] = worker[w] /\ \A m \in Msgs : Unleased(row'[m]) \/ row'[m] = row[m]
              \/ \E m \in Msgs :
                    /\ worker'[w].pc = "delivering" /\ worker'[w].msg = m /\ ~worker'[w].beating
                    /\ \E r \in Rows : row'[m] = Leased(r, w)
                    /\ \A n \in Msgs \ {m} : Unleased(row'[n]) \/ row'[n] = row[n]
<1>1. PICK kind \in {"inbox", "outbox"}, locked \in SUBSET Msgs : ClaimWith(w, kind, locked)
  BY DEF Claim
<1>2. worker[w].pc = "idle" /\ worker \in [Workers -> WorkerStates]
  BY <1>1 DEF ClaimWith, LeaseInv, TypeOK
<1>3. CASE worker' = worker /\ \A m \in Msgs : PutBack(row[m], row'[m])
  BY <1>2, <1>3 DEF PutBack
<1>4. ASSUME NEW m \in Msgs, NEW r \in Rows,
             Free(row[m]), row'[m] = Leased(r, w),
             worker' = [worker EXCEPT ![w] =
                 [IdleWorker EXCEPT !.pc = "delivering", !.msg = m,
                                    !.attempt = worker'[w].attempt]],
             \A n \in Msgs \ {m} : PutBack(row[n], row'[n])
      PROVE  /\ \A v \in Workers : v # w => worker'[v] = worker[v]
             /\ \A n \in Msgs : Free(row[n]) \/ row'[n] = row[n]
             /\ worker'[w].pc = "delivering" /\ worker'[w].msg = m /\ ~worker'[w].beating
             /\ \A n \in Msgs \ {m} : Unleased(row'[n]) \/ row'[n] = row[n]
  BY <1>2, <1>4 DEF PutBack, IdleWorker
<1>5. CASE \E m \in Msgs :
             /\ Free(row[m])
             /\ \E r \in Rows : row'[m] = Leased(r, w)
             /\ worker' = [worker EXCEPT ![w] =
                  [IdleWorker EXCEPT !.pc = "delivering", !.msg = m,
                                     !.attempt = worker'[w].attempt]]
             /\ \A n \in Msgs \ {m} : PutBack(row[n], row'[n])
  <2>1. PICK m \in Msgs, r \in Rows :
             /\ Free(row[m])
             /\ row'[m] = Leased(r, w)
             /\ worker' = [worker EXCEPT ![w] =
                  [IdleWorker EXCEPT !.pc = "delivering", !.msg = m,
                                     !.attempt = worker'[w].attempt]]
             /\ \A n \in Msgs \ {m} : PutBack(row[n], row'[n])
    BY <1>5
  <2> QED
    BY <1>2, <1>4, <2>1
<1>6. \/ worker' = worker /\ \A m \in Msgs : PutBack(row[m], row'[m])
      \/ \E m \in Msgs :
           /\ Free(row[m])
           /\ \E r \in Rows : row'[m] = Leased(r, w)
           /\ worker' = [worker EXCEPT ![w] =
                [IdleWorker EXCEPT !.pc = "delivering", !.msg = m,
                                   !.attempt = worker'[w].attempt]]
           /\ \A n \in Msgs \ {m} : PutBack(row[n], row'[n])
  BY <1>1, ClaimedRows DEF LeaseInv
<1> QED
  BY <1>2, <1>3, <1>5, <1>6

\* The worker of a step, and the others: every other one keeps what it has.
OthersKeep(w) ==
    /\ \A v \in Workers : v # w => worker'[v] = worker[v]
    /\ worker[w].pc # "idle"

\* What a step of w outside claims and heartbeats leaves it with.
LEMMA StepHand ==
    ASSUME LeaseInv, NEW w \in Workers,
           \/ HeartbeatError(w) \/ Deliver(w) \/ StopHeartbeat(w)
           \/ Finalize(w) \/ FinalizeError(w) \/ Crash(w)
    PROVE  /\ OthersKeep(w)
           /\ \/ worker'[w].pc = "idle" /\ worker'[w].msg = None /\ ~worker'[w].beating
              \/ /\ worker'[w].pc # "idle" /\ worker'[w].msg = worker[w].msg
                 /\ worker'[w].beating => worker[w].beating /\ worker'[w].ext = worker[w].ext
<1>1. worker \in [Workers -> WorkerStates] /\ InHand(w)
  BY DEF LeaseInv, TypeOK
<1>2. CASE HeartbeatError(w)
  BY <1>1, <1>2 DEF HeartbeatError, InHand, OthersKeep, WorkerStates
<1>3. CASE Deliver(w)
  BY <1>1, <1>3 DEF Deliver, OthersKeep, WorkerStates, Reported, Outcomes
<1>4. CASE StopHeartbeat(w)
  BY <1>1, <1>4, IdleHand DEF StopHeartbeat, OthersKeep, WorkerStates
<1>5. CASE Finalize(w)
  BY <1>1, <1>5, IdleHand DEF Finalize, OthersKeep, WorkerStates
<1>6. CASE FinalizeError(w)
  BY <1>1, <1>6, IdleHand DEF FinalizeError, OthersKeep, WorkerStates
<1>7. CASE Crash(w)
  BY <1>1, <1>7, IdleHand DEF Crash, OthersKeep, WorkerStates
<1> QED
  BY <1>2, <1>3, <1>4, <1>5, <1>6, <1>7

\* What those steps do to the rows: the one in hand loses its lease at most, and
\* only if its worker held it.
LEMMA StepRows ==
    ASSUME LeaseInv, NEW w \in Workers,
           \/ HeartbeatError(w) \/ Deliver(w) \/ StopHeartbeat(w)
           \/ Finalize(w) \/ FinalizeError(w) \/ Crash(w)
    PROVE  \/ row' = row
           \/ /\ Fenced(w)
              /\ row'[worker[w].msg].lease = 0
              /\ \A m \in Msgs : m # worker[w].msg => row'[m] = row[m]
<1>1. CASE HeartbeatError(w) \/ Deliver(w) \/ StopHeartbeat(w) \/ Crash(w)
  BY <1>1 DEF HeartbeatError, Deliver, StopHeartbeat, Crash
<1>2. CASE Finalize(w) \/ FinalizeError(w)
  <2>1. /\ worker[w].pc = "finalizing"
        /\ UNCHANGED row \/ (Fenced(w) /\ Recorded(w))
    BY <1>2 DEF Finalize, FinalizeError
  <2> QED
    BY <2>1, RecordedRow
<1> QED
  BY <1>1, <1>2

\* A tick shortens a proposed extension, and the lease it would extend, by one.
LEMMA TickHands ==
    ASSUME LeaseInv, Tick
    PROVE  /\ \A w \in Workers :
                 /\ worker'[w].pc = worker[w].pc /\ worker'[w].msg = worker[w].msg
                 /\ worker'[w].beating = worker[w].beating
                 /\ worker'[w].ext = IF worker[w].ext > 0 THEN worker[w].ext - 1 ELSE 0
           /\ \A m \in Msgs :
                 /\ row'[m].status = row[m].status /\ row'[m].token = row[m].token
                 /\ row'[m].lease = IF row[m].lease > 0 THEN row[m].lease - 1 ELSE 0
<1>1. worker \in [Workers -> WorkerStates] /\ row \in [Msgs -> Rows]
  BY DEF LeaseInv, TypeOK
<1>2. ASSUME NEW w \in Workers
      PROVE  /\ worker'[w].pc = worker[w].pc /\ worker'[w].msg = worker[w].msg
             /\ worker'[w].beating = worker[w].beating
             /\ worker'[w].ext = IF worker[w].ext > 0 THEN worker[w].ext - 1 ELSE 0
  <2> DEFINE e == IF worker[w].ext > 0 THEN worker[w].ext - 1 ELSE 0
  <2>1. worker'[w] = [worker[w] EXCEPT !.ext = e] /\ worker[w] \in WorkerStates
    BY <1>1 DEF Tick
  <2> HIDE DEF e
  <2>2. /\ worker'[w].pc = worker[w].pc /\ worker'[w].msg = worker[w].msg
        /\ worker'[w].beating = worker[w].beating /\ worker'[w].ext = e
    BY <2>1 DEF WorkerStates
  <2> QED
    BY <2>2 DEF e
<1>3. ASSUME NEW m \in Msgs
      PROVE  /\ row'[m].status = row[m].status /\ row'[m].token = row[m].token
             /\ row'[m].lease = IF row[m].lease > 0 THEN row[m].lease - 1 ELSE 0
  <2>1. row'[m] = Aged(row[m]) /\ row[m] \in Rows /\ row[m].age + row[m].lease <= MaxLease
    BY <1>1 DEF Tick, LeaseInv, LeaseCapped
  <2>2. row[m].lease \in Nat
    BY <2>1 DEF Rows
  <2> QED
    BY <2>1, <2>2, AgedRow
<1> QED
  BY <1>2, <1>3

-----------------------------------------------------------------------------
(* The invariant of the hands. *)

\* Initially every hand is empty and nothing is leased.
LEMMA HandInvInit == Init => HandInv
<1> SUFFICES ASSUME Init PROVE HandInv
  OBVIOUS
<1>1. \A m \in Msgs : row[m].lease = 0
  BY DEF Init, AbsentRow
<1>2. \A w \in Workers : worker[w].msg = None /\ ~worker[w].beating
  BY IdleHand DEF Init
<1> QED
  BY <1>1, <1>2, LeaseAssumption DEF HandInv, HeartbeatExtends

\* Every step keeps it: a heartbeat proposes what the row has at least, and is
\* written before the row can be another worker's.
LEMMA HandInvStep == LeaseInv /\ HandInv /\ [Next]_vars => HandInv'
<1> SUFFICES ASSUME LeaseInv, HandInv, [Next]_vars PROVE HandInv'
  OBVIOUS
<1>1. /\ row \in [Msgs -> Rows] /\ worker \in [Workers -> WorkerStates]
      /\ \A w \in Workers : InHand(w)
  BY DEF LeaseInv, TypeOK
<1>2. ASSUME NEW w \in Workers, Claim(w) PROVE HandInv'
  <2>1. \A v \in Workers : HandKept(v)
    BY <1>1, <1>2, ClaimHands DEF HandKept, HandInv
  <2>2. ASSUME NEW m \in Msgs, ~(row'[m] = row[m]), ~(row'[m].lease = 0)
        PROVE  \E v \in Workers, r \in Rows : row'[m] = Leased(r, v) /\ ~worker'[v].beating
    BY <1>2, <2>2, ClaimHands DEF Unleased
  <2> QED
    BY <2>1, <2>2, HandInvKept
<1>3. ASSUME NEW w \in Workers, HeartbeatRead(w) PROVE HandInv'
  <2>1. /\ row' = row
        /\ \A v \in Workers : v # w => worker'[v] = worker[v]
        /\ worker'[w].pc = "delivering" /\ worker'[w].msg = worker[w].msg
        /\ worker'[w].beating => /\ Fenced(w)
                                 /\ worker'[w].ext = Extension(row[worker[w].msg].age)
    BY <1>1, <1>3 DEF HeartbeatRead, WorkerStates
  <2>2. worker[w].msg \in Msgs
    BY <1>1, <1>3 DEF HeartbeatRead, InHand
  <2>3. HeartbeatExtends(w)'
    BY <1>1, <2>1, <2>2, ExtensionCovers DEF HeartbeatExtends, HandInv, LeaseInv, LeaseCapped
  <2>4. ASSUME NEW v \in Workers, v # w PROVE HeartbeatExtends(v)'
    BY <2>1, <2>4 DEF HandInv, HeartbeatExtends, Fenced, Holds
  <2> QED
    BY <2>1, <2>3, <2>4 DEF HandInv
<1>4. ASSUME NEW w \in Workers, HeartbeatWrite(w) PROVE HandInv'
  <2> DEFINE m == worker[w].msg
  <2>1. /\ worker[w].beating /\ worker[w].pc # "idle" /\ m \in Msgs
        /\ \A v \in Workers : v # w => worker'[v] = worker[v]
        /\ worker'[w].pc = worker[w].pc /\ ~worker'[w].beating
    BY <1>1, <1>4 DEF HeartbeatWrite, WorkerStates, InHand
  <2>2. \/ row' = row
        \/ /\ Fenced(w)
           /\ row'[m].lease = worker[w].ext
           /\ row'[m].token = w
           /\ \A n \in Msgs : n # m => row'[n] = row[n]
    BY <1>1, <1>4, <2>1 DEF HeartbeatWrite, Rows, Fenced, Holds
  <2>3. \A n \in Msgs : row'[n].lease <= Lease
    BY <2>1, <2>2 DEF HandInv, HeartbeatExtends
  <2>4. ASSUME NEW v \in Workers, v # w PROVE HeartbeatExtends(v)'
    <3>1. worker'[v].beating => worker[v].beating /\ worker[v].msg \in Msgs
      BY <1>1, <2>1, <2>4 DEF InHand
    <3>2. worker'[v].beating /\ Fenced(v)' =>
             Fenced(v) /\ row'[worker[v].msg] = row[worker[v].msg]
      BY <2>1, <2>2, <2>4, <3>1 DEF Fenced, Holds
    <3> QED
      BY <2>1, <2>4, <3>1, <3>2 DEF HandInv, HeartbeatExtends
  <2> QED
    BY <2>1, <2>3, <2>4 DEF HandInv, HeartbeatExtends
<1>5. ASSUME NEW w \in Workers,
             \/ HeartbeatError(w) \/ Deliver(w) \/ StopHeartbeat(w)
             \/ Finalize(w) \/ FinalizeError(w) \/ Crash(w)
      PROVE  HandInv'
  <2>1. \A v \in Workers : HandKept(v)
    BY <1>1, <1>5, StepHand DEF HandKept, HandInv, OthersKeep
  <2>2. \A m \in Msgs : row'[m] = row[m] \/ row'[m].lease = 0
    BY <1>1, <1>5, StepRows
  <2> QED
    BY <2>1, <2>2, HandInvKept
<1>6. ASSUME NEW m \in Msgs, QueueStep(m) PROVE HandInv'
  <2>1. \A n \in Msgs : row'[n] = row[n] \/ row'[n].lease = 0
    BY <1>1, <1>6 DEF QueueStep, EnqueueBegin, EnqueueCommit, Requeue, Discard, Released, Rows,
                      Decidable, LeaseInv, LeaseFields
  <2>2. worker' = worker
    BY <1>6 DEF QueueStep, EnqueueBegin, EnqueueCommit, Requeue, Discard
  <2>3. \A v \in Workers : HandKept(v)
    BY <1>1, <2>2 DEF HandKept, HandInv
  <2> QED
    BY <2>1, <2>3, HandInvKept
<1>7. CASE Tick
  <2>1. \A m \in Msgs : row[m].lease \in Nat
    BY <1>1 DEF Rows
  <2>2. \A m \in Msgs : row'[m].lease <= Lease
    BY <1>7, <2>1, TickHands, LeaseAssumption DEF HandInv
  <2>3. ASSUME NEW w \in Workers PROVE HeartbeatExtends(w)'
    <3> SUFFICES ASSUME worker[w].beating PROVE HeartbeatExtends(w)'
      BY <1>7, TickHands DEF HeartbeatExtends
    <3>1. worker[w].msg \in Msgs /\ worker[w].ext \in Nat
      BY <1>1 DEF InHand, WorkerStates
    <3>2. worker'[w].ext <= Lease
      BY <1>7, <3>1, TickHands, LeaseAssumption DEF HandInv, HeartbeatExtends
    <3>3. ASSUME Fenced(w)' PROVE row'[worker[w].msg].lease <= worker'[w].ext
      <4>1. Fenced(w)
        BY <1>7, <2>1, <3>1, <3>3, TickHands DEF Fenced, Holds
      <4>2. row[worker[w].msg].lease <= worker[w].ext
        BY <4>1 DEF HandInv, HeartbeatExtends
      <4> QED
        BY <1>7, <2>1, <3>1, <4>2, TickHands
    <3> QED
      BY <1>7, <3>2, <3>3, TickHands DEF HeartbeatExtends
  <2> QED
    BY <1>7, <2>2, <2>3, TickHands DEF HandInv
<1>8. CASE UNCHANGED vars
  BY <1>8 DEF vars, HandInv, HeartbeatExtends, Fenced, Holds
<1> QED
  BY <1>2, <1>3, <1>4, <1>5, <1>6, <1>7, <1>8 DEF Next, WorkerStep

-----------------------------------------------------------------------------
(* Each worker that lost a lease is owed to a fault. *)

\* Two workers never hold the same message: the row has one token.
LEMMA OneHolder ==
    ASSUME NEW v \in Workers, NEW w \in Workers, Fenced(v), Fenced(w),
           worker[v].msg = worker[w].msg
    PROVE  v = w
BY DEF Fenced, Holds

\* A step adds nobody to those who lost m, or one of them for a fault.
StaleEffect(m) ==
    \/ Stale(m)' \subseteq Stale(m) /\ faults <= faults'
    \/ \E v : Stale(m)' \subseteq Stale(m) \cup {v} /\ faults' = faults + 1

\* Every step has that effect: a lease is lost by a fault only.
LEMMA StaleEffects ==
    ASSUME LeaseInv, HandInv, Next, NEW m \in Msgs
    PROVE  StaleEffect(m)
<1> USE DEF Stale, StaleEffect
<1>1. /\ row \in [Msgs -> Rows] /\ worker \in [Workers -> WorkerStates]
      /\ \A w \in Workers : InHand(w)
      /\ faults \in Nat /\ None \notin Msgs
  BY WorkersAssumption DEF LeaseInv, TypeOK
<1>2. ASSUME NEW w \in Workers, Claim(w) PROVE StaleEffect(m)
  <2>1. faults' = faults
    BY <1>2 DEF Claim, ClaimWith
  <2>2. ASSUME NEW v \in Workers, worker'[v].msg = m, ~Fenced(v)'
        PROVE  worker[v].msg = m /\ ~Fenced(v)
    <3>1. worker'[v] = worker[v]
      <4>1. ASSUME v = w, NEW n \in Msgs, worker'[w].pc = "delivering", worker'[w].msg = n,
                   NEW r \in Rows, row'[n] = Leased(r, w)
            PROVE  FALSE
        <5>1. /\ row'[n].status = "running" /\ row'[n].token = w
              /\ row'[n].lease = Lease /\ Lease > 0
          BY <4>1, LeasedRow, LeaseAssumption
        <5> QED
          BY <2>2, <4>1, <5>1 DEF Fenced, Holds
      <4> QED
        BY <1>2, <4>1, ClaimHands
    <3>2. Fenced(v) => row'[m] = row[m]
      <4>1. ASSUME Fenced(v) PROVE ~Free(row[m])
        BY <2>2, <3>1, <4>1 DEF Fenced, Holds, Free, Waiting, Lapsed
      <4> QED
        BY <1>2, <4>1, ClaimHands
    <3> QED
      BY <2>2, <3>1, <3>2 DEF Fenced, Holds
  <2> QED
    BY <1>1, <2>1, <2>2
<1>3. ASSUME NEW w \in Workers, HeartbeatRead(w) PROVE StaleEffect(m)
  <2>1. /\ row' = row /\ faults' = faults
        /\ \A v \in Workers : worker'[v].pc = worker[v].pc /\ worker'[v].msg = worker[v].msg
    BY <1>1, <1>3 DEF HeartbeatRead, WorkerStates
  <2> QED
    BY <1>1, <2>1 DEF Fenced, Holds
<1>4. ASSUME NEW w \in Workers, HeartbeatWrite(w) PROVE StaleEffect(m)
  <2>1. /\ faults' = faults /\ worker[w].beating /\ worker[w].msg \in Msgs
        /\ \A v \in Workers : worker'[v].pc = worker[v].pc /\ worker'[v].msg = worker[v].msg
    BY <1>1, <1>4 DEF HeartbeatWrite, WorkerStates, InHand
  <2>2. ASSUME Fenced(w)
        PROVE  /\ row'[worker[w].msg].status = row[worker[w].msg].status
               /\ row'[worker[w].msg].token = row[worker[w].msg].token
               /\ row'[worker[w].msg].lease > 0
               /\ \A n \in Msgs : n # worker[w].msg => row'[n] = row[n]
    <3>1. /\ row'[worker[w].msg].status = row[worker[w].msg].status
          /\ row'[worker[w].msg].token = row[worker[w].msg].token
          /\ row'[worker[w].msg].lease = worker[w].ext
          /\ \A n \in Msgs : n # worker[w].msg => row'[n] = row[n]
      BY <1>1, <1>4, <2>1, <2>2 DEF HeartbeatWrite, Rows
    <3>2. row[worker[w].msg].lease <= worker[w].ext /\ row[worker[w].msg].lease > 0
      BY <2>1, <2>2 DEF HandInv, HeartbeatExtends, Fenced
    <3>3. row[worker[w].msg].lease \in Nat /\ worker[w].ext \in Nat
      BY <1>1, <2>1 DEF Rows, WorkerStates
    <3> QED
      BY <3>1, <3>2, <3>3
  <2>3. ~Fenced(w) => row' = row
    BY <1>4 DEF HeartbeatWrite
  <2>4. ASSUME NEW v \in Workers, worker[v].msg = m, Fenced(v)
        PROVE  Fenced(v)'
    BY <2>1, <2>2, <2>3, <2>4 DEF Fenced, Holds
  <2> QED
    BY <1>1, <2>1, <2>4
<1>5. ASSUME NEW w \in Workers,
             HeartbeatError(w) \/ Deliver(w) \/ StopHeartbeat(w) \/ Finalize(w) \/ Crash(w)
      PROVE  StaleEffect(m)
  <2>1. faults <= faults'
    BY <1>1, <1>5 DEF HeartbeatError, Deliver, StopHeartbeat, Finalize, Crash, Charge
  <2>2. row' = row \/ (worker'[w].pc = "idle" /\ worker'[w].msg = None)
    <3>1. CASE Finalize(w)
      BY <1>1, <3>1, IdleHand DEF Finalize
    <3>2. CASE HeartbeatError(w) \/ Deliver(w) \/ StopHeartbeat(w) \/ Crash(w)
      BY <3>2 DEF HeartbeatError, Deliver, StopHeartbeat, Crash
    <3> QED
      BY <1>5, <3>1, <3>2
  <2>3. ASSUME NEW v \in Workers, worker'[v].msg = m, ~Fenced(v)'
        PROVE  worker[v].msg = m /\ ~Fenced(v)
    <3>1. worker[v].msg = m
      BY <1>1, <1>5, <2>3, StepHand DEF OthersKeep
    <3>2. ASSUME Fenced(v) PROVE FALSE
      <4>1. CASE row' = row
        BY <1>1, <1>5, <2>3, <3>2, <4>1, StepHand DEF OthersKeep, Fenced, Holds
      <4>2. CASE row' # row
        <5>1. v # w
          BY <1>1, <2>2, <2>3, <4>2
        <5>2. worker'[v] = worker[v]
          BY <1>5, <5>1, StepHand DEF OthersKeep
        <5>3. /\ Fenced(w)
              /\ \A n \in Msgs : n # worker[w].msg => row'[n] = row[n]
          BY <1>5, <4>2, StepRows
        <5>4. row'[m] = row[m]
          BY <3>1, <3>2, <5>1, <5>3, OneHolder
        <5> QED
          BY <2>3, <3>2, <5>2, <5>4 DEF Fenced, Holds
      <4> QED
        BY <4>1, <4>2
    <3> QED
      BY <3>1, <3>2
  <2> QED
    BY <2>1, <2>3
<1>6. ASSUME NEW w \in Workers, FinalizeError(w) PROVE StaleEffect(m)
  <2>1. faults' = faults + 1
    BY <1>6 DEF FinalizeError, Charge
  <2>2. ASSUME NEW v \in Workers, v # w, worker'[v].msg = m, ~Fenced(v)'
        PROVE  worker[v].msg = m /\ ~Fenced(v)
    <3>1. worker'[v] = worker[v]
      BY <1>6, <2>2, StepHand DEF OthersKeep
    <3>2. ASSUME Fenced(v) PROVE row'[m] = row[m]
      BY <1>6, <2>2, <3>1, <3>2, StepRows, OneHolder
    <3> QED
      BY <2>2, <3>1, <3>2 DEF Fenced, Holds
  <2> QED
    BY <2>1, <2>2
<1>7. ASSUME NEW n \in Msgs, QueueStep(n) PROVE StaleEffect(m)
  <2>1. worker' = worker /\ faults' = faults
    BY <1>7 DEF QueueStep, EnqueueBegin, EnqueueCommit, Requeue, Discard
  <2>2. row'[m] = row[m] \/ row[m].status # "running"
    BY <1>1, <1>7 DEF QueueStep, EnqueueBegin, EnqueueCommit, Requeue, Discard, Decidable
  <2> QED
    BY <1>1, <2>1, <2>2 DEF Fenced, Holds
<1>8. CASE Tick
  <2>1. row[m].lease \in Nat
    BY <1>1 DEF Rows
  <2>2. ASSUME NEW v \in Workers, worker'[v].msg = m, ~Fenced(v)', Fenced(v)
        PROVE  row[m].lease = 1 /\ LiveLapse
    <3>1. worker[v].msg = m
      BY <1>8, <2>2, TickHands
    <3>2. row[m].lease = 1
      BY <1>8, <2>1, <2>2, <3>1, TickHands DEF Fenced, Holds
    <3> QED
      BY <2>2, <3>1, <3>2 DEF LiveLapse, Fenced
  <2>3. faults' = IF LiveLapse THEN faults + 1 ELSE faults + 0
    BY <1>8 DEF Tick, Charge
  <2>4. CASE \E v \in Workers : worker'[v].msg = m /\ ~Fenced(v)' /\ Fenced(v)
    <3>1. PICK v \in Workers : worker'[v].msg = m /\ ~Fenced(v)' /\ Fenced(v)
      BY <2>4
    <3>2. Stale(m)' \subseteq Stale(m) \cup {v}
      BY <1>8, <3>1, OneHolder, TickHands
    <3> QED
      BY <2>2, <2>3, <3>1, <3>2
  <2>5. CASE ~ \E v \in Workers : worker'[v].msg = m /\ ~Fenced(v)' /\ Fenced(v)
    <3>1. Stale(m)' \subseteq Stale(m)
      BY <1>8, <2>5, TickHands
    <3>2. faults <= faults'
      BY <1>1, <2>3
    <3> QED
      BY <3>1, <3>2
  <2> QED
    BY <2>4, <2>5
<1> QED
  BY <1>2, <1>3, <1>4, <1>5, <1>6, <1>7, <1>8 DEF Next, WorkerStep

\* So the faults stay ahead of the workers that lost the lease.
LEMMA StaleChargedStep == LeaseInv /\ HandInv /\ StaleCharged /\ [Next]_vars => StaleCharged'
<1> SUFFICES ASSUME LeaseInv, HandInv, StaleCharged, [Next]_vars, NEW m \in Msgs
             PROVE  IsFiniteSet(Stale(m)') /\ Cardinality(Stale(m)') <= faults'
  BY DEF StaleCharged
<1>1. IsFiniteSet(Stale(m)) /\ Cardinality(Stale(m)) <= faults /\ faults \in Nat
  BY DEF StaleCharged, LeaseInv, TypeOK
<1>2. CASE UNCHANGED vars
  <2>1. Stale(m)' = Stale(m) /\ faults' = faults
    BY <1>2 DEF vars, Stale, Fenced, Holds
  <2> QED
    BY <1>1, <2>1
<1>3. CASE Next
  <2>1. CASE Stale(m)' \subseteq Stale(m) /\ faults <= faults'
    <3>1. IsFiniteSet(Stale(m)') /\ Cardinality(Stale(m)') <= faults
      BY <1>1, <2>1, OneMore
    <3>2. faults' \in Nat /\ Cardinality(Stale(m)') \in Nat
      BY <1>3, <3>1, LeaseInvStep, FS_CardinalityType DEF LeaseInv, TypeOK
    <3> QED
      BY <1>1, <2>1, <3>1, <3>2
  <2>2. CASE \E v : Stale(m)' \subseteq Stale(m) \cup {v} /\ faults' = faults + 1
    BY <1>1, <2>2, OneMore
  <2> QED
    BY <1>3, <2>1, <2>2, StaleEffects DEF StaleEffect
<1> QED
  BY <1>2, <1>3

\* Each worker that works on a message whose lease it has lost is owed to a crash, a
\* database error or a lapsed lease (the workers' hands, claims and heartbeats).
THEOREM StaleChargedAlways == Spec => []StaleCharged
<1>1. Init => StaleCharged
  <2> SUFFICES ASSUME Init, NEW m \in Msgs
               PROVE  IsFiniteSet(Stale(m)) /\ Cardinality(Stale(m)) <= faults
    BY DEF StaleCharged
  <2>1. Stale(m) = {}
    BY IdleHand, WorkersAssumption DEF Init, Stale
  <2> QED
    BY <2>1, FS_EmptySet DEF Init
<1> QED
  BY <1>1, HandInvInit, HandInvStep, StaleChargedStep, LeaseInvInit, LeaseInvStep, PTL DEF Spec

\* Two workers have the same message in hand only after a fault, and n + 1 only after
\* n of them, for every number of workers and messages: a claim takes no message whose
\* lease is live, and a heartbeat that was late does not shorten one (claim, lease
\* recovery, computeHeartbeatLeaseExpiry).
THEOREM ExclusiveCorrect == Spec => []ExclusiveUnlessFault
<1>1. StaleCharged /\ LeaseInv => ExclusiveUnlessFault
  <2> SUFFICES ASSUME StaleCharged, LeaseInv, NEW m \in Msgs
               PROVE  Cardinality({w \in Workers : worker[w].msg = m}) <= 1 + faults
    BY DEF ExclusiveUnlessFault
  <2> DEFINE H == {w \in Workers : worker[w].msg = m}
  <2>1. IsFiniteSet(Stale(m)) /\ Cardinality(Stale(m)) <= faults /\ faults \in Nat
    BY DEF StaleCharged, LeaseInv, TypeOK
  <2>2. CASE \E v \in H : Fenced(v)
    <3>1. PICK v \in H : Fenced(v)
      BY <2>2
    <3>2. H \subseteq Stale(m) \cup {v}
      BY <3>1, OneHolder DEF Stale
    <3>3. Cardinality(H) <= faults + 1
      BY <2>1, <3>2, OneMore
    <3> QED
      BY <2>1, <3>3
  <2>3. CASE ~ \E v \in H : Fenced(v)
    <3>1. H \subseteq Stale(m)
      BY <2>3 DEF Stale
    <3>2. Cardinality(H) <= faults /\ Cardinality(H) \in Nat
      BY <2>1, <3>1, OneMore, FS_CardinalityType
    <3> QED
      BY <2>1, <3>2
  <2> QED
    BY <2>2, <2>3
<1> QED
  BY <1>1, StaleChargedAlways, LeaseInvariant, PTL
==============================================================================
