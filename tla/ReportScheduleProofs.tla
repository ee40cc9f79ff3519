------------------------ MODULE ReportScheduleProofs ------------------------
(***************************************************************************)
(* Proofs about ReportSchedule, for every set of frequencies, every set of *)
(* dispatcher runs and every value of the bounds.                          *)
(***************************************************************************)
EXTENDS ReportSchedule, TLAPS

\* Only a running row is leased, and what may still run has retries left.
RowOK(r) == /\ r.live => r.status = "running"
            /\ r.status \in Open \cup {"absent"} => r.failures <= MaxRetries

\* A dispatcher run that generates or records has a period run in hand.
InHand(w) == worker[w].pc \in {"generating", "recording"} => worker[w].run \in Periods

\* The run that has the schedule will release it with a slot up to which every
\* period is inserted or yet to be inserted by this run.
TodoCovers(w) ==
    worker[w].pc = "inserting" /\ sched.token = w =>
        /\ sched.freq \in Freqs
        /\ sched.next <= worker[w].next
        /\ \A k \in sched.next..(worker[w].next - 1) :
              PeriodOf(sched.freq, k) \in worker[w].todo \/ Charted(sched.freq, k)

\* The inductive invariant.
ScheduleInv == /\ TypeOK
               /\ now <= MaxTime
               /\ \A p \in Periods : RowOK(runs[p])
               /\ SucceededHasReport
               /\ NoSlotLost
               /\ \A w \in Workers : InHand(w) /\ TodoCovers(w)

-----------------------------------------------------------------------------
(* The calendar. *)

\* The quotient of a division by a positive number.
LEMMA Quotient ==
    ASSUME NEW t \in Nat, NEW d \in Nat \ {0}
    PROVE  /\ t \div d \in Nat
           /\ (t \div d) * d <= t
           /\ t < (t \div d) * d + d
  OBVIOUS

\* Multiplication by a positive number keeps the order and is not smaller.
LEMMA TimesOrder ==
    ASSUME NEW j \in Nat, NEW k \in Nat, NEW d \in Nat \ {0}
    PROVE  /\ j * d \in Nat
           /\ j <= k => j * d <= k * d
           /\ j < k => j * d + d <= k * d
           /\ j <= j * d
  OBVIOUS

\* A slot that has come lies before the next one, and its period has begun.
LEMMA SlotIsDue ==
    ASSUME NEW f \in Freqs, NEW t \in Nat, NEW k \in Nat
    PROVE  /\ NextSlot(f, t) \in Nat
           /\ SlotTime(f, k) <= t => k < NextSlot(f, t)
           /\ k < NextSlot(f, t) => k * Step[f] <= t
<1> DEFINE d == Step[f]
           c == Current(f, t)
<1>1. d \in Nat \ {0} /\ RunTime \in Nat /\ RunTime < d
  BY CalendarAssumption
<1> HIDE DEF d
<1>2. c \in Nat /\ c * d <= t /\ t < c * d + d
  BY <1>1, Quotient DEF Current, d
<1> HIDE DEF c
<1>3. NextSlot(f, t) = IF c * d + RunTime <= t THEN c + 1 ELSE c
  BY DEF NextSlot, SlotTime, c, d
<1>4. SlotTime(f, k) = k * d + RunTime
  BY DEF SlotTime, d
<1>5. /\ c * d \in Nat /\ k * d \in Nat
      /\ k <= c => k * d <= c * d
      /\ c < k => c * d + d <= k * d
  BY <1>1, <1>2, TimesOrder
<1>6. NextSlot(f, t) \in Nat
  BY <1>2, <1>3
<1>7. ASSUME SlotTime(f, k) <= t PROVE k < NextSlot(f, t)
  <2>1. k <= c
    BY <1>1, <1>2, <1>4, <1>5, <1>7
  <2>2. k = c => c * d + RunTime <= t
    BY <1>4, <1>7
  <2> QED
    BY <1>2, <1>3, <2>1, <2>2
<1>8. ASSUME k < NextSlot(f, t) PROVE k * d <= t
  <2>1. k <= c
    BY <1>2, <1>3, <1>8
  <2> QED
    BY <1>2, <1>5, <2>1
<1> QED
  BY <1>6, <1>7, <1>8 DEF d

\* The period of a slot that has come is one of the model's periods.
LEMMA DuePeriod ==
    ASSUME NEW f \in Freqs, NEW t \in Nat, t <= MaxTime, NEW k \in Nat, k < NextSlot(f, t)
    PROVE  PeriodOf(f, k) \in Periods
<1>1. Step[f] \in Nat \ {0} /\ MaxTime \in Nat
  BY CalendarAssumption
<1>2. k * Step[f] <= t /\ k * Step[f] \in Nat /\ k <= k * Step[f]
  BY <1>1, SlotIsDue, TimesOrder
<1>3. k \in Begun(f)
  BY <1>1, <1>2 DEF Begun
<1> QED
  BY <1>3 DEF Periods

\* So is the backfill.
LEMMA BackfillPeriod ==
    ASSUME NEW f \in Freqs, NEW t \in Nat, t <= MaxTime
    PROVE  Backfill(f, t) \in Periods
<1>1. Step[f] \in Nat \ {0} /\ MaxTime \in Nat
  BY CalendarAssumption
<1>2. Current(f, t) \in Nat /\ Current(f, t) * Step[f] <= t
  BY <1>1, Quotient DEF Current
<1>3. Current(f, t) * Step[f] \in Nat /\ Current(f, t) <= Current(f, t) * Step[f]
  BY <1>1, <1>2, TimesOrder
<1>4. Current(f, t) \in Begun(f)
  BY <1>1, <1>2, <1>3 DEF Begun
<1> QED
  BY <1>4 DEF Periods, Backfill

\* A claim of the schedule takes slots that have come, and releases it later with
\* a slot that is not before the present one.
LEMMA DueSlotsPeriods ==
    ASSUME NEW f \in Freqs, NEW t \in Nat, t <= MaxTime,
           NEW k \in Nat, SlotTime(f, k) <= t, NEW n \in Nat \ {0}
    PROVE  /\ SlotAfter(f, k, t, n) \in Nat
           /\ k <= SlotAfter(f, k, t, n)
           /\ \A s \in DueSlots(f, k, t, n) : PeriodOf(f, s) \in Periods
<1>1. NextSlot(f, t) \in Nat /\ k < NextSlot(f, t)
  BY SlotIsDue
<1>2. /\ SlotAfter(f, k, t, n) \in Nat
      /\ k <= SlotAfter(f, k, t, n)
      /\ SlotAfter(f, k, t, n) <= NextSlot(f, t)
  BY <1>1 DEF SlotAfter
<1>3. ASSUME NEW s \in DueSlots(f, k, t, n) PROVE PeriodOf(f, s) \in Periods
  <2>1. s \in Nat /\ s < NextSlot(f, t)
    BY <1>1, <1>2, <1>3 DEF DueSlots
  <2> QED
    BY <2>1, DuePeriod
<1> QED
  BY <1>2, <1>3

-----------------------------------------------------------------------------
(* The rows. *)

\* A row as it is inserted.
Fresh(k) == [AbsentRow EXCEPT !.status = "pending", !.kind = k]

\* A row as it is claimed by w.
Claimed(r, w) == [r EXCEPT !.status = "running", !.token = w, !.live = TRUE, !.due = FALSE]

\* An inserted row is pending and has no lease.
LEMMA FreshRow ==
    ASSUME NEW k \in Kinds
    PROVE  /\ Fresh(k) \in Rows
           /\ RowOK(Fresh(k))
           /\ Fresh(k).status = "pending"
<1>1. MaxRetries \in Nat /\ 0 \in 0..(MaxRetries + 1)
  BY LimitsAssumption
<1>2. AbsentRow \in Rows
  BY <1>1 DEF AbsentRow, Rows, Statuses, Kinds
<1>3. "pending" \in Statuses
  BY DEF Statuses, Open
<1>4. /\ Fresh(k) \in Rows
      /\ Fresh(k).status = "pending"
      /\ Fresh(k).failures = 0
      /\ Fresh(k).live = FALSE
  BY <1>2, <1>3 DEF Fresh, Rows, AbsentRow
<1> QED
  BY <1>1, <1>4 DEF RowOK

\* A claimed row is running.
LEMMA ClaimedRow ==
    ASSUME NEW r \in Rows, NEW w \in Workers, RowOK(r), r.status \in Open
    PROVE  /\ Claimed(r, w) \in Rows
           /\ RowOK(Claimed(r, w))
           /\ Claimed(r, w).status = "running"
<1>1. "running" \in Statuses
  BY DEF Statuses, Open
<1>2. /\ Claimed(r, w) \in Rows
      /\ Claimed(r, w).status = "running"
      /\ Claimed(r, w).failures = r.failures
  BY <1>1 DEF Claimed, Rows
<1> QED
  BY <1>2 DEF RowOK

\* Recording an outcome ends the lease; a failure is counted against a row that
\* has retries left.
LEMMA OutcomeRow ==
    ASSUME NEW r \in Rows, RowOK(r), r.status = "running",
           NEW o \in {"report", "skipped", "failed"}
    PROVE  /\ Outcome(r, o) \in Rows
           /\ RowOK(Outcome(r, o))
           /\ Outcome(r, o).status # "absent"
           /\ Outcome(r, o).status = "succeeded" => o = "report"
<1>1. MaxRetries \in Nat /\ r.failures \in 0..MaxRetries
  BY LimitsAssumption DEF RowOK, Open, Rows
<1>2. {"succeeded", "skipped", "retry_wait", "retry_exhausted"} \subseteq Statuses
  BY DEF Statuses, Done, Open
<1>3. ASSUME NEW s \in {"succeeded", "skipped", "retry_wait", "retry_exhausted"}
      PROVE  /\ Ended(r, s) \in Rows
             /\ Ended(r, s).status = s
             /\ Ended(r, s).live = FALSE
             /\ Ended(r, s).failures = r.failures
  BY <1>2, <1>3 DEF Ended, Rows
<1>4. CASE o = "report"
  <2>1. Outcome(r, o) = Ended(r, "succeeded")
    BY <1>4 DEF Outcome
  <2> QED
    BY <1>3, <1>4, <2>1 DEF RowOK, Open
<1>5. CASE o = "skipped"
  <2>1. Outcome(r, o) = Ended(r, "skipped")
    BY <1>5 DEF Outcome
  <2> QED
    BY <1>3, <2>1 DEF RowOK, Open
<1>6. CASE o = "failed"
  <2> DEFINE s == IF r.failures >= MaxRetries THEN "retry_exhausted" ELSE "retry_wait"
             e == Ended(r, s)
  <2>1. Outcome(r, o) = [e EXCEPT !.failures = r.failures + 1]
    BY <1>6 DEF Outcome, Failure
  <2>2. s \in {"retry_exhausted", "retry_wait"} /\ (s = "retry_wait" => r.failures < MaxRetries)
    BY <1>1
  <2> HIDE DEF s
  <2>3. e \in Rows /\ e.status = s /\ e.live = FALSE
    BY <1>3, <2>2
  <2> HIDE DEF e
  <2>4. r.failures + 1 \in 0..(MaxRetries + 1)
    BY <1>1
  <2>5. /\ Outcome(r, o) \in Rows
        /\ Outcome(r, o).status = s
        /\ Outcome(r, o).live = FALSE
        /\ Outcome(r, o).failures = r.failures + 1
    BY <2>1, <2>3, <2>4 DEF Rows
  <2> QED
    BY <1>1, <2>2, <2>5 DEF RowOK, Open
<1> QED
  BY <1>4, <1>5, <1>6

-----------------------------------------------------------------------------
(* What a step does to a row. *)

Writes(w, p) == /\ worker[w].pc = "recording"
                /\ worker[w].run = p
                /\ Holds(w)
                /\ worker'[w] # worker[w]
                /\ reports' = reports
                /\ \E o \in {"report", "skipped", "failed"} :
                      /\ o = "report" => p \in reports
                      /\ runs'[p] = Outcome(runs[p], o)

\* A row is inserted once, claimed when it is open, and recorded by the run that
\* holds it; otherwise it comes due or its lease runs out.
RowStep(p) ==
    \/ runs'[p] = runs[p]
    \/ runs[p].status = "absent" /\ \E k \in Kinds : runs'[p] = Fresh(k)
    \/ /\ runs[p].status \in Open /\ ~runs[p].live
       /\ \E w \in Workers : runs'[p] = Claimed(runs[p], w)
    \/ \E w \in Workers : Writes(w, p)
    \/ runs[p].status = "retry_wait" /\ runs'[p] = [runs[p] EXCEPT !.due = TRUE]
    \/ runs[p].live /\ runs'[p] = [runs[p] EXCEPT !.live = FALSE]

\* An insertion that meets the row leaves it, and the others in any case.
LEMMA InsertedRow ==
    ASSUME runs \in [Periods -> Rows], NEW p \in Periods, NEW k \in Kinds
    PROVE  /\ Inserted(p, k) \in [Periods -> Rows]
           /\ \A q \in Periods :
                 \/ Inserted(p, k)[q] = runs[q]
                 \/ q = p /\ runs[q].status = "absent" /\ Inserted(p, k)[q] = Fresh(k)
           /\ Inserted(p, k)[p].status # "absent"
<1>1. CASE Present(p)
  BY <1>1 DEF Inserted, Present
<1>2. CASE ~Present(p)
  <2>1. Inserted(p, k) = [runs EXCEPT ![p] = Fresh(k)]
    BY <1>2 DEF Inserted, Fresh
  <2>2. Fresh(k) \in Rows /\ Fresh(k).status = "pending"
    BY FreshRow
  <2> QED
    BY <1>2, <2>1, <2>2 DEF Present
<1> QED
  BY <1>1, <1>2

\* Each step does one of these, and keeps the type of the table.
LEMMA RowsStep ==
    ASSUME ScheduleInv, Next
    PROVE  /\ runs' \in [Periods -> Rows]
           /\ \A p \in Periods : RowStep(p)
<1> USE DEF ScheduleInv
<1>1. runs \in [Periods -> Rows]
  BY DEF TypeOK
<1>2. ASSUME NEW f \in Freqs \cup {Off}, Save(f)
      PROVE  runs' \in [Periods -> Rows] /\ \A p \in Periods : RowStep(p)
  <2>1. CASE f # Off /\ BackfillDue(f)
    <3>1. Backfill(f, now) \in Periods
      BY <1>2, <2>1, BackfillPeriod DEF TypeOK
    <3>2. runs' = Inserted(Backfill(f, now), "scheduled_backfill")
      BY <1>2, <2>1 DEF Save
    <3> QED
      BY <1>1, <3>1, <3>2, InsertedRow DEF Kinds, RowStep
  <2>2. CASE ~(f # Off /\ BackfillDue(f))
    BY <1>1, <1>2, <2>2 DEF Save, RowStep
  <2> QED
    BY <2>1, <2>2
<1>3. ASSUME NEW w \in Workers, InsertPeriod(w)
      PROVE  runs' \in [Periods -> Rows] /\ \A p \in Periods : RowStep(p)
  <2>1. PICK p \in worker[w].todo : runs' = Inserted(p, "scheduled")
    BY <1>3 DEF InsertPeriod
  <2>2. p \in Periods
    BY <2>1 DEF TypeOK, WorkerStates
  <2> QED
    BY <1>1, <2>1, <2>2, InsertedRow DEF Kinds, RowStep
<1>4. ASSUME NEW w \in Workers, ClaimRun(w)
      PROVE  runs' \in [Periods -> Rows] /\ \A p \in Periods : RowStep(p)
  <2>1. PICK p \in Periods : Runnable(p) /\ runs' = [runs EXCEPT ![p] = Claimed(runs[p], w)]
    BY <1>4 DEF ClaimRun, Claimed
  <2>2. runs[p] \in Rows /\ RowOK(runs[p])
    BY <1>1
  <2>3. runs[p].status \in Open /\ ~runs[p].live
    BY <2>1, <2>2 DEF Runnable, Open, RowOK, Rows
  <2>4. Claimed(runs[p], w) \in Rows
    BY <2>2, <2>3, ClaimedRow
  <2> QED
    BY <1>1, <2>1, <2>3, <2>4 DEF RowStep
<1>5. ASSUME NEW w \in Workers, Record(w)
      PROVE  runs' \in [Periods -> Rows] /\ \A p \in Periods : RowStep(p)
  <2>1. CASE ~Holds(w)
    BY <1>1, <1>5, <2>1 DEF Record, RowStep
  <2>2. CASE Holds(w)
    <3> DEFINE p == worker[w].run
               o == NextOutcome(w)
    <3>1. p \in Periods
      BY <1>5 DEF Record, InHand
    <3>2. runs' = [runs EXCEPT ![p] = Outcome(runs[p], o)]
      BY <1>5, <2>2 DEF Record
    <3>3. o \in {"report", "skipped", "failed"} /\ (o = "report" => p \in reports)
      BY DEF NextOutcome, Referable, TypeOK, WorkerStates
    <3>4. worker'[w] # worker[w]
      <4>1. worker[w] \in WorkerStates /\ worker[w].pc = "recording"
        BY <1>5 DEF Record, TypeOK
      <4>2. worker'[w].pc = "draining"
        BY <1>5, <4>1 DEF Record, TypeOK, WorkerStates
      <4> QED
        BY <4>1, <4>2
    <3>5. runs[p] \in Rows /\ RowOK(runs[p]) /\ runs[p].status = "running"
      BY <1>1, <2>2, <3>1 DEF Holds, RowOK
    <3>6. Outcome(runs[p], o) \in Rows
      BY <3>3, <3>5, OutcomeRow
    <3>7. worker[w].pc = "recording" /\ reports' = reports
      BY <1>5 DEF Record
    <3>8. Writes(w, p)
      BY <1>1, <2>2, <3>1, <3>2, <3>3, <3>4, <3>7 DEF Writes
    <3>9. \A q \in Periods : q # p => runs'[q] = runs[q]
      BY <1>1, <3>2
    <3> HIDE DEF p, o
    <3> QED
      BY <1>1, <3>1, <3>2, <3>6, <3>8, <3>9 DEF RowStep
  <2> QED
    BY <2>1, <2>2
<1>6. ASSUME NEW p \in Periods, RetryDue(p)
      PROVE  runs' \in [Periods -> Rows] /\ \A q \in Periods : RowStep(q)
  <2>1. runs' = [runs EXCEPT ![p] = [runs[p] EXCEPT !.due = TRUE]]
    BY <1>1, <1>6 DEF RetryDue
  <2>2. [runs[p] EXCEPT !.due = TRUE] \in Rows
    BY <1>1 DEF Rows
  <2> QED
    BY <1>1, <1>6, <2>1, <2>2 DEF RetryDue, RowStep
<1>7. ASSUME NEW p \in Periods, RunLapse(p)
      PROVE  runs' \in [Periods -> Rows] /\ \A q \in Periods : RowStep(q)
  <2>1. runs' = [runs EXCEPT ![p] = [runs[p] EXCEPT !.live = FALSE]]
    BY <1>1, <1>7 DEF RunLapse
  <2>2. [runs[p] EXCEPT !.live = FALSE] \in Rows
    BY <1>1 DEF Rows
  <2> QED
    BY <1>1, <1>7, <2>1, <2>2 DEF RunLapse, RowStep
<1>8. ASSUME UNCHANGED runs
      PROVE  runs' \in [Periods -> Rows] /\ \A p \in Periods : RowStep(p)
  BY <1>1, <1>8 DEF RowStep
<1>9. ASSUME NEW w \in Workers, WorkerStep(w)
      PROVE  runs' \in [Periods -> Rows] /\ \A p \in Periods : RowStep(p)
  <2>1. CASE StartRun(w) \/ ClaimSchedule(w) \/ ReleaseSchedule(w) \/ MaterializedAll(w)
             \/ StopRun(w) \/ Generate(w) \/ Abandon(w) \/ Crash(w)
    <3>1. UNCHANGED runs
      BY <2>1 DEF StartRun, ClaimSchedule, ReleaseSchedule, MaterializedAll, StopRun,
                  Generate, Abandon, Crash
    <3> QED
      BY <1>8, <3>1
  <2> QED
    BY <1>3, <1>4, <1>5, <1>9, <2>1 DEF WorkerStep
<1>10. CASE \E p \in Periods : DeleteReport(p)
  BY <1>8, <1>10 DEF DeleteReport
<1>11. CASE ScheduleLapse \/ NextInstant
  BY <1>8, <1>11 DEF ScheduleLapse, NextInstant
<1> QED
  BY <1>2, <1>6, <1>7, <1>9, <1>10, <1>11 DEF Next

\* A row that is inserted stays, and a row keeps what holds of every row.
LEMMA RowsKept ==
    ASSUME ScheduleInv, Next, NEW p \in Periods
    PROVE  /\ RowOK(runs'[p])
           /\ runs[p].status # "absent" => runs'[p].status # "absent"
           /\ runs'[p].status = "succeeded" /\ runs[p].status # "succeeded"
                => p \in reports /\ reports' = reports
<1>1. runs[p] \in Rows /\ RowOK(runs[p]) /\ RowStep(p)
  BY RowsStep DEF ScheduleInv, TypeOK
<1>2. CASE runs'[p] = runs[p]
  BY <1>1, <1>2
<1>3. CASE runs[p].status = "absent" /\ \E k \in Kinds : runs'[p] = Fresh(k)
  BY <1>3, FreshRow
<1>4. CASE runs[p].status \in Open /\ \E w \in Workers : runs'[p] = Claimed(runs[p], w)
  BY <1>1, <1>4, ClaimedRow
<1>5. CASE \E w \in Workers : Writes(w, p)
  <2>1. PICK w \in Workers : Writes(w, p)
    BY <1>5
  <2>2. runs[p].status = "running"
    BY <1>1, <2>1 DEF Writes, Holds, RowOK
  <2> QED
    BY <1>1, <2>1, <2>2, OutcomeRow DEF Writes
<1>6. CASE runs[p].status = "retry_wait" /\ runs'[p] = [runs[p] EXCEPT !.due = TRUE]
  <2>1. /\ runs'[p].status = runs[p].status
        /\ runs'[p].live = runs[p].live
        /\ runs'[p].failures = runs[p].failures
    BY <1>1, <1>6 DEF Rows
  <2> QED
    BY <1>1, <2>1 DEF RowOK
<1>7. CASE runs[p].live /\ runs'[p] = [runs[p] EXCEPT !.live = FALSE]
  <2>1. /\ runs'[p].status = runs[p].status
        /\ runs'[p].live = FALSE
        /\ runs'[p].failures = runs[p].failures
    BY <1>1, <1>7 DEF Rows
  <2> QED
    BY <1>1, <2>1 DEF RowOK
<1> QED
  BY <1>1, <1>2, <1>3, <1>4, <1>5, <1>6, <1>7 DEF RowStep

-----------------------------------------------------------------------------
(* What a step does to the dispatcher runs, the schedule and the reports. *)

\* A run that is off has the type of a run.
LEMMA OffWorkerType == OffWorker \in WorkerStates
  BY DEF OffWorker, WorkerStates

\* A claim of the schedule fills the run's list with periods of the model.
LEMMA ClaimScheduleStep ==
    ASSUME ScheduleInv, NEW w \in Workers, ClaimSchedule(w)
    PROVE  /\ sched.freq \in Freqs
           /\ worker'[w] \in WorkerStates
           /\ worker'[w].pc = "inserting"
           /\ sched.next <= worker'[w].next
           /\ worker'[w].todo = {PeriodOf(sched.freq, k) : k \in sched.next..(worker'[w].next - 1)}
<1> DEFINE f == sched.freq
           n == MaterializeLimit - worker[w].made
           after == SlotAfter(f, sched.next, now, n)
           due == DueSlots(f, sched.next, now, n)
           todo == {PeriodOf(f, s) : s \in due}
<1>1. worker[w] \in WorkerStates /\ worker[w].made < MaterializeLimit /\ worker[w].made \in Nat
  BY DEF ScheduleInv, TypeOK, WorkerStates, ClaimSchedule
<1>2. f \in Freqs /\ SlotTime(f, sched.next) <= now /\ sched.next \in Nat
      /\ now \in Nat /\ now <= MaxTime
  BY DEF ScheduleInv, TypeOK, Schedules, ClaimSchedule, Claimable
<1>3. n \in Nat \ {0}
  BY <1>1, LimitsAssumption
<1> HIDE DEF n, f
<1>4. /\ after \in Nat
      /\ sched.next <= after
      /\ \A s \in due : PeriodOf(f, s) \in Periods
  BY <1>2, <1>3, DueSlotsPeriods
<1>5. due = sched.next..(after - 1)
  BY DEF DueSlots
<1>6. worker' = [worker EXCEPT ![w] = [worker[w] EXCEPT !.pc = "inserting",
                                                        !.todo = todo, !.next = after]]
  BY DEF ClaimSchedule, f, n
<1> HIDE DEF after, due
<1>7. todo \subseteq Periods
  BY <1>4
<1>8. todo = {PeriodOf(f, k) : k \in sched.next..(after - 1)}
  BY <1>5
<1> HIDE DEF todo
<1>9. worker'[w] = [worker[w] EXCEPT !.pc = "inserting", !.todo = todo, !.next = after]
  BY <1>6 DEF ScheduleInv, TypeOK
<1>10. /\ worker'[w] \in WorkerStates
       /\ worker'[w].pc = "inserting"
       /\ worker'[w].todo = todo
       /\ worker'[w].next = after
  BY <1>1, <1>4, <1>7, <1>9 DEF WorkerStates
<1> QED
  BY <1>2, <1>4, <1>8, <1>10 DEF f

\* What one dispatcher run does leaves the others alone and keeps its own type.
LEMMA OneWorkerStep ==
    ASSUME ScheduleInv, NEW w \in Workers, WorkerStep(w)
    PROVE  /\ worker' \in [Workers -> WorkerStates]
           /\ \A v \in Workers \ {w} : worker'[v] = worker[v]
           /\ worker'[w].pc \in {"generating", "recording"} => worker'[w].run \in Periods
<1>1. worker \in [Workers -> WorkerStates] /\ worker[w] \in WorkerStates
      /\ OffWorker \in WorkerStates
  BY OffWorkerType DEF ScheduleInv, TypeOK
<1>2. ASSUME NEW s \in WorkerStates, worker' = [worker EXCEPT ![w] = s],
             s.pc \in {"generating", "recording"} => s.run \in Periods
      PROVE  /\ worker' \in [Workers -> WorkerStates]
             /\ \A v \in Workers \ {w} : worker'[v] = worker[v]
             /\ worker'[w].pc \in {"generating", "recording"} => worker'[w].run \in Periods
  BY <1>1, <1>2
<1>3. CASE StartRun(w) \/ MaterializedAll(w) \/ StopRun(w) \/ Crash(w)
  <2>1. \E pc \in {"off", "materializing", "draining"} :
           worker' = [worker EXCEPT ![w] = [OffWorker EXCEPT !.pc = pc]]
    BY <1>3 DEF StartRun, MaterializedAll, StopRun, Crash, OffWorker
  <2>2. \A pc \in {"off", "materializing", "draining"} :
           /\ [OffWorker EXCEPT !.pc = pc] \in WorkerStates
           /\ [OffWorker EXCEPT !.pc = pc].pc = pc
    BY <1>1 DEF WorkerStates
  <2> QED
    BY <1>2, <2>1, <2>2
<1>4. CASE ClaimSchedule(w)
  <2>1. worker'[w] \in WorkerStates /\ worker'[w].pc = "inserting"
    BY <1>4, ClaimScheduleStep
  <2>2. \E s : worker' = [worker EXCEPT ![w] = s]
    BY <1>4 DEF ClaimSchedule
  <2> QED
    BY <1>1, <2>1, <2>2
<1>5. CASE InsertPeriod(w)
  <2>1. PICK p \in worker[w].todo :
           worker' = [worker EXCEPT ![w].todo = @ \ {p}, ![w].made = @ + 1]
    BY <1>5 DEF InsertPeriod
  <2> DEFINE s == [worker[w] EXCEPT !.todo = worker[w].todo \ {p}, !.made = worker[w].made + 1]
  <2>2. worker' = [worker EXCEPT ![w] = s]
    BY <1>1, <2>1
  <2>3. s \in WorkerStates /\ s.pc = "inserting"
    BY <1>1, <1>5 DEF WorkerStates, InsertPeriod
  <2> HIDE DEF s
  <2> QED
    BY <1>2, <2>2, <2>3
<1>6. CASE ReleaseSchedule(w)
  <2> DEFINE s == [worker[w] EXCEPT !.pc = "materializing", !.todo = {}, !.next = 0]
  <2>1. worker' = [worker EXCEPT ![w] = s] \/ worker' = [worker EXCEPT ![w] = OffWorker]
    BY <1>6 DEF ReleaseSchedule
  <2>2. s \in WorkerStates /\ s.pc = "materializing"
    BY <1>1 DEF WorkerStates
  <2>3. OffWorker.pc = "off"
    BY DEF OffWorker
  <2> HIDE DEF s
  <2> QED
    BY <1>1, <1>2, <2>1, <2>2, <2>3
<1>7. CASE ClaimRun(w)
  <2>1. PICK p \in Periods :
           worker' = [worker EXCEPT ![w] = [worker[w] EXCEPT !.pc = "generating", !.run = p,
                                                             !.ran = TRUE]]
    BY <1>7 DEF ClaimRun
  <2> DEFINE s == [worker[w] EXCEPT !.pc = "generating", !.run = p, !.ran = TRUE]
  <2>2. s \in WorkerStates /\ s.run = p
    BY <1>1 DEF WorkerStates
  <2> HIDE DEF s
  <2>3. worker' = [worker EXCEPT ![w] = s]
    BY <2>1 DEF s
  <2> QED
    BY <1>2, <2>2, <2>3
<1>8. CASE Generate(w)
  <2>1. PICK outcome \in {"report", "skipped", "failed"} :
           worker' = [worker EXCEPT ![w] = [worker[w] EXCEPT !.pc = "recording",
                                                             !.outcome = outcome]]
    BY <1>8 DEF Generate
  <2> DEFINE s == [worker[w] EXCEPT !.pc = "recording", !.outcome = outcome]
  <2>2. s \in WorkerStates /\ s.run = worker[w].run
    BY <1>1 DEF WorkerStates
  <2>3. worker[w].run \in Periods
    BY <1>8 DEF Generate, ScheduleInv, InHand
  <2> HIDE DEF s
  <2>4. worker' = [worker EXCEPT ![w] = s]
    BY <2>1 DEF s
  <2> QED
    BY <1>2, <2>2, <2>3, <2>4
<1>9. CASE Record(w) \/ Abandon(w)
  <2> DEFINE s == [worker[w] EXCEPT !.pc = "draining", !.run = None]
  <2>1. worker' = [worker EXCEPT ![w] = s]
    BY <1>9 DEF Record, Abandon
  <2>2. s \in WorkerStates /\ s.pc = "draining"
    BY <1>1 DEF WorkerStates
  <2> HIDE DEF s
  <2> QED
    BY <1>2, <2>1, <2>2
<1> QED
  BY <1>3, <1>4, <1>5, <1>6, <1>7, <1>8, <1>9 DEF WorkerStep

-----------------------------------------------------------------------------
(* The inductive invariant. *)

\* The schedule and the counters keep their types.
LEMMA ScalarsKept ==
    ASSUME ScheduleInv, Next
    PROVE  /\ now' \in Nat /\ now' <= MaxTime
           /\ sched' \in Schedules
           /\ since' \in Nat /\ saves' \in Nat /\ faults' \in Nat
<1>1. /\ now \in Nat /\ now <= MaxTime /\ MaxTime \in Nat
      /\ sched \in Schedules
      /\ since \in Nat /\ saves \in Nat /\ faults \in Nat
  BY CalendarAssumption DEF ScheduleInv, TypeOK
<1>2. ASSUME NEW f \in Freqs \cup {Off}, Save(f)
      PROVE  /\ sched' \in Schedules /\ since' \in Nat /\ saves' \in Nat
             /\ now' = now /\ faults' = faults
  <2> DEFINE n == IF f = Off THEN 0 ELSE NextSlot(f, now)
  <2>1. n \in Nat
    BY <1>1, SlotIsDue
  <2>2. sched' = [freq |-> f, next |-> n, token |-> None, live |-> FALSE]
    BY <1>2 DEF Save
  <2> HIDE DEF n
  <2>3. sched' \in Schedules /\ sched'.next = n
    BY <2>1, <2>2 DEF Schedules
  <2> QED
    BY <1>1, <1>2, <2>1, <2>3 DEF Save
<1>3. ASSUME NEW w \in Workers, ClaimSchedule(w)
      PROVE  sched' \in Schedules
  BY <1>1, <1>3 DEF ClaimSchedule, Schedules
<1>4. ASSUME NEW w \in Workers, ReleaseSchedule(w)
      PROVE  sched' \in Schedules
  <2>1. worker[w].next \in Nat
    BY DEF ScheduleInv, TypeOK, WorkerStates
  <2> QED
    BY <1>1, <1>4, <2>1 DEF ReleaseSchedule, Schedules
<1>5. ASSUME NEW w \in Workers, WorkerStep(w)
      PROVE  /\ sched' \in Schedules
             /\ now' = now /\ since' = since /\ saves' = saves
             /\ faults' \in Nat
  <2>1. now' = now /\ since' = since /\ saves' = saves
    BY <1>5 DEF WorkerStep, StartRun, ClaimSchedule, InsertPeriod, ReleaseSchedule,
                MaterializedAll, ClaimRun, StopRun, Generate, Record, Abandon, Crash
  <2>2. faults' \in Nat
    <3>1. \/ faults' = faults
          \/ Abandon(w) \/ Crash(w)
      BY <1>5 DEF WorkerStep, StartRun, ClaimSchedule, InsertPeriod, ReleaseSchedule,
                  MaterializedAll, ClaimRun, StopRun, Generate, Record
    <3>2. Abandon(w) => faults' = faults + (IF Holds(w) THEN 1 ELSE 0)
      BY DEF Abandon, Charge
    <3>3. Crash(w) => faults' = faults + 1
      BY DEF Crash, Charge
    <3> QED
      BY <1>1, <3>1, <3>2, <3>3
  <2>3. sched' = sched \/ ClaimSchedule(w) \/ ReleaseSchedule(w)
    BY <1>5 DEF WorkerStep, StartRun, InsertPeriod, MaterializedAll, ClaimRun, StopRun,
                Generate, Record, Abandon, Crash
  <2> QED
    BY <1>1, <1>3, <1>4, <2>1, <2>2, <2>3
<1>6. ASSUME NEW p \in Periods, DeleteReport(p) \/ RetryDue(p) \/ RunLapse(p)
      PROVE  now' = now /\ sched' = sched /\ since' = since /\ saves' = saves /\ faults' \in Nat
  BY <1>1, <1>6 DEF DeleteReport, RetryDue, RunLapse, Charge
<1>7. CASE ScheduleLapse
  <2>1. [sched EXCEPT !.live = FALSE] \in Schedules
    BY <1>1 DEF Schedules
  <2> QED
    BY <1>1, <1>7, <2>1 DEF ScheduleLapse, Charge
<1>8. CASE NextInstant
  BY <1>1, <1>8 DEF NextInstant
<1> QED
  BY <1>1, <1>2, <1>5, <1>6, <1>7, <1>8 DEF Next

\* Reports come from runs with a period in hand and go unless one is referred to.
LEMMA ReportsKept ==
    ASSUME ScheduleInv, Next
    PROVE  /\ reports' \subseteq Periods
           /\ \A p \in reports : runs[p].status = "succeeded" => p \in reports'
<1>1. reports \subseteq Periods
  BY DEF ScheduleInv, TypeOK
<1>2. ASSUME NEW w \in Workers, Generate(w)
      PROVE  reports' \subseteq Periods /\ reports \subseteq reports'
  <2>1. worker[w].run \in Periods
    BY <1>2 DEF Generate, ScheduleInv, InHand
  <2> QED
    BY <1>1, <1>2, <2>1 DEF Generate
<1>3. ASSUME NEW w \in Workers, WorkerStep(w), ~Generate(w)
      PROVE  reports' = reports
  BY <1>3 DEF WorkerStep, StartRun, ClaimSchedule, InsertPeriod, ReleaseSchedule,
              MaterializedAll, ClaimRun, StopRun, Record, Abandon, Crash
<1>4. ASSUME NEW p \in Periods, DeleteReport(p)
      PROVE  reports' = reports \ {p} /\ runs[p].status # "succeeded"
  BY <1>4 DEF DeleteReport, Deletable
<1>5. CASE ~(\E w \in Workers : WorkerStep(w)) /\ ~(\E p \in Periods : DeleteReport(p))
  BY <1>1, <1>5 DEF Next, Save, RetryDue, RunLapse, ScheduleLapse, NextInstant
<1> QED
  BY <1>1, <1>2, <1>3, <1>4, <1>5

\* Each dispatcher run keeps its type and what it has in hand.
LEMMA WorkersKept ==
    ASSUME ScheduleInv, Next
    PROVE  /\ worker' \in [Workers -> WorkerStates]
           /\ \A w \in Workers :
                 worker'[w].pc \in {"generating", "recording"} => worker'[w].run \in Periods
<1>1. worker \in [Workers -> WorkerStates] /\ \A w \in Workers : InHand(w)
  BY DEF ScheduleInv, TypeOK
<1>2. CASE \E w \in Workers : WorkerStep(w)
  <2>1. PICK w \in Workers : WorkerStep(w)
    BY <1>2
  <2> QED
    BY <1>1, <2>1, OneWorkerStep DEF InHand
<1>3. CASE ~(\E w \in Workers : WorkerStep(w))
  <2>1. worker' = worker
    BY <1>3 DEF Next, Save, DeleteReport, RetryDue, RunLapse, ScheduleLapse, NextInstant
  <2> QED
    BY <1>1, <2>1 DEF InHand
<1> QED
  BY <1>2, <1>3

\* A slot that has its period run keeps it.
LEMMA ChartedKept ==
    ASSUME ScheduleInv, Next, NEW f, NEW k, Charted(f, k)
    PROVE  Charted(f, k)'
  BY RowsKept DEF Charted, Present

\* A run that materializes releases the schedule only up to slots it inserted.
LEMMA TodoCovered ==
    ASSUME ScheduleInv, Next, NEW v \in Workers
    PROVE  TodoCovers(v)'
<1>1. /\ worker \in [Workers -> WorkerStates] /\ sched \in Schedules
      /\ runs \in [Periods -> Rows]
      /\ TodoCovers(v)
      /\ None \notin Workers
  BY NamesAssumption DEF ScheduleInv, TypeOK
<1>2. ASSUME sched'.freq = sched.freq, sched'.next = sched.next, sched'.token = sched.token,
             worker'[v] = worker[v]
      PROVE  TodoCovers(v)'
  BY <1>1, <1>2, ChartedKept DEF TodoCovers
<1>3. ASSUME NEW t \in Workers, t # v, sched'.token = t
      PROVE  TodoCovers(v)'
  BY <1>3 DEF TodoCovers
<1>4. ASSUME sched'.token = None PROVE TodoCovers(v)'
  BY <1>1, <1>4 DEF TodoCovers
<1>5. ASSUME worker'[v].pc # "inserting" PROVE TodoCovers(v)'
  BY <1>5 DEF TodoCovers
<1>6. ASSUME NEW f \in Freqs \cup {Off}, Save(f) PROVE TodoCovers(v)'
  BY <1>4, <1>6 DEF Save
<1>7. ASSUME NEW w \in Workers, ClaimSchedule(w) PROVE TodoCovers(v)'
  <2>1. sched' = [sched EXCEPT !.token = w, !.live = TRUE]
    BY <1>7 DEF ClaimSchedule
  <2>2. sched'.token = w /\ sched'.freq = sched.freq /\ sched'.next = sched.next
    BY <1>1, <2>1 DEF Schedules
  <2>3. CASE w # v
    BY <1>3, <2>2, <2>3
  <2>4. CASE w = v
    BY <1>7, <2>2, <2>4, ClaimScheduleStep DEF TodoCovers
  <2> QED
    BY <2>3, <2>4
<1>8. ASSUME NEW w \in Workers, ReleaseSchedule(w) PROVE TodoCovers(v)'
  <2>1. CASE Releasable(w)
    <3>1. sched' = [sched EXCEPT !.next = worker[w].next, !.token = None, !.live = FALSE]
      BY <1>8, <2>1 DEF ReleaseSchedule
    <3>2. sched'.token = None
      BY <1>1, <3>1 DEF Schedules
    <3> QED
      BY <1>4, <3>2
  <2>2. CASE ~Releasable(w)
    <3>1. sched' = sched /\ worker' = [worker EXCEPT ![w] = OffWorker]
      BY <1>8, <2>2 DEF ReleaseSchedule
    <3>2. w = v => worker'[v].pc = "off"
      BY <1>1, <3>1 DEF OffWorker
    <3>3. w # v => worker'[v] = worker[v]
      BY <1>1, <3>1
    <3> QED
      BY <1>2, <1>5, <3>1, <3>2, <3>3
  <2> QED
    BY <2>1, <2>2
<1>9. ASSUME NEW w \in Workers, InsertPeriod(w) PROVE TodoCovers(v)'
  <2>1. sched' = sched
    BY <1>9 DEF InsertPeriod
  <2>2. CASE w # v
    <3>1. worker'[v] = worker[v]
      BY <1>9, <2>2, OneWorkerStep DEF WorkerStep
    <3> QED
      BY <1>2, <2>1, <3>1
  <2>3. CASE w = v
    <3>1. PICK p \in worker[v].todo :
             /\ runs' = Inserted(p, "scheduled")
             /\ worker' = [worker EXCEPT ![v].todo = @ \ {p}, ![v].made = @ + 1]
      BY <1>9, <2>3 DEF InsertPeriod
    <3>2. /\ worker'[v].todo = worker[v].todo \ {p}
          /\ worker'[v].next = worker[v].next
          /\ worker[v].pc = "inserting"
      BY <1>1, <1>9, <2>3, <3>1 DEF WorkerStates, InsertPeriod
    <3>3. p \in Periods /\ runs'[p].status # "absent"
      BY <1>1, <3>1, InsertedRow DEF WorkerStates, Kinds
    <3>4. ASSUME worker[v].pc = "inserting", sched.token = v,
                 NEW k \in sched.next..(worker[v].next - 1)
          PROVE  PeriodOf(sched.freq, k) \in worker'[v].todo \/ Charted(sched.freq, k)'
      <4>1. CASE Charted(sched.freq, k)
        BY <2>1, <4>1, RowsKept DEF Charted, Present
      <4>2. CASE PeriodOf(sched.freq, k) = p
        BY <2>1, <3>3, <4>2 DEF Charted, Present
      <4>3. PeriodOf(sched.freq, k) \in worker[v].todo \/ Charted(sched.freq, k)
        BY <1>1, <3>4 DEF TodoCovers
      <4> QED
        BY <3>2, <4>1, <4>2, <4>3
    <3> QED
      BY <1>1, <2>1, <3>2, <3>4 DEF TodoCovers
  <2> QED
    BY <2>2, <2>3
<1>10. ASSUME NEW w \in Workers, WorkerStep(w),
              ~ClaimSchedule(w), ~ReleaseSchedule(w), ~InsertPeriod(w)
       PROVE  TodoCovers(v)'
  <2>1. sched' = sched
    BY <1>10 DEF WorkerStep, StartRun, MaterializedAll, ClaimRun, StopRun, Generate, Record,
                 Abandon, Crash
  <2>2. CASE w # v
    <3>1. worker'[v] = worker[v]
      BY <1>10, <2>2, OneWorkerStep
    <3> QED
      BY <1>2, <2>1, <3>1
  <2>3. CASE w = v
    <3>1. CASE StartRun(v) \/ MaterializedAll(v) \/ StopRun(v) \/ Crash(v)
      <4>1. worker'[v].pc \in {"materializing", "draining", "off"}
        BY <1>1, <3>1 DEF StartRun, MaterializedAll, StopRun, Crash, OffWorker
      <4> QED
        BY <1>5, <4>1
    <3>2. CASE ClaimRun(v)
      <4>1. worker'[v].pc = "generating"
        BY <1>1, <3>2 DEF ClaimRun, WorkerStates
      <4> QED
        BY <1>5, <4>1
    <3>3. CASE Generate(v)
      <4>1. PICK outcome \in {"report", "skipped", "failed"} :
               worker' = [worker EXCEPT ![v] = [worker[v] EXCEPT !.pc = "recording",
                                                                 !.outcome = outcome]]
        BY <3>3 DEF Generate
      <4>2. worker'[v] = [worker[v] EXCEPT !.pc = "recording", !.outcome = outcome]
        BY <1>1, <4>1
      <4>3. worker'[v].pc = "recording"
        BY <1>1, <4>2 DEF WorkerStates
      <4> QED
        BY <1>5, <4>3
    <3>4. CASE Record(v) \/ Abandon(v)
      <4>1. worker' = [worker EXCEPT ![v] = [worker[v] EXCEPT !.pc = "draining", !.run = None]]
        BY <3>4 DEF Record, Abandon
      <4>2. worker'[v] = [worker[v] EXCEPT !.pc = "draining", !.run = None]
        BY <1>1, <4>1
      <4>3. worker'[v].pc = "draining"
        BY <1>1, <4>2 DEF WorkerStates
      <4> QED
        BY <1>5, <4>3
    <3> QED
      BY <1>10, <2>3, <3>1, <3>2, <3>3, <3>4 DEF WorkerStep
  <2> QED
    BY <2>2, <2>3
<1>11. CASE (\E p \in Periods : DeleteReport(p) \/ RetryDue(p) \/ RunLapse(p)) \/ NextInstant
  <2>1. sched' = sched /\ worker' = worker
    BY <1>11 DEF DeleteReport, RetryDue, RunLapse, NextInstant
  <2> QED
    BY <1>2, <2>1
<1>12. CASE ScheduleLapse
  <2>1. /\ sched'.freq = sched.freq /\ sched'.next = sched.next /\ sched'.token = sched.token
        /\ worker' = worker
    BY <1>1, <1>12 DEF ScheduleLapse, Schedules
  <2> QED
    BY <1>2, <2>1
<1> QED
  BY <1>6, <1>7, <1>8, <1>9, <1>10, <1>11, <1>12 DEF Next

\* What happens to the place the schedule has reached.
LEMMA ScheduleStep ==
    ASSUME ScheduleInv, Next
    PROVE  \/ \E f \in Freqs \cup {Off} : Save(f)
           \/ /\ sched'.freq = sched.freq /\ sched'.next = sched.next
              /\ since' = since /\ saves' = saves
           \/ \E w \in Workers : /\ worker[w].pc = "inserting" /\ worker[w].todo = {}
                                 /\ sched.token = w
                                 /\ sched'.freq = sched.freq
                                 /\ sched'.next = worker[w].next
                                 /\ since' = since /\ saves' = saves
<1>1. sched \in Schedules
  BY DEF ScheduleInv, TypeOK
<1>2. ASSUME NEW w \in Workers, WorkerStep(w), ~ReleaseSchedule(w)
      PROVE  /\ sched'.freq = sched.freq /\ sched'.next = sched.next
             /\ since' = since /\ saves' = saves
  BY <1>1, <1>2 DEF WorkerStep, StartRun, ClaimSchedule, InsertPeriod, MaterializedAll, ClaimRun,
                    StopRun, Generate, Record, Abandon, Crash, Schedules
<1>3. ASSUME NEW w \in Workers, ReleaseSchedule(w)
      PROVE  /\ since' = since /\ saves' = saves
             /\ \/ sched' = sched
                \/ /\ worker[w].pc = "inserting" /\ worker[w].todo = {}
                   /\ sched.token = w
                   /\ sched'.freq = sched.freq
                   /\ sched'.next = worker[w].next
  BY <1>1, <1>3 DEF ReleaseSchedule, InsertedAll, Releasable, Schedules
<1>4. CASE (\E p \in Periods : DeleteReport(p) \/ RetryDue(p) \/ RunLapse(p))
           \/ ScheduleLapse \/ NextInstant
  BY <1>1, <1>4 DEF DeleteReport, RetryDue, RunLapse, ScheduleLapse, NextInstant, Schedules
<1> QED
  BY <1>2, <1>3, <1>4 DEF Next

\* Every slot up to next_run_at keeps its period run, and gets one before it.
LEMMA SlotsKept ==
    ASSUME ScheduleInv, Next
    PROVE  NoSlotLost'
<1>1. /\ NoSlotLost
      /\ sched.next \in Nat /\ since \in Nat
      /\ \A w \in Workers : TodoCovers(w) /\ worker[w].next \in Nat
  BY DEF ScheduleInv, TypeOK, Schedules, WorkerStates
<1>2. ASSUME NEW f \in Freqs \cup {Off}, Save(f) PROVE NoSlotLost'
  <2>1. since' = sched'.next /\ sched'.next \in Nat
    BY <1>2, ScalarsKept DEF Save, Schedules
  <2> QED
    BY <2>1 DEF NoSlotLost
<1>3. CASE sched'.freq = sched.freq /\ sched'.next = sched.next /\ since' = since
  BY <1>1, <1>3, RowsKept DEF NoSlotLost, Charted, Present
<1>4. ASSUME NEW w \in Workers, worker[w].pc = "inserting", worker[w].todo = {},
             sched.token = w, sched'.freq = sched.freq, sched'.next = worker[w].next,
             since' = since
      PROVE  NoSlotLost'
  <2>1. ASSUME NEW k \in since'..(sched'.next - 1), sched'.freq # Off
        PROVE  Charted(sched.freq, k)
    <3>1. CASE k < sched.next
      BY <1>1, <1>4, <2>1, <3>1 DEF NoSlotLost
    <3>2. CASE ~(k < sched.next)
      <4>1. k \in sched.next..(worker[w].next - 1)
        BY <1>1, <1>4, <2>1, <3>2
      <4> QED
        BY <1>1, <1>4, <4>1 DEF TodoCovers
    <3> QED
      BY <3>1, <3>2
  <2> QED
    BY <1>4, <2>1, RowsKept DEF NoSlotLost, Charted, Present
<1> QED
  BY <1>2, <1>3, <1>4, ScheduleStep

\* The invariant is inductive: a materializing run inserts every period before it
\* moves the schedule, and only while the schedule is still its own.
THEOREM ScheduleInvariant == Spec => []ScheduleInv
<1>1. Init => ScheduleInv
  <2> SUFFICES ASSUME Init PROVE ScheduleInv
    OBVIOUS
  <2>1. MaxRetries \in Nat /\ Start \in Nat /\ Start <= MaxTime
    BY LimitsAssumption, CalendarAssumption
  <2>2. AbsentRow \in Rows /\ RowOK(AbsentRow) /\ AbsentRow.status = "absent"
    BY <2>1 DEF AbsentRow, Rows, RowOK, Statuses, Kinds
  <2>3. sched \in Schedules /\ sched.freq = Off /\ sched.token = None
    BY DEF Init, Schedules
  <2>4. OffWorker \in WorkerStates /\ OffWorker.pc = "off"
    BY OffWorkerType DEF OffWorker
  <2>5. TypeOK
    BY <2>1, <2>2, <2>3, <2>4 DEF Init, TypeOK
  <2>6. \A p \in Periods : RowOK(runs[p]) /\ runs[p].status # "succeeded"
    BY <2>2 DEF Init
  <2>7. \A w \in Workers : InHand(w) /\ TodoCovers(w)
    BY <2>4 DEF Init, InHand, TodoCovers
  <2> QED
    BY <2>1, <2>3, <2>5, <2>6, <2>7 DEF Init, ScheduleInv, SucceededHasReport, NoSlotLost
<1>2. ScheduleInv /\ [Next]_vars => ScheduleInv'
  <2>1. ASSUME ScheduleInv, Next PROVE ScheduleInv'
    <3>1. TypeOK' /\ now' <= MaxTime
      BY <2>1, ScalarsKept, RowsStep, ReportsKept, WorkersKept DEF TypeOK
    <3>2. \A p \in Periods : RowOK(runs'[p])
      BY <2>1, RowsKept
    <3>3. SucceededHasReport'
      <4>1. ASSUME NEW p \in Periods, runs'[p].status = "succeeded" PROVE p \in reports'
        <5>1. CASE runs[p].status = "succeeded"
          BY <2>1, <5>1, ReportsKept DEF ScheduleInv, SucceededHasReport
        <5>2. CASE runs[p].status # "succeeded"
          BY <2>1, <4>1, <5>2, RowsKept
        <5> QED
          BY <5>1, <5>2
      <4> QED
        BY <4>1 DEF SucceededHasReport
    <3>4. NoSlotLost'
      BY <2>1, SlotsKept
    <3>5. \A w \in Workers : TodoCovers(w)'
      BY <2>1, TodoCovered
    <3>6. \A w \in Workers : InHand(w)'
      BY <2>1, WorkersKept DEF InHand
    <3> QED
      BY <3>1, <3>2, <3>3, <3>4, <3>5, <3>6 DEF ScheduleInv
  <2>2. ASSUME ScheduleInv, UNCHANGED vars PROVE ScheduleInv'
    BY <2>2 DEF ScheduleInv, vars, TypeOK, RowOK, SucceededHasReport, NoSlotLost, Charted,
                Present, InHand, TodoCovers
  <2> QED
    BY <2>1, <2>2
<1> QED
  BY <1>1, <1>2, PTL DEF Spec

\* Every variable keeps its type.
THEOREM TypeCorrect == Spec => []TypeOK
<1>1. ScheduleInv => TypeOK
  BY DEF ScheduleInv
<1> QED
  BY <1>1, ScheduleInvariant, PTL

\* No due slot is passed over: whatever run dies, loses the schedule or inserts
\* late, next_run_at moves only over slots whose period runs exist (materializeDue).
THEOREM NoSlotLostCorrect == Spec => []NoSlotLost
<1>1. ScheduleInv => NoSlotLost
  BY DEF ScheduleInv
<1> QED
  BY <1>1, ScheduleInvariant, PTL

\* What is recorded as succeeded has its report, whoever wrote it and whatever was
\* deleted in between (markSucceeded, deletePrivateReport).
THEOREM SucceededHasReportCorrect == Spec => []SucceededHasReport
<1>1. ScheduleInv => SucceededHasReport
  BY DEF ScheduleInv
<1> QED
  BY <1>1, ScheduleInvariant, PTL

\* A run that lost the schedule does not put an older slot back into next_run_at
\* (releaseMaterializedScheduleLease).
THEOREM NextRunForwardCorrect == Spec => NextRunForward
<1>1. ScheduleInv /\ [Next]_vars =>
        [saves' = saves => sched'.freq = sched.freq /\ sched'.next >= sched.next]_vars
  <2> SUFFICES ASSUME ScheduleInv, Next, saves' = saves
               PROVE  sched'.freq = sched.freq /\ sched'.next >= sched.next
    OBVIOUS
  <2>1. /\ sched.next \in Nat /\ saves \in Nat
        /\ \A w \in Workers : TodoCovers(w) /\ worker[w].next \in Nat
    BY DEF ScheduleInv, TypeOK, Schedules, WorkerStates
  <2>2. \A f \in Freqs \cup {Off} : ~Save(f)
    BY <2>1 DEF Save
  <2> QED
    BY <2>1, <2>2, ScheduleStep DEF TodoCovers
<1> QED
  BY <1>1, ScheduleInvariant, PTL DEF Spec, NextRunForward

\* A run that lost its lease changes nothing for its successor, and what is
\* finished or exhausted stays so (markSucceeded, markSkipped, markFailed).
THEOREM StaleRunHarmlessCorrect == Spec => StaleRunHarmless
<1>1. ScheduleInv /\ [Next]_vars =>
        [\A p \in Periods :
           /\ runs[p].status \in Done \cup {"retry_exhausted"} => runs'[p] = runs[p]
           /\ runs[p].live => \/ runs'[p] = runs[p]
                              \/ runs'[p] = [runs[p] EXCEPT !.live = FALSE]
                              \/ \E w \in Workers : /\ runs[p].token = w
                                                    /\ worker[w].run = p
                                                    /\ worker'[w] # worker[w]]_vars
  <2> SUFFICES ASSUME ScheduleInv, Next, NEW p \in Periods
               PROVE  /\ runs[p].status \in Done \cup {"retry_exhausted"} => runs'[p] = runs[p]
                      /\ runs[p].live =>
                           \/ runs'[p] = runs[p]
                           \/ runs'[p] = [runs[p] EXCEPT !.live = FALSE]
                           \/ \E w \in Workers : /\ runs[p].token = w
                                                 /\ worker[w].run = p
                                                 /\ worker'[w] # worker[w]
    OBVIOUS
  <2>1. RowStep(p)
    BY RowsStep
  <2>2. runs[p].live => runs[p].status = "running"
    BY DEF ScheduleInv, RowOK
  <2>3. \A w \in Workers : Writes(w, p) =>
           /\ runs[p].token = w /\ worker[w].run = p /\ worker'[w] # worker[w]
           /\ runs[p].live
    BY DEF Writes, Holds
  <2>4. runs[p].status \in Done \cup {"retry_exhausted"} => runs'[p] = runs[p]
    BY <2>1, <2>2, <2>3 DEF RowStep, Done, Open
  <2>5. runs[p].live => \/ runs'[p] = runs[p]
                        \/ runs'[p] = [runs[p] EXCEPT !.live = FALSE]
                        \/ \E w \in Workers : /\ runs[p].token = w
                                              /\ worker[w].run = p
                                              /\ worker'[w] # worker[w]
    BY <2>1, <2>2, <2>3 DEF RowStep
  <2> QED
    BY <2>4, <2>5
<1> QED
  BY <1>1, ScheduleInvariant, PTL DEF Spec, StaleRunHarmless

-----------------------------------------------------------------------------
(* Period runs are claimed in the order of their periods.                    *)

\* The period of a slot the schedule has come to since it was saved, or will.
Slot(q) == q.freq = sched.freq /\ q.end = q.start + 1 /\ since <= q.end

\* No such slot before p is missing.
NoGap(p) == \A q \in Older(p) : Slot(q) => Present(q)

\* A run inserts slots, and none whose predecessor nobody has inserted or will.
TodoOrdered(w) ==
    \A p \in worker[w].todo :
        /\ Slot(p)
        /\ \A q \in Older(p) : Slot(q) => q \in worker[w].todo \/ Present(q)

\* Before the schedule is saved there is nothing; from then on the period runs grow
\* without gaps, until it is saved again.
OrderInv ==
    /\ since <= sched.next
    /\ saves = 0 => /\ sched.freq = Off
                    /\ \A p \in Periods : ~Present(p)
                    /\ \A w \in Workers : worker[w].todo = {}
    /\ saves = 1 => /\ \A p \in Periods : Present(p) => NoGap(p)
                    /\ \A w \in Workers : TodoOrdered(w)
    /\ LaterPeriodsWait

-----------------------------------------------------------------------------
(* The periods. *)

\* A period's bounds are numbers, and one of length 1 is a slot's.
LEMMA PeriodBounds ==
    ASSUME NEW q \in Periods
    PROVE  /\ q.freq \in Freqs /\ q.start \in Int /\ q.end \in Nat
           /\ q.end = q.start + 1 => q = PeriodOf(q.freq, q.end)
<1>1. \A f \in Freqs : Current(f, Available) \in Nat
  BY CalendarAssumption, Quotient DEF Current
<1>2. PICK f \in Freqs : \E k \in Begun(f) :
         \/ q = PeriodOf(f, k)
         \/ q = [freq |-> f, start |-> Current(f, Available), end |-> k]
  BY DEF Periods
<1>3. PICK k \in Nat : \/ q = PeriodOf(f, k)
                       \/ q = [freq |-> f, start |-> Current(f, Available), end |-> k]
  BY <1>2, CalendarAssumption DEF Begun
<1>4. CASE q = PeriodOf(f, k)
  BY <1>3, <1>4 DEF PeriodOf
<1>5. CASE q = [freq |-> f, start |-> Current(f, Available), end |-> k]
  <2>1. PICK c \in Nat : c = Current(f, Available)
    BY <1>1
  <2>2. q = [freq |-> f, start |-> c, end |-> k]
    BY <1>5, <2>1
  <2>3. k = c + 1 => k - 1 = c
    BY <1>3, <2>1
  <2> QED
    BY <1>3, <2>1, <2>2, <2>3 DEF PeriodOf
<1> QED
  BY <1>3, <1>4, <1>5

\* The order of two slots' periods is the order of the slots.
LEMMA SlotsOrdered ==
    ASSUME NEW p \in Periods, NEW q \in Older(p), Slot(p), Slot(q)
    PROVE  /\ q \in Periods /\ q.end < p.end /\ q.start < p.start
           /\ q = PeriodOf(sched.freq, q.end) /\ p = PeriodOf(sched.freq, p.end)
<1>1. q \in Periods /\ (q.start < p.start \/ (q.start = p.start /\ q.end < p.end))
  BY DEF Older, Earlier
<1>2. /\ q.end = q.start + 1 /\ p.end = p.start + 1
      /\ q.freq = sched.freq /\ p.freq = sched.freq
  BY DEF Slot
<1>3. /\ q.start \in Int /\ p.start \in Int
      /\ q = PeriodOf(sched.freq, q.end) /\ p = PeriodOf(sched.freq, p.end)
  BY <1>1, <1>2, PeriodBounds
<1> QED
  BY <1>1, <1>2, <1>3

\* No period is before itself.
LEMMA NotOlderThanItself ==
    ASSUME NEW p \in Periods
    PROVE  p \notin Older(p)
BY PeriodBounds DEF Older, Earlier

\* A backfill is from before the slots that the schedule begins with.
LEMMA BackfillFirst ==
    ASSUME NEW f \in Freqs, now \in Nat, Current(f, Available) < Current(f, now),
           NEW q \in Older(Backfill(f, now)), q.end = q.start + 1
    PROVE  q.end < NextSlot(f, now)
<1>1. /\ Current(f, Available) \in Nat /\ Current(f, now) \in Nat
  BY CalendarAssumption, Quotient DEF Current
<1>2. PICK a \in Nat, c \in Nat : a = Current(f, Available) /\ c = Current(f, now)
  BY <1>1
<1>3. Backfill(f, now).start = a /\ Backfill(f, now).end = c /\ a < c
  BY <1>2 DEF Backfill
<1>4. q \in Periods /\ (q.start < a \/ (q.start = a /\ q.end < c))
  BY <1>3 DEF Older, Earlier
<1>5. q.start \in Int
  BY <1>4, PeriodBounds
<1>6. q.end < c
  BY <1>3, <1>4, <1>5
<1>7. NextSlot(f, now) = c + 1 \/ NextSlot(f, now) = c
  BY <1>2 DEF NextSlot
<1> QED
  BY <1>5, <1>6, <1>7

-----------------------------------------------------------------------------
(* What a step does to rows that wait, and to what is yet to be inserted. *)

\* No row is inserted or claimed.
Quiet == \A p \in Periods : runs[p].status \in {"absent", "pending"} => runs'[p] = runs[p]

\* Rows are inserted by a save or a materializing run, and claimed by a draining one.
LEMMA RunsChange ==
    ASSUME ScheduleInv, Next
    PROVE  \/ Quiet
           \/ \E f \in Freqs \cup {Off} : Save(f)
           \/ \E w \in Workers : InsertPeriod(w) \/ ClaimRun(w)
<1>1. runs \in [Periods -> Rows] /\ \A p \in Periods : RowOK(runs[p])
  BY DEF ScheduleInv, TypeOK
<1>2. ASSUME NEW w \in Workers, Record(w) PROVE Quiet
  <2>1. worker[w].run \in Periods
    BY <1>2 DEF ScheduleInv, InHand, Record
  <2>2. Holds(w) => runs[worker[w].run].status = "running"
    BY <1>1, <2>1 DEF Holds, RowOK
  <2>3. \A p \in Periods : runs'[p] = runs[p] \/ (p = worker[w].run /\ Holds(w))
    BY <1>1, <1>2 DEF Record
  <2> QED
    BY <2>2, <2>3 DEF Quiet
<1>3. ASSUME NEW w \in Workers, WorkerStep(w), ~Record(w), ~InsertPeriod(w), ~ClaimRun(w)
      PROVE  Quiet
  BY <1>3 DEF WorkerStep, StartRun, ClaimSchedule, ReleaseSchedule, MaterializedAll, StopRun,
              Generate, Abandon, Crash, Quiet
<1>4. ASSUME NEW p \in Periods, DeleteReport(p) \/ RetryDue(p) \/ RunLapse(p) PROVE Quiet
  BY <1>1, <1>4 DEF DeleteReport, RetryDue, RunLapse, RowOK, Quiet
<1>5. CASE ScheduleLapse \/ NextInstant
  BY <1>5 DEF ScheduleLapse, NextInstant, Quiet
<1> QED
  BY <1>2, <1>3, <1>4, <1>5 DEF Next

\* What is finished stays as it is.
LEMMA DoneKept ==
    ASSUME ScheduleInv, Next, NEW p \in Periods, runs[p].status \in Done
    PROVE  runs'[p] = runs[p]
<1>1. RowStep(p) /\ RowOK(runs[p])
  BY RowsStep DEF ScheduleInv
<1>2. \A w \in Workers : Writes(w, p) => runs[p].live
  BY DEF Writes, Holds
<1> QED
  BY <1>1, <1>2 DEF RowStep, RowOK, Done, Open

\* An insertion by a run: the first period of its list, and no other row changes.
LEMMA InsertPeriodStep ==
    ASSUME ScheduleInv, NEW w \in Workers, InsertPeriod(w)
    PROVE  \E p \in worker[w].todo :
              /\ p \in Periods
              /\ \A q \in worker[w].todo : p.start <= q.start
              /\ Present(p)' /\ (Present(p) => runs'[p] = runs[p])
              /\ runs'[p].status = "pending" \/ runs'[p] = runs[p]
              /\ \A q \in Periods : q # p => runs'[q] = runs[q]
              /\ worker'[w].todo = worker[w].todo \ {p}
<1>1. PICK p \in worker[w].todo :
         /\ \A q \in worker[w].todo : p.start <= q.start
         /\ runs' = Inserted(p, "scheduled")
         /\ worker' = [worker EXCEPT ![w].todo = @ \ {p}, ![w].made = @ + 1]
  BY DEF InsertPeriod
<1>2. /\ worker \in [Workers -> WorkerStates] /\ runs \in [Periods -> Rows]
      /\ p \in Periods /\ "scheduled" \in Kinds
  BY DEF ScheduleInv, TypeOK, WorkerStates, Kinds
<1>3. worker'[w].todo = worker[w].todo \ {p}
  BY <1>1, <1>2 DEF WorkerStates
<1>4. /\ \A q \in Periods : \/ runs'[q] = runs[q]
                            \/ q = p /\ runs[q].status = "absent" /\ runs'[q] = Fresh("scheduled")
      /\ runs'[p].status # "absent"
  BY <1>1, <1>2, InsertedRow
<1>5. Fresh("scheduled").status = "pending"
  BY <1>2, FreshRow
<1> QED
  BY <1>1, <1>2, <1>3, <1>4, <1>5 DEF Present

\* What a run has yet to insert: filled by a claim of the schedule, emptied period
\* by period.
LEMMA TodoStep ==
    ASSUME ScheduleInv, Next, NEW v \in Workers
    PROVE  \/ ClaimSchedule(v)
           \/ InsertPeriod(v)
           \/ worker'[v].todo \in {worker[v].todo, {}}
<1>1. worker \in [Workers -> WorkerStates]
  BY DEF ScheduleInv, TypeOK
<1>2. ASSUME NEW w \in Workers, WorkerStep(w), w # v PROVE worker'[v] = worker[v]
  BY <1>2, OneWorkerStep
<1>3. ASSUME WorkerStep(v), ~ClaimSchedule(v), ~InsertPeriod(v)
      PROVE  worker'[v].todo \in {worker[v].todo, {}}
  <2>1. CASE StartRun(v) \/ MaterializedAll(v) \/ StopRun(v) \/ Crash(v)
    <3>1. PICK pc \in {"off", "materializing", "draining"} :
             worker' = [worker EXCEPT ![v] = [OffWorker EXCEPT !.pc = pc]]
      BY <2>1 DEF StartRun, MaterializedAll, StopRun, Crash, OffWorker
    <3>2. worker'[v] = [OffWorker EXCEPT !.pc = pc]
      BY <1>1, <3>1
    <3>3. worker'[v].todo = {}
      BY <3>2 DEF OffWorker
    <3> QED
      BY <3>3
  <2>2. CASE ReleaseSchedule(v)
    <3>1. \/ worker' = [worker EXCEPT ![v] = [@ EXCEPT !.pc = "materializing", !.todo = {},
                                                       !.next = 0]]
          \/ worker' = [worker EXCEPT ![v] = OffWorker]
      BY <2>2 DEF ReleaseSchedule
    <3>2. \/ worker'[v] = [worker[v] EXCEPT !.pc = "materializing", !.todo = {}, !.next = 0]
          \/ worker'[v] = OffWorker
      BY <1>1, <3>1
    <3>3. worker[v] \in WorkerStates
      BY <1>1
    <3>4. OffWorker.todo = {}
      BY DEF OffWorker
    <3>5. worker'[v].todo = {}
      BY <3>2, <3>3, <3>4 DEF WorkerStates
    <3> QED
      BY <3>5
  <2>3. CASE ClaimRun(v)
    BY <1>1, <2>3 DEF ClaimRun, WorkerStates
  <2>4. CASE Generate(v)
    <3>1. PICK o : worker' = [worker EXCEPT ![v] = [@ EXCEPT !.pc = "recording", !.outcome = o]]
      BY <2>4 DEF Generate
    <3> QED
      BY <1>1, <3>1 DEF WorkerStates
  <2>5. CASE Record(v) \/ Abandon(v)
    <3>1. worker' = [worker EXCEPT ![v] = [@ EXCEPT !.pc = "draining", !.run = None]]
      BY <2>5 DEF Record, Abandon
    <3> QED
      BY <1>1, <3>1 DEF WorkerStates
  <2> QED
    BY <1>3, <2>1, <2>2, <2>3, <2>4, <2>5 DEF WorkerStep
<1>4. CASE ~(\E w \in Workers : WorkerStep(w))
  BY <1>4 DEF Next, Save, DeleteReport, RetryDue, RunLapse, ScheduleLapse, NextInstant
<1> QED
  BY <1>2, <1>3, <1>4

\* The schedule does not go back behind the slot it began with.
LEMMA SinceFirst ==
    ASSUME ScheduleInv, since <= sched.next, Next
    PROVE  since' <= sched'.next
<1>1. /\ sched.next \in Nat /\ since \in Nat
      /\ \A w \in Workers : TodoCovers(w) /\ worker[w].next \in Nat
  BY DEF ScheduleInv, TypeOK, Schedules, WorkerStates
<1>2. ASSUME NEW f \in Freqs \cup {Off}, Save(f) PROVE since' <= sched'.next
  <2>1. since' = sched'.next /\ sched'.next \in Nat
    BY <1>2, ScalarsKept DEF Save, Schedules
  <2> QED
    BY <2>1
<1>3. ASSUME NEW w \in Workers, worker[w].pc = "inserting", sched.token = w,
             sched'.next = worker[w].next, since' = since
      PROVE  since' <= sched'.next
  BY <1>1, <1>3 DEF TodoCovers
<1> QED
  BY <1>2, <1>3, ScheduleStep

-----------------------------------------------------------------------------
(* The order of the claims, step by step. *)

\* While the schedule has not been saved there is nothing to insert or to claim.
LEMMA OrderUnsaved ==
    ASSUME ScheduleInv, OrderInv, Next, saves = 0, saves' = saves
    PROVE  OrderInv'
<1>1. /\ sched.freq = Off /\ \A p \in Periods : runs[p].status = "absent"
      /\ \A w \in Workers : worker[w].todo = {}
      /\ saves \in Nat /\ \A p \in Periods : runs[p] \in Rows
  BY DEF OrderInv, Present, ScheduleInv, TypeOK
<1>2. \A f \in Freqs \cup {Off} : ~Save(f)
  BY <1>1 DEF Save
<1>3. \A w \in Workers : ~InsertPeriod(w) /\ ~ClaimRun(w) /\ ~ClaimSchedule(w)
  BY <1>1 DEF InsertPeriod, ClaimRun, Runnable, ClaimSchedule, Claimable
<1>4. \A p \in Periods : runs'[p].status = "absent"
  BY <1>1, <1>2, <1>3, RunsChange DEF Quiet
<1>5. \A w \in Workers : worker'[w].todo = {}
  BY <1>1, <1>3, TodoStep
<1>6. sched'.freq = Off
  BY <1>1, <1>2, ScheduleStep
<1>7. LaterPeriodsWait'
  BY <1>4 DEF LaterPeriodsWait
<1> QED
  BY <1>4, <1>5, <1>6, <1>7, SinceFirst DEF OrderInv, Present

\* The first save inserts a backfill at most, and nothing is claimed.
LEMMA OrderFirstSave ==
    ASSUME ScheduleInv, OrderInv, NEW f \in Freqs \cup {Off}, Save(f), saves = 0
    PROVE  OrderInv'
<1>1. /\ \A p \in Periods : ~Present(p)
      /\ \A w \in Workers : worker[w].todo = {}
      /\ runs \in [Periods -> Rows] /\ now \in Nat /\ now <= MaxTime
  BY DEF OrderInv, ScheduleInv, TypeOK
<1>2. /\ worker' = worker /\ saves' = 1 /\ since' = sched'.next
      /\ sched'.freq = f /\ (f # Off => sched'.next = NextSlot(f, now))
  BY DEF Save
<1>3. \A w \in Workers : TodoOrdered(w)'
  BY <1>1, <1>2 DEF TodoOrdered
<1>4. ASSUME NEW p \in Periods, Present(p)'
      PROVE  /\ f \in Freqs /\ p = Backfill(f, now) /\ Current(f, Available) < Current(f, now)
             /\ runs'[p].status = "pending"
  <2>1. f # Off /\ BackfillDue(f) /\ runs' = Inserted(Backfill(f, now), "scheduled_backfill")
    BY <1>1, <1>4 DEF Save, Present
  <2>2. Backfill(f, now) \in Periods /\ "scheduled_backfill" \in Kinds
    BY <1>1, <2>1, BackfillPeriod DEF Kinds
  <2>3. p = Backfill(f, now) /\ runs'[p] = Fresh("scheduled_backfill")
    BY <1>1, <1>4, <2>1, <2>2, InsertedRow DEF Present
  <2> QED
    BY <2>1, <2>2, <2>3, FreshRow DEF BackfillDue
<1>5. ASSUME NEW p \in Periods, Present(p)' PROVE NoGap(p)'
  <2>1. ASSUME NEW q \in Older(p), Slot(q)' PROVE FALSE
    <3>1. f \in Freqs /\ p = Backfill(f, now) /\ Current(f, Available) < Current(f, now)
      BY <1>4, <1>5
    <3>2. q.end = q.start + 1 /\ NextSlot(f, now) <= q.end
      BY <1>2, <2>1, <3>1, NamesAssumption DEF Slot
    <3>3. q.end < NextSlot(f, now)
      BY <1>1, <2>1, <3>1, <3>2, BackfillFirst
    <3>4. q.end \in Nat /\ NextSlot(f, now) \in Nat
      BY <1>1, <2>1, <3>1, PeriodBounds, SlotIsDue DEF Older
    <3> QED
      BY <3>2, <3>3, <3>4
  <2> QED
    BY <2>1 DEF NoGap
<1>6. LaterPeriodsWait'
  BY <1>4 DEF LaterPeriodsWait, Present
<1>7. since' <= sched'.next
  BY SinceFirst DEF OrderInv, Next
<1> QED
  BY <1>2, <1>3, <1>5, <1>6, <1>7 DEF OrderInv

\* From then on: a claim of the schedule lists slots without a gap ...
LEMMA OrderListed ==
    ASSUME ScheduleInv, OrderInv, NEW w \in Workers, ClaimSchedule(w),
           sched'.freq = sched.freq, since' = since, runs' = runs
    PROVE  TodoOrdered(w)'
<1>1. /\ since <= sched.next /\ since \in Nat /\ sched.next \in Nat
      /\ NoSlotLost
  BY DEF OrderInv, ScheduleInv, TypeOK, Schedules
<1>2. /\ sched.freq \in Freqs /\ worker'[w].next \in Nat
      /\ worker'[w].todo = {PeriodOf(sched.freq, k) : k \in sched.next..(worker'[w].next - 1)}
      /\ worker'[w].todo \subseteq Periods
  BY ClaimScheduleStep DEF WorkerStates
<1>3. ASSUME NEW p \in worker'[w].todo PROVE Slot(p) /\ p.end \in Nat /\ p.end < worker'[w].next
  <2>1. PICK k \in sched.next..(worker'[w].next - 1) : p = PeriodOf(sched.freq, k)
    BY <1>2
  <2>2. k \in Nat /\ since <= k /\ k < worker'[w].next
    BY <1>1, <1>2
  <2> QED
    BY <2>1, <2>2 DEF Slot, PeriodOf
<1>4. ASSUME NEW p \in worker'[w].todo, NEW q \in Older(p), Slot(q)
      PROVE  q \in worker'[w].todo \/ Present(q)
  <2>1. Slot(p) /\ p.end \in Nat /\ p.end < worker'[w].next /\ p \in Periods
    BY <1>2, <1>3
  <2>2. q \in Periods /\ q.end < p.end /\ q = PeriodOf(sched.freq, q.end)
    BY <1>4, <2>1, SlotsOrdered
  <2>3. q.end \in Nat /\ since <= q.end
    BY <1>4, <2>2, PeriodBounds DEF Slot
  <2>4. CASE q.end < sched.next
    <3>1. q.end \in since..(sched.next - 1)
      BY <1>1, <2>3, <2>4
    <3>2. Charted(sched.freq, q.end)
      BY <1>1, <1>2, <3>1, NamesAssumption DEF NoSlotLost
    <3> QED
      BY <2>2, <3>2 DEF Charted
  <2>5. CASE ~(q.end < sched.next)
    <3>1. q.end \in sched.next..(worker'[w].next - 1)
      BY <1>1, <1>2, <2>1, <2>2, <2>3, <2>5
    <3> QED
      BY <1>2, <2>2, <3>1
  <2> QED
    BY <2>4, <2>5
<1>5. ASSUME NEW q PROVE Slot(q)' <=> Slot(q)
  BY DEF Slot
<1>6. ASSUME NEW q PROVE Present(q)' <=> Present(q)
  BY DEF Present
<1> QED
  BY <1>3, <1>4, <1>5, <1>6 DEF TodoOrdered

\* ... an insertion leaves no gap, neither in the list nor in the rows ...
LEMMA OrderInserted ==
    ASSUME ScheduleInv, OrderInv, saves = 1, NEW w \in Workers, InsertPeriod(w),
           NEW r \in worker[w].todo, r \in Periods,
           \A q \in worker[w].todo : r.start <= q.start
    PROVE  NoGap(r)
<1>1. TodoOrdered(w) /\ worker[w].todo \subseteq Periods
  BY DEF OrderInv, ScheduleInv, TypeOK, WorkerStates
<1>2. ASSUME NEW q \in Older(r), Slot(q), ~Present(q) PROVE FALSE
  <2>1. q \in worker[w].todo /\ Slot(r)
    BY <1>1, <1>2 DEF TodoOrdered
  <2>2. q.start < r.start /\ r.start <= q.start
    BY <1>2, <2>1, SlotsOrdered
  <2>3. q.start \in Int /\ r.start \in Int
    BY <1>1, <2>1, PeriodBounds
  <2> QED
    BY <2>2, <2>3
<1> QED
  BY <1>2 DEF NoGap

\* ... and so what has been claimed has only finished periods before it.
LEMMA OrderSaved ==
    ASSUME ScheduleInv, OrderInv, Next, saves = 1, saves' = saves
    PROVE  OrderInv'
<1>1. /\ \A p \in Periods : Present(p) => NoGap(p)
      /\ \A w \in Workers : TodoOrdered(w) /\ worker[w].todo \subseteq Periods
      /\ LaterPeriodsWait /\ saves \in Nat
      /\ \A p \in Periods : runs[p] \in Rows
  BY DEF OrderInv, ScheduleInv, TypeOK, WorkerStates
<1>2. \A f \in Freqs \cup {Off} : ~Save(f)
  BY <1>1 DEF Save
<1>3. sched'.freq = sched.freq /\ since' = since
  BY <1>2, ScheduleStep
<1>4. \A q : Slot(q)' <=> Slot(q)
  BY <1>3 DEF Slot
<1>5. \A p \in Periods : Present(p) => Present(p)'
  BY RowsKept DEF Present
<1>6. ASSUME NEW p \in Periods, NoGap(p) PROVE NoGap(p)'
  BY <1>4, <1>5, <1>6 DEF NoGap, Older
<1>7. \A p \in Periods : Present(p)' => NoGap(p)'
  <2>1. CASE \E w \in Workers : InsertPeriod(w)
    <3>1. PICK w \in Workers : InsertPeriod(w)
      BY <2>1
    <3>2. PICK r \in worker[w].todo : /\ r \in Periods
                                      /\ \A q \in worker[w].todo : r.start <= q.start
                                      /\ \A q \in Periods : q # r => runs'[q] = runs[q]
      BY <3>1, InsertPeriodStep
    <3>3. NoGap(r)
      BY <1>1, <3>1, <3>2, OrderInserted
    <3>4. \A p \in Periods : Present(p)' => p = r \/ Present(p)
      BY <3>2 DEF Present
    <3> QED
      BY <1>1, <1>6, <3>2, <3>3, <3>4
  <2>2. CASE \E w \in Workers : ClaimRun(w)
    <3>1. \A p \in Periods : Present(p)' => Present(p)
      BY <1>1, <2>2 DEF ClaimRun, Runnable, Present, ScheduleInv, TypeOK
    <3> QED
      BY <1>1, <1>6, <3>1
  <2>3. CASE Quiet
    <3>1. \A p \in Periods : Present(p)' => Present(p)
      BY <2>3 DEF Quiet, Present
    <3> QED
      BY <1>1, <1>6, <3>1
  <2> QED
    BY <1>2, <2>1, <2>2, <2>3, RunsChange
<1>8. ASSUME NEW w \in Workers PROVE TodoOrdered(w)'
  <2>1. CASE worker'[w].todo \in {worker[w].todo, {}}
    BY <1>1, <1>4, <1>5, <2>1 DEF TodoOrdered, Older
  <2>2. CASE InsertPeriod(w)
    <3>1. PICK r \in worker[w].todo : Present(r)' /\ worker'[w].todo = worker[w].todo \ {r}
      BY <2>2, InsertPeriodStep
    <3>2. ASSUME NEW p \in worker'[w].todo, NEW q \in Older(p), Slot(q)
          PROVE  q \in worker'[w].todo \/ Present(q)'
      <4>1. q \in worker[w].todo \/ Present(q)
        BY <1>1, <3>1, <3>2 DEF TodoOrdered
      <4>2. q \in Periods
        BY DEF Older
      <4> QED
        BY <1>5, <3>1, <4>1, <4>2
    <3> QED
      BY <1>1, <1>4, <3>1, <3>2 DEF TodoOrdered
  <2>3. CASE ClaimSchedule(w)
    BY <1>3, <2>3, OrderListed DEF ClaimSchedule
  <2> QED
    BY <2>1, <2>2, <2>3, TodoStep
<1>9. LaterPeriodsWait'
  <2> SUFFICES ASSUME NEW p \in Periods, runs'[p].status \notin {"absent", "pending"},
                      NEW q \in Older(p)
               PROVE  runs'[q].status \in Done \cup {"absent"}
    BY DEF LaterPeriodsWait
  <2>1. q \in Periods /\ q # p
    BY NotOlderThanItself DEF Older
  <2>2. ASSUME runs[p].status \notin {"absent", "pending"}
        PROVE  runs[q].status \in Done \cup {"absent"}
    BY <1>1, <2>2 DEF LaterPeriodsWait
  <2>3. runs[q].status \in Done => runs'[q] = runs[q]
    BY <2>1, DoneKept
  <2>4. CASE Quiet
    BY <2>1, <2>2, <2>3, <2>4 DEF Quiet
  <2>5. CASE \E w \in Workers : ClaimRun(w)
    <3>1. PICK w \in Workers, r \in Periods :
             /\ Runnable(r)
             /\ \A u \in Periods : u # r => runs'[u] = runs[u]
      BY <2>5 DEF ClaimRun, ScheduleInv, TypeOK
    <3>2. CASE r = p
      <4>1. runs[q].status \notin Open \cup {"retry_exhausted"}
        BY <3>1, <3>2 DEF Runnable, WaitsForOlder
      <4>2. runs[q].status \in Done \cup {"absent"}
        BY <1>1, <2>1, <4>1 DEF Rows, Statuses
      <4> QED
        BY <2>1, <3>1, <3>2, <4>2
    <3>3. CASE r # p
      <4>1. runs[q].status \in Done \cup {"absent"}
        BY <2>2, <3>1, <3>3
      <4>2. r # q
        BY <3>1, <4>1 DEF Runnable, Done
      <4> QED
        BY <2>1, <3>1, <4>1, <4>2
    <3> QED
      BY <3>2, <3>3
  <2>6. CASE \E w \in Workers : InsertPeriod(w)
    <3>1. PICK w \in Workers : InsertPeriod(w)
      BY <2>6
    <3>2. PICK r \in worker[w].todo : /\ r \in Periods
                                      /\ runs'[r].status = "pending" \/ runs'[r] = runs[r]
                                      /\ Present(r) => runs'[r] = runs[r]
                                      /\ \A u \in Periods : u # r => runs'[u] = runs[u]
      BY <3>1, InsertPeriodStep
    <3>3. runs'[p] = runs[p]
      BY <3>2
    <3>4. runs[q].status \in Done \cup {"absent"} /\ Present(p)
      BY <2>2, <3>3 DEF Present
    <3>5. CASE q = r /\ ~Present(r)
      <4>1. Slot(r)
        BY <1>1 DEF TodoOrdered
      <4>2. NoGap(p)
        BY <1>1, <3>4
      <4> QED
        BY <3>5, <4>1, <4>2 DEF NoGap
    <3>6. CASE q # r \/ Present(r)
      BY <2>1, <3>2, <3>4, <3>6
    <3> QED
      BY <3>5, <3>6
  <2> QED
    BY <1>2, <2>4, <2>5, <2>6, RunsChange
<1>10. since' <= sched'.next
  BY SinceFirst DEF OrderInv
<1> QED
  BY <1>7, <1>8, <1>9, <1>10 DEF OrderInv

\* Every step keeps the order.
LEMMA OrderStep == ScheduleInv /\ OrderInv /\ [Next]_vars => OrderInv'
<1> SUFFICES ASSUME ScheduleInv, OrderInv, [Next]_vars PROVE OrderInv'
  OBVIOUS
<1>1. CASE UNCHANGED vars
  BY <1>1 DEF vars, OrderInv, Present, NoGap, TodoOrdered, Slot, LaterPeriodsWait
<1>2. CASE Next
  <2>1. saves \in Nat /\ saves' \in Nat /\ since' <= sched'.next
    BY <1>2, ScalarsKept, SinceFirst DEF OrderInv, ScheduleInv, TypeOK
  <2>2. saves' = saves \/ (saves' = saves + 1 /\ \E f \in Freqs \cup {Off} : Save(f))
    BY <1>2, ScheduleStep DEF Save
  <2>3. CASE saves' >= 2
    BY <2>1, <2>3 DEF OrderInv, LaterPeriodsWait
  <2>4. CASE saves = 0 /\ saves' = 0
    BY <1>2, <2>4, OrderUnsaved
  <2>5. CASE saves = 1 /\ saves' = 1
    BY <1>2, <2>5, OrderSaved
  <2>6. CASE saves = 0 /\ saves' = 1
    BY <2>2, <2>6, OrderFirstSave
  <2> QED
    BY <2>1, <2>2, <2>3, <2>4, <2>5, <2>6
<1> QED
  BY <1>1, <1>2

\* The period runs of a schedule that is saved once are claimed in the order of their
\* periods, whatever runs die, lose the schedule or insert late: what has been
\* claimed has only finished periods before it (claimRunnable, materializeDue).
THEOREM LaterPeriodsWaitCorrect == Spec => []LaterPeriodsWait
<1>1. Init => OrderInv
  <2> SUFFICES ASSUME Init PROVE OrderInv
    OBVIOUS
  <2>1. \A p \in Periods : runs[p].status = "absent"
    BY DEF Init, AbsentRow
  <2>2. \A w \in Workers : worker[w].todo = {}
    BY DEF Init, OffWorker
  <2> QED
    BY <2>1, <2>2 DEF Init, OrderInv, LaterPeriodsWait, Present
<1>2. OrderInv => LaterPeriodsWait
  BY DEF OrderInv
<1> QED
  BY <1>1, <1>2, OrderStep, ScheduleInvariant, PTL DEF Spec
=============================================================================
