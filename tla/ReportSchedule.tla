--------------------------- MODULE ReportSchedule ---------------------------
(***************************************************************************)
(* The periodic reports of one project: the schedule an administrator      *)
(* saves (saveProjectReportSchedule), the dispatcher runs that turn its    *)
(* due slots into period runs and generate one report for each             *)
(* (scripts/report-schedule-dispatcher.ts and its loop in scripts/lib),    *)
(* and the calendar they share (report-schedule-periods.ts).               *)
(*                                                                         *)
(* now counts instants of the calendar.  The periods of a frequency begin  *)
(* at the multiples of its Step and are numbered; its slots come RunTime   *)
(* later (run_time is 10:00 of the day that begins a period).  Leases and  *)
(* retry delays are short against that: a lease is live or has run out, a  *)
(* retry is due or is not, and which comes first is left open.  A          *)
(* heartbeat keeps a live lease live, up to its cap of an hour: it is the  *)
(* lease not running out yet.                                              *)
(*                                                                         *)
(* A definition that stands just before another one and bears its name     *)
(* with a qualifier is a faulty variant that the specification does not    *)
(* use: it shows which property would catch that fault.                    *)
(***************************************************************************)
EXTENDS Integers, FiniteSets

CONSTANTS
    Freqs,             \* weekly, monthly, annually, or some of them
    Off,               \* the frequency "none"
    Step,              \* length of a frequency's periods
    RunTime,           \* from the beginning of a period to the slot in it
    Available,         \* the project's oldest data (readProjectReportAvailableFrom)
    Start,             \* the instant the behaviour begins
    Workers,           \* dispatcher runs that may be alive at the same time
    None,              \* SQL NULL in worker_token
    MaxRetries,        \* retries before a period run is exhausted
    MaterializeLimit,  \* slots a dispatcher run materializes at most
    MaxTime,           \* bound: the last instant
    MaxSaves,          \* bound: times the schedule is saved
    MaxFaults          \* bound: crashes, database errors, lapses of a live lease

ASSUME CalendarAssumption == /\ Step \in [Freqs -> Nat \ {0}]
                             /\ RunTime \in Nat
                             /\ \A f \in Freqs : RunTime < Step[f]
                             /\ {Available, MaxTime} \subseteq Nat
                             /\ Start \in 0..MaxTime
ASSUME NamesAssumption    == Off \notin Freqs /\ None \notin Workers
ASSUME LimitsAssumption   == /\ {MaxRetries, MaxSaves, MaxFaults} \subseteq Nat
                             /\ MaterializeLimit \in Nat \ {0}

VARIABLES
    now,       \* the calendar
    sched,     \* the project's row of project_report_schedules
    runs,      \* report_schedule_period_runs, by frequency and period
    reports,   \* the period runs whose report exists
    worker,    \* what each dispatcher run has in hand
    since,     \* the slot the schedule began with when it was last saved
    saves,     \* how much of the save budget is spent
    faults     \* how much of the fault budget is spent

vars == <<now, sched, runs, reports, worker, since, saves, faults>>

-----------------------------------------------------------------------------
(* The calendar.  The k-th period of f begins at k * Step[f]; slot k lies in  *)
(* it and stands for the period before.                                      *)

Current(f, t) == t \div Step[f]
SlotTime(f, k) == k * Step[f] + RunTime

\* resolveNextScheduledReportRunAt: the first slot after t.
NextSlot(f, t) == IF SlotTime(f, Current(f, t)) <= t THEN Current(f, t) + 1 ELSE Current(f, t)

\* resolveScheduledReportPeriod
PeriodOf(f, k) == [freq |-> f, start |-> k - 1, end |-> k]

\* resolveInitialAggregateBackfillPeriod: from the period of the oldest data to
\* the current one, which is not part of it.
Backfill(f, t) == [freq |-> f, start |-> Current(f, Available), end |-> Current(f, t)]

\* enumerateDueScheduledReportPeriods: the due slots from next on, n at most,
\* and the slot that follows them.
SlotAfter(f, next, t, n) ==
    IF next + n <= NextSlot(f, t) THEN next + n ELSE NextSlot(f, t)
DueSlots(f, next, t, n) == next..(SlotAfter(f, next, t, n) - 1)

Begun(f) == {k \in 0..MaxTime : k * Step[f] <= MaxTime}

Periods == UNION {{PeriodOf(f, k) : k \in Begun(f)}
                  \cup {[freq |-> f, start |-> Current(f, Available), end |-> k] :
                           k \in Begun(f)} : f \in Freqs}

\* The order of the period runs of one frequency: (period_start, period_end).
Earlier(q, p) == q.start < p.start \/ (q.start = p.start /\ q.end < p.end)
Older(p) == {q \in Periods : q.freq = p.freq /\ Earlier(q, p)}

-----------------------------------------------------------------------------
Done     == {"succeeded", "skipped"}
Open     == {"pending", "running", "retry_wait"}
Statuses == Done \cup Open \cup {"absent", "retry_exhausted"}
Kinds    == {"scheduled", "scheduled_backfill"}

Schedules == [freq : Freqs \cup {Off}, next : Nat, token : Workers \cup {None}, live : BOOLEAN]

\* due: a waiting retry may run; live: the lease of a running row has not run out.
Rows == [status : Statuses, kind : Kinds, failures : 0..(MaxRetries + 1),
         token : Workers \cup {None}, live : BOOLEAN, due : BOOLEAN]

\* A dispatcher run materializes (claims the due schedule, inserts its periods),
\* then drains the period runs (claims one, generates its report, records the
\* outcome).  made counts the slots it materialized; ran is set once it has
\* worked on a period run.
WorkerStates ==
    [pc : {"off", "materializing", "inserting", "draining", "generating", "recording"},
     todo : SUBSET Periods, next : Nat, made : Nat,
     run : Periods \cup {None}, outcome : {"report", "skipped", "failed"}, ran : BOOLEAN]

OffWorker == [pc |-> "off", todo |-> {}, next |-> 0, made |-> 0,
              run |-> None, outcome |-> "failed", ran |-> FALSE]

TypeOK == /\ now \in Nat
          /\ sched \in Schedules
          /\ runs \in [Periods -> Rows]
          /\ reports \subseteq Periods
          /\ worker \in [Workers -> WorkerStates]
          /\ since \in Nat /\ saves \in Nat /\ faults \in Nat

AbsentRow == [status |-> "absent", kind |-> "scheduled", failures |-> 0,
              token |-> None, live |-> FALSE, due |-> FALSE]

Init == /\ now = Start
        /\ sched = [freq |-> Off, next |-> 0, token |-> None, live |-> FALSE]
        /\ runs = [p \in Periods |-> AbsentRow]
        /\ reports = {}
        /\ worker = [w \in Workers |-> OffWorker]
        /\ since = 0 /\ saves = 0 /\ faults = 0

Charge(n) == faults + n <= MaxFaults /\ faults' = faults + n

Present(p) == runs[p].status # "absent"

\* INSERT ... ON CONFLICT (project_id, frequency, period_start, period_end) DO NOTHING
Inserted(p, k) == IF Present(p) THEN runs
                  ELSE [runs EXCEPT ![p] = [AbsentRow EXCEPT !.status = "pending", !.kind = k]]

-----------------------------------------------------------------------------
(* The settings page.  One transaction under the locks of the project and of *)
(* its schedule; it is refused while a dispatcher run has the schedule.      *)

SaveAllowed == ~(sched.token # None /\ sched.live)

BackfillDue(f) ==
    /\ sched.freq = Off
    /\ \A p \in reports : p.freq # f
    /\ Current(f, Available) < Current(f, now)

Save(f) ==
    /\ saves < MaxSaves
    /\ SaveAllowed
    /\ sched' = [freq |-> f, next |-> IF f = Off THEN 0 ELSE NextSlot(f, now),
                 token |-> None, live |-> FALSE]
    /\ runs' = IF f # Off /\ BackfillDue(f) THEN Inserted(Backfill(f, now), "scheduled_backfill")
                                            ELSE runs
    /\ since' = sched'.next
    /\ saves' = saves + 1
    /\ UNCHANGED <<now, reports, worker, faults>>

-----------------------------------------------------------------------------
(* A dispatcher run materializes the due slots: it claims the schedule,      *)
(* inserts a row for each period, one statement each, and releases the       *)
(* schedule with the slot that follows.                                      *)

StartRun(w) ==
    /\ worker[w].pc = "off"
    /\ worker' = [worker EXCEPT ![w] = [OffWorker EXCEPT !.pc = "materializing"]]
    /\ UNCHANGED <<now, sched, runs, reports, since, saves, faults>>

ClaimableUnleased == /\ sched.freq # Off
                     /\ SlotTime(sched.freq, sched.next) <= now
                     /\ sched.token = None
Claimable == /\ sched.freq # Off
             /\ SlotTime(sched.freq, sched.next) <= now
             /\ ~(sched.token # None /\ sched.live)

ClaimSchedule(w) ==
    /\ worker[w].pc = "materializing"
    /\ worker[w].made < MaterializeLimit
    /\ Claimable
    /\ LET n == MaterializeLimit - worker[w].made
       IN  worker' = [worker EXCEPT ![w] =
             [@ EXCEPT !.pc = "inserting",
                       !.todo = {PeriodOf(sched.freq, s) :
                                    s \in DueSlots(sched.freq, sched.next, now, n)},
                       !.next = SlotAfter(sched.freq, sched.next, now, n)]]
    /\ sched' = [sched EXCEPT !.token = w, !.live = TRUE]
    /\ UNCHANGED <<now, runs, reports, since, saves, faults>>

\* The insert does not look at the lease.
InsertPeriod(w) ==
    /\ worker[w].pc = "inserting"
    /\ \E p \in worker[w].todo :
          /\ \A q \in worker[w].todo : p.start <= q.start
          /\ runs' = Inserted(p, "scheduled")
          /\ worker' = [worker EXCEPT ![w].todo = @ \ {p}, ![w].made = @ + 1]
    /\ UNCHANGED <<now, sched, reports, since, saves, faults>>

ReleasableAlways(w) == TRUE
Releasable(w) == sched.token = w /\ sched.live

\* All periods are inserted; a run that lost the schedule ends with an error.
InsertedAllEarly(w) == Cardinality(worker[w].todo) <= 1
InsertedAll(w) == worker[w].todo = {}

ReleaseSchedule(w) ==
    /\ worker[w].pc = "inserting"
    /\ InsertedAll(w)
    /\ IF Releasable(w)
       THEN /\ sched' = [sched EXCEPT !.next = worker[w].next, !.token = None, !.live = FALSE]
            /\ worker' = [worker EXCEPT ![w] = [@ EXCEPT !.pc = "materializing", !.todo = {},
                                                         !.next = 0]]
       ELSE /\ worker' = [worker EXCEPT ![w] = OffWorker]
            /\ UNCHANGED sched
    /\ UNCHANGED <<now, runs, reports, since, saves, faults>>

MaterializedAll(w) ==
    /\ worker[w].pc = "materializing"
    /\ worker[w].made >= MaterializeLimit \/ ~Claimable
    /\ worker' = [worker EXCEPT ![w] = [OffWorker EXCEPT !.pc = "draining"]]
    /\ UNCHANGED <<now, sched, runs, reports, since, saves, faults>>

-----------------------------------------------------------------------------
(* The period runs: one transaction claims the oldest that may run.          *)

WaitsForOlderOpen(p) ==
    \E q \in Older(p) : runs[q].status \in Open
WaitsForOlder(p) ==
    \E q \in Older(p) : runs[q].status \in Open \cup {"retry_exhausted"}

RunnableOnce(p) ==
    /\ sched.freq # Off
    /\ \/ runs[p].status = "pending"
       \/ runs[p].status = "retry_wait" /\ runs[p].due
    /\ ~WaitsForOlder(p)
Runnable(p) ==
    /\ sched.freq # Off
    /\ \/ runs[p].status = "pending"
       \/ runs[p].status = "retry_wait" /\ runs[p].due
       \/ runs[p].status = "running" /\ ~runs[p].live
    /\ ~WaitsForOlder(p)

ClaimRun(w) ==
    /\ worker[w].pc = "draining"
    /\ \E p \in Periods :
          /\ Runnable(p)
          /\ \A q \in Periods : Runnable(q) => ~Earlier(q, p)
          /\ runs' = [runs EXCEPT ![p] = [@ EXCEPT !.status = "running", !.token = w,
                                                   !.live = TRUE, !.due = FALSE]]
          /\ worker' = [worker EXCEPT ![w] = [@ EXCEPT !.pc = "generating", !.run = p,
                                                       !.ran = TRUE]]
    /\ UNCHANGED <<now, sched, reports, since, saves, faults>>

\* Nothing to claim, or the limits of the run are reached (not before it has
\* worked on one period run).
StopRun(w) ==
    /\ worker[w].pc = "draining"
    /\ worker[w].ran \/ \A p \in Periods : ~Runnable(p)
    /\ worker' = [worker EXCEPT ![w] = OffWorker]
    /\ UNCHANGED <<now, sched, runs, reports, since, saves, faults>>

\* runGenerateReport: no documents, a report (inserted, or the one an earlier
\* attempt inserted), or a failure before or after the report was inserted.
Generate(w) ==
    \E outcome \in {"report", "skipped", "failed"}, written \in BOOLEAN :
        /\ worker[w].pc = "generating"
        /\ outcome = "report" => written
        /\ outcome = "skipped" => ~written
        /\ reports' = IF written THEN reports \cup {worker[w].run} ELSE reports
        /\ worker' = [worker EXCEPT ![w] = [@ EXCEPT !.pc = "recording", !.outcome = outcome]]
        /\ UNCHANGED <<now, sched, runs, since, saves, faults>>

HoldsByStatus(w) == runs[worker[w].run].status = "running"
Holds(w) == /\ runs[worker[w].run].token = w
            /\ runs[worker[w].run].live

\* report_id references the report: a report deleted meanwhile makes the
\* recording of success throw, which is recorded as a failure.
Referable(w) == worker[w].outcome = "report" => worker[w].run \in reports

Ended(r, s) == [r EXCEPT !.status = s, !.token = None, !.live = FALSE]

FailureLate(r) == [Ended(r, IF r.failures > MaxRetries THEN "retry_exhausted" ELSE "retry_wait")
                     EXCEPT !.failures = r.failures + 1]
Failure(r) == [Ended(r, IF r.failures >= MaxRetries THEN "retry_exhausted" ELSE "retry_wait")
                 EXCEPT !.failures = r.failures + 1]

Outcome(r, outcome) == CASE outcome = "report"  -> Ended(r, "succeeded")
                         [] outcome = "skipped" -> Ended(r, "skipped")
                         [] outcome = "failed"  -> Failure(r)

NextOutcome(w) == IF Referable(w) THEN worker[w].outcome ELSE "failed"

\* The outcome is written if the run still holds its row (markSucceeded,
\* markSkipped, markFailed).
Record(w) ==
    /\ worker[w].pc = "recording"
    /\ runs' = IF Holds(w)
               THEN [runs EXCEPT ![worker[w].run] = Outcome(@, NextOutcome(w))]
               ELSE runs
    /\ worker' = [worker EXCEPT ![w] = [@ EXCEPT !.pc = "draining", !.run = None]]
    /\ UNCHANGED <<now, sched, reports, since, saves, faults>>

\* A heartbeat threw or came too late: the outcome is not recorded.
Abandon(w) ==
    /\ worker[w].pc \in {"generating", "recording"}
    /\ Charge(IF Holds(w) THEN 1 ELSE 0)
    /\ worker' = [worker EXCEPT ![w] = [@ EXCEPT !.pc = "draining", !.run = None]]
    /\ UNCHANGED <<now, sched, runs, reports, since, saves>>

\* The process dies, or a statement outside the recording of outcomes throws.
Crash(w) ==
    /\ worker[w].pc # "off"
    /\ Charge(1)
    /\ worker' = [worker EXCEPT ![w] = OffWorker]
    /\ UNCHANGED <<now, sched, runs, reports, since, saves>>

-----------------------------------------------------------------------------
(* The report page: a report is deleted unless a period run refers to it.    *)

DeletableAny(p) == TRUE
Deletable(p) == runs[p].status # "succeeded"

DeleteReport(p) ==
    /\ p \in reports
    /\ Deletable(p)
    /\ reports' = reports \ {p}
    /\ UNCHANGED <<now, sched, runs, worker, since, saves, faults>>

-----------------------------------------------------------------------------
(* Time. *)

NextInstant ==
    /\ now < MaxTime
    /\ now' = now + 1
    /\ UNCHANGED <<sched, runs, reports, worker, since, saves, faults>>

RetryDue(p) ==
    /\ runs[p].status = "retry_wait"
    /\ ~runs[p].due
    /\ runs' = [runs EXCEPT ![p].due = TRUE]
    /\ UNCHANGED <<now, sched, reports, worker, since, saves, faults>>

\* A lease runs out.  If its holder is at work it is a fault: a statement or a
\* heartbeat was late, or the cap was reached.
RunLapse(p) ==
    /\ runs[p].live
    /\ Charge(IF \E w \in Workers : runs[p].token = w /\ worker[w].run = p THEN 1 ELSE 0)
    /\ runs' = [runs EXCEPT ![p].live = FALSE]
    /\ UNCHANGED <<now, sched, reports, worker, since, saves>>

ScheduleLapse ==
    /\ sched.live
    /\ Charge(IF \E w \in Workers : sched.token = w /\ worker[w].pc = "inserting" THEN 1 ELSE 0)
    /\ sched' = [sched EXCEPT !.live = FALSE]
    /\ UNCHANGED <<now, runs, reports, worker, since, saves>>

WorkerStep(w) ==
    \/ StartRun(w) \/ ClaimSchedule(w) \/ InsertPeriod(w) \/ ReleaseSchedule(w)
    \/ MaterializedAll(w)
    \/ ClaimRun(w) \/ StopRun(w) \/ Generate(w) \/ Record(w) \/ Abandon(w) \/ Crash(w)

Next == \/ \E f \in Freqs \cup {Off} : Save(f)
        \/ \E w \in Workers : WorkerStep(w)
        \/ \E p \in Periods : DeleteReport(p) \/ RetryDue(p) \/ RunLapse(p)
        \/ ScheduleLapse
        \/ NextInstant

Spec == Init /\ [][Next]_vars

\* Leases run out, retries come due, dispatcher runs are started again and again
\* (Cloud Scheduler) and one that is alive goes on.
Fairness ==
    /\ WF_vars(ScheduleLapse)
    /\ \A p \in Periods : WF_vars(RetryDue(p)) /\ WF_vars(RunLapse(p))
    /\ \A w \in Workers : /\ WF_vars(StartRun(w))
                          /\ WF_vars(ClaimSchedule(w)) /\ WF_vars(InsertPeriod(w))
                          /\ WF_vars(ReleaseSchedule(w)) /\ WF_vars(MaterializedAll(w))
                          /\ WF_vars(ClaimRun(w)) /\ WF_vars(StopRun(w))
                          /\ WF_vars(Generate(w)) /\ WF_vars(Record(w))

FairSpec == Spec /\ Fairness
-----------------------------------------------------------------------------
(* Properties. *)

\* The slot's period has its row.
Charted(f, k) == PeriodOf(f, k) \in Periods /\ Present(PeriodOf(f, k))

\* Every slot from the last save to next_run_at has its period run, whatever run
\* died, lost the schedule or inserted late (materializeDue: the periods are
\* inserted before next_run_at moves).
NoSlotLost ==
    sched.freq # Off => \A k \in since..(sched.next - 1) : Charted(sched.freq, k)

\* next_run_at moves forward only, unless an administrator saves the schedule: a
\* run that lost the schedule does not put an old slot back ("materialize 中の
\* worker が新しい next_run_at を古い slot で上書きしない").
NextRunForward ==
    [][saves' = saves =>
         sched'.freq = sched.freq /\ sched'.next >= sched.next]_vars

\* The periods of a frequency are reported one after the other: what has been
\* claimed has only finished periods before it (claimRunnable's NOT EXISTS), if the
\* schedule is saved once.  Saved again while a run inserts periods, it may move
\* past them and let the next one be claimed first.
LaterPeriodsWait ==
    saves <= 1 => \A p \in Periods : runs[p].status \notin {"absent", "pending"} =>
        \A q \in Older(p) : runs[q].status \in Done \cup {"absent"}

\* A period run recorded as succeeded has its report, also if a run that lost its
\* lease wrote it and the report page deleted others (markSucceeded, the foreign
\* key of report_id).
SucceededHasReport ==
    \A p \in Periods : runs[p].status = "succeeded" => p \in reports

\* A claimed row leaves its lease by its holder or when the lease has run out, and
\* what is finished or exhausted stays so: a run that lost its lease changes
\* nothing for its successor (the guards of markSucceeded, markSkipped, markFailed).
StaleRunHarmless ==
    [][\A p \in Periods :
         /\ runs[p].status \in Done \cup {"retry_exhausted"} => runs'[p] = runs[p]
         /\ runs[p].live => \/ runs'[p] = runs[p]
                            \/ runs'[p] = [runs[p] EXCEPT !.live = FALSE]
                            \/ \E w \in Workers : /\ runs[p].token = w
                                                  /\ worker[w].run = p
                                                  /\ worker'[w] # worker[w]]_vars

\* A due slot is materialized, unless the schedule is turned off, saved anew for
\* another frequency or saved anew with its next run past the slot.
EventuallyMaterialized ==
    \A f \in Freqs : \A k \in {n \in 0..MaxTime : SlotTime(f, n) <= MaxTime} :
        sched.freq = f /\ sched.next = k /\ SlotTime(f, k) <= now
            ~> sched.freq # f \/ sched.next > k

\* A period run ends with a report, without documents or exhausted, unless an
\* older one is exhausted (it blocks its successors until someone decides) or the
\* schedule is off.
EventuallyFinished ==
    \A p \in Periods :
        runs[p].status \in Open
            ~> \/ runs[p].status \in Done \cup {"retry_exhausted"}
               \/ \E q \in Older(p) : runs[q].status = "retry_exhausted"
               \/ sched.freq = Off
=============================================================================
