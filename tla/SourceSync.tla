----------------------------- MODULE SourceSync -----------------------------
(***************************************************************************)
(* The daily synchronization of the data sources: their schedules          *)
(* (data_source_schedules), the settings an administrator saves, and the   *)
(* dispatcher runs (dispatchDueSourceSyncs) that Cloud Scheduler starts,   *)
(* which claim one due schedule after the other, run its collect and       *)
(* ingest in a child process under a heartbeat, and record the outcome.    *)
(*                                                                         *)
(* Time passes in ticks: the interval of Cloud Scheduler (5 minutes).  A   *)
(* schedule keeps its dates relative to now, so that time has no bound.    *)
(* Within a tick a run that works sends a heartbeat (each minute in the    *)
(* code), statements are answered and a dispatcher run is started; what    *)
(* takes longer is a fault.                                                *)
(*                                                                         *)
(* A sync that is cut off is sent SIGTERM, and its run does not wait for   *)
(* it.  The signal ends collect-source or ingest-workflow, but what        *)
(* ingest-workflow has started in turn (parsing, chunking, the graph) goes *)
(* on by itself, for as long as it takes and beside the retry: it has no   *)
(* part in the schedule and none in this module, which is about runs.      *)
(* DocumentPipeline is about processes that work side by side.             *)
(*                                                                         *)
(* A definition that stands just before another one and bears its name     *)
(* with a qualifier is a faulty variant that the specification does not    *)
(* use: it shows which property would catch that fault.                    *)
(***************************************************************************)
EXTENDS Integers, Sequences

CONSTANTS
    Schedules,   \* the schedules, numbered in the order of their ids
    Slots,       \* the daily times an administrator may choose, in ticks
    FirstSlot,   \* the daily time of a new data source
    Day,         \* ticks in a day
    Workers,     \* dispatcher runs that may be alive at the same time
    None,        \* SQL NULL in worker_token
    Lease,       \* LEASE_MINUTES
    MaxLease,    \* MAX_LEASE_MINUTES
    MaxRuntime,  \* DEFAULT_MAX_RUNTIME_MS
    Limit,       \* DEFAULT_DISPATCH_LIMIT
    Delays,      \* from a failure to the retry, by retry_count
    Heavy,       \* schedules whose sync may take the whole job down with it
    MaxOverdue,  \* bound: how far the past is told apart
    MaxSaves,    \* bound: times a schedule is saved
    MaxFaults    \* bound: crashes, late or failed statements

ASSUME NamesAssumption == /\ Schedules \subseteq Nat
                          /\ Heavy \subseteq Schedules
                          /\ None \notin Workers \cup Schedules
ASSUME CalendarAssumption == /\ Day \in Nat \ {0}
                             /\ Slots \subseteq 0..(Day - 1)
                             /\ FirstSlot \in Slots
                             /\ Delays \in Seq(Nat \ {0})
\* 15 minutes are more than a tick, and 60 minutes more than 45.
ASSUME LeaseAssumption == /\ {Lease, MaxLease, MaxRuntime, Limit} \subseteq Nat \ {0}
                          /\ Lease > 1
                          /\ MaxRuntime < MaxLease
ASSUME BoundsAssumption == {MaxOverdue, MaxSaves, MaxFaults} \subseteq Nat

VARIABLES
    time,      \* the time of day
    row,       \* data_source_schedules
    worker,    \* what each dispatcher run has in hand
    beats,     \* heartbeat statements on their way
    kicked,    \* a dispatcher run was started in this tick
    saves,     \* how much of the save budget is spent
    faults     \* how much of the fault budget is spent

vars == <<time, row, worker, beats, kicked, saves, faults>>

-----------------------------------------------------------------------------
Lesser(a, b) == IF a < b THEN a ELSE b
Greater(a, b) == IF a < b THEN b ELSE a

\* due: ticks to next_run_at, not positive once it has come; lease: ticks to
\* lease_expires_at, 0 once it has passed; age: ticks since last_started_at, while
\* the schedule has a worker_token.
Rows == [enabled : BOOLEAN, slot : Slots, due : Int, retries : 0..Len(Delays),
         token : Workers \cup {None}, lease : 0..Lease, age : 0..MaxLease]

\* left: ticks to the deadline of the run; claim: schedules it has claimed;
\* lost: leaseLostDuringRun; late: its statements take longer than a tick;
\* beaten: a heartbeat was answered in this tick.
WorkerStates ==
    [pc : {"off", "claiming", "syncing", "recording"}, target : Schedules \cup {None},
     claim : 0..Limit, left : 0..MaxRuntime, outcome : {"succeeded", "failed"},
     lost : BOOLEAN, late : BOOLEAN, beaten : BOOLEAN]

OffWorker == [pc |-> "off", target |-> None, claim |-> 0, left |-> 0, outcome |-> "failed",
              lost |-> FALSE, late |-> FALSE, beaten |-> FALSE]

\* Between two claims.
Free(r) == [r EXCEPT !.pc = "claiming", !.target = None, !.outcome = "failed",
                     !.lost = FALSE, !.beaten = FALSE]

Beats == [run : Workers, schedule : Schedules, claim : 1..Limit]

TypeOK == /\ time \in 0..(Day - 1)
          /\ row \in [Schedules -> Rows]
          /\ worker \in [Workers -> WorkerStates]
          /\ beats \subseteq Beats
          /\ kicked \in BOOLEAN
          /\ saves \in Nat /\ faults \in Nat

\* From now to the next time of day that is a slot: today's, or tomorrow's if it
\* has come.
UntilSlot(slot) == IF time < slot THEN slot - time ELSE slot - time + Day

Charge(n) == faults + n <= MaxFaults /\ faults' = faults + n

\* insertDefaultDataSourceSchedule
Init == /\ time = 0
        /\ row = [s \in Schedules |->
                    [enabled |-> TRUE, slot |-> FirstSlot, due |-> UntilSlot(FirstSlot),
                     retries |-> 0, token |-> None, lease |-> 0, age |-> 0]]
        /\ worker = [w \in Workers |-> OffWorker]
        /\ beats = {} /\ kicked = FALSE
        /\ saves = 0 /\ faults = 0

-----------------------------------------------------------------------------
(* The settings page (updateDataSourceScheduleRow).  It does not look at the *)
(* lease: a sync that runs goes on.                                          *)

Save(s) ==
    /\ saves < MaxSaves
    /\ \E on \in BOOLEAN, slot \in Slots :
          row' = [row EXCEPT ![s] = [@ EXCEPT !.enabled = on, !.slot = slot,
                                              !.due = UntilSlot(slot), !.retries = 0]]
    /\ saves' = saves + 1
    /\ UNCHANGED <<time, worker, beats, kicked, faults>>

-----------------------------------------------------------------------------
(* A dispatcher run claims a schedule just before it works on it.            *)

Start(w) ==
    /\ worker[w].pc = "off"
    /\ worker' = [worker EXCEPT ![w] = [OffWorker EXCEPT !.pc = "claiming",
                                                         !.left = MaxRuntime]]
    /\ kicked' = TRUE
    /\ UNCHANGED <<time, row, beats, saves, faults>>

ClaimableAnyway(s) == row[s].enabled /\ row[s].due <= 0
Claimable(s) == /\ row[s].enabled
                /\ row[s].due <= 0
                /\ row[s].lease = 0

\* ORDER BY next_run_at, id
Before(s, t) == row[s].due < row[t].due \/ (row[s].due = row[t].due /\ s < t)

MayClaim(w) == worker[w].claim < Limit /\ worker[w].left > 0

Claim(w) ==
    /\ worker[w].pc = "claiming"
    /\ MayClaim(w)
    /\ \E s \in Schedules :
          /\ Claimable(s)
          /\ \A t \in Schedules : Claimable(t) => ~Before(t, s)
          /\ row' = [row EXCEPT ![s] = [@ EXCEPT !.token = w, !.lease = Lease, !.age = 0]]
          /\ worker' = [worker EXCEPT ![w] =
                          [@ EXCEPT !.pc = "syncing", !.target = s,
                                    !.claim = worker[w].claim + 1]]
    /\ UNCHANGED <<time, beats, kicked, saves, faults>>

\* The connection is closed once its statements are answered.
Finish(w) ==
    /\ worker[w].pc = "claiming"
    /\ MayClaim(w) => \A s \in Schedules : ~Claimable(s)
    /\ \A b \in beats : b.run # w
    /\ worker' = [worker EXCEPT ![w] = OffWorker]
    /\ UNCHANGED <<time, row, beats, kicked, saves, faults>>

-----------------------------------------------------------------------------
(* The heartbeat.  The timer runs until the outcome is recorded; a statement *)
(* on its way is not awaited and may be answered later.                      *)

Beat(w) ==
    /\ worker[w].pc \in {"syncing", "recording"}
    /\ ~worker[w].beaten
    /\ \A b \in beats : ~(b.run = w /\ b.claim = worker[w].claim)
    /\ beats' = beats \cup {[run |-> w, schedule |-> worker[w].target,
                             claim |-> worker[w].claim]}
    /\ UNCHANGED <<time, row, worker, kicked, saves, faults>>

Extends(b) == /\ row[b.schedule].token = b.run
              /\ row[b.schedule].lease > 0
              /\ row[b.schedule].age < MaxLease

\* LEAST(now() + LEASE_MINUTES, last_started_at + MAX_LEASE_MINUTES)
ExtendedToCap(r) == MaxLease - r.age
Extended(r) == Lesser(Lease, MaxLease - r.age)

\* The answer is for a claim the run may have left behind.
Heard(b, ok) ==
    LET r == worker[b.run]
    IN  IF r.pc \in {"syncing", "recording"} /\ r.claim = b.claim
        THEN [worker EXCEPT ![b.run] = [r EXCEPT !.beaten = TRUE, !.lost = r.lost \/ ~ok]]
        ELSE worker

BeatAnswered(b) ==
    /\ b \in beats
    /\ beats' = beats \ {b}
    /\ row' = IF Extends(b) THEN [row EXCEPT ![b.schedule].lease = Extended(row[b.schedule])]
                            ELSE row
    /\ worker' = Heard(b, Extends(b))
    /\ UNCHANGED <<time, kicked, saves, faults>>

BeatFailed(b) ==
    /\ b \in beats
    /\ Charge(1)
    /\ beats' = beats \ {b}
    /\ worker' = Heard(b, FALSE)
    /\ UNCHANGED <<time, row, kicked, saves>>

-----------------------------------------------------------------------------
(* The sync: collect-source and ingest-workflow, one child process each.     *)

\* The children are done, or one of them failed.
SyncEnds(w, outcome) ==
    /\ worker[w].pc = "syncing"
    /\ ~worker[w].lost
    /\ worker' = [worker EXCEPT ![w] = [@ EXCEPT !.pc = "recording", !.outcome = outcome]]
    /\ UNCHANGED <<time, row, beats, kicked, saves, faults>>

\* abortController.abort(): the child process is sent SIGTERM and the run goes on at
\* once.
RuntimeExceeded(w) ==
    /\ worker[w].pc = "syncing"
    /\ worker[w].left = 0
    /\ ~worker[w].lost
    /\ worker' = [worker EXCEPT ![w] = [@ EXCEPT !.pc = "recording", !.outcome = "failed"]]
    /\ UNCHANGED <<time, row, beats, kicked, saves, faults>>

LeaseLost(w) ==
    /\ worker[w].pc = "syncing"
    /\ worker[w].lost
    /\ worker' = [worker EXCEPT ![w] = Free(@)]
    /\ UNCHANGED <<time, row, beats, kicked, saves, faults>>

-----------------------------------------------------------------------------
(* The outcome (markSucceeded, markFailed).                                  *)

HoldsAnyway(w) == row[worker[w].target].token # None
Holds(w) == /\ row[worker[w].target].token = w
            /\ row[worker[w].target].lease > 0

Released(r) == [r EXCEPT !.token = None, !.lease = 0, !.age = 0]

SucceededKept(r) == [Released(r) EXCEPT !.due = UntilSlot(r.slot)]
Succeeded(r) == [Released(r) EXCEPT !.due = UntilSlot(r.slot), !.retries = 0]

\* Three retries, then the next day.
Failed(r) ==
    [Released(r) EXCEPT
       !.due = IF r.retries < Len(Delays) THEN Delays[r.retries + 1] ELSE UntilSlot(r.slot),
       !.retries = IF r.retries < Len(Delays) THEN r.retries + 1 ELSE 0]

Recorded(w) ==
    IF Holds(w)
    THEN [row EXCEPT ![worker[w].target] =
             IF worker[w].outcome = "succeeded" THEN Succeeded(@) ELSE Failed(@)]
    ELSE row

Record(w) ==
    /\ worker[w].pc = "recording"
    /\ row' = Recorded(w)
    /\ worker' = [worker EXCEPT ![w] = Free(@)]
    /\ UNCHANGED <<time, beats, kicked, saves, faults>>

\* markSucceeded throws, whether it committed or not: the run calls markFailed, or
\* goes on if a heartbeat has told it that the lease is lost.
RecordFails(w) ==
    /\ worker[w].pc = "recording"
    /\ worker[w].outcome = "succeeded"
    /\ Charge(1)
    /\ row' \in {row, Recorded(w)}
    /\ worker' = [worker EXCEPT ![w] =
                    IF @.lost THEN Free(@) ELSE [@ EXCEPT !.outcome = "failed"]]
    /\ UNCHANGED <<time, beats, kicked, saves>>

\* The job is killed, or a statement that is not caught throws (claimDue, markFailed).
Crash(w) ==
    /\ worker[w].pc # "off"
    /\ Charge(IF worker[w].pc = "syncing" /\ worker[w].target \in Heavy THEN 0 ELSE 1)
    /\ worker' = [worker EXCEPT ![w] = OffWorker]
    /\ beats' = {b \in beats : b.run # w}
    /\ UNCHANGED <<time, row, kicked, saves>>

-----------------------------------------------------------------------------
(* Time. *)

\* The statements of a run take longer than a tick from now on.
Stall(w) ==
    /\ worker[w].pc # "off"
    /\ ~worker[w].late
    /\ Charge(1)
    /\ worker' = [worker EXCEPT ![w].late = TRUE]
    /\ UNCHANGED <<time, row, beats, kicked, saves>>

\* Nothing is left to do in this tick.
TickDone(w) ==
    CASE worker[w].pc = "off"     -> kicked
      [] worker[w].pc = "syncing" -> \/ worker[w].late
                                     \/ /\ worker[w].beaten
                                        /\ ~worker[w].lost
                                        /\ worker[w].left > 0
      [] OTHER                    -> worker[w].late

Later(r) == [r EXCEPT !.due = Greater(@ - 1, -MaxOverdue),
                      !.lease = Greater(@ - 1, 0),
                      !.age = IF r.token = None THEN 0 ELSE Lesser(@ + 1, MaxLease)]

Tick ==
    /\ \A w \in Workers : TickDone(w)
    /\ time' = IF time + 1 = Day THEN 0 ELSE time + 1
    /\ row' = [s \in Schedules |-> Later(row[s])]
    /\ worker' = [w \in Workers |-> [worker[w] EXCEPT !.left = Greater(@ - 1, 0),
                                                      !.beaten = FALSE]]
    /\ kicked' = FALSE
    /\ UNCHANGED <<beats, saves, faults>>

WorkerStep(w) ==
    \/ Start(w) \/ Claim(w) \/ Finish(w) \/ Beat(w)
    \/ \E outcome \in {"succeeded", "failed"} : SyncEnds(w, outcome)
    \/ RuntimeExceeded(w) \/ LeaseLost(w) \/ Record(w) \/ RecordFails(w)
    \/ Crash(w) \/ Stall(w)

Next == \/ \E s \in Schedules : Save(s)
        \/ \E w \in Workers : WorkerStep(w)
        \/ \E b \in beats : BeatAnswered(b) \/ BeatFailed(b)
        \/ Tick

Spec == Init /\ [][Next]_vars

\* Time passes, what is sent is answered, and a run that is alive goes on.  A tick
\* comes only after a run was started (Cloud Scheduler).
Fairness ==
    /\ WF_vars(Tick)
    /\ WF_vars(\E b \in beats : BeatAnswered(b))
    /\ \A w \in Workers :
          /\ WF_vars(Start(w)) /\ WF_vars(Claim(w)) /\ WF_vars(Finish(w)) /\ WF_vars(Beat(w))
          /\ WF_vars(SyncEnds(w, "failed") \/ SyncEnds(w, "succeeded"))
          /\ WF_vars(RuntimeExceeded(w)) /\ WF_vars(LeaseLost(w)) /\ WF_vars(Record(w))

FairSpec == Spec /\ Fairness
-----------------------------------------------------------------------------
(* Properties. *)

\* The runs that are at work on a schedule: until they have recorded its outcome.
AtWork(s) == {w \in Workers : /\ worker[w].pc \in {"syncing", "recording"}
                              /\ worker[w].target = s}

\* One run at a time is at work on a source, also when one is cut off and its retry
\* comes at once, unless a statement was late or failed (the lease outlives the
\* interval of the heartbeats, its cap the deadline, and the outcome is recorded
\* under the lease; "重複 worker で同じ schedule を同時処理しない").
OneRunAtATime ==
    faults = 0 => \A s \in Schedules : \A v, w \in AtWork(s) : v = w

\* A schedule without failures runs at the daily time it has now, whichever way
\* settings, outcomes and retries crossed each other; one with failures runs at
\* the latest when their delay is over (markSucceeded, markFailed,
\* updateDataSourceScheduleRow).
OnSchedule ==
    \A s \in Schedules :
        row[s].due > 0 => IF row[s].retries = 0 THEN row[s].due = UntilSlot(row[s].slot)
                                                ELSE row[s].due <= Delays[row[s].retries]

\* A schedule under a live lease is released by the run that holds it and has
\* ended its sync, and its retries are counted by that run or reset by the
\* settings page: a run that lost its lease, or a heartbeat that arrives after its
\* claim, changes nothing ("旧workerは成功・失敗を確定しない").
StaleSyncHarmless ==
    [][\A s \in Schedules :
         row[s].lease > 0 =>
            \/ \E w \in Workers : /\ row[s].token = w
                                  /\ worker[w].pc = "recording"
                                  /\ worker[w].target = s
            \/ /\ row'[s].token = row[s].token
               /\ row'[s].age >= row[s].age
               /\ row'[s].retries = row[s].retries \/ saves' # saves]_vars

\* A due schedule gets its outcome, also when another source takes down each job
\* that claims it (the lease of that source keeps it from being claimed first by
\* the next run).
EventuallyRun ==
    \A s \in Schedules \ Heavy :
        row[s].enabled /\ row[s].due <= 0 ~> ~row[s].enabled \/ row[s].due > 0
=============================================================================
