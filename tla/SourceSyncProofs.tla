-------------------------- MODULE SourceSyncProofs --------------------------
(***************************************************************************)
(* What is proved about SourceSync for all schedules, runs, times and      *)
(* bounds: type correctness, that a schedule keeps to its daily time and   *)
(* its retry delays, that a run without the lease changes nothing, and     *)
(* that without a fault one run at a time is at work on a source.          *)
(***************************************************************************)
EXTENDS SourceSync, TLAPS

Busy(w) == worker[w].pc \in {"syncing", "recording"}

\* A schedule that nobody has claimed has no lease.
LeasePair == \A s \in Schedules : row[s].token = None => row[s].lease = 0 /\ row[s].age = 0

\* A run that works has a target, which it counted; between two claims it has
\* forgotten the last one.
Targets ==
    \A w \in Workers :
        /\ Busy(w) => worker[w].target \in Schedules /\ worker[w].claim > 0
        /\ worker[w].pc = "claiming" => ~worker[w].beaten /\ ~worker[w].lost

\* A heartbeat on its way is of a run that is alive, for a claim it counted, and if
\* that is the one it works on, for its target.
BeatsKnown ==
    \A b \in beats :
        /\ worker[b.run].pc # "off"
        /\ b.claim <= worker[b.run].claim
        /\ Busy(b.run) /\ b.claim = worker[b.run].claim => b.schedule = worker[b.run].target

\* A run that works has the lease, which its heartbeats have extended up to its cap.
Keeps(w) ==
    LET r == row[worker[w].target]
    IN  /\ r.token = w
        /\ r.lease > 0
        /\ r.age + worker[w].left <= MaxRuntime
        /\ worker[w].beaten => r.lease = Extended(r)
        /\ ~worker[w].lost

Unharmed ==
    faults = 0 => /\ \A w \in Workers : ~worker[w].late
                  /\ \A w \in Workers : Busy(w) => Keeps(w)

IInv == TypeOK /\ LeasePair /\ Targets /\ BeatsKnown /\ Unharmed

-----------------------------------------------------------------------------
(* The operators. *)

LEMMA UntilSlotType ==
    ASSUME TypeOK, NEW slot \in Slots
    PROVE  UntilSlot(slot) \in Nat \ {0}
<1>1. slot \in 0..(Day - 1) /\ Day \in Nat \ {0} /\ time \in 0..(Day - 1)
  BY CalendarAssumption DEF TypeOK
<1> QED
  BY <1>1 DEF UntilSlot

LEMMA DelayType ==
    ASSUME NEW k \in 1..Len(Delays)
    PROVE  Delays[k] \in Nat \ {0}
BY CalendarAssumption

LEMMA DelaysLength == Len(Delays) \in Nat
BY CalendarAssumption

LEMMA ExtendedType ==
    ASSUME NEW r \in Rows, r.age < MaxLease
    PROVE  Extended(r) \in 1..Lease /\ Extended(r) <= MaxLease - r.age
<1>1. r.age \in 0..MaxLease /\ {Lease, MaxLease} \subseteq Nat \ {0}
  BY LeaseAssumption DEF Rows
<1> QED
  BY <1>1 DEF Extended, Lesser

LEMMA ZeroLease == 0 \in 0..Lease /\ 0 \in 0..MaxLease
BY LeaseAssumption

\* An outcome leaves a row that is free, not due, and on time.
LEMMA SucceededRow ==
    ASSUME TypeOK, NEW r \in Rows
    PROVE  /\ Succeeded(r) \in Rows
           /\ Succeeded(r).token = None /\ Succeeded(r).lease = 0 /\ Succeeded(r).age = 0
           /\ Succeeded(r).due > 0
           /\ Succeeded(r).retries = 0 /\ Succeeded(r).slot = r.slot
           /\ Succeeded(r).due = UntilSlot(r.slot)
<1>1. r.slot \in Slots
  BY DEF Rows
<1>2. UntilSlot(r.slot) \in Nat \ {0}
  BY <1>1, UntilSlotType
<1> DEFINE q == Succeeded(r)
           u == UntilSlot(r.slot)
<1>3. q = [Released(r) EXCEPT !.due = u, !.retries = 0]
  BY DEF Succeeded
<1>4. u \in Int /\ u > 0 /\ 0 \in 0..Len(Delays)
  BY <1>2, DelaysLength
<1> HIDE DEF q, u
<1>5. /\ q \in Rows
      /\ q.enabled = r.enabled /\ q.slot = r.slot /\ q.due = u /\ q.retries = 0
      /\ q.token = None /\ q.lease = 0 /\ q.age = 0
  BY <1>1, <1>4, <1>3, ZeroLease DEF Released, Rows
<1> QED
  BY <1>4, <1>5 DEF q, u

LEMMA FailedRow ==
    ASSUME TypeOK, NEW r \in Rows
    PROVE  /\ Failed(r) \in Rows
           /\ Failed(r).token = None /\ Failed(r).lease = 0 /\ Failed(r).age = 0
           /\ Failed(r).due > 0 /\ Failed(r).slot = r.slot
           /\ IF Failed(r).retries = 0 THEN Failed(r).due = UntilSlot(r.slot)
                                       ELSE Failed(r).due <= Delays[Failed(r).retries]
<1> DEFINE d == IF r.retries < Len(Delays) THEN Delays[r.retries + 1] ELSE UntilSlot(r.slot)
           k == IF r.retries < Len(Delays) THEN r.retries + 1 ELSE 0
<1>1. r.slot \in Slots /\ r.retries \in 0..Len(Delays)
  BY DEF Rows
<1>2. UntilSlot(r.slot) \in Nat \ {0}
  BY <1>1, UntilSlotType
<1>3. k \in 0..Len(Delays) /\ d \in Nat \ {0}
  BY <1>1, <1>2, DelayType, DelaysLength
<1>4. IF k = 0 THEN d = UntilSlot(r.slot) ELSE d <= Delays[k]
  BY <1>1, <1>3, DelayType, DelaysLength
<1> DEFINE q == Failed(r)
<1>5. q = [Released(r) EXCEPT !.due = d, !.retries = k]
  BY DEF Failed
<1> HIDE DEF d, k, q
<1>6. d \in Int /\ d > 0
  BY <1>3
<1>7. /\ q \in Rows
      /\ q.enabled = r.enabled /\ q.slot = r.slot /\ q.due = d /\ q.retries = k
      /\ q.token = None /\ q.lease = 0 /\ q.age = 0
  BY <1>3, <1>5, <1>6, ZeroLease DEF Released, Rows
<1> QED
  BY <1>4, <1>6, <1>7 DEF q

LEMMA LaterRow ==
    ASSUME NEW r \in Rows
    PROVE  /\ Later(r) \in Rows
           /\ Later(r).enabled = r.enabled /\ Later(r).slot = r.slot
           /\ Later(r).token = r.token /\ Later(r).retries = r.retries
           /\ Later(r).due > 0 => Later(r).due = r.due - 1
           /\ Later(r).lease = Greater(r.lease - 1, 0)
           /\ Later(r).age = IF r.token = None THEN 0 ELSE Lesser(r.age + 1, MaxLease)
<1> DEFINE d == Greater(r.due - 1, -MaxOverdue)
           l == Greater(r.lease - 1, 0)
           g == IF r.token = None THEN 0 ELSE Lesser(r.age + 1, MaxLease)
<1>1. r.due \in Int /\ r.lease \in 0..Lease /\ r.age \in 0..MaxLease
  BY DEF Rows
<1>2. {Lease, MaxLease, MaxOverdue} \subseteq Nat
  BY LeaseAssumption, BoundsAssumption
<1>3. d \in Int /\ l \in 0..Lease /\ g \in 0..MaxLease /\ (d > 0 => d = r.due - 1)
  BY <1>1, <1>2 DEF Greater, Lesser
<1>4. Later(r) = [r EXCEPT !.due = d, !.lease = l, !.age = g]
  BY DEF Later
<1> HIDE DEF d, l, g
<1>5. /\ Later(r) \in Rows
      /\ Later(r).enabled = r.enabled /\ Later(r).slot = r.slot
      /\ Later(r).token = r.token /\ Later(r).retries = r.retries
      /\ Later(r).due = d /\ Later(r).lease = l /\ Later(r).age = g
  BY <1>3, <1>4 DEF Rows
<1> QED
  BY <1>3, <1>5 DEF d, l, g

-----------------------------------------------------------------------------
(* Type correctness. *)

\* What is known of what a run has in hand.
LEMMA WorkerIs ==
    ASSUME TypeOK, NEW w \in Workers
    PROVE  /\ worker[w] \in WorkerStates
           /\ worker[w].pc \in {"off", "claiming", "syncing", "recording"}
           /\ worker[w].target \in Schedules \cup {None}
           /\ worker[w].claim \in 0..Limit /\ worker[w].left \in 0..MaxRuntime
           /\ worker[w].lost \in BOOLEAN
BY DEF TypeOK, WorkerStates

LEMMA OffWorkerType == OffWorker \in WorkerStates
BY LeaseAssumption DEF OffWorker, WorkerStates

LEMMA FreeType ==
    ASSUME NEW r \in WorkerStates
    PROVE  /\ Free(r) \in WorkerStates
           /\ Free(r).pc = "claiming" /\ Free(r).claim = r.claim /\ Free(r).left = r.left
           /\ Free(r).late = r.late
BY DEF Free, WorkerStates

LEMMA RecordedType ==
    ASSUME TypeOK, Targets, NEW w \in Workers, worker[w].pc = "recording"
    PROVE  Recorded(w) \in [Schedules -> Rows]
<1>1. worker[w].target \in Schedules /\ row \in [Schedules -> Rows]
  BY DEF Targets, Busy, TypeOK
<1>2. row[worker[w].target] \in Rows
  BY <1>1
<1>3. Succeeded(row[worker[w].target]) \in Rows /\ Failed(row[worker[w].target]) \in Rows
  BY <1>2, SucceededRow, FailedRow
<1> QED
  BY <1>1, <1>3 DEF Recorded

LEMMA HeardType ==
    ASSUME TypeOK, NEW b \in beats, NEW ok \in BOOLEAN
    PROVE  Heard(b, ok) \in [Workers -> WorkerStates]
<1>1. b.run \in Workers /\ worker[b.run] \in WorkerStates
  BY DEF TypeOK, Beats
<1> DEFINE l == worker[b.run].lost \/ ~ok
           r == [worker[b.run] EXCEPT !.beaten = TRUE, !.lost = l]
<1>2. l \in BOOLEAN
  OBVIOUS
<1>3. Heard(b, ok) \in {worker, [worker EXCEPT ![b.run] = r]}
  BY DEF Heard
<1> HIDE DEF l
<1>4. r \in WorkerStates
  BY <1>1, <1>2 DEF WorkerStates
<1> HIDE DEF r
<1> QED
  BY <1>1, <1>3, <1>4 DEF TypeOK

LEMMA TypeSave ==
    ASSUME TypeOK, NEW s \in Schedules, Save(s)
    PROVE  TypeOK'
<1>1. PICK on \in BOOLEAN, slot \in Slots :
         row' = [row EXCEPT ![s] = [@ EXCEPT !.enabled = on, !.slot = slot,
                                             !.due = UntilSlot(slot), !.retries = 0]]
  BY DEF Save
<1> DEFINE u == UntilSlot(slot)
           q == [row[s] EXCEPT !.enabled = on, !.slot = slot, !.due = u, !.retries = 0]
<1>2. u \in Int /\ 0 \in 0..Len(Delays)
  BY UntilSlotType, DelaysLength
<1>3. row[s] \in Rows
  BY DEF TypeOK
<1>4. row' = [row EXCEPT ![s] = q]
  BY <1>1
<1> HIDE DEF u
<1>5. q \in Rows
  BY <1>2, <1>3 DEF Rows
<1> HIDE DEF q
<1>6. saves' \in Nat /\ UNCHANGED <<time, worker, beats, kicked, faults>>
  BY DEF Save, TypeOK
<1> QED
  BY <1>4, <1>5, <1>6 DEF TypeOK

\* The actions that change only what the run has in hand, and what counts.
LEMMA TypeWorker ==
    ASSUME TypeOK, NEW w \in Workers, NEW r \in WorkerStates,
           worker' = [worker EXCEPT ![w] = r],
           row' \in [Schedules -> Rows], beats' \subseteq Beats,
           kicked' \in BOOLEAN, faults' \in Nat,
           UNCHANGED <<time, saves>>
    PROVE  TypeOK'
BY DEF TypeOK

LEMMA ChargeType ==
    ASSUME TypeOK, NEW n \in Nat, Charge(n)
    PROVE  faults' \in Nat
BY DEF TypeOK, Charge

LEMMA TypeClaims ==
    ASSUME TypeOK, Targets, NEW w \in Workers, Start(w) \/ Claim(w) \/ Finish(w)
    PROVE  TypeOK'
<1>1. CASE Start(w)
  <2> DEFINE r == [OffWorker EXCEPT !.pc = "claiming", !.left = MaxRuntime]
  <2>1. MaxRuntime \in 0..MaxRuntime
    BY LeaseAssumption
  <2>2. r \in WorkerStates
    BY <2>1, OffWorkerType DEF WorkerStates
  <2> HIDE DEF r
  <2> QED
    BY <1>1, <2>2, TypeWorker DEF Start, r, TypeOK
<1>2. CASE Claim(w)
  <2>1. PICK s \in Schedules :
          /\ row' = [row EXCEPT ![s] = [@ EXCEPT !.token = w, !.lease = Lease, !.age = 0]]
          /\ worker' = [worker EXCEPT ![w] =
                          [@ EXCEPT !.pc = "syncing", !.target = s,
                                    !.claim = worker[w].claim + 1]]
    BY <1>2 DEF Claim
  <2> DEFINE n == worker[w].claim + 1
             r == [worker[w] EXCEPT !.pc = "syncing", !.target = s, !.claim = n]
             q == [row[s] EXCEPT !.token = w, !.lease = Lease, !.age = 0]
  <2>2. worker[w] \in WorkerStates /\ row[s] \in Rows
    BY DEF TypeOK
  <2>3. worker[w].claim \in 0..Limit /\ worker[w].claim < Limit /\ Limit \in Nat
    BY <1>2, WorkerIs, LeaseAssumption DEF Claim, MayClaim
  <2>4. n \in 0..Limit
    BY <2>3
  <2>5. worker' = [worker EXCEPT ![w] = r]
    BY <2>1
  <2>6. row' = [row EXCEPT ![s] = q]
    BY <2>1
  <2> HIDE DEF n
  <2>7. r \in WorkerStates
    BY <2>2, <2>4 DEF WorkerStates
  <2>8. Lease \in 0..Lease
    BY LeaseAssumption
  <2>9. q \in Rows
    BY <2>2, <2>8, ZeroLease DEF Rows
  <2> HIDE DEF r, q
  <2>10. row' \in [Schedules -> Rows]
    BY <2>6, <2>9 DEF TypeOK
  <2> QED
    BY <1>2, <2>5, <2>7, <2>10, TypeWorker DEF Claim, TypeOK
<1>3. CASE Finish(w)
  BY <1>3, OffWorkerType, TypeWorker DEF Finish, TypeOK
<1> QED
  BY <1>1, <1>2, <1>3

LEMMA TypeBeats ==
    ASSUME TypeOK, Targets,
           \/ \E w \in Workers : Beat(w)
           \/ \E b \in beats : BeatAnswered(b) \/ BeatFailed(b)
    PROVE  TypeOK'
<1>1. CASE \E w \in Workers : Beat(w)
  <2>1. PICK w \in Workers : Beat(w)
    BY <1>1
  <2>2. worker[w].target \in Schedules /\ worker[w].claim \in 1..Limit
    BY <2>1, WorkerIs, LeaseAssumption DEF Beat, Targets, Busy
  <2>3. beats' \subseteq Beats
    BY <2>1, <2>2 DEF Beat, Beats, TypeOK
  <2> QED
    BY <2>1, <2>3 DEF Beat, TypeOK
<1>2. CASE \E b \in beats : BeatAnswered(b)
  <2>1. PICK b \in beats : BeatAnswered(b)
    BY <1>2
  <2>2. b.schedule \in Schedules /\ row[b.schedule] \in Rows
    BY DEF TypeOK, Beats
  <2>3. worker' \in [Workers -> WorkerStates]
    BY <2>1, HeardType DEF BeatAnswered, Extends
  <2>4. row' \in [Schedules -> Rows]
    <3>1. CASE Extends(b)
      <4> DEFINE l == Extended(row[b.schedule])
                 q == [row[b.schedule] EXCEPT !.lease = l]
      <4>1. l \in 0..Lease
        BY <2>2, <3>1, ExtendedType, LeaseAssumption DEF Extends
      <4>2. row' = [row EXCEPT ![b.schedule] = q]
        BY <2>1, <3>1 DEF BeatAnswered
      <4> HIDE DEF l
      <4>3. q \in Rows
        BY <2>2, <4>1 DEF Rows
      <4> HIDE DEF q
      <4> QED
        BY <2>2, <4>2, <4>3 DEF TypeOK
    <3>2. CASE ~Extends(b)
      BY <2>1, <3>2 DEF BeatAnswered, TypeOK
    <3> QED
      BY <3>1, <3>2
  <2> QED
    BY <2>1, <2>3, <2>4 DEF BeatAnswered, TypeOK
<1>3. CASE \E b \in beats : BeatFailed(b)
  <2>1. PICK b \in beats : BeatFailed(b)
    BY <1>3
  <2>2. worker' \in [Workers -> WorkerStates]
    BY <2>1, HeardType DEF BeatFailed
  <2>3. faults' \in Nat
    BY <2>1, ChargeType DEF BeatFailed
  <2> QED
    BY <2>1, <2>2, <2>3 DEF BeatFailed, TypeOK
<1> QED
  BY <1>1, <1>2, <1>3

LEMMA TypeSyncs ==
    ASSUME TypeOK, Targets, NEW w \in Workers,
           \/ \E outcome \in {"succeeded", "failed"} : SyncEnds(w, outcome)
           \/ RuntimeExceeded(w) \/ LeaseLost(w)
    PROVE  TypeOK'
<1>1. worker[w] \in WorkerStates
  BY WorkerIs
<1>2. CASE \E outcome \in {"succeeded", "failed"} : SyncEnds(w, outcome)
  <2>1. PICK outcome \in {"succeeded", "failed"} : SyncEnds(w, outcome)
    BY <1>2
  <2>2. [worker[w] EXCEPT !.pc = "recording", !.outcome = outcome] \in WorkerStates
    BY <1>1 DEF WorkerStates
  <2> QED
    BY <2>1, <2>2, TypeWorker DEF SyncEnds, TypeOK
<1>3. CASE RuntimeExceeded(w)
  <2>1. [worker[w] EXCEPT !.pc = "recording", !.outcome = "failed"] \in WorkerStates
    BY <1>1 DEF WorkerStates
  <2> QED
    BY <1>3, <2>1, TypeWorker DEF RuntimeExceeded, TypeOK
<1>4. CASE LeaseLost(w)
  BY <1>1, <1>4, FreeType, TypeWorker DEF LeaseLost, TypeOK
<1> QED
  BY <1>2, <1>3, <1>4

LEMMA TypeRecords ==
    ASSUME TypeOK, Targets, NEW w \in Workers,
           Record(w) \/ RecordFails(w) \/ Crash(w) \/ Stall(w)
    PROVE  TypeOK'
<1>1. worker[w] \in WorkerStates
  BY WorkerIs
<1>2. Free(worker[w]) \in WorkerStates
  BY <1>1, FreeType
<1>3. CASE Record(w)
  BY <1>2, <1>3, RecordedType, TypeWorker DEF Record, TypeOK
<1>4. CASE RecordFails(w)
  <2>1. row' \in [Schedules -> Rows]
    BY <1>4, RecordedType DEF RecordFails, TypeOK
  <2>2. faults' \in Nat
    BY <1>4, ChargeType DEF RecordFails
  <2> DEFINE r == IF worker[w].lost THEN Free(worker[w])
                                    ELSE [worker[w] EXCEPT !.outcome = "failed"]
  <2>3. r \in WorkerStates
    BY <1>1, <1>2 DEF WorkerStates
  <2>4. worker' = [worker EXCEPT ![w] = r]
    BY <1>4 DEF RecordFails
  <2> HIDE DEF r
  <2> QED
    BY <1>4, <2>1, <2>2, <2>3, <2>4, TypeWorker DEF RecordFails, TypeOK
<1>5. CASE Crash(w)
  <2>1. faults' \in Nat
    BY <1>5, ChargeType DEF Crash
  <2> QED
    BY <1>5, <2>1, OffWorkerType, TypeWorker DEF Crash, TypeOK
<1>6. CASE Stall(w)
  <2>1. [worker[w] EXCEPT !.late = TRUE] \in WorkerStates
    BY <1>1 DEF WorkerStates
  <2>2. faults' \in Nat
    BY <1>6, ChargeType DEF Stall
  <2> QED
    BY <1>6, <2>1, <2>2, TypeWorker DEF Stall, TypeOK
<1> QED
  BY <1>3, <1>4, <1>5, <1>6

LEMMA TypeTick ==
    ASSUME TypeOK, Tick
    PROVE  TypeOK'
<1>1. time \in 0..(Day - 1) /\ Day \in Nat \ {0}
  BY CalendarAssumption DEF TypeOK
<1>2. time' = IF time + 1 = Day THEN 0 ELSE time + 1
  BY DEF Tick
<1>3. time' \in 0..(Day - 1)
  BY <1>1, <1>2
<1>4. row' \in [Schedules -> Rows]
  BY LaterRow DEF Tick, TypeOK
<1>5. \A w \in Workers :
        [worker[w] EXCEPT !.left = Greater(@ - 1, 0), !.beaten = FALSE] \in WorkerStates
  <2> TAKE w \in Workers
  <2> DEFINE l == Greater(worker[w].left - 1, 0)
  <2>1. worker[w] \in WorkerStates
    BY WorkerIs
  <2>2. l \in 0..MaxRuntime
    BY WorkerIs, LeaseAssumption DEF Greater
  <2> HIDE DEF l
  <2>3. [worker[w] EXCEPT !.left = l, !.beaten = FALSE] \in WorkerStates
    BY <2>1, <2>2 DEF WorkerStates
  <2> QED
    BY <2>3 DEF l
<1>6. worker' \in [Workers -> WorkerStates]
  BY <1>5 DEF Tick
<1> QED
  BY <1>3, <1>4, <1>6 DEF Tick, TypeOK

\* What a step keeps of the types.
LEMMA TypeStep ==
    ASSUME TypeOK, Targets, [Next]_vars
    PROVE  TypeOK'
<1>1. CASE \E s \in Schedules : Save(s)
  BY <1>1, TypeSave
<1>2. CASE \E w \in Workers : WorkerStep(w)
  <2>1. PICK w \in Workers : WorkerStep(w)
    BY <1>2
  <2> QED
    BY <2>1, TypeClaims, TypeBeats, TypeSyncs, TypeRecords DEF WorkerStep
<1>3. CASE \E b \in beats : BeatAnswered(b) \/ BeatFailed(b)
  BY <1>3, TypeBeats
<1>4. CASE Tick
  BY <1>4, TypeTick
<1>5. CASE UNCHANGED vars
  BY <1>5 DEF vars, TypeOK
<1> QED
  BY <1>1, <1>2, <1>3, <1>4, <1>5 DEF Next

-----------------------------------------------------------------------------
(* Targets and heartbeats. *)

\* What a step of a run gives it to work on.
Follows(w, r) ==
    /\ r.pc \in {"syncing", "recording"} => r.target \in Schedules /\ r.claim > 0
    /\ r.pc = "claiming" => ~r.beaten /\ ~r.lost

\* How a run may go on: it does not forget how many claims it made, and leaves the
\* one it works on by not being busy or by another claim.
GoesOn(w, r) ==
    \/ worker[w].pc = "off"
    \/ /\ r.claim >= worker[w].claim
       /\ r.pc \in {"syncing", "recording"} /\ r.claim = worker[w].claim
             => Busy(w) /\ r.target = worker[w].target

LEMMA WorkKept ==
    ASSUME TypeOK, Targets, BeatsKnown, NEW w \in Workers, NEW r \in WorkerStates,
           worker' = [worker EXCEPT ![w] = r], beats' \subseteq beats,
           Follows(w, r), GoesOn(w, r),
           r.pc # "off" \/ \A b \in beats' : b.run # w
    PROVE  Targets' /\ BeatsKnown'
<1>1. worker \in [Workers -> WorkerStates]
  BY DEF TypeOK
<1>2. worker'[w] = r /\ \A v \in Workers \ {w} : worker'[v] = worker[v]
  BY <1>1
<1>3. Targets'
  BY <1>2 DEF Targets, Busy, Follows
<1>4. ASSUME NEW b \in beats'
      PROVE  /\ worker'[b.run].pc # "off"
             /\ b.claim <= worker'[b.run].claim
             /\ Busy(b.run)' /\ b.claim = worker'[b.run].claim
                  => b.schedule = worker'[b.run].target
  <2>1. b \in Beats
    BY <1>4 DEF TypeOK
  <2>2. b.run \in Workers /\ b.claim \in 1..Limit
    BY <2>1 DEF Beats
  <2>3. /\ worker[b.run].pc # "off" /\ b.claim <= worker[b.run].claim
        /\ Busy(b.run) /\ b.claim = worker[b.run].claim => b.schedule = worker[b.run].target
    BY <1>4 DEF BeatsKnown
  <2>4. CASE b.run # w
    BY <1>2, <2>3, <2>4, <2>2 DEF Busy
  <2>5. CASE b.run = w
    <3>1. r.claim \in 0..Limit /\ worker[w].claim \in 0..Limit /\ Limit \in Nat
      BY WorkerIs, LeaseAssumption DEF WorkerStates
    <3>2. r.claim >= worker[w].claim
      BY <2>3, <2>5 DEF GoesOn
    <3>3. b.claim <= r.claim
      BY <2>3, <2>5, <2>2, <3>1, <3>2
    <3>4. ASSUME r.pc \in {"syncing", "recording"}, b.claim = r.claim
          PROVE  b.schedule = r.target
      <4>1. r.claim = worker[w].claim
        BY <2>3, <2>5, <2>2, <3>1, <3>2, <3>4
      <4> QED
        BY <2>3, <2>5, <3>4, <4>1 DEF GoesOn
    <3>5. r.pc # "off"
      BY <1>4, <2>5
    <3> QED
      BY <1>2, <2>5, <3>3, <3>4, <3>5 DEF Busy
  <2> QED
    BY <2>4, <2>5
<1>5. BeatsKnown'
  BY <1>4 DEF BeatsKnown
<1> QED
  BY <1>3, <1>5

\* Every run works on what it did.
SameWork == \A w \in Workers : /\ worker'[w].pc = worker[w].pc
                               /\ worker'[w].target = worker[w].target
                               /\ worker'[w].claim = worker[w].claim

LEMMA WorkSame ==
    ASSUME TypeOK, Targets, BeatsKnown, SameWork, beats' \subseteq beats,
           \A w \in Workers : worker'[w].pc = "claiming"
                                 => ~worker'[w].beaten /\ ~worker'[w].lost
    PROVE  Targets' /\ BeatsKnown'
<1>1. Targets'
  BY DEF Targets, Busy, SameWork
<1>2. \A b \in beats : b.run \in Workers
  BY DEF TypeOK, Beats
<1>3. BeatsKnown'
  BY <1>2 DEF BeatsKnown, Busy, SameWork
<1> QED
  BY <1>1, <1>3

LEMMA HeardWork ==
    ASSUME TypeOK, Targets, NEW b \in beats, NEW ok \in BOOLEAN, worker' = Heard(b, ok)
    PROVE  /\ SameWork
           /\ \A w \in Workers : worker'[w].pc = "claiming"
                                    => ~worker'[w].beaten /\ ~worker'[w].lost
           /\ \A w \in Workers : worker'[w].left = worker[w].left /\ worker'[w].late = worker[w].late
<1>1. b.run \in Workers /\ worker \in [Workers -> WorkerStates]
  BY DEF TypeOK, Beats
<1> DEFINE l == worker[b.run].lost \/ ~ok
           r == [worker[b.run] EXCEPT !.beaten = TRUE, !.lost = l]
<1>2. CASE Busy(b.run) /\ worker[b.run].claim = b.claim
  <2>1. worker' = [worker EXCEPT ![b.run] = r]
    BY <1>2 DEF Heard, Busy
  <2> HIDE DEF l
  <2>2. /\ r.pc = worker[b.run].pc /\ r.target = worker[b.run].target
        /\ r.claim = worker[b.run].claim /\ r.left = worker[b.run].left
        /\ r.late = worker[b.run].late
    BY <1>1 DEF WorkerStates
  <2> HIDE DEF r
  <2>3. worker'[b.run] = r /\ \A v \in Workers \ {b.run} : worker'[v] = worker[v]
    BY <1>1, <2>1
  <2>4. SameWork
    BY <2>2, <2>3 DEF SameWork
  <2>5. \A w \in Workers : worker'[w].pc = "claiming" => ~worker'[w].beaten /\ ~worker'[w].lost
    BY <1>2, <2>2, <2>3 DEF Targets, Busy
  <2> QED
    BY <2>2, <2>3, <2>4, <2>5
<1>3. CASE ~(Busy(b.run) /\ worker[b.run].claim = b.claim)
  <2>1. worker' = worker
    BY <1>3 DEF Heard, Busy
  <2> QED
    BY <2>1 DEF SameWork, Targets
<1> QED
  BY <1>2, <1>3

LEMMA TickWork ==
    ASSUME TypeOK, Targets, Tick
    PROVE  /\ SameWork
           /\ \A w \in Workers : /\ worker'[w].left = Greater(worker[w].left - 1, 0)
                                 /\ ~worker'[w].beaten
                                 /\ worker'[w].lost = worker[w].lost
                                 /\ worker'[w].late = worker[w].late
<1> SUFFICES ASSUME NEW w \in Workers
             PROVE  /\ worker'[w].pc = worker[w].pc
                    /\ worker'[w].target = worker[w].target
                    /\ worker'[w].claim = worker[w].claim
                    /\ worker'[w].left = Greater(worker[w].left - 1, 0)
                    /\ ~worker'[w].beaten
                    /\ worker'[w].lost = worker[w].lost
                    /\ worker'[w].late = worker[w].late
  BY DEF SameWork
<1> DEFINE l == Greater(worker[w].left - 1, 0)
<1>1. worker'[w] = [worker[w] EXCEPT !.left = l, !.beaten = FALSE]
  BY DEF Tick
<1> HIDE DEF l
<1>2. worker[w] \in WorkerStates
  BY WorkerIs
<1> QED
  BY <1>1, <1>2 DEF WorkerStates, l

LEMMA WorkOfRun ==
    ASSUME TypeOK, Targets, BeatsKnown, NEW w \in Workers, WorkerStep(w), ~Beat(w)
    PROVE  Targets' /\ BeatsKnown'
<1>1. worker[w] \in WorkerStates
  BY WorkerIs
<1>2. /\ worker[w].claim \in 0..Limit
      /\ worker[w].claim >= worker[w].claim
  BY WorkerIs, LeaseAssumption
<1>3. /\ Free(worker[w]) \in WorkerStates /\ Free(worker[w]).pc = "claiming"
      /\ ~Free(worker[w]).beaten /\ ~Free(worker[w]).lost
      /\ Free(worker[w]).claim = worker[w].claim
  BY <1>1 DEF Free, WorkerStates
<1>4. OffWorker \in WorkerStates /\ OffWorker.pc = "off" /\ GoesOn(w, OffWorker) \in BOOLEAN
  BY OffWorkerType DEF OffWorker, GoesOn
<1>5. Follows(w, Free(worker[w])) /\ GoesOn(w, Free(worker[w]))
  BY <1>2, <1>3 DEF Follows, GoesOn
<1>6. CASE Start(w)
  <2> DEFINE r == [OffWorker EXCEPT !.pc = "claiming", !.left = MaxRuntime]
  <2>1. MaxRuntime \in 0..MaxRuntime
    BY LeaseAssumption
  <2>2. r \in WorkerStates /\ r.pc = "claiming" /\ ~r.beaten /\ ~r.lost
    BY <2>1, OffWorkerType DEF WorkerStates, OffWorker
  <2>3. Follows(w, r) /\ GoesOn(w, r)
    BY <1>6, <2>2 DEF Follows, GoesOn, Start
  <2>4. worker' = [worker EXCEPT ![w] = r] /\ beats' \subseteq beats
    BY <1>6 DEF Start
  <2> HIDE DEF r
  <2> QED
    BY <2>2, <2>3, <2>4, WorkKept
<1>7. CASE Claim(w)
  <2>1. PICK s \in Schedules :
          worker' = [worker EXCEPT ![w] = [@ EXCEPT !.pc = "syncing", !.target = s,
                                                    !.claim = worker[w].claim + 1]]
    BY <1>7 DEF Claim
  <2> DEFINE n == worker[w].claim + 1
             r == [worker[w] EXCEPT !.pc = "syncing", !.target = s, !.claim = n]
  <2>2. worker[w].claim \in 0..Limit /\ worker[w].claim < Limit /\ Limit \in Nat
    BY <1>7, WorkerIs, LeaseAssumption DEF Claim, MayClaim
  <2>3. n \in 0..Limit /\ n > 0 /\ n > worker[w].claim
    BY <2>2
  <2>4. worker' = [worker EXCEPT ![w] = r] /\ beats' \subseteq beats
    BY <1>7, <2>1 DEF Claim
  <2> HIDE DEF n
  <2>5. r \in WorkerStates /\ r.pc = "syncing" /\ r.target = s /\ r.claim = n
    BY <1>1, <2>3 DEF WorkerStates
  <2>6. n >= worker[w].claim /\ n # worker[w].claim
    BY <1>2, <2>3
  <2> HIDE DEF r
  <2>7. Follows(w, r) /\ GoesOn(w, r)
    BY <2>3, <2>5, <2>6 DEF Follows, GoesOn
  <2> QED
    BY <2>4, <2>5, <2>7, WorkKept
<1>8. CASE Finish(w) \/ Crash(w)
  <2>1. /\ worker' = [worker EXCEPT ![w] = OffWorker] /\ beats' \subseteq beats
        /\ \A b \in beats' : b.run # w
    BY <1>8 DEF Finish, Crash
  <2>2. worker \in [Workers -> WorkerStates]
    BY DEF TypeOK
  <2>3. worker'[w] = OffWorker /\ \A v \in Workers \ {w} : worker'[v] = worker[v]
    BY <2>1, <2>2
  <2>4. \A b \in beats : b.run \in Workers
    BY DEF TypeOK, Beats
  <2>5. Targets'
    BY <1>4, <2>3 DEF Targets, Busy
  <2>6. BeatsKnown'
    BY <2>1, <2>3, <2>4 DEF BeatsKnown, Busy
  <2> QED
    BY <2>5, <2>6
<1>9. CASE \E outcome \in {"succeeded", "failed"} : SyncEnds(w, outcome)
  <2>1. PICK outcome \in {"succeeded", "failed"} : SyncEnds(w, outcome)
    BY <1>9
  <2> DEFINE r == [worker[w] EXCEPT !.pc = "recording", !.outcome = outcome]
  <2>2. /\ r \in WorkerStates /\ r.pc = "recording"
        /\ r.claim = worker[w].claim /\ r.target = worker[w].target
    BY <1>1 DEF WorkerStates
  <2>3. Busy(w) /\ worker' = [worker EXCEPT ![w] = r] /\ beats' \subseteq beats
    BY <2>1 DEF SyncEnds, Busy
  <2> HIDE DEF r
  <2>4. Follows(w, r) /\ GoesOn(w, r)
    BY <1>2, <2>2, <2>3 DEF Follows, GoesOn, Targets
  <2> QED
    BY <2>2, <2>3, <2>4, WorkKept
<1>10. CASE RuntimeExceeded(w)
  <2> DEFINE r == [worker[w] EXCEPT !.pc = "recording", !.outcome = "failed"]
  <2>1. /\ r \in WorkerStates /\ r.pc = "recording"
        /\ r.claim = worker[w].claim /\ r.target = worker[w].target
    BY <1>1 DEF WorkerStates
  <2>2. Busy(w) /\ worker' = [worker EXCEPT ![w] = r] /\ beats' \subseteq beats
    BY <1>10 DEF RuntimeExceeded, Busy
  <2> HIDE DEF r
  <2>3. Follows(w, r) /\ GoesOn(w, r)
    BY <1>2, <2>1, <2>2 DEF Follows, GoesOn, Targets
  <2> QED
    BY <2>1, <2>2, <2>3, WorkKept
<1>11. CASE LeaseLost(w) \/ Record(w)
  <2>1. worker' = [worker EXCEPT ![w] = Free(worker[w])] /\ beats' \subseteq beats
    BY <1>11 DEF LeaseLost, Record
  <2> QED
    BY <1>3, <1>5, <2>1, WorkKept
<1>12. CASE RecordFails(w)
  <2> DEFINE q == [worker[w] EXCEPT !.outcome = "failed"]
             r == IF worker[w].lost THEN Free(worker[w]) ELSE q
  <2>1. /\ q \in WorkerStates /\ q.pc = worker[w].pc
        /\ q.claim = worker[w].claim /\ q.target = worker[w].target
    BY <1>1 DEF WorkerStates
  <2>2. Busy(w) /\ worker[w].pc = "recording" /\ beats' \subseteq beats
    BY <1>12 DEF RecordFails, Busy
  <2>3. worker' = [worker EXCEPT ![w] = r]
    BY <1>12 DEF RecordFails
  <2> HIDE DEF q
  <2>4. Follows(w, q) /\ GoesOn(w, q)
    BY <1>2, <2>1, <2>2 DEF Follows, GoesOn, Targets
  <2>5. r \in WorkerStates /\ r.pc # "off" /\ Follows(w, r) /\ GoesOn(w, r)
    BY <1>3, <1>5, <2>1, <2>2, <2>4
  <2> HIDE DEF r
  <2> QED
    BY <2>2, <2>3, <2>5, WorkKept
<1>13. CASE Stall(w)
  <2> DEFINE r == [worker[w] EXCEPT !.late = TRUE]
  <2>1. /\ r \in WorkerStates /\ r.pc = worker[w].pc /\ r.target = worker[w].target
        /\ r.claim = worker[w].claim /\ r.beaten = worker[w].beaten /\ r.lost = worker[w].lost
    BY <1>1 DEF WorkerStates
  <2>2. worker[w].pc # "off" /\ worker' = [worker EXCEPT ![w] = r] /\ beats' \subseteq beats
    BY <1>13 DEF Stall
  <2> HIDE DEF r
  <2>3. Follows(w, r) /\ GoesOn(w, r)
    BY <1>2, <2>1 DEF Follows, GoesOn, Targets, Busy
  <2> QED
    BY <2>1, <2>2, <2>3, WorkKept
<1> QED
  BY <1>6, <1>7, <1>8, <1>9, <1>10, <1>11, <1>12, <1>13 DEF WorkerStep

LEMMA WorkStep ==
    ASSUME TypeOK, Targets, BeatsKnown, [Next]_vars
    PROVE  Targets' /\ BeatsKnown'
<1>1. CASE UNCHANGED <<worker, beats>>
  BY <1>1 DEF Targets, BeatsKnown, Busy
<1>2. CASE \E s \in Schedules : Save(s)
  BY <1>1, <1>2 DEF Save
<1>3. CASE \E w \in Workers : WorkerStep(w) /\ ~Beat(w)
  BY <1>3, WorkOfRun
<1>4. CASE \E w \in Workers : Beat(w)
  <2>1. PICK w \in Workers : Beat(w)
    BY <1>4
  <2>2. worker[w].claim \in 0..Limit
    BY WorkerIs
  <2>3. worker[w].claim <= worker[w].claim
    BY <2>2, LeaseAssumption
  <2>4. UNCHANGED worker /\ Busy(w)
    BY <2>1 DEF Beat, Busy
  <2>5. Targets'
    BY <2>4 DEF Targets, Busy
  <2>6. BeatsKnown'
    BY <2>1, <2>3, <2>4 DEF BeatsKnown, Busy, Beat
  <2> QED
    BY <2>5, <2>6
<1>5. CASE \E b \in beats : BeatAnswered(b) \/ BeatFailed(b)
  <2>1. PICK b \in beats, ok \in BOOLEAN : worker' = Heard(b, ok) /\ beats' = beats \ {b}
    BY <1>5 DEF BeatAnswered, BeatFailed, Extends
  <2> QED
    BY <2>1, HeardWork, WorkSame
<1>6. CASE Tick
  <2>1. UNCHANGED beats
    BY <1>6 DEF Tick
  <2>2. SameWork /\ \A w \in Workers : worker'[w].pc = "claiming"
                                          => ~worker'[w].beaten /\ ~worker'[w].lost
    BY <1>6, TickWork DEF SameWork, Targets
  <2> QED
    BY <2>1, <2>2, WorkSame
<1>7. CASE UNCHANGED vars
  BY <1>1, <1>7 DEF vars
<1> QED
  BY <1>1, <1>2, <1>3, <1>4, <1>5, <1>6, <1>7 DEF Next

-----------------------------------------------------------------------------
(* The rows. *)

\* An outcome frees the schedule of a run that holds it, and only that one.
LEMMA RecordedRows ==
    ASSUME TypeOK, Targets, NEW w \in Workers, worker[w].pc = "recording",
           NEW s \in Schedules
    PROVE  \/ Recorded(w)[s] = row[s]
           \/ /\ Holds(w) /\ s = worker[w].target
              /\ Recorded(w)[s] \in {Succeeded(row[s]), Failed(row[s])}
              /\ Recorded(w)[s].token = None /\ Recorded(w)[s].lease = 0
              /\ Recorded(w)[s].age = 0 /\ Recorded(w)[s].due > 0
<1>1. row \in [Schedules -> Rows] /\ worker[w].target \in Schedules /\ row[s] \in Rows
  BY DEF TypeOK, Targets, Busy
<1>2. CASE Holds(w) /\ s = worker[w].target
  <2>1. Recorded(w)[s] \in {Succeeded(row[s]), Failed(row[s])}
    BY <1>1, <1>2 DEF Recorded
  <2> QED
    BY <1>1, <1>2, <2>1, SucceededRow, FailedRow
<1>3. CASE ~(Holds(w) /\ s = worker[w].target)
  BY <1>1, <1>3 DEF Recorded
<1> QED
  BY <1>2, <1>3

\* What a step does to a schedule: it is saved, claimed by a run, extended by a
\* heartbeat of the run that has it, released by that run, or a tick later.
SavedRow(s) == /\ saves' # saves
               /\ row'[s].token = row[s].token /\ row'[s].lease = row[s].lease
               /\ row'[s].age = row[s].age
               /\ row'[s].retries = 0 /\ row'[s].slot \in Slots
               /\ row'[s].due = UntilSlot(row'[s].slot)

ClaimedRow(s) == /\ Claimable(s) /\ row'[s].token \in Workers
                 /\ row'[s].due = row[s].due /\ row'[s].retries = row[s].retries
                 /\ row'[s].slot = row[s].slot

ExtendedRow(s) == /\ row[s].token \in Workers /\ row[s].age < MaxLease
                  /\ row'[s] = [row[s] EXCEPT !.lease = Extended(row[s])]

ReleasedRow(s) ==
    /\ row[s].lease > 0
    /\ \E w \in Workers : /\ row[s].token = w
                          /\ worker[w].pc = "recording"
                          /\ worker[w].target = s
    /\ row'[s] \in {Succeeded(row[s]), Failed(row[s])}

LEMMA RowStep ==
    ASSUME TypeOK, Targets, [Next]_vars, NEW s \in Schedules
    PROVE  \/ Tick /\ row'[s] = Later(row[s])
           \/ /\ UNCHANGED time
              /\ \/ row'[s] = row[s]
                 \/ SavedRow(s) \/ ClaimedRow(s) \/ ExtendedRow(s) \/ ReleasedRow(s)
<1>1. row \in [Schedules -> Rows] /\ row[s] \in Rows
  BY DEF TypeOK
<1>2. CASE UNCHANGED <<time, row>>
  BY <1>2
<1>3. CASE Tick
  BY <1>3 DEF Tick
<1>4. ASSUME NEW z \in Schedules, Save(z)
      PROVE  UNCHANGED time /\ (row'[s] = row[s] \/ SavedRow(s))
  <2>1. PICK on \in BOOLEAN, slot \in Slots :
          row' = [row EXCEPT ![z] = [@ EXCEPT !.enabled = on, !.slot = slot,
                                              !.due = UntilSlot(slot), !.retries = 0]]
    BY <1>4 DEF Save
  <2>2. saves' # saves /\ UNCHANGED time
    BY <1>4 DEF Save, TypeOK
  <2>3. CASE s # z
    BY <1>1, <2>1, <2>2, <2>3
  <2>4. CASE s = z
    <3> DEFINE u == UntilSlot(slot)
    <3>1. row'[s] = [row[s] EXCEPT !.enabled = on, !.slot = slot, !.due = u, !.retries = 0]
      BY <1>1, <2>1, <2>4
    <3> HIDE DEF u
    <3>2. /\ row'[s].token = row[s].token /\ row'[s].lease = row[s].lease
          /\ row'[s].age = row[s].age /\ row'[s].retries = 0
          /\ row'[s].slot = slot /\ row'[s].due = u
      BY <1>1, <3>1 DEF Rows
    <3> QED
      BY <2>2, <3>2 DEF SavedRow, u
  <2> QED
    BY <2>3, <2>4
<1>5. ASSUME NEW w \in Workers, Claim(w)
      PROVE  UNCHANGED time /\ (row'[s] = row[s] \/ ClaimedRow(s))
  <2>1. PICK z \in Schedules :
          /\ Claimable(z)
          /\ row' = [row EXCEPT ![z] = [@ EXCEPT !.token = w, !.lease = Lease, !.age = 0]]
    BY <1>5 DEF Claim
  <2>2. UNCHANGED time
    BY <1>5 DEF Claim
  <2>3. CASE s # z
    BY <1>1, <2>1, <2>2, <2>3
  <2>4. CASE s = z
    <3>1. row'[s] = [row[s] EXCEPT !.token = w, !.lease = Lease, !.age = 0]
      BY <1>1, <2>1, <2>4
    <3>2. /\ row'[s].token = w /\ row'[s].due = row[s].due
          /\ row'[s].retries = row[s].retries /\ row'[s].slot = row[s].slot
      BY <1>1, <3>1 DEF Rows
    <3> QED
      BY <2>1, <2>2, <2>4, <3>2 DEF ClaimedRow
  <2> QED
    BY <2>3, <2>4
<1>6. ASSUME NEW b \in beats, BeatAnswered(b)
      PROVE  UNCHANGED time /\ (row'[s] = row[s] \/ ExtendedRow(s))
  <2>1. UNCHANGED time
    BY <1>6 DEF BeatAnswered
  <2>2. b.run \in Workers /\ b.schedule \in Schedules
    BY DEF TypeOK, Beats
  <2>3. CASE ~Extends(b) \/ s # b.schedule
    BY <1>1, <1>6, <2>1, <2>2, <2>3 DEF BeatAnswered
  <2>4. CASE Extends(b) /\ s = b.schedule
    <3>1. row'[s] = [row[s] EXCEPT !.lease = Extended(row[s])]
      BY <1>1, <1>6, <2>2, <2>4 DEF BeatAnswered
    <3> QED
      BY <2>1, <2>2, <2>4, <3>1 DEF ExtendedRow, Extends
  <2> QED
    BY <2>3, <2>4
<1>7. ASSUME NEW w \in Workers, Record(w) \/ RecordFails(w)
      PROVE  UNCHANGED time /\ (row'[s] = row[s] \/ ReleasedRow(s))
  <2>1. UNCHANGED time /\ worker[w].pc = "recording" /\ row' \in {row, Recorded(w)}
    BY <1>7 DEF Record, RecordFails
  <2> QED
    BY <2>1, RecordedRows DEF ReleasedRow, Holds
<1>8. CASE \E w \in Workers : WorkerStep(w)
  <2>1. PICK w \in Workers : WorkerStep(w)
    BY <1>8
  <2>2. CASE Claim(w) \/ Record(w) \/ RecordFails(w)
    BY <1>5, <1>7, <2>2
  <2>3. CASE ~(Claim(w) \/ Record(w) \/ RecordFails(w))
    <3>1. UNCHANGED <<time, row>>
      BY <2>1, <2>3 DEF WorkerStep, Start, Finish, Beat, SyncEnds, RuntimeExceeded, LeaseLost,
                        Crash, Stall
    <3> QED
      BY <1>2, <3>1
  <2> QED
    BY <2>2, <2>3
<1>9. CASE \E b \in beats : BeatFailed(b)
  BY <1>2, <1>9 DEF BeatFailed
<1>10. CASE UNCHANGED vars
  BY <1>2, <1>10 DEF vars
<1> QED
  BY <1>3, <1>4, <1>6, <1>8, <1>9, <1>10 DEF Next

LEMMA ExtendedRowIs ==
    ASSUME TypeOK, NEW s \in Schedules, ExtendedRow(s)
    PROVE  /\ row'[s].token = row[s].token /\ row'[s].token \in Workers
           /\ row'[s].age = row[s].age
           /\ row'[s].due = row[s].due /\ row'[s].retries = row[s].retries
           /\ row'[s].slot = row[s].slot
           /\ row'[s].lease = Extended(row[s])
<1> DEFINE l == Extended(row[s])
<1>1. row'[s] = [row[s] EXCEPT !.lease = l]
  BY DEF ExtendedRow
<1>2. row[s] \in Rows
  BY DEF TypeOK
<1> HIDE DEF l
<1> QED
  BY <1>1, <1>2 DEF Rows, ExtendedRow, l

LEMMA LeaseStep ==
    ASSUME TypeOK, Targets, LeasePair, [Next]_vars
    PROVE  LeasePair'
<1> SUFFICES ASSUME NEW s \in Schedules, row'[s].token = None
             PROVE  row'[s].lease = 0 /\ row'[s].age = 0
  BY DEF LeasePair
<1>1. row[s] \in Rows /\ None \notin Workers
  BY NamesAssumption DEF TypeOK
<1>2. CASE Tick /\ row'[s] = Later(row[s])
  <2>1. row[s].token = None /\ row'[s].age = 0 /\ row'[s].lease = Greater(row[s].lease - 1, 0)
    BY <1>1, <1>2, LaterRow
  <2>2. row[s].lease = 0
    BY <2>1 DEF LeasePair
  <2> QED
    BY <2>1, <2>2 DEF Greater
<1>3. CASE row'[s] = row[s] \/ SavedRow(s)
  BY <1>3 DEF LeasePair, SavedRow
<1>4. CASE ClaimedRow(s) \/ ExtendedRow(s)
  BY <1>1, <1>4, ExtendedRowIs DEF ClaimedRow
<1>5. CASE ReleasedRow(s)
  BY <1>1, <1>5, SucceededRow, FailedRow DEF ReleasedRow
<1> QED
  BY <1>2, <1>3, <1>4, <1>5, RowStep

-----------------------------------------------------------------------------
(* Theorems about the schedule. *)

LEMMA InitHolds ==
    ASSUME Init
    PROVE  TypeOK /\ LeasePair /\ Targets /\ BeatsKnown /\ OnSchedule /\ Unharmed
<1>1. Day \in Nat \ {0} /\ FirstSlot \in Slots /\ Slots \subseteq 0..(Day - 1) /\ time = 0
  BY CalendarAssumption DEF Init
<1> DEFINE u == UntilSlot(FirstSlot)
           q == [enabled |-> TRUE, slot |-> FirstSlot, due |-> u,
                 retries |-> 0, token |-> None, lease |-> 0, age |-> 0]
<1>2. u \in Nat
  BY <1>1 DEF UntilSlot
<1>3. row = [s \in Schedules |-> q]
  BY DEF Init
<1>4. 0 \in 0..Len(Delays) /\ 0 \in 0..(Day - 1)
  BY <1>1, DelaysLength
<1>5. u \in Int
  BY <1>2
<1> HIDE DEF u
<1>6. q \in Rows
  BY <1>1, <1>4, <1>5, ZeroLease DEF Rows
<1>7. worker \in [Workers -> WorkerStates] /\ \A w \in Workers : worker[w] = OffWorker
  BY OffWorkerType DEF Init
<1>8. OffWorker.pc = "off" /\ ~OffWorker.late
  BY DEF OffWorker
<1>9. TypeOK
  <2>1. row \in [Schedules -> Rows]
    BY <1>3, <1>6
  <2>2. beats \subseteq Beats /\ kicked \in BOOLEAN
        /\ saves \in Nat /\ faults \in Nat
    BY DEF Init
  <2> QED
    BY <1>1, <1>4, <1>7, <2>1, <2>2 DEF TypeOK
<1>10. LeasePair /\ OnSchedule
  BY <1>3 DEF LeasePair, OnSchedule, u
<1>11. Targets /\ BeatsKnown /\ Unharmed
  BY <1>7, <1>8 DEF Targets, BeatsKnown, Unharmed, Busy, Init
<1> QED
  BY <1>9, <1>10, <1>11

Sound == TypeOK /\ LeasePair /\ Targets /\ BeatsKnown

LEMMA SoundAlways == Spec => []Sound
<1>1. Init => Sound
  BY InitHolds DEF Sound
<1>2. Sound /\ [Next]_vars => Sound'
  BY TypeStep, LeaseStep, WorkStep DEF Sound
<1> QED
  BY <1>1, <1>2, PTL DEF Spec

\* The schedules, the runs and the heartbeats keep the shape that the code's types
\* and the columns of data_source_schedules give them.
THEOREM TypeCorrect == Spec => []TypeOK
<1>1. Sound => TypeOK
  BY DEF Sound
<1> QED
  BY <1>1, SoundAlways, PTL

\* A tick later the next slot is a tick nearer.
LEMMA SlotNearer ==
    ASSUME TypeOK, Tick, NEW slot \in Slots, UntilSlot(slot) > 1
    PROVE  UntilSlot(slot)' = UntilSlot(slot) - 1
<1>1. slot \in 0..(Day - 1) /\ Day \in Nat \ {0} /\ time \in 0..(Day - 1)
  BY CalendarAssumption DEF TypeOK
<1>2. time' = IF time + 1 = Day THEN 0 ELSE time + 1
  BY DEF Tick
<1>3. UntilSlot(slot)' = IF time' < slot THEN slot - time' ELSE slot - time' + Day
  BY DEF UntilSlot
<1>4. UntilSlot(slot) = IF time < slot THEN slot - time ELSE slot - time + Day
  BY DEF UntilSlot
<1> QED
  BY <1>1, <1>2, <1>3, <1>4

LEMMA OnScheduleStep ==
    ASSUME Sound, OnSchedule, [Next]_vars
    PROVE  OnSchedule'
<1> SUFFICES ASSUME NEW s \in Schedules, row'[s].due > 0
             PROVE  IF row'[s].retries = 0 THEN row'[s].due = UntilSlot(row[s].slot)'
                                           ELSE row'[s].due <= Delays[row'[s].retries]
  BY DEF OnSchedule
<1>1. TypeOK /\ Targets
  BY DEF Sound
<1>2. row[s] \in Rows /\ row[s].slot \in Slots /\ row[s].due \in Int
      /\ row[s].retries \in 0..Len(Delays)
  BY <1>1 DEF TypeOK, Rows
<1>3. row[s].due > 0 => IF row[s].retries = 0 THEN row[s].due = UntilSlot(row[s].slot)
                                              ELSE row[s].due <= Delays[row[s].retries]
  BY DEF OnSchedule
<1>4. PICK k \in Slots : k = row'[s].slot
  <2>1. row' \in [Schedules -> Rows]
    BY <1>1, TypeStep DEF TypeOK
  <2> QED
    BY <2>1 DEF Rows
<1>5. UntilSlot(row[s].slot)' = UntilSlot(k)'
  BY <1>4 DEF UntilSlot
<1>6. CASE Tick /\ row'[s] = Later(row[s])
  <2>1. /\ row[s].slot = k /\ row'[s].retries = row[s].retries
        /\ row'[s].due = row[s].due - 1 /\ row[s].due > 1
    BY <1>2, <1>4, <1>6, LaterRow
  <2>2. CASE row[s].retries = 0
    <3>1. row[s].due = UntilSlot(k)
      BY <1>2, <1>3, <2>1, <2>2
    <3>2. UntilSlot(k)' = UntilSlot(k) - 1
      BY <1>1, <1>6, <2>1, <3>1, SlotNearer
    <3> QED
      BY <1>5, <2>1, <2>2, <3>1, <3>2
  <2>3. CASE row[s].retries # 0
    <3>1. Delays[row[s].retries] \in Nat
      BY <1>2, <2>3, DelayType, DelaysLength
    <3>2. row[s].due <= Delays[row[s].retries]
      BY <1>2, <1>3, <2>1, <2>3
    <3> QED
      BY <1>2, <2>1, <2>3, <3>1, <3>2
  <2> QED
    BY <2>2, <2>3
<1>7. ASSUME UNCHANGED time
      PROVE  UntilSlot(row[s].slot)' = UntilSlot(k)
  BY <1>5, <1>7 DEF UntilSlot
<1>8. CASE UNCHANGED time /\ (row'[s] = row[s] \/ ClaimedRow(s) \/ ExtendedRow(s))
  <2>1. /\ row'[s].slot = row[s].slot /\ row'[s].retries = row[s].retries
        /\ row'[s].due = row[s].due
    BY <1>1, <1>8, ExtendedRowIs DEF ClaimedRow
  <2> QED
    BY <1>2, <1>3, <1>4, <1>7, <1>8, <2>1
<1>9. CASE UNCHANGED time /\ SavedRow(s)
  BY <1>4, <1>7, <1>9 DEF SavedRow
<1>10. CASE UNCHANGED time /\ ReleasedRow(s)
  <2>1. CASE row'[s] = Succeeded(row[s])
    BY <1>1, <1>2, <1>4, <1>7, <1>10, <2>1, SucceededRow
  <2>2. CASE row'[s] = Failed(row[s])
    BY <1>1, <1>2, <1>4, <1>7, <1>10, <2>2, FailedRow
  <2> QED
    BY <1>10, <2>1, <2>2 DEF ReleasedRow
<1> QED
  BY <1>1, <1>6, <1>8, <1>9, <1>10, RowStep

\* Whichever way settings, outcomes and retries crossed each other, the next run of a
\* schedule is at its daily time or when the delay of its retry is over.
THEOREM OnScheduleAlways == Spec => []OnSchedule
<1>1. Init => OnSchedule
  BY InitHolds
<1>2. Sound /\ OnSchedule /\ [Next]_vars => OnSchedule'
  BY OnScheduleStep
<1> QED
  BY <1>1, <1>2, SoundAlways, PTL DEF Spec

\* No run that lost its lease, and no late heartbeat, changes a schedule that another
\* one holds: not its owner, not its retries, not when it was started.
THEOREM StaleSyncsHarmless == Spec => StaleSyncHarmless
<1> DEFINE Harmless(s) ==
             row[s].lease > 0 =>
                \/ \E w \in Workers : /\ row[s].token = w
                                      /\ worker[w].pc = "recording"
                                      /\ worker[w].target = s
                \/ /\ row'[s].token = row[s].token
                   /\ row'[s].age >= row[s].age
                   /\ row'[s].retries = row[s].retries \/ saves' # saves
<1>1. ASSUME Sound, [Next]_vars, NEW s \in Schedules
      PROVE  Harmless(s)
  <2>1. row[s] \in Rows /\ row[s].age \in 0..MaxLease /\ MaxLease \in Nat
    BY <1>1, LeaseAssumption DEF Sound, TypeOK, Rows
  <2>2. row[s].age >= row[s].age
    BY <2>1
  <2>3. CASE row'[s] = Later(row[s])
    <3>1. CASE row[s].token = None
      <4>1. row[s].lease = 0
        BY <1>1, <3>1 DEF Sound, LeasePair
      <4> QED
        BY <4>1
    <3>2. CASE row[s].token # None
      <4>1. /\ row'[s].token = row[s].token /\ row'[s].retries = row[s].retries
            /\ row'[s].age = Lesser(row[s].age + 1, MaxLease)
        BY <2>1, <2>3, <3>2, LaterRow
      <4>2. row'[s].age >= row[s].age
        BY <2>1, <4>1 DEF Lesser
      <4> QED
        BY <4>1, <4>2
    <3> QED
      BY <3>1, <3>2
  <2>4. CASE row'[s] = row[s] \/ SavedRow(s) \/ ExtendedRow(s)
    BY <1>1, <2>2, <2>4, ExtendedRowIs DEF Sound, SavedRow
  <2>5. CASE ClaimedRow(s) \/ ReleasedRow(s)
    BY <2>5 DEF ClaimedRow, Claimable, ReleasedRow
  <2> QED
    BY <1>1, <2>3, <2>4, <2>5, RowStep DEF Sound
<1>2. Sound /\ [Next]_vars => [\A s \in Schedules : Harmless(s)]_vars
  BY <1>1
<1>3. StaleSyncHarmless <=> [][\A s \in Schedules : Harmless(s)]_vars
  BY PTL DEF StaleSyncHarmless
<1> QED
  BY <1>2, <1>3, SoundAlways, PTL DEF Spec

-----------------------------------------------------------------------------
(* One run at a time. *)

\* A run that keeps a schedule, as the schedule and the run are after a step that
\* does not touch what matters.
LEMMA KeepsSame ==
    ASSUME NEW v \in Workers, Keeps(v),
           UNCHANGED worker[v],
           row'[worker[v].target].token = row[worker[v].target].token,
           row'[worker[v].target].lease = row[worker[v].target].lease,
           row'[worker[v].target].age = row[worker[v].target].age
    PROVE  Keeps(v)'
<1> DEFINE q == row'[worker[v].target]
<1>1. worker'[v] = worker[v]
  OBVIOUS
<1>2. Extended(q) = Extended(row[worker[v].target])
  BY DEF Extended
<1> QED
  BY <1>1, <1>2 DEF Keeps, Extended

\* No run that works shares its schedule.
LEMMA Apart ==
    ASSUME Sound, Unharmed, faults = 0, NEW v \in Workers, Busy(v),
           NEW w \in Workers, Busy(w), worker[w].target = worker[v].target
    PROVE  w = v
BY DEF Unharmed, Keeps

\* What Unharmed says when no fault has happened.
Calm == /\ \A w \in Workers : ~worker[w].late
        /\ \A w \in Workers : Busy(w) => Keeps(w)

LEMMA Types ==
    ASSUME TypeOK
    PROVE  worker \in [Workers -> WorkerStates] /\ row \in [Schedules -> Rows]
BY DEF TypeOK

\* A run changes what it has in hand, and no schedule.
LEMMA CalmRun ==
    ASSUME TypeOK, Targets, Calm, NEW w \in Workers, NEW r \in WorkerStates,
           worker' = [worker EXCEPT ![w] = r], UNCHANGED row, ~r.late,
           r.pc \in {"syncing", "recording"} =>
               /\ Busy(w) /\ r.target = worker[w].target /\ r.left = worker[w].left
               /\ r.lost = worker[w].lost /\ r.beaten = worker[w].beaten
    PROVE  Calm'
<1>1. worker'[w] = r /\ \A v \in Workers \ {w} : worker'[v] = worker[v]
  BY Types
<1>2. \A v \in Workers : ~worker'[v].late
  BY <1>1 DEF Calm
<1>3. ASSUME NEW v \in Workers, Busy(v)'
      PROVE  Keeps(v)'
  <2>1. CASE v # w
    <3>1. Keeps(v) /\ UNCHANGED worker[v]
      BY <1>1, <1>3, <2>1 DEF Calm, Busy
    <3> QED
      BY <3>1, KeepsSame
  <2>2. CASE v = w
    <3>1. /\ Keeps(w) /\ worker'[w].target = worker[w].target
          /\ worker'[w].left = worker[w].left /\ worker'[w].lost = worker[w].lost
          /\ worker'[w].beaten = worker[w].beaten
      BY <1>1, <1>3, <2>2 DEF Calm, Busy
    <3> QED
      BY <2>2, <3>1 DEF Keeps, Extended
  <2> QED
    BY <2>1, <2>2
<1> QED
  BY <1>2, <1>3 DEF Calm

\* The actions of a run that leave the schedules alone.
LEMMA CalmOwn ==
    ASSUME Sound, Calm, faults = 0, NEW w \in Workers,
           \/ Start(w) \/ Finish(w) \/ Crash(w)
           \/ \E outcome \in {"succeeded", "failed"} : SyncEnds(w, outcome)
           \/ RuntimeExceeded(w)
    PROVE  Calm'
<1>1. /\ TypeOK /\ Targets /\ worker[w] \in WorkerStates /\ ~worker[w].late
      /\ Unharmed
  BY WorkerIs DEF Sound, Calm, Unharmed
<1>2. CASE Start(w)
  <2> DEFINE r == [OffWorker EXCEPT !.pc = "claiming", !.left = MaxRuntime]
  <2>1. MaxRuntime \in 0..MaxRuntime
    BY LeaseAssumption
  <2>2. r \in WorkerStates /\ r.pc = "claiming" /\ ~r.late
    BY <2>1, OffWorkerType DEF WorkerStates, OffWorker
  <2>3. worker' = [worker EXCEPT ![w] = r] /\ UNCHANGED row
    BY <1>2 DEF Start
  <2> HIDE DEF r
  <2> QED
    BY <1>1, <2>2, <2>3, CalmRun
<1>3. CASE Finish(w) \/ Crash(w)
  <2>1. OffWorker \in WorkerStates /\ OffWorker.pc = "off" /\ ~OffWorker.late
    BY OffWorkerType DEF OffWorker
  <2>2. worker' = [worker EXCEPT ![w] = OffWorker] /\ UNCHANGED row
    BY <1>3 DEF Finish, Crash
  <2> QED
    BY <1>1, <2>1, <2>2, CalmRun
<1>4. CASE \/ \E outcome \in {"succeeded", "failed"} : SyncEnds(w, outcome)
           \/ RuntimeExceeded(w)
  <2>1. PICK outcome \in {"succeeded", "failed"} :
           /\ Busy(w) /\ UNCHANGED row
           /\ worker' = [worker EXCEPT ![w] = [@ EXCEPT !.pc = "recording",
                                                        !.outcome = outcome]]
    BY <1>4 DEF SyncEnds, RuntimeExceeded, Busy
  <2> DEFINE r == [worker[w] EXCEPT !.pc = "recording", !.outcome = outcome]
  <2>2. /\ r \in WorkerStates /\ r.pc = "recording" /\ ~r.late
        /\ r.target = worker[w].target /\ r.left = worker[w].left
        /\ r.lost = worker[w].lost /\ r.beaten = worker[w].beaten
    BY <1>1 DEF WorkerStates
  <2>3. worker' = [worker EXCEPT ![w] = r]
    BY <2>1
  <2> HIDE DEF r
  <2> QED
    BY <1>1, <2>1, <2>2, <2>3, CalmRun
<1> QED
  BY <1>2, <1>3, <1>4

LEMMA CalmClaim ==
    ASSUME Sound, Calm, NEW w \in Workers, Claim(w)
    PROVE  Calm'
<1>1. TypeOK /\ Targets
  BY DEF Sound
<1>2. PICK s \in Schedules :
        /\ Claimable(s)
        /\ row' = [row EXCEPT ![s] = [@ EXCEPT !.token = w, !.lease = Lease, !.age = 0]]
        /\ worker' = [worker EXCEPT ![w] = [@ EXCEPT !.pc = "syncing", !.target = s,
                                                     !.claim = worker[w].claim + 1]]
  BY DEF Claim
<1>3. /\ worker[w].pc = "claiming" /\ ~worker[w].beaten /\ ~worker[w].lost /\ ~worker[w].late
      /\ worker[w] \in WorkerStates /\ row[s] \in Rows
  BY <1>1, WorkerIs DEF Claim, Targets, Calm, TypeOK
<1> DEFINE n == worker[w].claim + 1
<1>4. worker'[w] = [worker[w] EXCEPT !.pc = "syncing", !.target = s, !.claim = n]
  BY <1>1, <1>2, Types
<1>5. row'[s] = [row[s] EXCEPT !.token = w, !.lease = Lease, !.age = 0]
  BY <1>1, <1>2, Types
<1>6. /\ \A v \in Workers \ {w} : worker'[v] = worker[v]
      /\ \A z \in Schedules \ {s} : row'[z] = row[z]
  BY <1>1, <1>2, Types
<1> HIDE DEF n
<1>7. /\ worker'[w].pc = "syncing" /\ worker'[w].target = s /\ worker'[w].left = worker[w].left
      /\ ~worker'[w].beaten /\ ~worker'[w].lost /\ ~worker'[w].late
  BY <1>3, <1>4 DEF WorkerStates
<1>8. row'[s].token = w /\ row'[s].lease = Lease /\ row'[s].age = 0
  BY <1>3, <1>5 DEF Rows
<1>9. \A v \in Workers : ~worker'[v].late
  BY <1>6, <1>7 DEF Calm
<1>10. ASSUME NEW v \in Workers, Busy(v)'
      PROVE  Keeps(v)'
  <2>1. CASE v = w
    <3>1. /\ Lease \in Nat \ {0} /\ MaxRuntime \in Nat
          /\ worker[w].left \in 0..MaxRuntime
      BY <1>1, WorkerIs, LeaseAssumption
    <3>2. Lease > 0 /\ 0 + worker[w].left <= MaxRuntime
      BY <3>1
    <3> QED
      BY <1>7, <1>8, <2>1, <3>2 DEF Keeps
  <2>2. CASE v # w
    <3>1. Busy(v) /\ Keeps(v) /\ UNCHANGED worker[v]
      BY <1>6, <1>10, <2>2 DEF Calm, Busy
    <3>2. worker[v].target \in Schedules
      BY <1>1, <3>1 DEF Targets
    <3>3. row[worker[v].target].lease > 0
      BY <3>1 DEF Keeps
    <3>4. row[s].lease = 0
      BY <1>2 DEF Claimable
    <3>5. worker[v].target \in Schedules /\ worker[v].target # s
      BY <3>2, <3>3, <3>4
    <3>6. UNCHANGED row[worker[v].target]
      BY <1>6, <3>1, <3>5
    <3> QED
      BY <3>1, <3>6, KeepsSame
  <2> QED
    BY <2>1, <2>2
<1> QED
  BY <1>9, <1>10 DEF Calm

\* A run that works has not lost its lease.
LEMMA CalmLost ==
    ASSUME Calm, NEW w \in Workers
    PROVE  ~LeaseLost(w)
BY DEF Calm, Keeps, LeaseLost, Busy

LEMMA CalmRecord ==
    ASSUME Sound, Calm, faults = 0, NEW w \in Workers, Record(w)
    PROVE  Calm'
<1>1. /\ TypeOK /\ Targets /\ worker[w] \in WorkerStates /\ ~worker[w].late /\ Unharmed
      /\ Busy(w) /\ worker[w].pc = "recording" /\ worker[w].target \in Schedules
  BY WorkerIs DEF Sound, Calm, Unharmed, Record, Busy, Targets
<1> DEFINE z == worker[w].target
           r == Free(worker[w])
<1>2. Keeps(w) /\ Holds(w)
  BY <1>1 DEF Calm, Keeps, Holds
<1>3. r.pc = "claiming" /\ ~r.late
  BY <1>1, FreeType
<1>4. worker' = [worker EXCEPT ![w] = r] /\ row' = Recorded(w)
  BY DEF Record
<1> HIDE DEF r
<1>5. worker'[w] = r /\ \A v \in Workers \ {w} : worker'[v] = worker[v]
  BY <1>1, <1>4, Types
<1>6. \A s \in Schedules \ {z} : row'[s] = row[s]
  BY <1>1, <1>4, Types DEF Recorded
<1>7. ASSUME NEW v \in Workers, Busy(v)'
      PROVE  Keeps(v)'
  <2>1. v # w /\ UNCHANGED worker[v] /\ Busy(v) /\ Keeps(v)
    BY <1>3, <1>5, <1>7 DEF Busy, Calm
  <2>2. worker[v].target \in Schedules \ {z}
    BY <1>1, <2>1, Apart DEF Targets
  <2> QED
    BY <1>6, <2>1, <2>2, KeepsSame
<1>8. \A v \in Workers : ~worker'[v].late
  BY <1>3, <1>5 DEF Calm
<1> QED
  BY <1>7, <1>8 DEF Calm

LEMMA CalmBeat ==
    ASSUME Sound, Calm, NEW b \in beats, BeatAnswered(b)
    PROVE  Calm'
<1>1. TypeOK /\ Targets /\ BeatsKnown
  BY DEF Sound
<1>2. b.run \in Workers /\ b.schedule \in Schedules /\ b \in beats
  BY <1>1 DEF TypeOK, Beats
<1>3. Extends(b) \in BOOLEAN /\ worker' = Heard(b, Extends(b))
  BY DEF BeatAnswered, Extends
<1>4. /\ SameWork
      /\ \A w \in Workers : worker'[w].left = worker[w].left /\ worker'[w].late = worker[w].late
  BY <1>1, <1>3, HeardWork
<1>5. ASSUME NEW s \in Schedules
      PROVE  /\ row'[s].token = row[s].token /\ row'[s].age = row[s].age
             /\ row'[s].due = row[s].due
             /\ row'[s].lease = IF Extends(b) /\ s = b.schedule THEN Extended(row[s])
                                                                ELSE row[s].lease
  <2>1. CASE ~(Extends(b) /\ s = b.schedule)
    <3>1. row'[s] = row[s]
      BY <1>1, <1>2, <2>1, Types DEF BeatAnswered
    <3> QED
      BY <2>1, <3>1
  <2>2. CASE Extends(b) /\ s = b.schedule
    <3> DEFINE l == Extended(row[s])
    <3>1. row'[s] = [row[s] EXCEPT !.lease = l] /\ row[s] \in Rows
      BY <1>1, <1>2, <2>2, Types DEF BeatAnswered
    <3> HIDE DEF l
    <3>2. /\ row'[s].token = row[s].token /\ row'[s].age = row[s].age
          /\ row'[s].due = row[s].due /\ row'[s].lease = l
      BY <3>1 DEF Rows
    <3> QED
      BY <2>2, <3>2 DEF l
  <2> QED
    BY <2>1, <2>2
<1>6. ASSUME NEW v \in Workers, Busy(v)'
      PROVE  Keeps(v)'
  <2> DEFINE s == worker[v].target
             r == row[s]
  <2>1. Busy(v) /\ Keeps(v) /\ s \in Schedules
    BY <1>1, <1>4, <1>6 DEF Busy, SameWork, Calm, Targets
  <2>2. r.token = v /\ r.lease > 0 /\ r.age + worker[v].left <= MaxRuntime /\ ~worker[v].lost
        /\ (worker[v].beaten => r.lease = Extended(r))
    BY <2>1 DEF Keeps
  <2>3. r.age \in 0..MaxLease /\ r \in Rows
    BY <1>1, <2>1, Types DEF Rows
  <2>4. r.age < MaxLease
    <3>1. worker[v].left \in 0..MaxRuntime /\ {MaxRuntime, MaxLease} \subseteq Nat
      BY <1>1, WorkerIs, LeaseAssumption
    <3>2. MaxRuntime \in Nat /\ MaxLease \in Nat /\ MaxRuntime < MaxLease
      BY <3>1, LeaseAssumption
    <3> QED
      BY <2>2, <2>3, <3>1, <3>2
  <2>5. row'[s].token = v /\ row'[s].age = r.age
    BY <1>5, <2>1, <2>2
  <2>6. row'[s].lease > 0 /\ (worker[v].beaten => row'[s].lease = Extended(r))
    <3>1. Extended(r) > 0
      BY <2>3, <2>4, ExtendedType, LeaseAssumption
    <3> QED
      BY <1>5, <2>1, <2>2, <3>1
  <2>7. Extended(row'[s]) = Extended(r)
    BY <2>5 DEF Extended
  <2>8. CASE v = b.run /\ worker[v].claim = b.claim
    <3>1. b.schedule = s
      BY <1>2, <1>1, <2>1, <2>8 DEF BeatsKnown
    <3>2. Extends(b)
      BY <2>2, <2>4, <2>8, <3>1 DEF Extends
    <3>3. row'[s].lease = Extended(r)
      BY <1>5, <2>1, <3>1, <3>2
    <3>4. worker'[v].lost = worker[v].lost
      <4> DEFINE q == [worker[v] EXCEPT !.beaten = TRUE,
                                        !.lost = worker[v].lost \/ ~Extends(b)]
      <4>1. worker' = [worker EXCEPT ![v] = q]
        BY <1>3, <2>1, <2>8 DEF Heard, Busy
      <4>2. worker'[v] = q
        BY <1>1, <4>1, Types
      <4>3. worker[v] \in WorkerStates
        BY <1>1, WorkerIs
      <4>4. q.lost = (worker[v].lost \/ ~Extends(b))
        BY <4>3 DEF WorkerStates
      <4> QED
        BY <2>2, <3>2, <4>2, <4>3, <4>4 DEF WorkerStates
    <3>5. /\ worker'[v].target = s /\ worker'[v].left = worker[v].left
      BY <1>4 DEF SameWork
    <3>6. ~worker'[v].lost
      BY <2>2, <3>4
    <3> QED
      BY <2>2, <2>5, <2>6, <2>7, <3>3, <3>5, <3>6 DEF Keeps
  <2>9. CASE ~(v = b.run /\ worker[v].claim = b.claim)
    <3>1. UNCHANGED worker[v]
      BY <1>1, <1>2, <1>3, <2>9, Types DEF Heard
    <3>2. worker'[v].target = s /\ worker'[v].left = worker[v].left
          /\ worker'[v].lost = worker[v].lost /\ worker'[v].beaten = worker[v].beaten
      BY <3>1
    <3> QED
      BY <2>2, <2>5, <2>6, <2>7, <3>2 DEF Keeps
  <2> QED
    BY <2>8, <2>9
<1> QED
  BY <1>4, <1>6 DEF Calm

LEMMA CalmTick ==
    ASSUME Sound, Calm, Tick
    PROVE  Calm'
<1>1. TypeOK /\ Targets
  BY DEF Sound
<1>2. /\ SameWork
      /\ \A w \in Workers : /\ worker'[w].left = Greater(worker[w].left - 1, 0)
                            /\ ~worker'[w].beaten
                            /\ worker'[w].lost = worker[w].lost
                            /\ worker'[w].late = worker[w].late
  BY <1>1, TickWork
<1>3. ASSUME NEW v \in Workers, Busy(v)'
      PROVE  Keeps(v)'
  <2> DEFINE s == worker[v].target
             r == row[s]
  <2>1. Busy(v) /\ Keeps(v) /\ s \in Schedules /\ ~worker[v].late
    BY <1>1, <1>2, <1>3 DEF Busy, SameWork, Calm, Targets
  <2>2. worker[v].pc = "syncing" /\ worker[v].beaten /\ worker[v].left > 0
    <3>1. TickDone(v)
      BY DEF Tick
    <3> QED
      BY <2>1, <3>1 DEF TickDone, Busy
  <2>3. r.token = v /\ r.age + worker[v].left <= MaxRuntime /\ ~worker[v].lost
        /\ r.lease = Extended(r)
    BY <2>1, <2>2 DEF Keeps
  <2>4. r \in Rows /\ r.age \in 0..MaxLease /\ r.lease \in 0..Lease
    BY <1>1, <2>1, Types DEF Rows
  <2>5. /\ worker[v].left \in 0..MaxRuntime
        /\ Lease \in Nat /\ MaxRuntime \in Nat /\ MaxLease \in Nat
        /\ Lease > 1 /\ MaxRuntime < MaxLease
    BY <1>1, WorkerIs, LeaseAssumption
  <2>6. r.lease > 1 /\ r.age + 1 <= MaxLease
    BY <2>2, <2>3, <2>4, <2>5 DEF Extended, Lesser
  <2>7. row'[s] = Later(r)
    BY <2>1 DEF Tick
  <2>8. /\ row'[s].token = v /\ row'[s].lease = Greater(r.lease - 1, 0)
        /\ row'[s].age = Lesser(r.age + 1, MaxLease)
    BY <2>3, <2>4, <2>7, LaterRow, NamesAssumption
  <2>9. row'[s].lease > 0 /\ row'[s].age = r.age + 1
    BY <2>4, <2>5, <2>6, <2>8 DEF Greater, Lesser
  <2>10. worker'[v].left = worker[v].left - 1
    BY <1>2, <2>2, <2>5 DEF Greater
  <2>11. row'[s].age + worker'[v].left <= MaxRuntime
    BY <2>3, <2>4, <2>5, <2>9, <2>10
  <2>12. worker'[v].target = s /\ ~worker'[v].beaten /\ ~worker'[v].lost
    BY <1>2, <2>3 DEF SameWork
  <2> QED
    BY <2>8, <2>9, <2>11, <2>12 DEF Keeps
<1>4. \A w \in Workers : ~worker'[w].late
  BY <1>2 DEF Calm
<1> QED
  BY <1>3, <1>4 DEF Calm

LEMMA CalmSave ==
    ASSUME Sound, Calm, NEW s \in Schedules, Save(s)
    PROVE  Calm'
<1>1. TypeOK /\ Targets
  BY DEF Sound
<1>2. UNCHANGED worker
  BY DEF Save
<1>3. PICK on \in BOOLEAN, slot \in Slots :
        row' = [row EXCEPT ![s] = [@ EXCEPT !.enabled = on, !.slot = slot,
                                            !.due = UntilSlot(slot), !.retries = 0]]
  BY DEF Save
<1> DEFINE u == UntilSlot(slot)
<1>4. row'[s] = [row[s] EXCEPT !.enabled = on, !.slot = slot, !.due = u, !.retries = 0]
  BY <1>1, <1>3, Types
<1>5. u \in Nat \ {0} /\ row[s] \in Rows
  BY <1>1, UntilSlotType, Types
<1>6. \A z \in Schedules \ {s} : row'[z] = row[z]
  BY <1>1, <1>3, Types
<1> HIDE DEF u
<1>7. /\ row'[s].token = row[s].token /\ row'[s].lease = row[s].lease
      /\ row'[s].age = row[s].age /\ row'[s].due = u
  BY <1>4, <1>5 DEF Rows
<1>8. \A z \in Schedules : /\ row'[z].token = row[z].token /\ row'[z].lease = row[z].lease
                           /\ row'[z].age = row[z].age
                           /\ row[z].due > 0 => row'[z].due > 0
  BY <1>5, <1>6, <1>7
<1>9. ASSUME NEW v \in Workers, Busy(v)'
      PROVE  Keeps(v)'
  <2>1. Busy(v) /\ Keeps(v) /\ worker[v].target \in Schedules /\ UNCHANGED worker[v]
    BY <1>1, <1>2, <1>9 DEF Busy, Calm, Targets
  <2> QED
    BY <1>8, <2>1, KeepsSame
<1> QED
  BY <1>2, <1>9 DEF Calm

\* What neither runs nor schedules take part in.
LEMMA CalmSame ==
    ASSUME Calm, UNCHANGED <<worker, row>>
    PROVE  Calm'
BY DEF Busy, Calm, Keeps, Extended

LEMMA UnharmedStep ==
    ASSUME Sound, Unharmed, [Next]_vars
    PROVE  Unharmed'
<1> SUFFICES ASSUME faults' = 0
             PROVE  Calm'
  BY DEF Unharmed, Calm
<1>1. faults \in Nat /\ \A n \in Nat : Charge(n) => n = 0 /\ faults = 0
  BY DEF Sound, TypeOK, Charge
<1>2. CASE \E s \in Schedules : Save(s)
  <2>1. faults = 0
    BY <1>2 DEF Save
  <2> QED
    BY <1>2, <2>1, CalmSave DEF Unharmed, Calm
<1>3. CASE \E w \in Workers : WorkerStep(w)
  <2>1. PICK w \in Workers : WorkerStep(w)
    BY <1>3
  <2>2. ~RecordFails(w) /\ ~Stall(w)
    BY <1>1 DEF RecordFails, Stall
  <2>3. faults = 0
    <3>1. CASE Crash(w)
      BY <1>1, <3>1 DEF Crash
    <3>2. CASE ~Crash(w)
      BY <2>1, <2>2, <3>2 DEF WorkerStep, Start, Claim, Finish, Beat, SyncEnds,
                              RuntimeExceeded, LeaseLost, Record
    <3> QED
      BY <3>1, <3>2
  <2>4. Calm
    BY <2>3 DEF Unharmed, Calm
  <2>5. CASE Beat(w)
    BY <2>4, <2>5, CalmSame DEF Beat
  <2> QED
    BY <2>1, <2>2, <2>3, <2>4, <2>5, CalmOwn, CalmClaim, CalmLost, CalmRecord
    DEF WorkerStep
<1>4. CASE \E b \in beats : BeatAnswered(b)
  <2>1. faults = 0
    BY <1>4 DEF BeatAnswered
  <2> QED
    BY <1>4, <2>1, CalmBeat DEF Unharmed, Calm
<1>5. ~Charge(1)
  BY <1>1
<1>6. ~ \E b \in beats : BeatFailed(b)
  BY <1>5 DEF BeatFailed
<1>7. CASE Tick
  <2>1. faults = 0
    BY <1>7 DEF Tick
  <2> QED
    BY <1>7, <2>1, CalmTick DEF Unharmed, Calm
<1>8. CASE UNCHANGED vars
  <2>1. faults = 0 /\ UNCHANGED <<worker, row>>
    BY <1>8 DEF vars
  <2> QED
    BY <2>1, CalmSame DEF Unharmed, Calm
<1> QED
  BY <1>2, <1>3, <1>4, <1>6, <1>7, <1>8 DEF Next

\* However deadlines, retries, heartbeats and settings cross each other, one
\* dispatcher run at a time is at work on a source as long as no statement was late
\* or failed and no run died.
THEOREM OneRunAlways == Spec => []OneRunAtATime
<1>1. Init => Unharmed
  BY InitHolds
<1>2. Sound /\ Unharmed /\ [Next]_vars => Unharmed'
  BY UnharmedStep
<1>3. ASSUME Sound, Unharmed
      PROVE  OneRunAtATime
  BY <1>3, Apart DEF OneRunAtATime, AtWork, Busy
<1> QED
  BY <1>1, <1>2, <1>3, SoundAlways, PTL DEF Spec
=============================================================================
