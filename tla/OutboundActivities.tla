------------------------- MODULE OutboundActivities -------------------------
(***************************************************************************)
(* The transactional outbox of the ActivityPub package: publishing a       *)
(* report records its Create and Announce activities in the transaction    *)
(* that makes it public (report-publication-outbox.ts); dispatcher runs    *)
(* claim an activity under a lease, work out from the follow rows who      *)
(* followed at the time of the publication (report-delivery.ts), and write *)
(* one queue message per inbox in the transaction that marks the activity  *)
(* processed (postgres-dispatcher.ts).                                     *)
(*                                                                         *)
(* One report of one project.  What happens between two statements of the  *)
(* materializing transaction interleaves: it runs at READ COMMITTED and    *)
(* locks the activity's row only.  The reads of the follow rows and of the *)
(* sender's key are one step.  A counter stands for the timestamps of      *)
(* publications and follow changes; no two of them carry the same instant, *)
(* and a publication carries that of its transaction (the web process      *)
(* reads it shortly before).                                               *)
(* A lease may lapse at any time after the claim and a retry may become    *)
(* due at any time after the failure, so neither needs the clock.  A run   *)
(* works on one activity at a time: its identity stands for the random     *)
(* worker_token of its claim.                                              *)
(*                                                                         *)
(* A definition that stands just before another one and bears its name     *)
(* with a qualifier is a faulty variant of it, which no action uses.       *)
(***************************************************************************)
EXTENDS Integers, FiniteSets

CONSTANTS
    Followers,    \* remote actors
    Inbox,        \* the shared inbox of a follower if it has one, else its own
    Runs,         \* dispatcher runs that may be alive at the same time
    None,         \* SQL NULL in worker_token
    MaxAttempts,  \* DISPATCHER_MAX_ATTEMPTS
    MaxTime,      \* bound: publications and follow changes
    MaxFaults     \* bound: crashes and lapses of a lease in use

ASSUME InboxAssumption   == Inbox = [f \in Followers |-> Inbox[f]]
ASSUME RunsAssumption    == None \notin Runs
ASSUME BoundsAssumption  == /\ MaxAttempts \in Nat \ {0}
                            /\ {MaxTime, MaxFaults} \subseteq Nat

VARIABLES
    now,        \* the last timestamp given out
    site,       \* project visibility, enabled actors, instance configuration
    report,     \* is_public and activitypub_published_at
    follow,     \* accepted_at and undone_at of each follower's two follow rows
    activity,   \* the outbound rows of activitypub_activities
    run,        \* what each dispatcher run has in hand
    queue,      \* the outbox messages, by their dedupe_key
    following,  \* who followed which actor when an activity was recorded
    faults      \* how much of the fault budget is spent

vars == <<now, site, report, follow, activity, run, queue, following, faults>>

Never == 0
Actors == {"project", "aggregate"}
Activities == {"Create", "Announce"}
Representations == {"article", "note"}

Actor(a) == IF a = "Create" THEN "project" ELSE "aggregate"

Site == [visible : BOOLEAN, enabled : SUBSET Actors,
         representation : Representations, locked : BOOLEAN]
Report == [public : BOOLEAN, publishedAt : Nat]
Follow == [accepted : Nat, undone : Nat]
Row == [status : {"absent", "pending", "running", "processed", "failed"},
        due : BOOLEAN, live : BOOLEAN, holder : Runs \cup {None},
        attempts : Nat, occurred : Nat, representation : Representations]
Hand == [step : {"idle", "claimed", "opened", "addressed", "written", "failing"},
         act : Activities, actors : SUBSET Actors,
         recipients : SUBSET Followers, hopeless : BOOLEAN]

TypeOK ==
    /\ now \in Nat
    /\ site \in Site
    /\ report \in Report
    /\ follow \in [Followers -> [Actors -> Follow]]
    /\ activity \in [Activities -> Row]
    /\ run \in [Runs -> Hand]
    /\ \A a \in Activities :
           activity[a].status = "running" <=> activity[a].holder # None
    /\ queue \subseteq Activities \X {Inbox[f] : f \in Followers}
    /\ following \in [Activities -> [Actors -> SUBSET Followers]]
    /\ faults \in Nat

NoRow == [status |-> "absent", due |-> FALSE, live |-> FALSE, holder |-> None,
          attempts |-> 0, occurred |-> Never, representation |-> "article"]
Idle == [step |-> "idle", act |-> "Create", actors |-> {}, recipients |-> {},
         hopeless |-> FALSE]

Init ==
    /\ now = 1
    /\ site \in [visible : BOOLEAN, enabled : SUBSET Actors,
                 representation : {"article"}, locked : {FALSE}]
    /\ report = [public |-> FALSE, publishedAt |-> Never]
    /\ follow = [f \in Followers |-> [k \in Actors |->
                    [accepted |-> Never, undone |-> Never]]]
    /\ activity = [a \in Activities |-> NoRow]
    /\ run = [r \in Runs |-> Idle]
    /\ queue = {}
    /\ following = [a \in Activities |-> [k \in Actors |-> {}]]
    /\ faults = 0

-----------------------------------------------------------------------------
(* Followers, administrators and the web application. *)

RemotelyVisible(k) == k \in site.enabled /\ (k = "project" => site.visible)

\* A Follow with an id of its own is accepted at once, also from an actor that
\* follows already: the row keeps the new time only.
AcceptFollow(f, k) ==
    /\ now < MaxTime
    /\ RemotelyVisible(k)
    /\ now' = now + 1
    /\ follow' = [follow EXCEPT ![f][k] = [accepted |-> now + 1, undone |-> Never]]
    /\ UNCHANGED <<site, report, activity, run, queue, following, faults>>

\* An Undo of the current Follow keeps the time of acceptance.
UndoFollow(f, k) ==
    /\ now < MaxTime
    /\ RemotelyVisible(k)
    /\ follow[f][k].accepted # Never
    /\ follow[f][k].undone = Never
    /\ now' = now + 1
    /\ follow' = [follow EXCEPT ![f][k] = [@ EXCEPT !.undone = now + 1]]
    /\ UNCHANGED <<site, report, activity, run, queue, following, faults>>

SetVisible(b) ==
    /\ site' = [site EXCEPT !.visible = b]
    /\ UNCHANGED <<now, report, follow, activity, run, queue, following, faults>>

\* The actor of a project that is not public cannot be enabled.
EnableActor(k) ==
    /\ k = "project" => site.visible
    /\ site' = [site EXCEPT !.enabled = @ \cup {k}]
    /\ UNCHANGED <<now, report, follow, activity, run, queue, following, faults>>

DisableActor(k) ==
    /\ site' = [site EXCEPT !.enabled = @ \ {k}]
    /\ UNCHANGED <<now, report, follow, activity, run, queue, following, faults>>

RepresentationFree == ~site.locked

SetRepresentation(v) ==
    /\ RepresentationFree
    /\ site' = [site EXCEPT !.representation = v]
    /\ UNCHANGED <<now, report, follow, activity, run, queue, following, faults>>

Withdraw ==
    /\ report' = [report EXCEPT !.public = FALSE]
    /\ UNCHANGED <<now, site, follow, activity, run, queue, following, faults>>

\* A follow row in state accepted.
Follows(w) == w.accepted # Never /\ w.undone = Never

AcceptedAtEver(w, t) == w.accepted # Never /\ (w.undone # Never => w.undone > t)
AcceptedAtStill(w, t) == Follows(w) /\ w.accepted <= t
\* Whether a follow row of now says that its follower followed at time t.
AcceptedAt(w, t) ==
    /\ w.accepted # Never
    /\ w.accepted <= t
    /\ w.undone # Never => w.undone > t

\* The activities a publication records; a second one finds those of the first
\* and leaves them as they are (ON CONFLICT DO NOTHING).
RecordedIfFailed ==
    {a \in Activities : /\ site.visible
                        /\ "project" \in site.enabled
                        /\ Actor(a) \in site.enabled
                        /\ activity[a].status \in {"absent", "failed"}}
Recorded ==
    {a \in Activities : /\ site.visible
                        /\ "project" \in site.enabled
                        /\ Actor(a) \in site.enabled
                        /\ activity[a].status = "absent"}

\* One transaction makes the report public, records its activities and, by the
\* trigger on their table, locks the representation of the instance.
Publish ==
    /\ now < MaxTime
    /\ ~(report.public /\ report.publishedAt # Never)
    /\ now' = now + 1
    /\ report' = [public |-> TRUE, publishedAt |-> now + 1]
    /\ activity' = [a \in Activities |->
           IF a \in Recorded
           THEN [NoRow EXCEPT !.status = "pending", !.due = TRUE,
                              !.occurred = now + 1,
                              !.representation = site.representation]
           ELSE activity[a]]
    /\ site' = [site EXCEPT !.locked = @ \/ Recorded # {}]
    /\ following' = [a \in Activities |->
           IF a \in Recorded
           THEN [k \in Actors |-> {f \in Followers : Follows(follow[f][k])}]
           ELSE following[a]]
    /\ UNCHANGED <<follow, run, queue, faults>>

-----------------------------------------------------------------------------
(* Dispatcher runs. *)

InTransaction(r) == run[r].step \in {"opened", "addressed", "written"}
Locked(a) == \E r \in Runs : InTransaction(r) /\ run[r].act = a
LapsedUnheld(a) == /\ activity[a].status = "running"
                   /\ ~activity[a].live
                   /\ activity[a].holder = None
Lapsed(a) == activity[a].status = "running" /\ ~activity[a].live

\* What the guard of every update of a claimed row asks for.
HeldByAny(r) == activity[run[r].act].status = "running"
Held(r) == LET row == activity[run[r].act]
           IN row.status = "running" /\ row.holder = r /\ row.live

\* Recovery of lapsed rows waits for a transaction that holds one of them.
Claim(r, a) ==
    /\ run[r].step = "idle"
    /\ \A b \in Activities : Lapsed(b) => ~Locked(b)
    /\ \/ activity[a].status = "pending" /\ activity[a].due
       \/ Lapsed(a)
    /\ activity' = [b \in Activities |->
           IF b = a
           THEN [activity[b] EXCEPT !.status = "running", !.due = TRUE, !.live = TRUE,
                                    !.holder = r, !.attempts = @ + 1]
           ELSE IF Lapsed(b)
           THEN [activity[b] EXCEPT !.status = "pending", !.due = TRUE, !.holder = None]
           ELSE activity[b]]
    /\ run' = [run EXCEPT ![r] = [Idle EXCEPT !.step = "claimed", !.act = a]]
    /\ UNCHANGED <<now, site, report, follow, queue, following, faults>>

ReleasedWithToken(row, status) == [row EXCEPT !.status = status, !.live = FALSE]
Released(row, status) ==
    [row EXCEPT !.status = status, !.live = FALSE, !.holder = None]

GiveUp(r, hopeless) ==
    run' = [run EXCEPT ![r] = [@ EXCEPT !.step = "failing", !.hopeless = hopeless]]

\* The transaction opens: it locks the row if the lease still stands, and reads
\* the report.  A run that lost its lease leaves the row alone.
Open(r) ==
    /\ run[r].step = "claimed"
    /\ IF ~Held(r)
       THEN run' = [run EXCEPT ![r] = Idle]
       ELSE IF report.public /\ site.visible
       THEN run' = [run EXCEPT ![r] = [@ EXCEPT !.step = "opened"]]
       ELSE GiveUp(r, TRUE)
    /\ UNCHANGED <<now, site, report, follow, activity, queue, following, faults>>

\* The instance configuration and the enabled actors are read.
ReadActors(r) ==
    /\ run[r].step = "opened"
    /\ IF /\ activity[run[r].act].representation = site.representation
          /\ Actor(run[r].act) \in site.enabled
       THEN run' = [run EXCEPT ![r] =
                      [@ EXCEPT !.step = "addressed", !.actors = site.enabled]]
       ELSE GiveUp(r, TRUE)
    /\ UNCHANGED <<now, site, report, follow, activity, queue, following, faults>>

FollowedAt(k, actors, t) ==
    {f \in Followers : k \in actors /\ AcceptedAt(follow[f][k], t)}

\* Create goes to the followers of the project, Announce to those of the
\* aggregate actor who did not follow the project as well.
Recipients(a, actors) ==
    LET t == activity[a].occurred
    IN IF a = "Create"
       THEN FollowedAt("project", actors, t)
       ELSE FollowedAt("aggregate", actors, t) \ FollowedAt("project", actors, t)

\* The followers of the actors read before are read, and the key of the sender
\* once there is anyone to send to.
ReadAudience(r) ==
    /\ run[r].step = "addressed"
    /\ LET recipients == Recipients(run[r].act, run[r].actors)
       IN IF recipients # {} /\ ~RemotelyVisible(Actor(run[r].act))
          THEN GiveUp(r, TRUE)
          ELSE run' = [run EXCEPT ![r] =
                         [@ EXCEPT !.step = "written", !.recipients = recipients]]
    /\ UNCHANGED <<now, site, report, follow, activity, queue, following, faults>>

Messages(r) == {<<run[r].act, Inbox[f]>> : f \in run[r].recipients}

\* The transaction commits its queue messages together with the outcome, or,
\* when the lease lapsed meanwhile, nothing.
Commit(r) ==
    /\ run[r].step = "written"
    /\ IF Held(r)
       THEN /\ queue' = queue \cup Messages(r)
            /\ activity' = [activity EXCEPT ![run[r].act] = Released(@, "processed")]
       ELSE UNCHANGED <<queue, activity>>
    /\ run' = [run EXCEPT ![r] = Idle]
    /\ UNCHANGED <<now, site, report, follow, following, faults>>

\* A statement of the transaction throws: it rolls back.
Break(r) ==
    /\ run[r].step \in {"claimed", "opened", "addressed", "written"}
    /\ GiveUp(r, FALSE)
    /\ UNCHANGED <<now, site, report, follow, activity, queue, following, faults>>

Spent(row) == row.attempts >= MaxAttempts

\* The outcome of a failure, written only while the lease stands.
RecordFailure(r) ==
    /\ run[r].step = "failing"
    /\ IF Held(r)
       THEN activity' = [activity EXCEPT ![run[r].act] =
                [Released(@, IF run[r].hopeless \/ Spent(@) THEN "failed" ELSE "pending")
                    EXCEPT !.due = FALSE]]
       ELSE UNCHANGED activity
    /\ run' = [run EXCEPT ![r] = Idle]
    /\ UNCHANGED <<now, site, report, follow, queue, following, faults>>

Crash(r) ==
    /\ run[r].step # "idle"
    /\ faults < MaxFaults
    /\ faults' = faults + 1
    /\ run' = [run EXCEPT ![r] = Idle]
    /\ UNCHANGED <<now, site, report, follow, activity, queue, following>>

InUse(a) == \E r \in Runs : run[r].step # "idle" /\ run[r].act = a /\ activity[a].holder = r

Lapse(a) ==
    /\ activity[a].status = "running"
    /\ activity[a].live
    /\ activity' = [activity EXCEPT ![a].live = FALSE]
    /\ IF InUse(a)
       THEN faults < MaxFaults /\ faults' = faults + 1
       ELSE UNCHANGED faults
    /\ UNCHANGED <<now, site, report, follow, run, queue, following>>

BecomeDue(a) ==
    /\ activity[a].status = "pending"
    /\ ~activity[a].due
    /\ activity' = [activity EXCEPT ![a].due = TRUE]
    /\ UNCHANGED <<now, site, report, follow, run, queue, following, faults>>

-----------------------------------------------------------------------------

Surroundings ==
    \/ \E f \in Followers, k \in Actors : AcceptFollow(f, k) \/ UndoFollow(f, k)
    \/ \E b \in BOOLEAN : SetVisible(b)
    \/ \E k \in Actors : EnableActor(k) \/ DisableActor(k)
    \/ \E v \in Representations : SetRepresentation(v)
    \/ Publish \/ Withdraw

Advance(r) ==
    \/ \E a \in Activities : Claim(r, a)
    \/ Open(r) \/ ReadActors(r) \/ ReadAudience(r) \/ Commit(r) \/ RecordFailure(r)

Next ==
    \/ Surroundings
    \/ \E r \in Runs : Advance(r) \/ Break(r) \/ Crash(r)
    \/ \E a \in Activities : Lapse(a) \/ BecomeDue(a)

Spec == Init /\ [][Next]_vars

\* A scheduled dispatcher run always comes, a started one goes on, time passes.
Fairness ==
    /\ \A r \in Runs : WF_vars(Advance(r))
    /\ \A a \in Activities : WF_vars(~InUse(a) /\ Lapse(a)) /\ WF_vars(BecomeDue(a))

FairSpec == Spec /\ Fairness

-----------------------------------------------------------------------------
(* Properties. *)

\* A message waits in the queue only for an activity that is recorded as
\* processed: no lost lease, failure or crash leaves a part of an activity's
\* messages behind (the materializing transaction and its two lease checks).
QueuedIsProcessed == \A m \in queue : activity[m[1]].status = "processed"

\* A message is queued only for an inbox of somebody who followed the sender when
\* the activity was recorded, whoever followed or unfollowed since
\* (wasFollowAcceptedAt over the follow rows of a later time).
NoLateFollower ==
    \A m \in queue : \E f \in following[m[1]][Actor(m[1])] : Inbox[f] = m[2]

\* Who the publication of an activity is for.
Audience(a) == IF a = "Create"
               THEN following[a]["project"]
               ELSE following[a]["aggregate"] \ following[a]["project"]

\* A processed activity was queued for everybody it was for who has not followed
\* anew since the publication, also for those who unfollowed in between
\* (loadFollowAudience, reconstructReportDeliveryRecipients).
AudienceReached ==
    \A a \in Activities : activity[a].status = "processed" =>
        \A f \in Audience(a) :
            follow[f][Actor(a)].accepted <= activity[a].occurred
                => <<a, Inbox[f]>> \in queue

\* An activity carries the representation the instance is configured for, so
\* that no reconfiguration makes it fail or change its kind on the way
\* (the lock taken by the first outbound row).
RepresentationKept ==
    \A a \in Activities : activity[a].status # "absent"
        => activity[a].representation = site.representation

\* While its lease stands, a claimed row changes only by the run that claimed it;
\* one that lost its lease changes nothing for the next (worker_token and
\* lease_expires_at in the guard of every update).
StaleRunHarmless ==
    [][\A a \in Activities :
         activity[a].status = "running" /\ activity[a].live
           => \/ activity'[a] \in {activity[a], [activity[a] EXCEPT !.live = FALSE]}
              \/ \E r \in Runs : /\ activity[a].holder = r
                                 /\ run[r].act = a
                                 /\ run'[r] # run[r]]_vars

\* What was processed or given up stays so, for stale runs, for recovery and for
\* another publication of the report (the guards of the updates; ON CONFLICT).
SettledIsFinal ==
    [][\A a \in Activities : activity[a].status \in {"processed", "failed"}
            => activity'[a] = activity[a]]_vars

\* Every recorded activity ends processed or failed, whatever runs crash, lose
\* their lease or fail (recovery, retries and their limit).
EventuallySettled ==
    \A a \in Activities : activity[a].status \in {"pending", "running"}
        ~> activity[a].status \in {"processed", "failed"}
=============================================================================
