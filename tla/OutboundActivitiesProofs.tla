---------------------- MODULE OutboundActivitiesProofs ----------------------
(***************************************************************************)
(* Proofs about OutboundActivities, for every set of followers, inboxes    *)
(* and dispatcher runs and every value of the bounds.                      *)
(***************************************************************************)
EXTENDS OutboundActivities, TLAPS

\* An absent activity has no history, a recorded one lies in the past and has
\* locked the representation.
RowOK(a) ==
    activity[a].status # "absent" =>
        /\ activity[a].occurred <= now
        /\ activity[a].representation = site.representation
        /\ site.locked

\* A follow row tells of the past.
FollowOK(f, k) == follow[f][k].accepted <= now /\ follow[f][k].undone <= now

\* What the follow rows tell about the time of the publication: nobody is taken
\* for a follower who was none, and only a renewed follow hides one who was.
HistoryOK(a) ==
    activity[a].status # "absent" =>
        \A k \in Actors, f \in Followers :
            /\ AcceptedAt(follow[f][k], activity[a].occurred) => f \in following[a][k]
            /\ f \in following[a][k] =>
                  \/ AcceptedAt(follow[f][k], activity[a].occurred)
                  \/ follow[f][k].accepted > activity[a].occurred

\* What a run has worked out about the activity it has in hand.
HandOK(r) ==
    LET a == run[r].act
    IN /\ run[r].step # "idle" => activity[a].status # "absent"
       /\ run[r].step = "addressed" => Actor(a) \in run[r].actors
       /\ run[r].step = "written" =>
             /\ run[r].recipients \subseteq following[a][Actor(a)]
             /\ \A f \in Audience(a) :
                   follow[f][Actor(a)].accepted <= activity[a].occurred
                       => f \in run[r].recipients

\* The inductive invariant.
OutboundInv ==
    /\ TypeOK
    /\ \A a \in Activities : RowOK(a) /\ HistoryOK(a)
    /\ \A f \in Followers, k \in Actors : FollowOK(f, k)
    /\ \A r \in Runs : HandOK(r)
    /\ QueuedIsProcessed
    /\ NoLateFollower
    /\ AudienceReached
-----------------------------------------------------------------------------
(* Rows and hands. *)

\* Every step changes a row in one of these ways.
RowStep(a) ==
    \/ activity'[a] = activity[a]
    \/ /\ activity[a].status = "absent"
       /\ activity'[a] = [NoRow EXCEPT !.status = "pending", !.due = TRUE,
                                       !.occurred = now + 1,
                                       !.representation = site.representation]
       /\ Publish /\ a \in Recorded
    \/ /\ activity[a].status = "pending" \/ Lapsed(a)
       /\ \E r \in Runs :
             activity'[a] = [activity[a] EXCEPT !.status = "running", !.due = TRUE,
                                !.live = TRUE, !.holder = r, !.attempts = @ + 1]
    \/ /\ Lapsed(a)
       /\ activity'[a] = [activity[a] EXCEPT !.status = "pending", !.due = TRUE,
                                             !.holder = None]
    \/ \E r \in Runs :
          /\ run[r].act = a /\ Held(r) /\ run[r].step = "written" /\ Commit(r)
          /\ activity'[a] = Released(activity[a], "processed")
    \/ \E r \in Runs :
          /\ run[r].act = a /\ Held(r) /\ run[r].step = "failing"
          /\ run' = [run EXCEPT ![r] = Idle]
          /\ \E s \in {"pending", "failed"} :
                activity'[a] = [Released(activity[a], s) EXCEPT !.due = FALSE]
    \/ /\ activity[a].status = "running"
       /\ activity'[a] = [activity[a] EXCEPT !.live = FALSE]
    \/ /\ activity[a].status = "pending"
       /\ activity'[a] = [activity[a] EXCEPT !.due = TRUE]

LEMMA RowsStep ==
    ASSUME TypeOK, Next, NEW a \in Activities
    PROVE  RowStep(a)
<1> USE DEF TypeOK
<1>1. ASSUME Publish PROVE RowStep(a)
  BY <1>1 DEF Publish, Recorded, RowStep
<1>2. ASSUME NEW r \in Runs, NEW b \in Activities, Claim(r, b) PROVE RowStep(a)
  BY <1>2 DEF Claim, RowStep
<1>3. ASSUME NEW r \in Runs, Commit(r) PROVE RowStep(a)
  BY <1>3 DEF Commit, RowStep
<1>4. ASSUME NEW r \in Runs, RecordFailure(r) PROVE RowStep(a)
  <2> DEFINE s == IF run[r].hopeless \/ Spent(activity[run[r].act])
                  THEN "failed" ELSE "pending"
  <2>1. CASE Held(r)
    <3>1. activity' = [activity EXCEPT ![run[r].act] =
                          [Released(activity[run[r].act], s) EXCEPT !.due = FALSE]]
      BY <1>4, <2>1 DEF RecordFailure
    <3>2. run[r].step = "failing" /\ run' = [run EXCEPT ![r] = Idle]
      BY <1>4 DEF RecordFailure
    <3>3. s \in {"pending", "failed"}
      OBVIOUS
    <3> HIDE DEF s
    <3> QED
      BY <2>1, <3>1, <3>2, <3>3 DEF RowStep
  <2>2. CASE ~Held(r)
    BY <1>4, <2>2 DEF RecordFailure, RowStep
  <2> QED
    BY <2>1, <2>2
<1>5. ASSUME NEW b \in Activities, Lapse(b) \/ BecomeDue(b) PROVE RowStep(a)
  BY <1>5 DEF Lapse, BecomeDue, RowStep
<1>6. ASSUME activity' = activity PROVE RowStep(a)
  BY <1>6 DEF RowStep
<1> QED
  BY <1>1, <1>2, <1>3, <1>4, <1>5, <1>6
     DEF Next, Surroundings, Advance, AcceptFollow, UndoFollow, SetVisible, EnableActor,
         DisableActor, SetRepresentation, Withdraw, Open, ReadActors, ReadAudience,
         Break, Crash
-----------------------------------------------------------------------------
(* Types. *)

LEMMA RowsType ==
    ASSUME TypeOK, Next
    PROVE  /\ activity' \in [Activities -> Row]
           /\ \A a \in Activities :
                 activity'[a].status = "running" <=> activity'[a].holder # None
<1>1. activity' = [a \in Activities |-> activity'[a]]
  BY DEF TypeOK, Next, Surroundings, Advance, AcceptFollow, UndoFollow, SetVisible,
         EnableActor, DisableActor, SetRepresentation, Withdraw, Publish, Claim, Open,
         ReadActors, ReadAudience, Commit, Break, RecordFailure, Crash, Lapse, BecomeDue
<1>2. ASSUME NEW a \in Activities
      PROVE  /\ activity'[a] \in Row
             /\ activity'[a].status = "running" <=> activity'[a].holder # None
  <2>1. /\ activity[a] \in Row /\ now + 1 \in Nat
        /\ site.representation \in Representations
        /\ activity[a].status = "running" <=> activity[a].holder # None
    BY DEF TypeOK, Site
  <2>2. RowStep(a)
    BY RowsStep
  <2>3. \A r \in Runs : r # None
    BY RunsAssumption
  <2>4. CASE activity'[a] = activity[a]
    BY <2>1, <2>4
  <2>5. CASE activity'[a] = [NoRow EXCEPT !.status = "pending", !.due = TRUE,
                                !.occurred = now + 1,
                                !.representation = site.representation]
    <3>1. activity'[a] \in Row
      <4> DEFINE t == now + 1
                 v == site.representation
      <4>1. t \in Nat /\ v \in Representations
        BY <2>1
      <4>2. activity'[a] = [NoRow EXCEPT !.status = "pending", !.due = TRUE,
                               !.occurred = t, !.representation = v]
        BY <2>5
      <4> HIDE DEF t, v
      <4>3. [NoRow EXCEPT !.status = "pending", !.due = TRUE,
                          !.occurred = t, !.representation = v] \in Row
        BY <4>1 DEF Row, NoRow
      <4> QED
        BY <4>2, <4>3
    <3>2. activity'[a].status = "pending" /\ activity'[a].holder = None
      BY <2>5 DEF NoRow
    <3> QED
      BY <3>1, <3>2
  <2>6. ASSUME NEW r \in Runs,
               activity'[a] = [activity[a] EXCEPT !.status = "running", !.due = TRUE,
                                  !.live = TRUE, !.holder = r, !.attempts = @ + 1]
        PROVE  activity'[a] \in Row /\ activity'[a].status = "running"
                                   /\ activity'[a].holder # None
    <3>1. activity'[a] \in Row
      <4> DEFINE n == activity[a].attempts + 1
      <4>1. n \in Nat
        BY <2>1 DEF Row
      <4>2. activity'[a] = [activity[a] EXCEPT !.status = "running", !.due = TRUE,
                               !.live = TRUE, !.holder = r, !.attempts = n]
        BY <2>6
      <4> HIDE DEF n
      <4> QED
        BY <2>1, <4>1, <4>2 DEF Row
    <3> QED
      BY <2>1, <2>3, <2>6, <3>1 DEF Row
  <2>7. CASE activity'[a] = [activity[a] EXCEPT !.status = "pending", !.due = TRUE,
                                               !.holder = None]
    BY <2>1, <2>7 DEF Row
  <2>8. CASE activity'[a] = Released(activity[a], "processed")
    BY <2>1, <2>8 DEF Row, Released
  <2>9. ASSUME NEW s \in {"pending", "failed"},
               activity'[a] = [Released(activity[a], s) EXCEPT !.due = FALSE]
        PROVE  activity'[a] \in Row /\ activity'[a].status = s
                                   /\ activity'[a].holder = None
    BY <2>1, <2>9 DEF Row, Released
  <2>10. CASE /\ activity[a].status = "running"
              /\ activity'[a] = [activity[a] EXCEPT !.live = FALSE]
    BY <2>1, <2>10 DEF Row
  <2>11. CASE /\ activity[a].status = "pending"
              /\ activity'[a] = [activity[a] EXCEPT !.due = TRUE]
    BY <2>1, <2>11 DEF Row
  <2> QED
    BY <2>2, <2>4, <2>5, <2>6, <2>7, <2>8, <2>9, <2>10, <2>11 DEF RowStep
<1> QED
  BY <1>1, <1>2

LEMMA HandsType ==
    ASSUME TypeOK, Next
    PROVE  run' \in [Runs -> Hand]
<1> USE DEF TypeOK
<1>1. ASSUME NEW r \in Runs, NEW h \in Hand, run' = [run EXCEPT ![r] = h]
      PROVE  run' \in [Runs -> Hand]
  BY <1>1
<1>2. Idle \in Hand
  BY DEF Hand, Idle, Activities
<1>3. ASSUME NEW r \in Runs, NEW b \in BOOLEAN, GiveUp(r, b)
      PROVE  run' \in [Runs -> Hand]
  <2>1. [run[r] EXCEPT !.step = "failing", !.hopeless = b] \in Hand
    BY DEF Hand
  <2> QED
    BY <1>1, <1>3, <2>1 DEF GiveUp
<1>4. ASSUME NEW r \in Runs, NEW a \in Activities, Claim(r, a)
      PROVE  run' \in [Runs -> Hand]
  <2>1. [Idle EXCEPT !.step = "claimed", !.act = a] \in Hand
    BY DEF Hand, Idle
  <2> QED
    BY <1>1, <1>4, <2>1 DEF Claim
<1>5. ASSUME NEW r \in Runs, Open(r) PROVE run' \in [Runs -> Hand]
  <2>1. [run[r] EXCEPT !.step = "opened"] \in Hand
    BY DEF Hand
  <2> QED
    BY <1>1, <1>2, <1>3, <1>5, <2>1 DEF Open
<1>6. ASSUME NEW r \in Runs, ReadActors(r) PROVE run' \in [Runs -> Hand]
  <2>1. CASE GiveUp(r, TRUE)
    BY <1>3, <2>1
  <2>2. CASE run' = [run EXCEPT ![r] =
                       [@ EXCEPT !.step = "addressed", !.actors = site.enabled]]
    <3>1. [run[r] EXCEPT !.step = "addressed", !.actors = site.enabled] \in Hand
      BY DEF Hand, Site
    <3> QED
      BY <1>1, <2>2, <3>1
  <2> QED
    BY <1>6, <2>1, <2>2 DEF ReadActors
<1>7. ASSUME NEW r \in Runs, ReadAudience(r) PROVE run' \in [Runs -> Hand]
  <2> DEFINE F == Recipients(run[r].act, run[r].actors)
  <2>1. F \subseteq Followers
    BY DEF Recipients, FollowedAt
  <2> HIDE DEF F
  <2>2. CASE GiveUp(r, TRUE)
    BY <1>3, <2>2
  <2>3. CASE run' = [run EXCEPT ![r] =
                       [@ EXCEPT !.step = "written", !.recipients = F]]
    <3>1. [run[r] EXCEPT !.step = "written", !.recipients = F] \in Hand
      BY <2>1 DEF Hand
    <3> QED
      BY <1>1, <2>3, <3>1
  <2> QED
    BY <1>7, <2>2, <2>3 DEF ReadAudience, F
<1>8. ASSUME NEW r \in Runs, Commit(r) \/ RecordFailure(r) \/ Crash(r)
      PROVE  run' \in [Runs -> Hand]
  BY <1>1, <1>2, <1>8 DEF Commit, RecordFailure, Crash
<1>9. ASSUME NEW r \in Runs, Break(r) PROVE run' \in [Runs -> Hand]
  BY <1>3, <1>9 DEF Break
<1>10. CASE UNCHANGED run
  BY <1>10
<1> QED
  BY <1>4, <1>5, <1>6, <1>7, <1>8, <1>9, <1>10
     DEF Next, Surroundings, Advance, AcceptFollow, UndoFollow, SetVisible, EnableActor,
         DisableActor, SetRepresentation, Withdraw, Publish, Lapse, BecomeDue

LEMMA TypeStep ==
    ASSUME TypeOK, Next
    PROVE  TypeOK'
<1> USE DEF TypeOK
<1>1. now' \in Nat
  <2>1. now' \in {now, now + 1}
    BY DEF Next, Surroundings, Advance, AcceptFollow, UndoFollow, SetVisible,
           EnableActor, DisableActor, SetRepresentation, Withdraw, Publish, Claim, Open,
           ReadActors, ReadAudience, Commit, Break, RecordFailure, Crash, Lapse, BecomeDue
  <2> QED
    BY <2>1
<1>2. faults' \in Nat
  <2>1. faults' \in {faults, faults + 1}
    BY DEF Next, Surroundings, Advance, AcceptFollow, UndoFollow, SetVisible,
           EnableActor, DisableActor, SetRepresentation, Withdraw, Publish, Claim, Open,
           ReadActors, ReadAudience, Commit, Break, RecordFailure, Crash, Lapse, BecomeDue
  <2> QED
    BY <2>1
<1>3. report' \in Report
  <2>1. CASE Publish
    BY <2>1 DEF Publish, Report
  <2>2. CASE Withdraw
    BY <2>2 DEF Withdraw, Report
  <2>3. CASE UNCHANGED report
    BY <2>3
  <2> QED
    BY <2>1, <2>2, <2>3
       DEF Next, Surroundings, Advance, AcceptFollow, UndoFollow, SetVisible,
           EnableActor, DisableActor, SetRepresentation, Claim, Open, ReadActors,
           ReadAudience, Commit, Break, RecordFailure, Crash, Lapse, BecomeDue
<1>6. site' \in Site
  <2>1. ASSUME NEW b \in BOOLEAN, SetVisible(b) PROVE site' \in Site
    BY <2>1 DEF SetVisible, Site
  <2>2. ASSUME NEW k \in Actors, EnableActor(k) \/ DisableActor(k) PROVE site' \in Site
    <3>1. ASSUME NEW E \in SUBSET Actors, site' = [site EXCEPT !.enabled = E]
          PROVE  site' \in Site
      BY <3>1 DEF Site
    <3>2. CASE EnableActor(k)
      <4>1. site.enabled \cup {k} \in SUBSET Actors
        BY DEF Site
      <4> QED
        BY <3>1, <3>2, <4>1 DEF EnableActor
    <3>3. CASE DisableActor(k)
      <4>1. site.enabled \ {k} \in SUBSET Actors
        BY DEF Site
      <4> QED
        BY <3>1, <3>3, <4>1 DEF DisableActor
    <3> QED
      BY <2>2, <3>2, <3>3
  <2>3. ASSUME NEW v \in Representations, SetRepresentation(v) PROVE site' \in Site
    BY <2>3 DEF SetRepresentation, Site
  <2>4. CASE Publish
    <3> DEFINE b == site.locked \/ Recorded # {}
    <3>1. site' = [site EXCEPT !.locked = b] /\ b \in BOOLEAN
      BY <2>4 DEF Publish, Site
    <3> HIDE DEF b
    <3> QED
      BY <3>1 DEF Site
  <2>5. CASE UNCHANGED site
    BY <2>5
  <2> QED
    BY <2>1, <2>2, <2>3, <2>4, <2>5
       DEF Next, Surroundings, Advance, AcceptFollow, UndoFollow, Withdraw, Claim, Open,
           ReadActors, ReadAudience, Commit, Break, RecordFailure, Crash, Lapse, BecomeDue
<1>7. follow' \in [Followers -> [Actors -> Follow]]
  <2>1. ASSUME NEW f \in Followers, NEW k \in Actors, NEW w \in Follow,
               follow' = [follow EXCEPT ![f][k] = w]
        PROVE  follow' \in [Followers -> [Actors -> Follow]]
    BY <2>1
  <2>2. ASSUME NEW f \in Followers, NEW k \in Actors, AcceptFollow(f, k)
        PROVE  follow' \in [Followers -> [Actors -> Follow]]
    <3>1. [accepted |-> now + 1, undone |-> Never] \in Follow
      BY DEF Follow, Never
    <3> QED
      BY <2>1, <2>2, <3>1 DEF AcceptFollow
  <2>3. ASSUME NEW f \in Followers, NEW k \in Actors, UndoFollow(f, k)
        PROVE  follow' \in [Followers -> [Actors -> Follow]]
    <3>1. follow' = [follow EXCEPT ![f][k] = [@ EXCEPT !.undone = now + 1]]
      BY <2>3 DEF UndoFollow
    <3>2. [follow[f][k] EXCEPT !.undone = now + 1] \in Follow
      BY DEF Follow
    <3> QED
      BY <2>1, <3>1, <3>2
  <2>4. CASE UNCHANGED follow
    BY <2>4
  <2> QED
    BY <2>2, <2>3, <2>4
       DEF Next, Surroundings, Advance, SetVisible, EnableActor, DisableActor,
           SetRepresentation, Withdraw, Publish, Claim, Open, ReadActors, ReadAudience,
           Commit, Break, RecordFailure, Crash, Lapse, BecomeDue
<1>4. queue' \subseteq Activities \X {Inbox[f] : f \in Followers}
  <2>1. ASSUME NEW r \in Runs, Commit(r)
        PROVE  queue' \subseteq Activities \X {Inbox[f] : f \in Followers}
    <3>1. run[r].act \in Activities /\ run[r].recipients \subseteq Followers
      BY DEF Hand
    <3> QED
      BY <2>1, <3>1 DEF Commit, Messages
  <2>2. CASE UNCHANGED queue
    BY <2>2
  <2> QED
    BY <2>1, <2>2
       DEF Next, Surroundings, Advance, AcceptFollow, UndoFollow, SetVisible,
           EnableActor, DisableActor, SetRepresentation, Withdraw, Publish, Claim, Open,
           ReadActors, ReadAudience, Break, RecordFailure, Crash, Lapse, BecomeDue
<1>5. following' \in [Activities -> [Actors -> SUBSET Followers]]
  <2>1. CASE Publish
    BY <2>1 DEF Publish
  <2>2. CASE UNCHANGED following
    BY <2>2
  <2> QED
    BY <2>1, <2>2
       DEF Next, Surroundings, Advance, AcceptFollow, UndoFollow, SetVisible,
           EnableActor, DisableActor, SetRepresentation, Withdraw, Claim, Open, Commit,
           ReadActors, ReadAudience, Break, RecordFailure, Crash, Lapse, BecomeDue
<1> QED
  BY <1>1, <1>2, <1>3, <1>4, <1>5, <1>6, <1>7, RowsType, HandsType
-----------------------------------------------------------------------------
(* What a step keeps. *)

\* A recorded activity keeps its time and representation; one is recorded only
\* by a publication; a settled one stays as it is.
LEMMA RowKept ==
    ASSUME TypeOK, Next, NEW a \in Activities
    PROVE  /\ activity[a].status # "absent" =>
                 /\ activity'[a].status # "absent"
                 /\ activity'[a].occurred = activity[a].occurred
                 /\ activity'[a].representation = activity[a].representation
           /\ activity[a].status = "absent" /\ activity'[a].status # "absent" =>
                 /\ Publish /\ a \in Recorded
                 /\ activity'[a].occurred = now + 1
                 /\ activity'[a].representation = site.representation
           /\ activity[a].status \in {"processed", "failed"} => activity'[a] = activity[a]
           /\ activity'[a].status = "processed" =>
                 \/ activity[a].status = "processed"
                 \/ \E r \in Runs : run[r].act = a /\ Held(r) /\ Commit(r)
<1>1. activity[a] \in Row
  BY DEF TypeOK
<1>2. RowStep(a)
  BY RowsStep
<1>3. CASE activity'[a] = activity[a]
  BY <1>3
<1>4. CASE /\ activity[a].status = "absent"
           /\ activity'[a] = [NoRow EXCEPT !.status = "pending", !.due = TRUE,
                                 !.occurred = now + 1,
                                 !.representation = site.representation]
           /\ Publish /\ a \in Recorded
  BY <1>4 DEF NoRow
<1>5. ASSUME activity[a].status = "pending" \/ Lapsed(a), NEW r \in Runs,
             activity'[a] = [activity[a] EXCEPT !.status = "running", !.due = TRUE,
                                !.live = TRUE, !.holder = r, !.attempts = @ + 1]
      PROVE  /\ activity[a].status \notin {"absent", "processed", "failed"}
             /\ activity'[a].status = "running"
             /\ activity'[a].occurred = activity[a].occurred
             /\ activity'[a].representation = activity[a].representation
  BY <1>1, <1>5 DEF Row, Lapsed
<1>6. CASE /\ Lapsed(a)
           /\ activity'[a] = [activity[a] EXCEPT !.status = "pending", !.due = TRUE,
                                                 !.holder = None]
  BY <1>1, <1>6 DEF Row, Lapsed
<1>7. ASSUME NEW r \in Runs, run[r].act = a, Held(r), Commit(r),
             activity'[a] = Released(activity[a], "processed")
      PROVE  /\ activity[a].status = "running"
             /\ activity'[a].status = "processed"
             /\ activity'[a].occurred = activity[a].occurred
             /\ activity'[a].representation = activity[a].representation
  BY <1>1, <1>7 DEF Row, Held, Released
<1>8. ASSUME NEW r \in Runs, run[r].act = a, Held(r), NEW s \in {"pending", "failed"},
             activity'[a] = [Released(activity[a], s) EXCEPT !.due = FALSE]
      PROVE  /\ activity[a].status = "running"
             /\ activity'[a].status = s
             /\ activity'[a].occurred = activity[a].occurred
             /\ activity'[a].representation = activity[a].representation
  BY <1>1, <1>8 DEF Row, Held, Released
<1>9. CASE /\ activity[a].status = "running"
           /\ activity'[a] = [activity[a] EXCEPT !.live = FALSE]
  BY <1>1, <1>9 DEF Row
<1>10. CASE /\ activity[a].status = "pending"
            /\ activity'[a] = [activity[a] EXCEPT !.due = TRUE]
  BY <1>1, <1>10 DEF Row
<1> QED
  BY <1>2, <1>3, <1>4, <1>5, <1>6, <1>7, <1>8, <1>9, <1>10 DEF RowStep

\* Once locked, the representation stays; time does not go back.
LEMMA SiteStep ==
    ASSUME TypeOK, Next
    PROVE  /\ site.locked => site'.locked /\ site'.representation = site.representation
           /\ Publish => site'.representation = site.representation
           /\ now' \in {now, now + 1}
<1> USE DEF TypeOK, Site
<1>1. now' \in {now, now + 1}
  BY DEF Next, Surroundings, Advance, AcceptFollow, UndoFollow, SetVisible,
         EnableActor, DisableActor, SetRepresentation, Withdraw, Publish, Claim, Open,
         ReadActors, ReadAudience, Commit, Break, RecordFailure, Crash, Lapse, BecomeDue
<1>2. ASSUME NEW b \in BOOLEAN, SetVisible(b)
      PROVE  site'.locked = site.locked /\ site'.representation = site.representation
  BY <1>2 DEF SetVisible
<1>3. ASSUME NEW k \in Actors, EnableActor(k) \/ DisableActor(k)
      PROVE  site'.locked = site.locked /\ site'.representation = site.representation
  BY <1>3 DEF EnableActor, DisableActor
<1>4. ASSUME NEW v \in Representations, SetRepresentation(v) PROVE ~site.locked
  BY <1>4 DEF SetRepresentation, RepresentationFree
<1>5. ASSUME Publish
      PROVE  /\ site.locked => site'.locked
             /\ site'.representation = site.representation
  BY <1>5 DEF Publish
<1>6. Publish \/ UNCHANGED site \/ (\E b \in BOOLEAN : SetVisible(b))
      \/ (\E k \in Actors : EnableActor(k) \/ DisableActor(k))
      \/ (\E v \in Representations : SetRepresentation(v))
  BY DEF Next, Surroundings, Advance, AcceptFollow, UndoFollow, Withdraw, Claim, Open,
         ReadActors, ReadAudience, Commit, Break, RecordFailure, Crash, Lapse, BecomeDue
<1>7. ASSUME Publish, site.locked
      PROVE  site'.locked /\ site'.representation = site.representation
  BY <1>5, <1>7
<1> QED
  <2>1. Publish => site'.representation = site.representation
    BY <1>5
  <2>2. site.locked => site'.locked /\ site'.representation = site.representation
    BY <1>2, <1>3, <1>4, <1>6, <1>7
  <2> QED
    BY <1>1, <2>1, <2>2

\* A follow row is renewed with a new time, ended with a new time, or kept.
LEMMA FollowStep ==
    ASSUME TypeOK, Next, NEW f \in Followers, NEW k \in Actors
    PROVE  \/ follow'[f][k] = follow[f][k]
           \/ /\ follow'[f][k].accepted = now + 1
              /\ follow'[f][k].undone = Never
              /\ now' = now + 1
           \/ /\ follow'[f][k].accepted = follow[f][k].accepted
              /\ follow[f][k].undone = Never
              /\ follow'[f][k].undone = now + 1
              /\ now' = now + 1
<1> USE DEF TypeOK
<1>1. ASSUME NEW g \in Followers, NEW l \in Actors, AcceptFollow(g, l)
      PROVE  \/ follow'[f][k] = follow[f][k]
             \/ /\ follow'[f][k].accepted = now + 1
                /\ follow'[f][k].undone = Never
                /\ now' = now + 1
  <2>1. /\ follow' = [follow EXCEPT ![g][l] = [accepted |-> now + 1, undone |-> Never]]
        /\ now' = now + 1
    BY <1>1 DEF AcceptFollow
  <2>2. CASE f = g /\ k = l
    <3>1. follow'[f][k] = [accepted |-> now + 1, undone |-> Never]
      BY <2>1, <2>2
    <3> QED
      BY <2>1, <3>1
  <2>3. CASE f # g \/ k # l
    BY <2>1, <2>3
  <2> QED
    BY <2>2, <2>3
<1>2. ASSUME NEW g \in Followers, NEW l \in Actors, UndoFollow(g, l)
      PROVE  \/ follow'[f][k] = follow[f][k]
             \/ /\ follow'[f][k].accepted = follow[f][k].accepted
                /\ follow[f][k].undone = Never
                /\ follow'[f][k].undone = now + 1
                /\ now' = now + 1
  <2>1. /\ follow' = [follow EXCEPT ![g][l] = [@ EXCEPT !.undone = now + 1]]
        /\ follow[g][l].undone = Never
        /\ now' = now + 1
    BY <1>2 DEF UndoFollow
  <2>2. CASE f = g /\ k = l
    <3>1. follow'[f][k] = [follow[f][k] EXCEPT !.undone = now + 1]
      BY <2>1, <2>2
    <3>2. follow[f][k] \in Follow
      OBVIOUS
    <3> QED
      BY <2>1, <2>2, <3>1, <3>2 DEF Follow
  <2>3. CASE f # g \/ k # l
    BY <2>1, <2>3
  <2> QED
    BY <2>2, <2>3
<1>3. CASE UNCHANGED follow
  BY <1>3
<1> QED
  BY <1>1, <1>2, <1>3
     DEF Next, Surroundings, Advance, SetVisible, EnableActor, DisableActor,
         SetRepresentation, Withdraw, Publish, Claim, Open, ReadActors, ReadAudience,
         Commit, Break, RecordFailure, Crash, Lapse, BecomeDue

\* Who followed at the time of a recorded activity is not rewritten.
LEMMA FollowingStep ==
    ASSUME TypeOK, Next, NEW a \in Activities
    PROVE  /\ activity[a].status # "absent" => following'[a] = following[a]
           /\ Publish /\ a \in Recorded => \A k \in Actors :
                 following'[a][k] = {f \in Followers : Follows(follow[f][k])}
<1> USE DEF TypeOK
<1>1. ASSUME Publish, a \in Recorded
      PROVE  /\ activity[a].status = "absent"
             /\ \A k \in Actors :
                   following'[a][k] = {f \in Followers : Follows(follow[f][k])}
  BY <1>1 DEF Publish, Recorded
<1>2. ASSUME Publish, a \notin Recorded PROVE following'[a] = following[a]
  BY <1>2 DEF Publish
<1>3. ASSUME ~Publish PROVE following'[a] = following[a]
  BY <1>3
     DEF Next, Surroundings, Advance, AcceptFollow, UndoFollow, SetVisible, EnableActor,
         DisableActor, SetRepresentation, Withdraw, Claim, Open, ReadActors,
         ReadAudience, Commit, Break, RecordFailure, Crash, Lapse, BecomeDue
<1> QED
  BY <1>1, <1>2, <1>3

\* How a step changes what a run has in hand.
LEMMA HandStep ==
    ASSUME TypeOK, Next, NEW r \in Runs
    PROVE  \/ run'[r] = run[r]
           \/ run'[r].step = "idle"
           \/ /\ run'[r].step = "claimed"
              /\ activity'[run'[r].act].status = "running"
           \/ /\ run[r].step # "idle"
              /\ run'[r].act = run[r].act
              /\ \/ run'[r].step \in {"opened", "failing"}
                 \/ /\ run'[r].step = "addressed"
                    /\ Actor(run[r].act) \in run'[r].actors
                 \/ /\ run'[r].step = "written"
                    /\ run[r].step = "addressed"
                    /\ run'[r].recipients = Recipients(run[r].act, run[r].actors)
                    /\ UNCHANGED <<follow, activity, following>>
<1> USE DEF TypeOK
<1>1. ASSUME NEW q \in Runs, NEW b \in BOOLEAN, GiveUp(q, b), run[q].step # "idle"
      PROVE  \/ run'[r] = run[r]
             \/ /\ run[r].step # "idle"
                /\ run'[r].act = run[r].act
                /\ run'[r].step = "failing"
  BY <1>1 DEF GiveUp, Hand
<1>2. ASSUME NEW q \in Runs, run' = [run EXCEPT ![q] = Idle]
      PROVE  run'[r] = run[r] \/ run'[r].step = "idle"
  BY <1>2 DEF Idle
<1>3. ASSUME NEW q \in Runs, NEW a \in Activities, Claim(q, a)
      PROVE  \/ run'[r] = run[r]
             \/ /\ run'[r].step = "claimed"
                /\ activity'[run'[r].act].status = "running"
  <2>1. run' = [run EXCEPT ![q] = [Idle EXCEPT !.step = "claimed", !.act = a]]
    BY <1>3 DEF Claim
  <2>2. activity'[a] = [activity[a] EXCEPT !.status = "running", !.due = TRUE,
                           !.live = TRUE, !.holder = q, !.attempts = @ + 1]
    BY <1>3 DEF Claim
  <2>3. activity[a] \in Row
    OBVIOUS
  <2>4. activity'[a].status = "running"
    BY <2>2, <2>3 DEF Row
  <2> QED
    BY <2>1, <2>4 DEF Idle
<1>4. ASSUME NEW q \in Runs, Open(q)
      PROVE  \/ run'[r] = run[r]
             \/ run'[r].step = "idle"
             \/ /\ run[r].step # "idle"
                /\ run'[r].act = run[r].act
                /\ run'[r].step \in {"opened", "failing"}
  <2>1. CASE run' = [run EXCEPT ![q] = [@ EXCEPT !.step = "opened"]]
    BY <1>4, <2>1 DEF Open, Hand
  <2> QED
    BY <1>1, <1>2, <1>4, <2>1 DEF Open
<1>5. ASSUME NEW q \in Runs, ReadActors(q)
      PROVE  \/ run'[r] = run[r]
             \/ /\ run[r].step # "idle"
                /\ run'[r].act = run[r].act
                /\ \/ run'[r].step = "failing"
                   \/ /\ run'[r].step = "addressed"
                      /\ Actor(run[r].act) \in run'[r].actors
  <2>1. CASE GiveUp(q, TRUE)
    BY <1>1, <1>5, <2>1 DEF ReadActors
  <2>2. CASE /\ Actor(run[q].act) \in site.enabled
             /\ run' = [run EXCEPT ![q] =
                          [@ EXCEPT !.step = "addressed", !.actors = site.enabled]]
    <3>1. run[q].step # "idle"
      BY <1>5 DEF ReadActors
    <3>2. run[q] \in Hand
      OBVIOUS
    <3> QED
      BY <2>2, <3>1, <3>2 DEF Hand
  <2> QED
    BY <1>5, <2>1, <2>2 DEF ReadActors
<1>6. ASSUME NEW q \in Runs, ReadAudience(q)
      PROVE  \/ run'[r] = run[r]
             \/ /\ run[r].step # "idle"
                /\ run'[r].act = run[r].act
                /\ \/ run'[r].step = "failing"
                   \/ /\ run'[r].step = "written"
                      /\ run[r].step = "addressed"
                      /\ run'[r].recipients = Recipients(run[r].act, run[r].actors)
                      /\ UNCHANGED <<follow, activity, following>>
  <2> DEFINE F == Recipients(run[q].act, run[q].actors)
  <2>1. /\ run[q].step = "addressed"
        /\ UNCHANGED <<follow, activity, following>>
        /\ \/ GiveUp(q, TRUE)
           \/ run' = [run EXCEPT ![q] = [@ EXCEPT !.step = "written", !.recipients = F]]
    BY <1>6 DEF ReadAudience
  <2> HIDE DEF F
  <2>2. CASE GiveUp(q, TRUE)
    BY <1>1, <2>1, <2>2
  <2>3. CASE run' = [run EXCEPT ![q] = [@ EXCEPT !.step = "written", !.recipients = F]]
    <3>1. run[q] \in Hand
      OBVIOUS
    <3>2. CASE r # q
      BY <2>3, <3>2
    <3>3. CASE r = q
      <4>1. run'[r] = [run[r] EXCEPT !.step = "written", !.recipients = F]
        BY <2>3, <3>3
      <4>2. run'[r].step = "written" /\ run'[r].recipients = F /\ run'[r].act = run[r].act
        BY <3>1, <3>3, <4>1 DEF Hand
      <4> QED
        BY <2>1, <3>3, <4>2 DEF F
    <3> QED
      BY <3>2, <3>3
  <2> QED
    BY <2>1, <2>2, <2>3
<1>7. ASSUME NEW q \in Runs, Commit(q) \/ RecordFailure(q) \/ Crash(q)
      PROVE  run'[r] = run[r] \/ run'[r].step = "idle"
  BY <1>2, <1>7 DEF Commit, RecordFailure, Crash
<1>8. ASSUME NEW q \in Runs, Break(q)
      PROVE  \/ run'[r] = run[r]
             \/ /\ run[r].step # "idle"
                /\ run'[r].act = run[r].act
                /\ run'[r].step = "failing"
  BY <1>1, <1>8 DEF Break
<1>9. CASE UNCHANGED run
  BY <1>9
<1> QED
  BY <1>3, <1>4, <1>5, <1>6, <1>7, <1>8, <1>9
     DEF Next, Surroundings, Advance, AcceptFollow, UndoFollow, SetVisible, EnableActor,
         DisableActor, SetRepresentation, Withdraw, Publish, Lapse, BecomeDue

\* Messages leave the queue for nobody and enter it by a commit that was in time.
LEMMA QueueStep ==
    ASSUME Next
    PROVE  /\ queue \subseteq queue'
           /\ \/ queue' = queue
              \/ \E r \in Runs : /\ run[r].step = "written"
                                 /\ Held(r) /\ Commit(r)
                                 /\ queue' = queue \cup Messages(r)
<1>1. ASSUME NEW r \in Runs, Commit(r)
      PROVE  \/ queue' = queue
             \/ run[r].step = "written" /\ Held(r) /\ queue' = queue \cup Messages(r)
  BY <1>1 DEF Commit
<1> QED
  BY <1>1
     DEF Next, Surroundings, Advance, AcceptFollow, UndoFollow, SetVisible, EnableActor,
         DisableActor, SetRepresentation, Withdraw, Publish, Claim, Open, ReadActors,
         ReadAudience, Break, RecordFailure, Crash, Lapse, BecomeDue
-----------------------------------------------------------------------------
(* The parts of the invariant, one by one. *)

LEMMA RowOKStep ==
    ASSUME TypeOK, Next, NEW a \in Activities, RowOK(a)
    PROVE  RowOK(a)'
<1> USE DEF TypeOK
<1>1. SUFFICES ASSUME activity'[a].status # "absent"
               PROVE  /\ activity'[a].occurred <= now'
                      /\ activity'[a].representation = site'.representation
                      /\ site'.locked
  BY DEF RowOK
<1>2. CASE activity[a].status # "absent"
  <2>1. activity[a].occurred \in Nat
    BY DEF Row
  <2> QED
    BY <1>2, <2>1, RowKept, SiteStep DEF RowOK
<1>3. CASE activity[a].status = "absent"
  <2>1. /\ Publish /\ a \in Recorded
        /\ activity'[a].occurred = now + 1
        /\ activity'[a].representation = site.representation
    BY <1>1, <1>3, RowKept
  <2>2. now' = now + 1 /\ site' = [site EXCEPT !.locked = @ \/ Recorded # {}]
    BY <2>1 DEF Publish
  <2>3. site'.locked /\ site'.representation = site.representation
    BY <2>1, <2>2 DEF Site
  <2> QED
    BY <2>1, <2>2, <2>3
<1> QED
  BY <1>2, <1>3

LEMMA FollowOKStep ==
    ASSUME TypeOK, Next, NEW f \in Followers, NEW k \in Actors, FollowOK(f, k)
    PROVE  FollowOK(f, k)'
<1>1. /\ follow[f][k].accepted \in Nat /\ follow[f][k].undone \in Nat
      /\ now \in Nat /\ now' \in {now, now + 1}
  BY SiteStep DEF TypeOK, Follow
<1> QED
  BY <1>1, FollowStep DEF FollowOK, Never

LEMMA HistoryOKStep ==
    ASSUME TypeOK, Next, NEW a \in Activities, RowOK(a), HistoryOK(a),
           \A f \in Followers, k \in Actors : FollowOK(f, k)
    PROVE  HistoryOK(a)'
<1>1. SUFFICES ASSUME activity'[a].status # "absent",
                      NEW k \in Actors, NEW f \in Followers
               PROVE  /\ AcceptedAt(follow'[f][k], activity'[a].occurred)
                            => f \in following'[a][k]
                      /\ f \in following'[a][k] =>
                            \/ AcceptedAt(follow'[f][k], activity'[a].occurred)
                            \/ follow'[f][k].accepted > activity'[a].occurred
  BY DEF HistoryOK
<1>2. /\ follow[f][k].accepted \in Nat /\ follow[f][k].undone \in Nat
      /\ now \in Nat /\ activity[a].occurred \in Nat
  BY DEF TypeOK, Follow, Row
<1>3. CASE activity[a].status # "absent"
  <2>1. following'[a] = following[a] /\ activity'[a].occurred = activity[a].occurred
    BY <1>3, RowKept, FollowingStep
  <2>2. activity[a].occurred <= now
    BY <1>3 DEF RowOK
  <2>3. /\ AcceptedAt(follow[f][k], activity[a].occurred) => f \in following[a][k]
        /\ f \in following[a][k] =>
              \/ AcceptedAt(follow[f][k], activity[a].occurred)
              \/ follow[f][k].accepted > activity[a].occurred
    BY <1>3 DEF HistoryOK
  <2>4. CASE follow'[f][k] = follow[f][k]
    BY <2>1, <2>3, <2>4
  <2>5. CASE follow'[f][k].accepted = now + 1
    BY <1>2, <2>1, <2>2, <2>5 DEF AcceptedAt
  <2>6. CASE /\ follow'[f][k].accepted = follow[f][k].accepted
             /\ follow[f][k].undone = Never
             /\ follow'[f][k].undone = now + 1
    BY <1>2, <2>1, <2>2, <2>3, <2>6 DEF AcceptedAt
  <2> QED
    BY <2>4, <2>5, <2>6, FollowStep
<1>4. CASE activity[a].status = "absent"
  <2>1. Publish /\ a \in Recorded /\ activity'[a].occurred = now + 1
    BY <1>1, <1>4, RowKept
  <2>2. follow' = follow /\ following'[a][k] = {g \in Followers : Follows(follow[g][k])}
    BY <2>1, FollowingStep DEF Publish
  <2>3. FollowOK(f, k)
    OBVIOUS
  <2>4. AcceptedAt(follow[f][k], now + 1) <=> Follows(follow[f][k])
    BY <1>2, <2>3 DEF AcceptedAt, Follows, FollowOK, Never
  <2> QED
    BY <2>1, <2>2, <2>4
<1> QED
  BY <1>3, <1>4

\* What a run works out from the follow rows of now is right for then.
LEMMA RecipientsRight ==
    ASSUME TypeOK, NEW a \in Activities, activity[a].status # "absent", HistoryOK(a),
           NEW actors \in SUBSET Actors, Actor(a) \in actors
    PROVE  /\ Recipients(a, actors) \subseteq following[a][Actor(a)]
           /\ \A f \in Audience(a) :
                 follow[f][Actor(a)].accepted <= activity[a].occurred
                     => f \in Recipients(a, actors)
<1>1. /\ activity[a].occurred \in Nat
      /\ \A f \in Followers, k \in Actors : follow[f][k].accepted \in Nat
      /\ \A k \in Actors : following[a][k] \subseteq Followers
      /\ "project" \in Actors /\ "aggregate" \in Actors
  BY DEF TypeOK, Row, Follow, Actors
<1>2. \A k \in Actors, f \in Followers :
         /\ AcceptedAt(follow[f][k], activity[a].occurred) => f \in following[a][k]
         /\ f \in following[a][k] =>
               \/ AcceptedAt(follow[f][k], activity[a].occurred)
               \/ follow[f][k].accepted > activity[a].occurred
  BY DEF HistoryOK
<1>3. CASE a = "Create"
  BY <1>1, <1>2, <1>3 DEF Recipients, FollowedAt, Audience, Actor
<1>4. CASE a = "Announce"
  <2>1. Actor(a) = "aggregate" /\ Audience(a) = following[a]["aggregate"] \ following[a]["project"]
    BY <1>4 DEF Actor, Audience
  <2>2. Recipients(a, actors) =
           FollowedAt("aggregate", actors, activity[a].occurred)
              \ FollowedAt("project", actors, activity[a].occurred)
    BY <1>4 DEF Recipients
  <2> QED
    BY <1>1, <1>2, <2>1, <2>2 DEF FollowedAt
<1> QED
  BY <1>3, <1>4 DEF Activities

LEMMA HandOKStep ==
    ASSUME TypeOK, Next, NEW r \in Runs, HandOK(r),
           \A a \in Activities : RowOK(a) /\ HistoryOK(a)
    PROVE  HandOK(r)'
<1>0. run[r].act \in Activities /\ run'[r].act \in Activities
  BY TypeStep DEF TypeOK, Hand
<1> SUFFICES ASSUME NEW a \in Activities, a = run[r].act,
                    NEW b \in Activities, b = run'[r].act
             PROVE  HandOK(r)'
  BY <1>0
<1>1. /\ a \in Activities /\ b \in Activities
      /\ run[r].actors \in SUBSET Actors
      /\ now \in Nat
      /\ \A c \in Activities : activity[c].occurred \in Nat
      /\ \A f \in Followers, k \in Actors : follow[f][k].accepted \in Nat
      /\ \A c \in Activities : Actor(c) \in Actors
      /\ \A c \in Activities : Audience(c) \subseteq Followers
  BY DEF TypeOK, Hand, Row, Follow, Actor, Audience, Actors, Activities
<1>2. \A c \in Activities : activity[c].status # "absent" =>
         /\ activity'[c].status # "absent"
         /\ activity'[c].occurred = activity[c].occurred
         /\ following'[c] = following[c]
         /\ activity[c].occurred <= now
  BY RowKept, FollowingStep DEF RowOK
<1>3. /\ run[r].step # "idle" => activity[a].status # "absent"
      /\ run[r].step = "addressed" => Actor(a) \in run[r].actors
      /\ run[r].step = "written" =>
            /\ run[r].recipients \subseteq following[a][Actor(a)]
            /\ \A f \in Audience(a) :
                  follow[f][Actor(a)].accepted <= activity[a].occurred
                      => f \in run[r].recipients
  BY DEF HandOK
<1>4. SUFFICES
         /\ run'[r].step # "idle" => activity'[b].status # "absent"
         /\ run'[r].step = "addressed" => Actor(b) \in run'[r].actors
         /\ run'[r].step = "written" =>
               /\ run'[r].recipients \subseteq following'[b][Actor(b)]
               /\ \A f \in Audience(b)' :
                     follow'[f][Actor(b)].accepted <= activity'[b].occurred
                         => f \in run'[r].recipients
  BY DEF HandOK, Audience
<1>5. CASE run'[r] = run[r]
  <2>1. a = b
    BY <1>5
  <2>2. CASE run[r].step # "written"
    BY <1>2, <1>3, <1>1, <1>5, <2>1, <2>2
  <2>3. CASE run[r].step = "written"
    <3>1. Audience(b)' = Audience(a)
      BY <1>1, <1>2, <1>3, <2>1, <2>3 DEF Audience
    <3>2. ASSUME NEW f \in Audience(a),
                 follow'[f][Actor(a)].accepted <= activity[a].occurred
          PROVE  f \in run[r].recipients
      <4>1. f \in Followers /\ Actor(a) \in Actors
        BY <1>1
      <4>2. follow'[f][Actor(a)].accepted \in {follow[f][Actor(a)].accepted, now + 1}
        BY <4>1, FollowStep
      <4>3. activity[a].occurred <= now
        BY <1>1, <1>2, <1>3, <2>3
      <4>4. follow[f][Actor(a)].accepted <= activity[a].occurred
        BY <1>1, <3>2, <4>1, <4>2, <4>3
      <4> QED
        BY <1>3, <2>3, <4>4
    <3> QED
      BY <1>1, <1>2, <1>3, <1>5, <2>1, <2>3, <3>1, <3>2
  <2> QED
    BY <2>2, <2>3
<1>6. CASE run'[r].step = "idle"
  BY <1>6
<1>7. CASE run'[r].step = "claimed" /\ activity'[b].status = "running"
  BY <1>7
<1>8. CASE /\ run[r].step # "idle" /\ b = a
           /\ run'[r].step \in {"opened", "failing"}
  BY <1>1, <1>2, <1>3, <1>8
<1>9. CASE /\ run[r].step # "idle" /\ b = a
           /\ run'[r].step = "addressed" /\ Actor(a) \in run'[r].actors
  BY <1>1, <1>2, <1>3, <1>9
<1>10. CASE /\ run[r].step = "addressed" /\ b = a
            /\ run'[r].step = "written"
            /\ run'[r].recipients = Recipients(a, run[r].actors)
            /\ UNCHANGED <<follow, activity, following>>
  <2>1. /\ Recipients(a, run[r].actors) \subseteq following[a][Actor(a)]
        /\ \A f \in Audience(a) :
              follow[f][Actor(a)].accepted <= activity[a].occurred
                  => f \in Recipients(a, run[r].actors)
    BY <1>1, <1>3, <1>10, RecipientsRight
  <2>2. Audience(b)' = Audience(a)
    BY <1>10 DEF Audience
  <2> QED
    BY <1>3, <1>10, <2>1, <2>2
<1> QED
  BY <1>5, <1>6, <1>7, <1>8, <1>9, <1>10, HandStep

LEMMA QueuedIsProcessedStep ==
    ASSUME TypeOK, Next, QueuedIsProcessed
    PROVE  QueuedIsProcessed'
<1>1. SUFFICES ASSUME NEW m \in queue' PROVE activity'[m[1]].status = "processed"
  BY DEF QueuedIsProcessed
<1>2. CASE m \in queue
  <2>1. m[1] \in Activities /\ activity[m[1]].status = "processed"
    BY <1>2 DEF TypeOK, QueuedIsProcessed
  <2> QED
    BY <2>1, RowKept
<1>3. ASSUME NEW r \in Runs, Held(r), Commit(r), m \in Messages(r)
      PROVE  activity'[m[1]].status = "processed"
  <2>1. run[r].act \in Activities /\ activity[run[r].act] \in Row
    BY DEF TypeOK, Hand
  <2>2. activity'[run[r].act] = Released(activity[run[r].act], "processed")
    BY <1>3, <2>1 DEF Commit, TypeOK
  <2>3. m[1] = run[r].act
    BY <1>3 DEF Messages
  <2> QED
    BY <2>1, <2>2, <2>3 DEF Released, Row
<1> QED
  BY <1>1, <1>2, <1>3, QueueStep

LEMMA NoLateFollowerStep ==
    ASSUME TypeOK, Next, QueuedIsProcessed, NoLateFollower, \A r \in Runs : HandOK(r)
    PROVE  NoLateFollower'
<1>1. SUFFICES ASSUME NEW m \in queue'
               PROVE  \E f \in following'[m[1]][Actor(m[1])] : Inbox[f] = m[2]
  BY DEF NoLateFollower
<1>2. CASE m \in queue
  <2>1. m[1] \in Activities /\ activity[m[1]].status = "processed"
    BY <1>2 DEF TypeOK, QueuedIsProcessed
  <2>2. following'[m[1]] = following[m[1]]
    BY <2>1, FollowingStep
  <2> QED
    BY <1>2, <2>2 DEF NoLateFollower
<1>3. ASSUME NEW r \in Runs, run[r].step = "written", Commit(r), m \in Messages(r)
      PROVE  \E f \in following'[m[1]][Actor(m[1])] : Inbox[f] = m[2]
  <2>1. PICK f \in run[r].recipients : m = <<run[r].act, Inbox[f]>>
    BY <1>3 DEF Messages
  <2>2. f \in following[run[r].act][Actor(run[r].act)]
    BY <1>3, <2>1 DEF HandOK
  <2>3. following' = following
    BY <1>3 DEF Commit
  <2> QED
    BY <2>1, <2>2, <2>3
<1> QED
  BY <1>1, <1>2, <1>3, QueueStep

LEMMA AudienceReachedStep ==
    ASSUME TypeOK, Next, AudienceReached, \A r \in Runs : HandOK(r),
           \A a \in Activities : RowOK(a)
    PROVE  AudienceReached'
<1>1. SUFFICES ASSUME NEW a \in Activities, activity'[a].status = "processed",
                      NEW f \in Audience(a)',
                      follow'[f][Actor(a)].accepted <= activity'[a].occurred
               PROVE  <<a, Inbox[f]>> \in queue'
  BY DEF AudienceReached
<1>2. CASE activity[a].status = "processed"
  <2>1. /\ following'[a] = following[a]
        /\ activity'[a].occurred = activity[a].occurred
        /\ activity[a].occurred <= now
    BY <1>2, RowKept, FollowingStep DEF RowOK
  <2>2. f \in Audience(a)
    BY <2>1 DEF Audience
  <2>3. f \in Followers /\ Actor(a) \in Actors
    BY <2>2 DEF Audience, TypeOK, Actor, Actors
  <2>4. follow'[f][Actor(a)].accepted \in {follow[f][Actor(a)].accepted, now + 1}
    BY <2>3, FollowStep
  <2>5. activity[a].occurred \in Nat /\ now \in Nat
    BY DEF TypeOK, Row
  <2>6. follow[f][Actor(a)].accepted <= activity[a].occurred
    BY <1>1, <2>1, <2>4, <2>5
  <2> QED
    BY <1>2, <2>2, <2>6, QueueStep DEF AudienceReached
<1>3. ASSUME NEW r \in Runs, run[r].act = a, Held(r), Commit(r)
      PROVE  <<a, Inbox[f]>> \in queue'
  <2>1. /\ run[r].step = "written"
        /\ queue' = queue \cup Messages(r)
        /\ follow' = follow /\ following' = following
    BY <1>3 DEF Commit
  <2>2. activity'[a].occurred = activity[a].occurred
    <3>1. activity[a].status # "absent"
      BY <1>3, <2>1 DEF HandOK
    <3> QED
      BY <3>1, RowKept
  <2>3. f \in Audience(a)
    BY <2>1 DEF Audience
  <2>4. f \in run[r].recipients
    BY <1>1, <1>3, <2>1, <2>2, <2>3 DEF HandOK
  <2> QED
    BY <1>3, <2>1, <2>4 DEF Messages
<1> QED
  BY <1>1, <1>2, <1>3, RowKept

LEMMA OutboundStep ==
    ASSUME OutboundInv, [Next]_vars
    PROVE  OutboundInv'
<1>1. CASE Next
  <2>1. TypeOK'
    BY <1>1, TypeStep DEF OutboundInv
  <2>2. \A a \in Activities : (RowOK(a) /\ HistoryOK(a))'
    BY <1>1, RowOKStep, HistoryOKStep DEF OutboundInv
  <2>3. \A f \in Followers, k \in Actors : FollowOK(f, k)'
    BY <1>1, FollowOKStep DEF OutboundInv
  <2>4. \A r \in Runs : HandOK(r)'
    BY <1>1, HandOKStep DEF OutboundInv
  <2>5. QueuedIsProcessed' /\ NoLateFollower' /\ AudienceReached'
    BY <1>1, QueuedIsProcessedStep, NoLateFollowerStep, AudienceReachedStep
       DEF OutboundInv
  <2> QED
    BY <2>1, <2>2, <2>3, <2>4, <2>5 DEF OutboundInv
<1>2. CASE UNCHANGED vars
  BY <1>2
     DEF vars, OutboundInv, TypeOK, RowOK, HistoryOK, FollowOK, HandOK, Audience,
         QueuedIsProcessed, NoLateFollower, AudienceReached
<1> QED
  BY <1>1, <1>2

LEMMA OutboundInit == Init => OutboundInv
<1> SUFFICES ASSUME Init PROVE OutboundInv
  OBVIOUS
<1> USE DEF Init
<1>1. NoRow \in Row /\ NoRow.status = "absent" /\ NoRow.holder = None
  BY DEF NoRow, Row, Representations, Never
<1>2. Idle \in Hand /\ Idle.step = "idle"
  BY DEF Idle, Hand, Activities
<1>3. [accepted |-> Never, undone |-> Never] \in Follow
  BY DEF Follow, Never
<1>4. TypeOK
  <2>1. site \in Site
    BY DEF Site, Representations
  <2>2. report \in Report
    BY DEF Report, Never
  <2> QED
    BY <1>1, <1>2, <1>3, <2>1, <2>2 DEF TypeOK
<1>5. \A a \in Activities : RowOK(a) /\ HistoryOK(a)
  BY <1>1 DEF RowOK, HistoryOK
<1>6. \A f \in Followers, k \in Actors : FollowOK(f, k)
  BY DEF FollowOK, Never
<1>7. \A r \in Runs : HandOK(r)
  BY <1>2 DEF HandOK
<1>8. QueuedIsProcessed /\ NoLateFollower /\ AudienceReached
  BY <1>1 DEF QueuedIsProcessed, NoLateFollower, AudienceReached
<1> QED
  BY <1>4, <1>5, <1>6, <1>7, <1>8 DEF OutboundInv
-----------------------------------------------------------------------------
(* Theorems. *)

\* The state keeps its types, the follow rows never lose who followed at the time
\* of a publication except by a renewed follow, and a run's recipients are among
\* those who did.
THEOREM OutboundInvariant == Spec => []OutboundInv
  BY OutboundInit, OutboundStep, PTL DEF Spec

\* Every table row and every run's hand keeps its shape, and a row has a
\* worker_token exactly while it is running.
THEOREM OutboundTypeCorrect == Spec => []TypeOK
<1>1. OutboundInv => TypeOK
  BY DEF OutboundInv
<1> QED
  BY <1>1, OutboundInvariant, PTL

\* No message is in the queue for an activity that is not recorded as processed.
THEOREM QueuedIsProcessedCorrect == Spec => []QueuedIsProcessed
<1>1. OutboundInv => QueuedIsProcessed
  BY DEF OutboundInv
<1> QED
  BY <1>1, OutboundInvariant, PTL

\* No message is queued for the inbox of nobody who followed the sender when the
\* activity was recorded.
THEOREM NoLateFollowerCorrect == Spec => []NoLateFollower
<1>1. OutboundInv => NoLateFollower
  BY DEF OutboundInv
<1> QED
  BY <1>1, OutboundInvariant, PTL

\* A processed activity was queued for everybody it was for, whoever unfollowed
\* since; only a renewed follow can hide a follower.
THEOREM AudienceReachedCorrect == Spec => []AudienceReached
<1>1. OutboundInv => AudienceReached
  BY DEF OutboundInv
<1> QED
  BY <1>1, OutboundInvariant, PTL

\* The representation of a recorded activity is the one the instance is
\* configured for, for good.
THEOREM RepresentationKeptCorrect == Spec => []RepresentationKept
<1>1. OutboundInv => RepresentationKept
  BY DEF OutboundInv, RowOK, RepresentationKept
<1> QED
  BY <1>1, OutboundInvariant, PTL

\* No step changes an activity that was processed or given up.
THEOREM SettledIsFinalCorrect == Spec => SettledIsFinal
<1> DEFINE Final == \A a \in Activities :
                activity[a].status \in {"processed", "failed"} => activity'[a] = activity[a]
<1>1. OutboundInv /\ [Next]_vars => [Final]_vars
  <2> SUFFICES ASSUME OutboundInv, Next PROVE Final
    OBVIOUS
  <2> QED
    BY RowKept DEF OutboundInv
<1> QED
  BY <1>1, OutboundInvariant, PTL DEF Spec, SettledIsFinal

\* No run changes a row that is claimed under a lease that still stands, but the
\* one that claimed it.
THEOREM StaleRunHarmlessCorrect == Spec => StaleRunHarmless
<1> DEFINE Harmless ==
        \A a \in Activities :
            activity[a].status = "running" /\ activity[a].live
              => \/ activity'[a] \in {activity[a], [activity[a] EXCEPT !.live = FALSE]}
                 \/ \E r \in Runs : /\ activity[a].holder = r
                                    /\ run[r].act = a
                                    /\ run'[r] # run[r]
<1>1. OutboundInv /\ [Next]_vars => [Harmless]_vars
  <2> SUFFICES ASSUME OutboundInv, Next, NEW a \in Activities,
                      activity[a].status = "running", activity[a].live
               PROVE  \/ activity'[a] \in {activity[a], [activity[a] EXCEPT !.live = FALSE]}
                      \/ \E r \in Runs : /\ activity[a].holder = r
                                         /\ run[r].act = a
                                         /\ run'[r] # run[r]
    OBVIOUS
  <2>1. RowStep(a) /\ ~Lapsed(a)
    BY RowsStep DEF OutboundInv, Lapsed
  <2>2. ASSUME NEW r \in Runs, Held(r), run[r].act = a,
               run[r].step \in {"written", "failing"}, run' = [run EXCEPT ![r] = Idle]
        PROVE  activity[a].holder = r /\ run[r].act = a /\ run'[r] # run[r]
    <3>1. run'[r].step = "idle"
      BY <2>2 DEF OutboundInv, TypeOK, Idle
    <3> QED
      BY <2>2, <3>1 DEF Held
  <2>3. ASSUME NEW r \in Runs, Held(r), run[r].act = a, run[r].step = "written", Commit(r)
        PROVE  activity[a].holder = r /\ run[r].act = a /\ run'[r] # run[r]
    BY <2>2, <2>3 DEF Commit
  <2> QED
    BY <2>1, <2>2, <2>3 DEF RowStep
<1> QED
  BY <1>1, OutboundInvariant, PTL DEF Spec, StaleRunHarmless
=============================================================================
