-------------------------- MODULE SourceCollection --------------------------
(***************************************************************************)
(* What a data source's checkpoint (data_sources.last_sync_succeeded_at)   *)
(* promises.  A collector lists the items of an external service that      *)
(* changed since the checkpoint less an overlap, newest first and page by  *)
(* page, stores each version it does not know, and moves the checkpoint to *)
(* the present if all of that went well.  Meanwhile items change, which    *)
(* moves them to the front of the list, and other collectors of the same   *)
(* data source run (a dispatcher's job beside the administration page).    *)
(*                                                                         *)
(* kind is what is listed: pull requests ("pulls") or issues ("issues") of *)
(* a GitHub repository, files of a Drive folder ("drive"), threads of a    *)
(* Gmail account by their newest message ("gmail").  Instants are numbered *)
(* so that no two changes share one, 0 is SQL NULL.                        *)
(*                                                                         *)
(* A definition that stands just before another one and bears its name     *)
(* with a qualifier is a faulty variant that the specification does not    *)
(* use: it shows which property would catch that fault.                    *)
(***************************************************************************)
EXTENDS Integers, FiniteSets

CONSTANTS
    Kinds,        \* the kinds of data source that are considered
    Items,        \* what the service may hold
    Configured,   \* the items the data source selects at first
    PageSize,
    ListMax,      \* DEFAULT_MAX_PULL_REQUESTS
    Limits,       \* the limits collectors are called with, 0 for none
    Overlap,      \* of one scan with the time before the checkpoint
    Collectors,
    MaxTime,      \* bound: instants
    MaxEdits,     \* bound: changes of the configuration
    MaxFaults     \* bound: failed candidates and collectors that stop

ASSUME KindAssumption  == Kinds \subseteq {"pulls", "issues", "drive", "gmail"}
ASSUME ItemAssumption  == IsFiniteSet(Items) /\ Configured \subseteq Items
ASSUME PageAssumption  == {PageSize, ListMax} \subseteq Nat \ {0}
ASSUME LimitAssumption == Limits \subseteq Nat
ASSUME TimeAssumption  == Overlap \in Nat
ASSUME BoundAssumption == {MaxTime, MaxEdits, MaxFaults} \subseteq Nat

VARIABLES
    kind,
    now,
    at,         \* the instant at which each item last changed, 0: it does not exist
    stored,     \* the items whose present version has its raw_documents row
    scope,      \* the items that the configuration of the data source selects
    synced,     \* last_sync_succeeded_at
    collector,  \* what each collector has in hand
    passed,     \* the items that a checkpoint has passed over (see Complete and Widen)
    edits, faults   \* how much of the budgets is spent

vars == <<kind, now, at, stored, scope, synced, collector, passed, edits, faults>>

-----------------------------------------------------------------------------
(* State. *)

\* began: the instant of its start; since, limit, scope: what it was started
\* with; listed: the length of the list; seen: when each candidate had changed last
\* as it was listed, 0 for what is none; left: what the list leaves out.
CollectorStates ==
    [pc : {"idle", "listing", "building"}, began : Nat, since : Nat, limit : Nat,
     scope : SUBSET Items, page : Nat, listed : Nat, seen : [Items -> Nat],
     todo : SUBSET Items, left : SUBSET Items, failed : BOOLEAN]

IdleCollector ==
    [pc |-> "idle", began |-> 0, since |-> 0, limit |-> 0, scope |-> {}, page |-> 0,
     listed |-> 0, seen |-> [x \in Items |-> 0], todo |-> {}, left |-> {}, failed |-> FALSE]

TypeOK == /\ kind \in Kinds
          /\ now \in Nat /\ synced \in 0..now
          /\ at \in [Items -> 0..now]
          /\ stored \subseteq {x \in Items : at[x] > 0}
          /\ scope \subseteq Items /\ passed \subseteq Items
          /\ collector \in [Collectors -> CollectorStates]
          /\ edits \in Nat /\ faults \in Nat

Init == /\ kind \in Kinds
        /\ now = 0
        /\ at = [x \in Items |-> 0]
        /\ stored = {} /\ scope = Configured /\ synced = 0
        /\ collector = [c \in Collectors |-> IdleCollector]
        /\ passed = {} /\ edits = 0 /\ faults = 0

-----------------------------------------------------------------------------
(* The service and the clock. *)

\* An item appears or changes.
Change(x) ==
    /\ now < MaxTime
    /\ now' = now + 1
    /\ at' = [at EXCEPT ![x] = now + 1]
    /\ stored' = stored \ {x}
    /\ passed' = passed \ {x}
    /\ UNCHANGED <<kind, scope, synced, collector, edits, faults>>

Tick ==
    /\ now < MaxTime
    /\ now' = now + 1
    /\ UNCHANGED <<kind, at, stored, scope, synced, collector, passed, edits, faults>>

-----------------------------------------------------------------------------
(* The configuration.  It is saved without a look at the checkpoint: what it *)
(* newly selects counts as passed over if one was set, or may be by a        *)
(* collector that has read the configuration before.                         *)

SaveConfiguration(selected) ==
    /\ edits < MaxEdits /\ edits' = edits + 1
    /\ selected # scope /\ scope' = selected
    /\ passed' = IF synced = 0 /\ \A c \in Collectors : collector[c].pc = "idle"
                 THEN passed ELSE passed \cup (selected \ scope)
    /\ UNCHANGED <<kind, now, at, stored, synced, collector, faults>>

-----------------------------------------------------------------------------
(* Listing. *)

\* incrementalScanSince, at a checkpoint of instant t.
SinceUnclamped(t) == t - Overlap
Since(t) == IF t > Overlap THEN t - Overlap ELSE 0

\* GitHub's updates are compared with >= (filterPullRequestsSince), those of
\* Google's services with > (driveQuery).
Matches(x, since) == IF kind \in {"pulls", "issues"} THEN at[x] >= since ELSE at[x] > since

\* The list of a collector's items, newest first.
Held(c) == {x \in collector[c].scope : at[x] > 0}
Place(c, x) == Cardinality({y \in Held(c) : at[y] > at[x]})

Start(c, limit) ==
    /\ collector[c].pc = "idle"
    /\ collector' = [collector EXCEPT ![c] =
                       [IdleCollector EXCEPT !.pc = "listing", !.began = now,
                                             !.since = Since(synced), !.limit = limit,
                                             !.scope = scope]]
    /\ UNCHANGED <<kind, now, at, stored, scope, synced, passed, edits, faults>>

\* Pages are cut from the list as it is when they are asked for.
Skipped(c) == collector[c].page * PageSize
Page(c) == {x \in Held(c) : Place(c, x) \in Skipped(c)..(Skipped(c) + PageSize - 1)}
Matching(c) == {x \in Page(c) : Matches(x, collector[c].since)}

\* Pull requests end with a page that has older ones or is not full, the other
\* lists with the last one that matches.
ListExhausted(c) ==
    IF kind = "pulls"
    THEN Matching(c) # Page(c) \/ Cardinality(Held(c)) < Skipped(c) + PageSize
    ELSE \A x \in Held(c) : Matches(x, collector[c].since) =>
                               Place(c, x) < Skipped(c) + PageSize

\* At most so many are listed, duplicates included: maxPullRequests of
\* listPullRequests, limit of the others.
Capped(c) == kind = "pulls" \/ collector[c].limit > 0
Lesser(m, n) == IF m < n THEN m ELSE n
Cap(c) == LET limit == collector[c].limit IN
          IF kind = "pulls" THEN (IF limit = 0 THEN ListMax ELSE Lesser(limit, ListMax))
                            ELSE limit

\* slice(0, Cap - listed) of what matches
IsSlice(c, taken) ==
    /\ taken \subseteq Matching(c)
    /\ \A x \in taken : \A y \in Matching(c) \ taken : at[x] > at[y]
    /\ Cardinality(taken) =
         IF Capped(c) THEN Lesser(Cardinality(Matching(c)), Cap(c) - collector[c].listed)
                      ELSE Cardinality(Matching(c))

\* A pull request or issue listed twice is one candidate, as it was listed first;
\* of others each stands for itself.
Seen(c, taken) ==
    [x \in Items |->
       IF x \in taken /\ (collector[c].seen[x] = 0 \/ kind \in {"drive", "gmail"})
       THEN at[x] ELSE collector[c].seen[x]]
Candidates(c) == {x \in Items : collector[c].seen[x] > 0}

Full(c, listed) == Capped(c) /\ listed >= Cap(c)

\* listIssues asks for one page only.
ListPage(c) ==
    /\ collector[c].pc = "listing"
    /\ \E taken \in SUBSET Matching(c) :
          LET listed == collector[c].listed + Cardinality(taken)
              seen   == Seen(c, taken)
          IN
          /\ IsSlice(c, taken)
          /\ collector' = [collector EXCEPT ![c] =
               IF ListExhausted(c) \/ Full(c, listed) \/ kind = "issues"
               THEN [@ EXCEPT !.pc = "building", !.listed = listed, !.seen = seen,
                              !.todo = {x \in Items : seen[x] > 0},
                              !.left = {x \in Held(c) : seen[x] = 0}]
               ELSE [@ EXCEPT !.page = collector[c].page + 1, !.listed = listed,
                              !.seen = seen]]
    /\ UNCHANGED <<kind, now, at, stored, scope, synced, passed, edits, faults>>

-----------------------------------------------------------------------------
(* Building: each candidate's content is fetched and its version looked up;  *)
(* a new one is put into the storage and inserted.                           *)

\* The version is the one that was listed, that of a thread the present one.
Present(c, x) == collector[c].seen[x] = at[x] \/ kind = "gmail"

Build(c, x) ==
    /\ collector[c].pc = "building" /\ x \in collector[c].todo
    /\ stored' = IF Present(c, x) THEN stored \cup {x} ELSE stored
    /\ collector' = [collector EXCEPT ![c].todo = @ \ {x}]
    /\ UNCHANGED <<kind, now, at, scope, synced, passed, edits, faults>>

Charge == faults < MaxFaults /\ faults' = faults + 1

BuildFails(c, x) ==
    /\ collector[c].pc = "building" /\ x \in collector[c].todo
    /\ Charge
    /\ collector' = [collector EXCEPT ![c] = [@ EXCEPT !.todo = collector[c].todo \ {x},
                                                        !.failed = TRUE]]
    /\ UNCHANGED <<kind, now, at, stored, scope, synced, passed, edits>>

\* The process ends, or the listing of a page fails.
Stop(c) ==
    /\ collector[c].pc # "idle"
    /\ Charge
    /\ collector' = [collector EXCEPT ![c] = IdleCollector]
    /\ UNCHANGED <<kind, now, at, stored, scope, synced, passed, edits>>

-----------------------------------------------------------------------------
(* The checkpoint: completeDataSourceSync, if no candidate failed and the    *)
(* limit was not reached (the number of candidates).                         *)

NumberOfCandidates(c) ==
    IF kind \in {"pulls", "issues"} THEN Cardinality(Candidates(c)) ELSE collector[c].listed
ScanTruncatedLate(c) ==
    collector[c].limit > 0 /\ NumberOfCandidates(c) > collector[c].limit
ScanTruncated(c) ==
    collector[c].limit > 0 /\ NumberOfCandidates(c) >= collector[c].limit

Advances(c) == ~collector[c].failed /\ ~ScanTruncated(c)

\* It passes over what changed after the start, but longer ago than the overlap,
\* and over what a list of GitHub left out that does not count as truncated: it has
\* the first page of the issues, pull requests listed twice, or ListMax of them.
Overtaken(c) == {x \in Items : at[x] > collector[c].began /\ ~Matches(x, Since(now))}
Overlooks(c) == \/ kind = "issues"
                \/ kind = "pulls" /\ \/ NumberOfCandidates(c) < collector[c].listed
                                     \/ Cap(c) # collector[c].limit
Overlooked(c) == IF Overlooks(c) THEN collector[c].left ELSE {}

Complete(c) ==
    /\ collector[c].pc = "building" /\ collector[c].todo = {}
    /\ IF Advances(c)
       THEN synced' = now /\ passed' = passed \cup Overtaken(c) \cup Overlooked(c)
       ELSE UNCHANGED <<synced, passed>>
    /\ collector' = [collector EXCEPT ![c] = IdleCollector]
    /\ UNCHANGED <<kind, now, at, stored, scope, edits, faults>>

-----------------------------------------------------------------------------

CollectorStep(c) ==
    \/ \E limit \in Limits : Start(c, limit)
    \/ ListPage(c) \/ Stop(c) \/ Complete(c)
    \/ \E x \in Items : Build(c, x) \/ BuildFails(c, x)

Next == \/ \E x \in Items : Change(x)
        \/ Tick
        \/ \E selected \in SUBSET Items : SaveConfiguration(selected)
        \/ \E c \in Collectors : CollectorStep(c)

Spec == Init /\ [][Next]_vars
-----------------------------------------------------------------------------
(* Properties. *)

\* What the data source selects and the database does not have in its present
\* version is in the next scan, or it is one of those that a checkpoint passed
\* over in the ways named above: failures, crashes, a truncated list, pages that
\* shift while they are read and rival collectors lose nothing
\* (completeDataSourceSync, incrementalScanSince).
NothingMissed ==
    \A x \in scope : at[x] > 0 /\ x \notin stored =>
        Matches(x, Since(synced)) \/ x \in passed
=============================================================================
