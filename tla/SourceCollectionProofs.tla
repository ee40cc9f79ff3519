----------------------- MODULE SourceCollectionProofs -----------------------
(***************************************************************************)
(* Proofs about SourceCollection: its type invariant, and that a           *)
(* checkpoint passes over nothing but in the ways the model names.         *)
(***************************************************************************)
EXTENDS SourceCollection, FiniteSetTheorems, TLAPS

-----------------------------------------------------------------------------
(* The inductive invariant. *)

\* What a collector has listed is not newer than the item, and is its present
\* version if the item has not changed since the collector started.
SeenSound(c) ==
    /\ collector[c].began <= now
    /\ \A x \in Items : /\ collector[c].seen[x] <= at[x]
                        /\ collector[c].seen[x] > 0 /\ at[x] <= collector[c].began
                              => collector[c].seen[x] = at[x]
    /\ collector[c].todo \subseteq Candidates(c)

\* What a collector has to find: what was there when it started and is missing
\* still.
Pending(c) == {x \in scope : /\ 0 < at[x] /\ at[x] <= collector[c].began
                             /\ x \notin stored /\ x \notin passed}

\* It is what the collector looks for,
Sought(c) ==
    collector[c].pc # "idle" =>
        \A x \in Pending(c) : x \in collector[c].scope /\ Matches(x, collector[c].since)

\* while it lists, in the list so far or behind the pages read: an item that
\* changes moves others back, never forward,
Ahead(c) ==
    collector[c].pc = "listing" =>
        \A x \in Pending(c) : collector[c].seen[x] > 0 \/ Place(c, x) >= Skipped(c)

\* and afterwards about to be built, unless something failed or the list ended
\* too early.
Remaining(c) ==
    collector[c].pc = "building" =>
        \A x \in Pending(c) : \/ x \in collector[c].todo \/ collector[c].failed
                              \/ /\ x \in collector[c].left
                                 /\ kind = "issues" \/ Full(c, collector[c].listed)

IInv == /\ TypeOK
        /\ NothingMissed
        /\ \A c \in Collectors : SeenSound(c) /\ Sought(c) /\ Ahead(c) /\ Remaining(c)

-----------------------------------------------------------------------------
(* Facts about the state. *)

\* What is counted is finite, and counts are numbers.
LEMMA FiniteCounts ==
    ASSUME NEW S, S \subseteq Items
    PROVE  /\ IsFiniteSet(S) /\ Cardinality(S) \in Nat
           /\ \A T \in SUBSET S : /\ Cardinality(T) \in Nat
                                  /\ Cardinality(T) <= Cardinality(S)
                                  /\ Cardinality(S) = Cardinality(T) => S = T
  <1>1. IsFiniteSet(S)
    BY ItemAssumption, FS_Subset
  <1>2. ASSUME NEW T \in SUBSET S
        PROVE  /\ Cardinality(T) \in Nat /\ Cardinality(T) <= Cardinality(S)
               /\ Cardinality(S) = Cardinality(T) => S = T
    BY <1>1, FS_Subset, FS_CardinalityType
  <1> QED
    BY <1>1, <1>2, FS_CardinalityType

LEMMA CollectorFields ==
    ASSUME TypeOK, NEW c \in Collectors
    PROVE  /\ collector[c] \in CollectorStates
           /\ collector[c].pc \in {"idle", "listing", "building"}
           /\ collector[c].began \in Nat /\ collector[c].since \in Nat
           /\ collector[c].limit \in Nat /\ collector[c].page \in Nat
           /\ collector[c].listed \in Nat /\ collector[c].scope \subseteq Items
           /\ collector[c].seen \in [Items -> Nat] /\ collector[c].todo \subseteq Items
           /\ collector[c].left \subseteq Items /\ collector[c].failed \in BOOLEAN
  BY DEF TypeOK, CollectorStates

LEMMA Instants ==
    ASSUME TypeOK
    PROVE  /\ now \in Nat /\ synced \in Nat /\ synced <= now
           /\ \A x \in Items : at[x] \in Nat /\ at[x] <= now
  BY DEF TypeOK

\* incrementalScanSince is an instant not after the one it is given.
LEMMA SinceBounds ==
    ASSUME NEW t \in Nat
    PROVE  Since(t) \in Nat /\ Since(t) <= t /\ (t = 0 => Since(t) = 0)
  BY TimeAssumption DEF Since

\* What changes goes to the front of the list: it moves the others back, if at all.
LEMMA PlaceGrows ==
    ASSUME TypeOK, TypeOK', NEW d \in Collectors, collector'[d] = collector[d],
           \A y \in Items : at'[y] = at[y] \/ at'[y] > now,
           NEW x \in Items, at'[x] = at[x]
    PROVE  Place(d, x) \in Nat /\ Place(d, x)' \in Nat /\ Place(d, x) <= Place(d, x)'
  <1> DEFINE S == {y \in {z \in collector[d].scope : at[z] > 0} : at[y] > at[x]}
             T == {y \in {z \in collector'[d].scope : at'[z] > 0} : at'[y] > at'[x]}
  <1>1. collector[d].scope \subseteq Items /\ collector'[d].scope \subseteq Items
    BY CollectorFields
  <1>2. T \subseteq Items
    BY <1>1
  <1>3. ASSUME NEW y \in S
        PROVE  y \in T
    <2>1. at[y] \in Nat /\ at[x] \in Nat /\ at[x] <= now /\ now \in Nat /\ at'[y] \in Nat
      BY <1>1 DEF TypeOK
    <2> QED
      BY <1>1, <2>1
  <1>4. S \in SUBSET T
    BY <1>3
  <1>5. Cardinality(S) \in Nat /\ Cardinality(T) \in Nat /\ Cardinality(S) <= Cardinality(T)
    <2> HIDE DEF S, T
    <2> QED
      BY <1>2, <1>4, FiniteCounts
  <1> QED
    BY <1>5 DEF Place, Held

-----------------------------------------------------------------------------
(* A step that leaves a collector as it is keeps what holds of it, if the   *)
(* step gives it nothing more to find.                                      *)

LEMMA OthersKeep ==
    ASSUME TypeOK, TypeOK', NEW d \in Collectors, collector'[d] = collector[d],
           kind' = kind, now <= now',
           \A y \in Items : at'[y] = at[y] \/ at'[y] > now,
           collector[d].pc # "idle" => Pending(d)' \subseteq Pending(d),
           SeenSound(d), Sought(d), Ahead(d), Remaining(d)
    PROVE  SeenSound(d)' /\ Sought(d)' /\ Ahead(d)' /\ Remaining(d)'
  <1>1. /\ collector[d].began \in Nat /\ collector[d].since \in Nat
        /\ collector[d].page \in Nat /\ collector[d].seen \in [Items -> Nat]
    BY CollectorFields
  <1>2. /\ now \in Nat /\ now' \in Nat
        /\ \A x \in Items : at[x] \in Nat /\ at[x] <= now /\ at'[x] \in Nat
    BY DEF TypeOK
  <1>3. SeenSound(d)'
    <2>1. collector'[d].began <= now'
      BY <1>1, <1>2 DEF SeenSound
    <2>2. ASSUME NEW x \in Items
          PROVE  /\ collector'[d].seen[x] <= at'[x]
                 /\ collector'[d].seen[x] > 0 /\ at'[x] <= collector'[d].began
                       => collector'[d].seen[x] = at'[x]
      <3>1. /\ collector[d].seen[x] <= at[x]
            /\ collector[d].seen[x] > 0 /\ at[x] <= collector[d].began
                  => collector[d].seen[x] = at[x]
            /\ collector[d].began <= now
        BY DEF SeenSound
      <3>2. collector[d].seen[x] \in Nat
        BY <1>1
      <3> QED
        BY <1>1, <1>2, <3>1, <3>2
    <2>3. collector'[d].todo \subseteq Candidates(d)'
      BY DEF SeenSound, Candidates
    <2> QED
      BY <2>1, <2>2, <2>3 DEF SeenSound
  <1>4. ASSUME collector[d].pc # "idle", NEW x \in Pending(d)'
        PROVE  x \in Pending(d) /\ x \in Items /\ at'[x] = at[x]
    <2>1. x \in Pending(d)
      BY <1>4
    <2>2. x \in Items
      BY <2>1 DEF Pending, TypeOK
    <2>3. at'[x] <= collector[d].began
      BY DEF Pending
    <2> QED
      BY <1>1, <1>2, <2>1, <2>2, <2>3 DEF SeenSound
  <1>5. Sought(d)'
    BY <1>4 DEF Sought, Matches
  <1>6. Ahead(d)'
    <2>1. ASSUME collector[d].pc = "listing", NEW x \in Pending(d)'
          PROVE  collector[d].seen[x] > 0 \/ Place(d, x)' >= Skipped(d)'
      <3>1. x \in Pending(d) /\ x \in Items /\ at'[x] = at[x]
        BY <1>4, <2>1
      <3>2. collector[d].seen[x] > 0 \/ Place(d, x) >= Skipped(d)
        BY <2>1, <3>1 DEF Ahead
      <3>3. Place(d, x) \in Nat /\ Place(d, x)' \in Nat /\ Place(d, x) <= Place(d, x)'
        BY <3>1, PlaceGrows
      <3>4. Skipped(d)' = Skipped(d) /\ Skipped(d) \in Nat
        BY <1>1, PageAssumption DEF Skipped
      <3> QED
        BY <3>2, <3>3, <3>4
    <2> QED
      BY <2>1 DEF Ahead
  <1>7. Remaining(d)'
    BY <1>4 DEF Remaining, Full, Capped, Cap, Lesser
  <1> QED
    BY <1>3, <1>5, <1>6, <1>7

-----------------------------------------------------------------------------
(* The initial states, and types. *)

LEMMA IdleType == IdleCollector \in CollectorStates
  BY DEF IdleCollector, CollectorStates

LEMMA InitInv == Init => IInv
  <1> SUFFICES ASSUME Init PROVE IInv
    OBVIOUS
  <1>1. TypeOK
    <2>1. collector \in [Collectors -> CollectorStates]
      BY IdleType DEF Init
    <2>2. scope \subseteq Items
      BY ItemAssumption DEF Init
    <2> QED
      BY <2>1, <2>2 DEF Init, TypeOK
  <1>2. NothingMissed
    BY <1>1 DEF Init, NothingMissed, TypeOK
  <1>3. ASSUME NEW c \in Collectors
        PROVE  SeenSound(c) /\ Sought(c) /\ Ahead(c) /\ Remaining(c)
    BY <1>3 DEF Init, IdleCollector, SeenSound, Sought, Ahead, Remaining
  <1> QED
    BY <1>1, <1>2, <1>3 DEF IInv

\* A collector is given another state.
LEMMA CollectorType ==
    ASSUME TypeOK, NEW c \in Collectors, NEW next \in CollectorStates,
           collector' = [collector EXCEPT ![c] = next]
    PROVE  collector' \in [Collectors -> CollectorStates]
  BY DEF TypeOK

LEMMA TypeServed ==
    ASSUME TypeOK, NEW x \in Items, Change(x)
    PROVE  TypeOK'
  <1>1. now \in Nat /\ now' = now + 1 /\ synced \in 0..now
    BY DEF TypeOK, Change
  <1>2. at' \in [Items -> 0..now']
    BY <1>1 DEF TypeOK, Change
  <1>3. stored' \subseteq {y \in Items : at'[y] > 0}
    BY <1>1 DEF TypeOK, Change
  <1> QED
    BY <1>1, <1>2, <1>3 DEF TypeOK, Change

LEMMA TypeOfSeen ==
    ASSUME TypeOK, NEW c \in Collectors, NEW taken
    PROVE  Seen(c, taken) \in [Items -> Nat]
  BY CollectorFields, Instants DEF Seen

LEMMA ListedTypes ==
    ASSUME NEW state \in CollectorStates, NEW listed \in Nat,
           NEW seen \in [Items -> Nat], NEW left \in SUBSET Items
    PROVE  /\ [state EXCEPT !.pc = "building", !.listed = listed, !.seen = seen,
                             !.todo = {x \in Items : seen[x] > 0}, !.left = left]
                 \in CollectorStates
           /\ [state EXCEPT !.page = state.page + 1, !.listed = listed, !.seen = seen]
                 \in CollectorStates
  <1>1. {x \in Items : seen[x] > 0} \in SUBSET Items /\ state.page + 1 \in Nat
    BY DEF CollectorStates
  <1>2. "building" \in {"idle", "listing", "building"}
    OBVIOUS
  <1> DEFINE todo == {x \in Items : seen[x] > 0}
             page == state.page + 1
  <1> HIDE DEF todo, page
  <1>3. [state EXCEPT !.pc = "building", !.listed = listed, !.seen = seen, !.todo = todo,
                      !.left = left] \in CollectorStates
    BY <1>1, <1>2 DEF CollectorStates, todo
  <1>4. [state EXCEPT !.page = page, !.listed = listed, !.seen = seen] \in CollectorStates
    BY <1>1 DEF CollectorStates, page
  <1> QED
    BY <1>3, <1>4 DEF todo, page

LEMMA TypeListed ==
    ASSUME TypeOK, NEW c \in Collectors, ListPage(c)
    PROVE  TypeOK'
  <1>1. collector[c] \in CollectorStates
    BY CollectorFields
  <1>2. PICK taken \in SUBSET Matching(c) :
          LET listed == collector[c].listed + Cardinality(taken)
              seen   == Seen(c, taken)
          IN
          collector' = [collector EXCEPT ![c] =
               IF ListExhausted(c) \/ Full(c, listed) \/ kind = "issues"
               THEN [@ EXCEPT !.pc = "building", !.listed = listed, !.seen = seen,
                              !.todo = {x \in Items : seen[x] > 0},
                              !.left = {x \in Held(c) : seen[x] = 0}]
               ELSE [@ EXCEPT !.page = collector[c].page + 1, !.listed = listed,
                              !.seen = seen]]
    BY DEF ListPage
  <1> DEFINE listed == collector[c].listed + Cardinality(taken)
             seen == Seen(c, taken)
             left == {x \in Held(c) : seen[x] = 0}
  <1>3. listed \in Nat
    <2>1. taken \subseteq Items
      BY CollectorFields DEF Matching, Page, Held
    <2> QED
      BY <2>1, FiniteCounts, CollectorFields
  <1>4. seen \in [Items -> Nat]
    BY TypeOfSeen
  <1>5. left \subseteq Items
    BY CollectorFields DEF Held
  <1> HIDE DEF listed, seen, left
  <1>6. \/ collector' = [collector EXCEPT ![c] =
               [collector[c] EXCEPT !.pc = "building", !.listed = listed, !.seen = seen,
                                    !.todo = {x \in Items : seen[x] > 0}, !.left = left]]
        \/ collector' = [collector EXCEPT ![c] =
               [collector[c] EXCEPT !.page = collector[c].page + 1, !.listed = listed,
                                    !.seen = seen]]
    BY <1>2 DEF listed, seen, left, TypeOK
  <1>7. /\ [collector[c] EXCEPT !.pc = "building", !.listed = listed, !.seen = seen,
                               !.todo = {x \in Items : seen[x] > 0}, !.left = left]
              \in CollectorStates
        /\ [collector[c] EXCEPT !.page = collector[c].page + 1, !.listed = listed,
                               !.seen = seen] \in CollectorStates
    BY <1>1, <1>3, <1>4, <1>5, ListedTypes
  <1>8. collector' \in [Collectors -> CollectorStates]
    BY <1>6, <1>7, CollectorType
  <1> QED
    BY <1>8 DEF TypeOK, ListPage

LEMMA TypeBuilt ==
    ASSUME TypeOK, NEW c \in Collectors, SeenSound(c), NEW x \in Items,
           Build(c, x) \/ BuildFails(c, x)
    PROVE  TypeOK'
  <1>1. collector[c] \in CollectorStates
    BY CollectorFields
  <1>2. at[x] > 0
    <2>1. collector[c].seen[x] > 0 /\ collector[c].seen[x] <= at[x]
      BY DEF SeenSound, Candidates, Build, BuildFails
    <2> QED
      BY <2>1, CollectorFields, Instants
  <1>3. collector' \in [Collectors -> CollectorStates]
    <2> DEFINE todo == collector[c].todo \ {x}
    <2>1. /\ [collector[c] EXCEPT !.todo = todo] \in CollectorStates
          /\ [collector[c] EXCEPT !.todo = todo, !.failed = TRUE] \in CollectorStates
      BY <1>1 DEF CollectorStates
    <2>2. \/ collector' = [collector EXCEPT ![c] = [collector[c] EXCEPT !.todo = todo]]
          \/ collector' = [collector EXCEPT ![c] =
                             [collector[c] EXCEPT !.todo = todo, !.failed = TRUE]]
      BY DEF TypeOK, Build, BuildFails
    <2> HIDE DEF todo
    <2> QED
      BY <2>1, <2>2, CollectorType
  <1>4. stored' \subseteq {y \in Items : at[y] > 0}
    BY <1>2 DEF TypeOK, Build, BuildFails
  <1> QED
    BY <1>3, <1>4 DEF TypeOK, Build, BuildFails, Charge

LEMMA TypeStep ==
    ASSUME TypeOK, \A c \in Collectors : SeenSound(c), [Next]_vars
    PROVE  TypeOK'
  <1>1. ASSUME NEW x \in Items, Change(x)
        PROVE  TypeOK'
    BY <1>1, TypeServed
  <1>2. CASE Tick
    BY <1>2 DEF Tick, TypeOK
  <1>3. ASSUME NEW selected \in SUBSET Items, SaveConfiguration(selected)
        PROVE  TypeOK'
    BY <1>3 DEF SaveConfiguration, TypeOK
  <1>4. ASSUME NEW c \in Collectors, NEW limit \in Limits, Start(c, limit)
        PROVE  TypeOK'
    <2>1. Since(synced) \in Nat /\ now \in Nat /\ limit \in Nat
      BY SinceBounds, Instants, LimitAssumption
    <2>2. [IdleCollector EXCEPT !.pc = "listing", !.began = now, !.since = Since(synced),
                                !.limit = limit, !.scope = scope] \in CollectorStates
      BY <2>1, IdleType DEF CollectorStates, TypeOK
    <2> QED
      BY <1>4, <2>2 DEF Start, TypeOK
  <1>5. ASSUME NEW c \in Collectors, ListPage(c)
        PROVE  TypeOK'
    BY <1>5, TypeListed
  <1>6. ASSUME NEW c \in Collectors, Stop(c)
        PROVE  TypeOK'
    BY <1>6, IdleType DEF Stop, Charge, TypeOK
  <1>7. ASSUME NEW c \in Collectors, Complete(c)
        PROVE  TypeOK'
    <2>1. Overtaken(c) \subseteq Items /\ Overlooked(c) \subseteq Items
      BY CollectorFields DEF Overtaken, Overlooked
    <2> QED
      BY <1>7, <2>1, IdleType DEF Complete, TypeOK
  <1>8. ASSUME NEW c \in Collectors, NEW x \in Items, Build(c, x) \/ BuildFails(c, x)
        PROVE  TypeOK'
    BY <1>8, TypeBuilt
  <1>9. CASE UNCHANGED vars
    BY <1>9 DEF vars, TypeOK
  <1> QED
    BY <1>1, <1>2, <1>3, <1>4, <1>5, <1>6, <1>7, <1>8, <1>9 DEF Next, CollectorStep

-----------------------------------------------------------------------------
(* Each step keeps the invariant. *)

\* What changes meanwhile is newer than what any collector has to find.
LEMMA ChangeKeeps ==
    ASSUME IInv, TypeOK', NEW x \in Items, Change(x)
    PROVE  IInv'
  <1>1. TypeOK /\ NothingMissed
    BY DEF IInv
  <1>2. now \in Nat /\ now' = now + 1 /\ synced \in Nat /\ synced <= now
    BY <1>1, Instants DEF Change
  <1>3. at'[x] = now + 1 /\ \A y \in Items : y # x => at'[y] = at[y]
    BY <1>1 DEF Change, TypeOK
  <1>4. NothingMissed'
    <2>1. Since(synced) \in Nat /\ Since(synced) <= synced
      BY <1>2, SinceBounds
    <2>2. Since(synced)' = Since(synced) /\ kind' = kind /\ scope' = scope
      BY DEF Change, Since
    <2>3. ASSUME NEW y \in scope, at'[y] > 0, y \notin stored', y \notin passed'
          PROVE  Matches(y, Since(synced))'
      <3>1. CASE y = x
        BY <1>2, <1>3, <2>1, <2>2, <3>1 DEF Matches
      <3>2. CASE y # x
        <4>1. y \in Items /\ at'[y] = at[y] /\ y \notin stored /\ y \notin passed
          BY <1>1, <1>3, <2>3, <3>2 DEF Change, TypeOK
        <4>2. Matches(y, Since(synced))
          BY <1>1, <2>3, <4>1 DEF NothingMissed
        <4> QED
          BY <2>2, <4>1, <4>2 DEF Matches
      <3> QED
        BY <3>1, <3>2
    <2> QED
      BY <2>2, <2>3 DEF NothingMissed
  <1>5. ASSUME NEW d \in Collectors
        PROVE  SeenSound(d)' /\ Sought(d)' /\ Ahead(d)' /\ Remaining(d)'
    <2>1. SeenSound(d) /\ Sought(d) /\ Ahead(d) /\ Remaining(d)
      BY DEF IInv
    <2>2. collector'[d] = collector[d] /\ kind' = kind
      BY DEF Change
    <2>3. \A y \in Items : at'[y] = at[y] \/ at'[y] > now
      BY <1>2, <1>3
    <2>4. ASSUME NEW y \in Pending(d)'
          PROVE  y \in Pending(d)
      <3>1. /\ y \in scope /\ y \in Items
            /\ 0 < at'[y] /\ at'[y] <= collector[d].began
            /\ y \notin stored' /\ y \notin passed'
        BY <1>1, <2>2 DEF Pending, Change, TypeOK
      <3>2. collector[d].began \in Nat /\ collector[d].began <= now
        BY <1>1, <2>1, CollectorFields DEF SeenSound
      <3>3. y # x
        BY <1>2, <1>3, <3>1, <3>2
      <3>4. at'[y] = at[y] /\ y \notin stored /\ y \notin passed
        BY <1>3, <3>1, <3>3 DEF Change
      <3> QED
        BY <3>1, <3>4 DEF Pending
    <2> QED
      BY <1>1, <1>2, <2>1, <2>2, <2>3, <2>4, OthersKeep
  <1> QED
    BY <1>4, <1>5 DEF IInv

LEMMA TickKeeps ==
    ASSUME IInv, TypeOK', Tick
    PROVE  IInv'
  <1>1. TypeOK /\ now \in Nat /\ now' = now + 1
    BY Instants DEF IInv, Tick
  <1>2. NothingMissed'
    BY DEF IInv, NothingMissed, Tick, Matches, Since
  <1>3. ASSUME NEW d \in Collectors
        PROVE  SeenSound(d)' /\ Sought(d)' /\ Ahead(d)' /\ Remaining(d)'
    <2>1. SeenSound(d) /\ Sought(d) /\ Ahead(d) /\ Remaining(d)
      BY DEF IInv
    <2>2. collector'[d] = collector[d] /\ kind' = kind /\ at' = at
      BY DEF Tick
    <2>3. Pending(d)' = Pending(d)
      BY DEF Tick, Pending
    <2> QED
      BY <1>1, <2>1, <2>2, <2>3, OthersKeep
  <1> QED
    BY <1>2, <1>3 DEF IInv

\* What the configuration newly selects counts as passed over, unless no
\* collector has set or will set a checkpoint.
LEMMA SaveKeeps ==
    ASSUME IInv, TypeOK', NEW selected \in SUBSET Items, SaveConfiguration(selected)
    PROVE  IInv'
  <1>1. TypeOK /\ NothingMissed /\ now \in Nat /\ synced \in Nat
    BY Instants DEF IInv
  <1>2. /\ scope' = selected /\ kind' = kind /\ now' = now /\ at' = at /\ stored' = stored
        /\ synced' = synced /\ collector' = collector
    BY DEF SaveConfiguration
  <1>3. /\ passed \subseteq passed'
        /\ \/ selected \ scope \subseteq passed'
           \/ synced = 0 /\ \A c \in Collectors : collector[c].pc = "idle"
    BY DEF SaveConfiguration
  <1>4. NothingMissed'
    <2>1. Since(synced)' = Since(synced) /\ (synced = 0 => Since(synced) = 0)
      BY <1>1, <1>2, SinceBounds DEF Since
    <2>2. ASSUME NEW y \in selected, at[y] > 0, y \notin stored, y \notin passed'
          PROVE  Matches(y, Since(synced))
      <3>1. CASE y \in scope
        BY <1>1, <1>3, <2>2, <3>1 DEF NothingMissed
      <3>2. CASE y \notin scope
        <4>1. Since(synced) = 0 /\ at[y] \in Nat
          BY <1>1, <1>3, <2>1, <2>2, <3>2 DEF TypeOK
        <4> QED
          BY <2>2, <4>1 DEF Matches
      <3> QED
        BY <3>1, <3>2
    <2> QED
      BY <1>2, <2>1, <2>2 DEF NothingMissed, Matches
  <1>5. ASSUME NEW d \in Collectors
        PROVE  SeenSound(d)' /\ Sought(d)' /\ Ahead(d)' /\ Remaining(d)'
    <2>1. SeenSound(d) /\ Sought(d) /\ Ahead(d) /\ Remaining(d)
      BY DEF IInv
    <2>2. collector[d].pc # "idle" => Pending(d)' \subseteq Pending(d)
      BY <1>2, <1>3 DEF Pending
    <2> QED
      BY <1>1, <1>2, <2>1, <2>2, OthersKeep
  <1> QED
    BY <1>4, <1>5 DEF IInv

\* A collector that ends has nothing to find.
LEMMA IdleHolds ==
    ASSUME TypeOK', NEW c \in Collectors, collector'[c] = IdleCollector
    PROVE  SeenSound(c)' /\ Sought(c)' /\ Ahead(c)' /\ Remaining(c)'
  <1>1. /\ IdleCollector.pc = "idle" /\ IdleCollector.began = 0 /\ IdleCollector.todo = {}
        /\ \A x \in Items : IdleCollector.seen[x] = 0
    BY DEF IdleCollector
  <1>2. now' \in Nat /\ \A x \in Items : at'[x] \in Nat
    BY DEF TypeOK
  <1>3. SeenSound(c)'
    BY <1>1, <1>2 DEF SeenSound
  <1> QED
    BY <1>1, <1>3 DEF Sought, Ahead, Remaining

\* The steps of one collector: the others keep what holds of them if nothing is
\* taken from the database or added to the configuration.
LEMMA RestKeeps ==
    ASSUME IInv, TypeOK', NEW c \in Collectors, NEW d \in Collectors \ {c},
           NEW next, collector' = [collector EXCEPT ![c] = next],
           kind' = kind, now' = now, at' = at, scope' = scope,
           stored \subseteq stored', passed \subseteq passed'
    PROVE  SeenSound(d)' /\ Sought(d)' /\ Ahead(d)' /\ Remaining(d)'
  <1>1. TypeOK /\ SeenSound(d) /\ Sought(d) /\ Ahead(d) /\ Remaining(d)
    BY DEF IInv
  <1>2. collector'[d] = collector[d]
    BY <1>1 DEF TypeOK
  <1>3. Pending(d)' \subseteq Pending(d)
    BY <1>2 DEF Pending
  <1>4. now \in Nat
    BY <1>1, Instants
  <1> QED
    BY <1>1, <1>2, <1>3, <1>4, OthersKeep

LEMMA StartKeeps ==
    ASSUME IInv, TypeOK', NEW c \in Collectors, NEW limit \in Limits, Start(c, limit)
    PROVE  IInv'
  <1> DEFINE begun == [IdleCollector EXCEPT !.pc = "listing", !.began = now,
                                            !.since = Since(synced), !.limit = limit,
                                            !.scope = scope]
  <1>1. TypeOK /\ NothingMissed /\ now \in Nat
    BY Instants DEF IInv
  <1>2. /\ kind' = kind /\ now' = now /\ at' = at /\ stored' = stored /\ scope' = scope
        /\ synced' = synced /\ passed' = passed
        /\ collector' = [collector EXCEPT ![c] = begun]
    BY DEF Start
  <1>3. NothingMissed'
    BY <1>1, <1>2 DEF NothingMissed, Matches, Since
  <1>4. /\ collector'[c].pc = "listing" /\ collector'[c].began = now
        /\ collector'[c].since = Since(synced) /\ collector'[c].scope = scope
        /\ collector'[c].page = 0 /\ collector'[c].todo = {}
        /\ \A x \in Items : collector'[c].seen[x] = 0
    BY <1>1, <1>2 DEF TypeOK, IdleCollector
  <1>5. SeenSound(c)'
    BY <1>1, <1>2, <1>4, Instants DEF SeenSound
  <1>6. Sought(c)'
    BY <1>1, <1>2, <1>4 DEF Sought, Pending, NothingMissed, Matches
  <1>7. Ahead(c)'
    <2>1. Skipped(c)' = 0
      BY <1>4, PageAssumption DEF Skipped
    <2>2. ASSUME NEW x \in Items
          PROVE  Place(c, x)' \in Nat
      <3> DEFINE S == {y \in {z \in collector'[c].scope : at'[z] > 0} : at'[y] > at'[x]}
      <3>1. S \subseteq Items
        BY <1>1, <1>4 DEF TypeOK
      <3>2. Cardinality(S) \in Nat
        BY <3>1, FiniteCounts
      <3> QED
        BY <3>2 DEF Place, Held
    <2>3. Pending(c)' \subseteq Items
      BY <1>1, <1>2 DEF Pending, TypeOK
    <2> QED
      BY <2>1, <2>2, <2>3 DEF Ahead
  <1>8. Remaining(c)'
    BY <1>4 DEF Remaining
  <1>9. \A d \in Collectors \ {c} : SeenSound(d)' /\ Sought(d)' /\ Ahead(d)' /\ Remaining(d)'
    BY <1>2, RestKeeps
  <1> QED
    BY <1>3, <1>5, <1>6, <1>7, <1>8, <1>9 DEF IInv

LEMMA StopKeeps ==
    ASSUME IInv, TypeOK', NEW c \in Collectors, Stop(c)
    PROVE  IInv'
  <1>1. TypeOK /\ NothingMissed
    BY DEF IInv
  <1>2. /\ kind' = kind /\ now' = now /\ at' = at /\ stored' = stored /\ scope' = scope
        /\ synced' = synced /\ passed' = passed
        /\ collector' = [collector EXCEPT ![c] = IdleCollector]
    BY DEF Stop
  <1>3. NothingMissed'
    BY <1>1, <1>2 DEF NothingMissed, Matches, Since
  <1>4. SeenSound(c)' /\ Sought(c)' /\ Ahead(c)' /\ Remaining(c)'
    BY <1>1, <1>2, IdleHolds DEF TypeOK
  <1>5. \A d \in Collectors \ {c} : SeenSound(d)' /\ Sought(d)' /\ Ahead(d)' /\ Remaining(d)'
    BY <1>2, RestKeeps
  <1> QED
    BY <1>3, <1>4, <1>5 DEF IInv

\* What is built is in the database, if it has not changed since it was listed.
LEMMA BuildKeeps ==
    ASSUME IInv, TypeOK', NEW c \in Collectors, NEW x \in Items,
           Build(c, x) \/ BuildFails(c, x)
    PROVE  IInv'
  <1> DEFINE todo == collector[c].todo \ {x}
             done == [collector[c] EXCEPT !.todo = todo]
             given == [collector[c] EXCEPT !.todo = todo, !.failed = TRUE]
  <1>1. /\ TypeOK /\ NothingMissed /\ SeenSound(c) /\ Sought(c) /\ Ahead(c) /\ Remaining(c)
        /\ collector[c] \in CollectorStates
    BY CollectorFields DEF IInv
  <1>2. /\ kind' = kind /\ now' = now /\ at' = at /\ scope' = scope
        /\ synced' = synced /\ passed' = passed /\ stored \subseteq stored'
        /\ collector[c].pc = "building" /\ x \in collector[c].todo
        /\ \/ /\ collector' = [collector EXCEPT ![c] = done]
              /\ Present(c, x) => x \in stored'
           \/ collector' = [collector EXCEPT ![c] = given]
    BY <1>1 DEF Build, BuildFails, TypeOK
  <1>3. NothingMissed'
    BY <1>1, <1>2 DEF NothingMissed, Matches, Since
  <1>4. /\ collector'[c].pc = "building" /\ collector'[c].began = collector[c].began
        /\ collector'[c].since = collector[c].since
        /\ collector'[c].limit = collector[c].limit
        /\ collector'[c].scope = collector[c].scope
        /\ collector'[c].listed = collector[c].listed
        /\ collector'[c].seen = collector[c].seen
        /\ collector'[c].left = collector[c].left
        /\ collector'[c].todo = todo
        /\ \/ /\ collector'[c].failed = collector[c].failed
              /\ Present(c, x) => x \in stored'
           \/ collector'[c].failed
    <2> DEFINE Kept(state) ==
                 /\ state.pc = collector[c].pc /\ state.began = collector[c].began
                 /\ state.since = collector[c].since /\ state.limit = collector[c].limit
                 /\ state.scope = collector[c].scope /\ state.listed = collector[c].listed
                 /\ state.seen = collector[c].seen /\ state.left = collector[c].left
                 /\ state.todo = todo
    <2> HIDE DEF todo
    <2>1. Kept(done) /\ done.failed = collector[c].failed
      BY <1>1 DEF CollectorStates
    <2>2. Kept(given) /\ given.failed = TRUE
      BY <1>1 DEF CollectorStates
    <2> HIDE DEF done, given
    <2>3. \/ collector'[c] = done /\ (Present(c, x) => x \in stored')
          \/ collector'[c] = given
      BY <1>1, <1>2 DEF TypeOK
    <2> QED
      BY <1>2, <2>1, <2>2, <2>3
  <1>5. SeenSound(c)'
    <2>1. collector'[c].began <= now'
      BY <1>1, <1>2, <1>4 DEF SeenSound
    <2>2. ASSUME NEW y \in Items
          PROVE  /\ collector'[c].seen[y] <= at'[y]
                 /\ collector'[c].seen[y] > 0 /\ at'[y] <= collector'[c].began
                       => collector'[c].seen[y] = at'[y]
      BY <1>1, <1>2, <1>4 DEF SeenSound
    <2>3. collector'[c].todo \subseteq Candidates(c)'
      BY <1>1, <1>4 DEF SeenSound, Candidates
    <2> QED
      BY <2>1, <2>2, <2>3 DEF SeenSound
  <1>6. Pending(c)' \subseteq Pending(c)
    BY <1>2, <1>4 DEF Pending
  <1>7. Sought(c)'
    BY <1>1, <1>2, <1>4, <1>6 DEF Sought, Matches
  <1>8. Ahead(c)'
    BY <1>4 DEF Ahead
  <1>9. Remaining(c)'
    <2>1. ASSUME NEW y \in Pending(c)'
          PROVE  \/ y \in collector'[c].todo \/ collector'[c].failed
                 \/ /\ y \in collector[c].left
                    /\ kind = "issues" \/ Full(c, collector[c].listed)
      <3>1. \/ y \in collector[c].todo \/ collector[c].failed
            \/ /\ y \in collector[c].left
               /\ kind = "issues" \/ Full(c, collector[c].listed)
        BY <1>1, <1>2, <1>6, <2>1 DEF Remaining
      <3>2. CASE y = x /\ ~collector'[c].failed
        <4>1. Present(c, x)
          <5>1. collector[c].seen[x] > 0
            BY <1>1, <1>2 DEF SeenSound, Candidates
          <5>2. at[x] <= collector[c].began
            BY <1>6, <2>1, <3>2 DEF Pending
          <5> QED
            BY <1>1, <5>1, <5>2 DEF SeenSound, Present
        <4>2. x \in stored'
          BY <1>4, <3>2, <4>1
        <4> QED
          BY <2>1, <3>2, <4>2 DEF Pending
      <3>3. CASE y # x \/ collector'[c].failed
        BY <1>4, <3>1, <3>3
      <3> QED
        BY <3>2, <3>3
    <2>2. Full(c, collector[c].listed) = Full(c, collector[c].listed)'
      BY <1>2, <1>4 DEF Full, Capped, Cap, Lesser
    <2> QED
      BY <1>2, <1>4, <2>1, <2>2 DEF Remaining
  <1>10. \A d \in Collectors \ {c} : SeenSound(d)' /\ Sought(d)' /\ Ahead(d)' /\ Remaining(d)'
    <2> HIDE DEF done, given
    <2> QED
      BY <1>2, RestKeeps
  <1> QED
    BY <1>3, <1>5, <1>7, <1>8, <1>9, <1>10 DEF IInv

\* Nothing is lost between two pages: what is behind the ones read is on this
\* page, behind it, or cut off with the list full.
LEMMA PageSound ==
    ASSUME TypeOK, NEW c \in Collectors, NEW taken, IsSlice(c, taken),
           NEW x \in collector[c].scope, at[x] > 0, Matches(x, collector[c].since),
           Place(c, x) >= Skipped(c), x \notin taken
    PROVE  \/ Full(c, collector[c].listed + Cardinality(taken))
           \/ ~ListExhausted(c) /\ Place(c, x) >= Skipped(c) + PageSize
  <1>1. /\ collector[c].since \in Nat /\ collector[c].listed \in Nat
        /\ collector[c].page \in Nat /\ collector[c].limit \in Nat
        /\ collector[c].scope \subseteq Items
    BY CollectorFields
  <1>2. x \in Held(c) /\ Held(c) \subseteq Items
    BY <1>1 DEF Held
  <1>3. Skipped(c) \in Nat /\ PageSize \in Nat \ {0} /\ ListMax \in Nat \ {0}
    BY <1>1, PageAssumption DEF Skipped
  <1>4. \A y \in Held(c) : at[y] \in Nat
    BY <1>2, Instants
  <1>5. ASSUME NEW y \in Held(c)
        PROVE  /\ Place(c, y) \in Nat
               /\ Cardinality(Held(c)) \in Nat /\ Place(c, y) < Cardinality(Held(c))
    <2> DEFINE S == {z \in Held(c) : at[z] > at[y]}
    <2>1. S \in SUBSET Held(c) /\ y \notin S
      BY <1>4
    <2>2. Cardinality(S) \in Nat /\ Cardinality(Held(c)) \in Nat
          /\ Cardinality(S) < Cardinality(Held(c))
      <3> HIDE DEF S
      <3> QED
        BY <1>2, <2>1, FiniteCounts
    <2> QED
      BY <2>2 DEF Place
  <1>6. ASSUME NEW y \in Held(c), at[x] >= at[y]
        PROVE  Place(c, x) <= Place(c, y)
    <2> DEFINE S == {z \in Held(c) : at[z] > at[x]}
               T == {z \in Held(c) : at[z] > at[y]}
    <2>1. S \in SUBSET T /\ T \subseteq Items
      BY <1>2, <1>4, <1>6
    <2>2. Cardinality(S) <= Cardinality(T)
      <3> HIDE DEF S, T
      <3> QED
        BY <2>1, FiniteCounts
    <2> QED
      BY <2>2 DEF Place
  <1>7. CASE x \in Matching(c)
    <2>1. taken \in SUBSET Matching(c) /\ taken # Matching(c) /\ Matching(c) \subseteq Items
      BY <1>2, <1>7 DEF IsSlice, Matching, Page
    <2>2. /\ Cardinality(taken) \in Nat /\ Cardinality(Matching(c)) \in Nat
          /\ Cardinality(taken) < Cardinality(Matching(c))
      BY <2>1, FiniteCounts
    <2>3. Capped(c) /\ Cardinality(taken) = Cap(c) - collector[c].listed
      BY <2>2 DEF IsSlice, Lesser
    <2>4. Cap(c) \in Nat
      BY <1>1, <1>3 DEF Cap, Lesser
    <2> QED
      BY <1>1, <2>2, <2>3, <2>4 DEF Full
  <1>8. CASE x \notin Matching(c)
    <2>1. Place(c, x) >= Skipped(c) + PageSize
      <3>1. x \notin Page(c)
        BY <1>8 DEF Matching
      <3> QED
        BY <1>2, <1>3, <1>5, <3>1 DEF Page
    <2>2. ~ListExhausted(c)
      <3>1. CASE kind # "pulls"
        BY <1>2, <1>3, <1>5, <2>1, <3>1 DEF ListExhausted
      <3>2. CASE kind = "pulls"
        <4>1. ~(Cardinality(Held(c)) < Skipped(c) + PageSize)
          BY <1>2, <1>3, <1>5, <2>1
        <4>2. ASSUME NEW y \in Page(c), ~Matches(y, collector[c].since)
              PROVE  FALSE
          <5>1. y \in Held(c) /\ Place(c, y) <= Skipped(c) + PageSize - 1
            BY <4>2 DEF Page
          <5>2. at[y] < at[x]
            BY <1>1, <1>2, <1>4, <3>2, <4>2, <5>1 DEF Matches
          <5>3. Place(c, x) <= Place(c, y)
            BY <1>2, <1>4, <1>6, <5>1, <5>2
          <5> QED
            BY <1>2, <1>3, <1>5, <2>1, <5>1, <5>3
        <4>3. Matching(c) = Page(c)
          BY <4>2 DEF Matching
        <4> QED
          BY <3>2, <4>1, <4>3 DEF ListExhausted
      <3> QED
        BY <3>1, <3>2
    <2> QED
      BY <2>1, <2>2
  <1> QED
    BY <1>7, <1>8

LEMMA ListKeeps ==
    ASSUME IInv, TypeOK', NEW c \in Collectors, ListPage(c)
    PROVE  IInv'
  <1>1. /\ TypeOK /\ NothingMissed /\ SeenSound(c) /\ Sought(c) /\ Ahead(c) /\ Remaining(c)
        /\ collector[c] \in CollectorStates /\ collector[c].pc = "listing"
        /\ collector[c].began \in Nat /\ collector[c].page \in Nat
        /\ collector[c].scope \subseteq Items /\ collector[c].seen \in [Items -> Nat]
    BY CollectorFields DEF IInv, ListPage
  <1>2. PICK taken \in SUBSET Matching(c) :
          LET listed == collector[c].listed + Cardinality(taken)
              seen   == Seen(c, taken)
          IN
          /\ IsSlice(c, taken)
          /\ collector' = [collector EXCEPT ![c] =
               IF ListExhausted(c) \/ Full(c, listed) \/ kind = "issues"
               THEN [@ EXCEPT !.pc = "building", !.listed = listed, !.seen = seen,
                              !.todo = {x \in Items : seen[x] > 0},
                              !.left = {x \in Held(c) : seen[x] = 0}]
               ELSE [@ EXCEPT !.page = collector[c].page + 1, !.listed = listed,
                              !.seen = seen]]
    BY DEF ListPage
  <1> DEFINE listed == collector[c].listed + Cardinality(taken)
             seen == Seen(c, taken)
             left == {x \in Held(c) : seen[x] = 0}
             todo == {x \in Items : seen[x] > 0}
             page == collector[c].page + 1
             ended == [collector[c] EXCEPT !.pc = "building", !.listed = listed,
                                           !.seen = seen, !.todo = todo, !.left = left]
             turned == [collector[c] EXCEPT !.page = page, !.listed = listed, !.seen = seen]
             Ends == ListExhausted(c) \/ Full(c, listed) \/ kind = "issues"
  <1>3. /\ kind' = kind /\ now' = now /\ at' = at /\ stored' = stored /\ scope' = scope
        /\ synced' = synced /\ passed' = passed
    BY DEF ListPage
  <1>4. /\ collector' = [collector EXCEPT ![c] = IF Ends THEN ended ELSE turned]
        /\ collector'[c] = IF Ends THEN ended ELSE turned
    BY <1>1, <1>2 DEF TypeOK
  <1>5. \A x \in Items : /\ seen[x] \in {at[x], collector[c].seen[x]}
                         /\ collector[c].seen[x] > 0 => seen[x] > 0
                         /\ x \in taken => seen[x] > 0
    <2>1. \A x \in taken : at[x] > 0
      BY DEF Matching, Page, Held
    <2> QED
      BY <1>1, <2>1, Instants DEF Seen
  <1> DEFINE Kept(state) ==
               /\ state.began = collector[c].began /\ state.since = collector[c].since
               /\ state.limit = collector[c].limit /\ state.scope = collector[c].scope
               /\ state.listed = listed /\ state.seen = seen
  <1>6. /\ Kept(ended) /\ ended.pc = "building" /\ ended.todo = todo /\ ended.left = left
        /\ Kept(turned) /\ turned.pc = "listing" /\ turned.todo = collector[c].todo
        /\ turned.page = page
    <2> HIDE DEF listed, seen, left, todo, page
    <2> QED
      BY <1>1 DEF CollectorStates
  <1> HIDE DEF ended, turned
  <1>7. Kept(collector'[c])
    BY <1>4, <1>6
  <1>8. NothingMissed'
    BY <1>1, <1>3 DEF NothingMissed, Matches, Since
  <1>9. SeenSound(c)'
    <2>1. collector'[c].began <= now'
      BY <1>1, <1>3, <1>7 DEF SeenSound
    <2>2. ASSUME NEW y \in Items
          PROVE  /\ collector'[c].seen[y] <= at'[y]
                 /\ collector'[c].seen[y] > 0 /\ at'[y] <= collector'[c].began
                       => collector'[c].seen[y] = at'[y]
      <3>1. /\ collector[c].seen[y] <= at[y]
            /\ collector[c].seen[y] > 0 /\ at[y] <= collector[c].began
                  => collector[c].seen[y] = at[y]
        BY <1>1 DEF SeenSound
      <3>2. seen[y] \in {at[y], collector[c].seen[y]} /\ at[y] \in Nat
        BY <1>1, <1>5, Instants
      <3> HIDE DEF seen
      <3> QED
        BY <1>3, <1>7, <3>1, <3>2
    <2>3. collector'[c].todo \subseteq {y \in Items : collector'[c].seen[y] > 0}
      <3>1. collector'[c].todo \in {todo, collector[c].todo}
        BY <1>4, <1>6
      <3>2. collector[c].todo \subseteq todo
        BY <1>1, <1>5 DEF SeenSound, Candidates
      <3> QED
        BY <1>7, <3>1, <3>2
    <2> QED
      BY <2>1, <2>2, <2>3 DEF SeenSound, Candidates
  <1>10. Pending(c)' = Pending(c)
    BY <1>3, <1>7 DEF Pending
  <1>11. Sought(c)'
    BY <1>1, <1>3, <1>7, <1>10 DEF Sought, Matches
  <1>12. ASSUME NEW x \in Pending(c), ~(seen[x] > 0)
         PROVE  /\ x \in Held(c) /\ x \in Items
                /\ \/ Full(c, listed)
                   \/ ~ListExhausted(c) /\ Place(c, x) >= Skipped(c) + PageSize
    <2>1. /\ x \in collector[c].scope /\ Matches(x, collector[c].since) /\ at[x] > 0
          /\ x \in Items
      BY <1>1 DEF Sought, Pending
    <2>2. Place(c, x) >= Skipped(c) /\ x \notin taken
      BY <1>1, <1>5, <1>12, <2>1 DEF Ahead
    <2>3. IsSlice(c, taken)
      BY <1>2
    <2>4. x \in Held(c)
      BY <2>1 DEF Held
    <2> QED
      BY <1>1, <2>1, <2>2, <2>3, <2>4, PageSound
  <1>13. Ahead(c)'
    <2>1. ASSUME ~Ends, NEW x \in Pending(c)
          PROVE  seen[x] > 0 \/ Place(c, x)' >= Skipped(c)'
      <3>1. Place(c, x)' = Place(c, x)
        BY <1>3, <1>7 DEF Place, Held
      <3>2. Skipped(c)' = Skipped(c) + PageSize
        <4>1. collector'[c].page = collector[c].page + 1
          BY <1>4, <1>6, <2>1
        <4> QED
          BY <1>1, <4>1, PageAssumption DEF Skipped
      <3>3. seen[x] > 0 \/ Place(c, x) >= Skipped(c) + PageSize
        BY <1>12, <2>1
      <3> HIDE DEF seen
      <3> QED
        BY <3>1, <3>2, <3>3
    <2>2. Ends => collector'[c].pc # "listing"
      BY <1>4, <1>6
    <2> QED
      BY <1>7, <1>10, <2>1, <2>2 DEF Ahead
  <1>14. Remaining(c)'
    <2>1. ASSUME Ends, NEW x \in Pending(c)
          PROVE  \/ x \in todo
                 \/ x \in left /\ (kind = "issues" \/ Full(c, listed))
      <3>1. CASE seen[x] > 0
        BY <1>1, <3>1 DEF Pending, TypeOK
      <3>2. CASE ~(seen[x] > 0)
        <4>1. /\ x \in Held(c) /\ x \in Items
              /\ Full(c, listed) \/ ~ListExhausted(c)
          BY <1>12, <2>1, <3>2
        <4>2. seen[x] = 0
          <5>1. seen[x] \in Nat
            BY <1>1, TypeOfSeen, <4>1
          <5> QED
            BY <3>2, <5>1
        <4> HIDE DEF listed, seen
        <4> QED
          BY <2>1, <4>1, <4>2
      <3> QED
        BY <3>1, <3>2
    <2>2. ~Ends => collector'[c].pc # "building"
      BY <1>4, <1>6
    <2>3. Ends => collector'[c].todo = todo /\ collector'[c].left = left
      BY <1>4, <1>6
    <2>4. ASSUME Full(c, listed)
          PROVE  Full(c, collector[c].listed)'
      BY <1>3, <1>7, <2>4 DEF Full, Capped, Cap, Lesser
    <2> HIDE DEF listed, seen, left, todo, page, Ends
    <2> QED
      BY <1>3, <1>10, <2>1, <2>2, <2>3, <2>4 DEF Remaining
  <1>15. \A d \in Collectors \ {c} : SeenSound(d)' /\ Sought(d)' /\ Ahead(d)' /\ Remaining(d)'
    <2> DEFINE next == IF Ends THEN ended ELSE turned
    <2>1. collector' = [collector EXCEPT ![c] = next]
      BY <1>4
    <2> HIDE DEF next
    <2> QED
      BY <1>3, <2>1, RestKeeps
  <1> QED
    BY <1>8, <1>9, <1>11, <1>13, <1>14, <1>15 DEF IInv

\* A checkpoint is set by a collector that has found what it had to, or left it out
\* in one of the ways that count as passed over.
LEMMA CompleteKeeps ==
    ASSUME IInv, TypeOK', NEW c \in Collectors, Complete(c)
    PROVE  IInv'
  <1>1. /\ TypeOK /\ NothingMissed /\ Sought(c) /\ Remaining(c)
        /\ collector[c].began \in Nat /\ collector[c].listed \in Nat
        /\ collector[c].limit \in Nat /\ now \in Nat
    BY CollectorFields, Instants DEF IInv
  <1>2. /\ kind' = kind /\ now' = now /\ at' = at /\ stored' = stored /\ scope' = scope
        /\ collector' = [collector EXCEPT ![c] = IdleCollector]
        /\ collector[c].pc = "building" /\ collector[c].todo = {}
        /\ \/ /\ Advances(c) /\ synced' = now
              /\ passed' = passed \cup Overtaken(c) \cup Overlooked(c)
           \/ synced' = synced /\ passed' = passed
    BY DEF Complete
  <1>3. ASSUME Advances(c), Full(c, collector[c].listed), kind # "issues"
        PROVE  Overlooks(c)
    <2>1. ListMax \in Nat \ {0} /\ collector[c].failed = FALSE /\ ~ScanTruncated(c)
      BY <1>3, PageAssumption DEF Advances
    <2>2. CASE kind = "pulls"
      <3>1. Cap(c) = collector[c].limit => collector[c].limit > 0
        BY <1>1, <2>1, <2>2 DEF Cap, Lesser
      <3>2. Candidates(c) \subseteq Items
        BY DEF Candidates
      <3>3. NumberOfCandidates(c) \in Nat
        BY <2>2, <3>2, FiniteCounts DEF NumberOfCandidates
      <3>4. collector[c].listed >= Cap(c)
        BY <1>3 DEF Full
      <3> QED
        BY <1>1, <2>1, <2>2, <3>1, <3>3, <3>4 DEF Overlooks, ScanTruncated
    <2>3. CASE kind # "pulls"
      <3>1. kind \in {"drive", "gmail"}
        BY <1>1, <1>3, <2>3, KindAssumption DEF TypeOK
      <3>2. collector[c].limit > 0 /\ collector[c].listed >= collector[c].limit
        BY <1>3, <3>1 DEF Full, Capped, Cap
      <3>3. NumberOfCandidates(c) = collector[c].listed
        BY <3>1 DEF NumberOfCandidates
      <3> QED
        BY <2>1, <3>2, <3>3 DEF ScanTruncated
    <2> QED
      BY <2>2, <2>3
  <1>4. NothingMissed'
    <2>1. CASE synced' = synced /\ passed' = passed
      BY <1>1, <1>2, <2>1 DEF NothingMissed, Matches, Since
    <2>2. CASE /\ Advances(c) /\ synced' = now
               /\ passed' = passed \cup Overtaken(c) \cup Overlooked(c)
      <3>1. ASSUME NEW x \in scope, at[x] > 0, x \notin stored, x \notin passed'
            PROVE  Matches(x, Since(now))
        <4>1. x \in Items /\ at[x] \in Nat
          BY <1>1, <3>1, Instants DEF TypeOK
        <4>2. CASE at[x] > collector[c].began
          BY <2>2, <3>1, <4>1, <4>2 DEF Overtaken
        <4>3. CASE ~(at[x] > collector[c].began)
          <5>1. x \in Pending(c)
            BY <1>1, <2>2, <3>1, <4>1, <4>3 DEF Pending
          <5>2. x \in collector[c].left /\ (kind = "issues" \/ Full(c, collector[c].listed))
            BY <1>1, <1>2, <2>2, <5>1 DEF Remaining, Advances
          <5>3. Overlooks(c)
            <6>1. CASE kind = "issues"
              BY <6>1 DEF Overlooks
            <6>2. CASE kind # "issues"
              BY <1>3, <2>2, <5>2, <6>2
            <6> QED
              BY <6>1, <6>2
          <5> QED
            BY <2>2, <3>1, <5>2, <5>3 DEF Overlooked
        <4> QED
          BY <4>2, <4>3
      <3> QED
        BY <1>2, <2>2, <3>1 DEF NothingMissed, Matches, Since
    <2> QED
      BY <1>2, <2>1, <2>2
  <1>5. SeenSound(c)' /\ Sought(c)' /\ Ahead(c)' /\ Remaining(c)'
    BY <1>1, <1>2, IdleHolds DEF TypeOK
  <1>6. \A d \in Collectors \ {c} : SeenSound(d)' /\ Sought(d)' /\ Ahead(d)' /\ Remaining(d)'
    BY <1>2, RestKeeps
  <1> QED
    BY <1>4, <1>5, <1>6 DEF IInv

-----------------------------------------------------------------------------
(* The theorems. *)

LEMMA StepKeeps == IInv /\ [Next]_vars => IInv'
  <1> SUFFICES ASSUME IInv, [Next]_vars PROVE IInv'
    OBVIOUS
  <1>1. TypeOK'
    BY TypeStep DEF IInv
  <1>2. ASSUME NEW x \in Items, Change(x)
        PROVE  IInv'
    BY <1>1, <1>2, ChangeKeeps
  <1>3. CASE Tick
    BY <1>1, <1>3, TickKeeps
  <1>4. ASSUME NEW selected \in SUBSET Items, SaveConfiguration(selected)
        PROVE  IInv'
    BY <1>1, <1>4, SaveKeeps
  <1>5. ASSUME NEW c \in Collectors, CollectorStep(c)
        PROVE  IInv'
    <2>1. ASSUME NEW limit \in Limits, Start(c, limit)
          PROVE  IInv'
      BY <1>1, <2>1, StartKeeps
    <2>2. CASE ListPage(c)
      BY <1>1, <2>2, ListKeeps
    <2>3. CASE Stop(c)
      BY <1>1, <2>3, StopKeeps
    <2>4. CASE Complete(c)
      BY <1>1, <2>4, CompleteKeeps
    <2>5. ASSUME NEW x \in Items, Build(c, x) \/ BuildFails(c, x)
          PROVE  IInv'
      BY <1>1, <2>5, BuildKeeps
    <2> QED
      BY <1>5, <2>1, <2>2, <2>3, <2>4, <2>5 DEF CollectorStep
  <1>6. CASE UNCHANGED vars
    <2>1. NothingMissed'
      BY <1>6 DEF IInv, NothingMissed, Matches, Since, vars
    <2>2. ASSUME NEW d \in Collectors
          PROVE  SeenSound(d)' /\ Sought(d)' /\ Ahead(d)' /\ Remaining(d)'
      BY <1>6 DEF IInv, vars, SeenSound, Sought, Ahead, Remaining, Pending, Candidates,
                  Matches, Place, Held, Skipped, Full, Capped, Cap, Lesser
    <2> QED
      BY <1>1, <2>1, <2>2 DEF IInv
  <1> QED
    BY <1>2, <1>3, <1>4, <1>5, <1>6 DEF Next

\* Everything above holds of every reachable state.
THEOREM CollectionInvariant == Spec => []IInv
  BY InitInv, StepKeeps, PTL DEF Spec

\* Checkpoints, lists and candidates are what the code takes them for.
THEOREM TypeCorrect == Spec => []TypeOK
  <1>1. IInv => TypeOK
    BY DEF IInv
  <1> QED
    BY <1>1, CollectionInvariant, PTL

\* What is selected and missing is in the next scan, or a checkpoint passed over it
\* in one of the ways the model names: for any number of items, collectors, pages,
\* limits, failures and changes of the configuration.
THEOREM NothingMissedCorrect == Spec => []NothingMissed
  <1>1. IInv => NothingMissed
    BY DEF IInv
  <1> QED
    BY <1>1, CollectionInvariant, PTL
=============================================================================
