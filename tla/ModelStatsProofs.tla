---------------------------- MODULE ModelStatsProofs ----------------------------
(***************************************************************************)
(* Proofs about ModelStats for any listings, ids, files and bounds.        *)
(*                                                                         *)
(* What is resolved was looked up because whoever resolves has seen a      *)
(* catalog before (CatalogSeen), also in an earlier run (FilesSound).  The *)
(* file catches up because at any time either the last write handed out is *)
(* still to run and has the cache as it is, or every write left is stale   *)
(* and the file has it (FileFollows); for that, the lock must be held from *)
(* the first change of a listing to its write (LockHeld).                  *)
(***************************************************************************)
EXTENDS ModelStats, TLAPS

\* Entries are a function from some ids to numbers of catalogs.
LEMMA EntryMapsAre ==
    ASSUME NEW f
    PROVE  f \in EntryMaps <=> DOMAIN f \subseteq Ids /\ f \in [DOMAIN f -> 0..MaxCatalogs]
BY DEF EntryMaps

\* What a file or a write has as resolved has statistics.
Sound(c) == \A id \in c.resolved \cap DOMAIN c.entries : c.entries[id] > 0

FilesSound == Sound(disk) /\ \A i \in DOMAIN jobs : Sound(jobs[i].snap)

\* Who counts an id as resolved knows of a catalog, and there still is one.
CatalogSeen ==
    /\ \A l \in Listers : listing[l].hasCatalog => catalog > 0
    /\ fetch = "fetched" => catalog > 0

LockHeld == \A l \in Listers : listing[l].at = "adding" <=> holder = l

AllStale == \A i \in DOMAIN jobs : jobs[i].stale

FileFollows ==
    persisted /\ failures = 0 /\ holder = NoOne =>
        \/ /\ jobs # <<>> /\ ~jobs[Len(jobs)].stale
           /\ jobs[Len(jobs)].snap = Snapshot
        \/ AllStale /\ disk = Snapshot

IInv ==
    /\ TypeOK
    /\ ResolvedWasLookedUp
    /\ FilesSound
    /\ CatalogSeen
    /\ LockHeld
    /\ FileFollows
-----------------------------------------------------------------------------
ListingType ==
    [at : {"idle", "looked", "adding", "synced", "due", "stale"}, ids : SUBSET Ids, hasCatalog : BOOLEAN]
JobType == [snap : Cache, stale : BOOLEAN]

LEMMA SnapshotIsCache ==
    ASSUME entries \in EntryMaps, resolved \in SUBSET Ids
    PROVE  Snapshot \in Cache
BY DEF Snapshot, Cache

\* What persist hands out.
LEMMA PersistKeepsTypes ==
    ASSUME jobs \in Seq(JobType), Snapshot' \in Cache, Persist
    PROVE  jobs' \in Seq(JobType) /\ persisted' \in BOOLEAN
<1>1. [snap |-> Snapshot', stale |-> FALSE] \in JobType
  BY DEF JobType
<1> QED
  BY <1>1 DEF Persist

LEMMA ListingMoves ==
    ASSUME TypeOK, NEW l \in Listers, NEW at \in {"idle", "looked", "adding", "synced", "due", "stale"}, At(l, at)
    PROVE  /\ listing' \in [Listers -> ListingType]
           /\ listing'[l].at = at
           /\ \A k \in Listers : k # l => listing'[k] = listing[k]
           /\ \A k \in Listers : listing'[k].hasCatalog = listing[k].hasCatalog
BY DEF TypeOK, ListingType, At

LEMMA TypesOfState ==
    TypeOK <=>
        /\ catalog \in 0..MaxCatalogs
        /\ entries \in EntryMaps /\ resolved \subseteq Ids
        /\ resolved \subseteq DOMAIN entries
        /\ holder \in Listers \union {NoOne}
        /\ listing \in [Listers -> ListingType]
        /\ inFlight \in BOOLEAN
        /\ fetch \in {"idle", "fetching", "fetched", "over"}
        /\ backoff \in BOOLEAN
        /\ jobs \in Seq(JobType)
        /\ disk \in Cache
        /\ persisted \in BOOLEAN
        /\ failures \in 0..MaxFailures /\ restarts \in 0..MaxRestarts
<1>1. Snapshot \in Cache <=> entries \in EntryMaps /\ resolved \subseteq Ids
  BY DEF Snapshot, Cache
<1> QED
  BY <1>1 DEF TypeOK, ListingType, JobType

LEMMA LoadKeepsTypes ==
    ASSUME NEW f \in Cache, Load(f)
    PROVE  /\ entries' \in EntryMaps /\ resolved' \subseteq Ids
           /\ resolved' \subseteq DOMAIN entries'
BY DEF Load, Cache

LEMMA Initially == Init => IInv
<1> SUFFICES ASSUME Init PROVE IInv
  OBVIOUS
<1>1. disk \in Files /\ disk \in Cache
  BY StatsAssumption DEF Init
<1>2. entries \in EntryMaps /\ resolved \subseteq Ids /\ resolved \subseteq DOMAIN entries
  BY <1>1 DEF Init, Cache
<1>3. Idle \in ListingType
  BY DEF Idle, ListingType
<1>4. listing \in [Listers -> ListingType]
  BY <1>3 DEF Init
<1>5. failures \in 0..MaxFailures /\ restarts \in 0..MaxRestarts /\ catalog \in 0..MaxCatalogs
  BY StatsAssumption DEF Init
<1>6. jobs \in Seq(JobType) /\ fetch = "idle" /\ holder = NoOne
  BY DEF Init
<1>11. backoff \in BOOLEAN /\ inFlight \in BOOLEAN /\ persisted \in BOOLEAN
  BY DEF Init
<1>7. TypeOK
  BY <1>1, <1>2, <1>4, <1>5, <1>6, <1>11, TypesOfState
<1>8. Sound(disk)
  BY <1>1, StatsAssumption DEF Sound
<1>9. ResolvedWasLookedUp /\ FilesSound
  BY <1>8 DEF Init, ResolvedWasLookedUp, FilesSound, Sound
<1>10. CatalogSeen /\ LockHeld /\ FileFollows
  BY StatsAssumption DEF Init, CatalogSeen, LockHeld, FileFollows, Idle
<1> QED
  BY <1>7, <1>9, <1>10 DEF IInv
-----------------------------------------------------------------------------
\* Writes that are neither handed out nor run, of a cache that does not change.
LEMMA NothingWritten ==
    ASSUME IInv, UNCHANGED <<state, jobs, disk, persisted, failures>>,
           holder' = NoOne => holder = NoOne
    PROVE  ResolvedWasLookedUp' /\ FilesSound' /\ FileFollows'
BY DEF IInv, state, ResolvedWasLookedUp, FilesSound, FileFollows, AllStale, Snapshot, Sound

\* Before, between and after what a listing does under the lock.
LEMMA ListingStarts ==
    ASSUME IInv, NEW l \in Listers, StartListing(l)
    PROVE  IInv'
<1> DEFINE known == catalog > 0
<1>1. PICK ids \in Listings :
          listing' = [listing EXCEPT ![l] = [at |-> "looked", ids |-> ids, hasCatalog |-> known]]
  BY DEF StartListing
<1>9. known \in BOOLEAN
  OBVIOUS
<1> HIDE DEF known
<1>2. [at |-> "looked", ids |-> ids, hasCatalog |-> known] \in ListingType
  BY <1>9, StatsAssumption DEF ListingType
<1>3. listing \in [Listers -> ListingType]
  BY TypesOfState DEF IInv
<1>4. /\ listing' \in [Listers -> ListingType]
      /\ listing'[l] = [at |-> "looked", ids |-> ids, hasCatalog |-> known]
      /\ \A k \in Listers : k # l => listing'[k] = listing[k]
  BY <1>1, <1>2, <1>3
<1>5. TypeOK'
  BY <1>4 DEF IInv, StartListing, TypeOK, ListingType, Snapshot, state
<1>6. listing'[l].at = "looked" /\ (listing'[l].hasCatalog => known)
  BY <1>4, <1>9
<1>7. CatalogSeen'
  BY <1>4, <1>6 DEF IInv, StartListing, CatalogSeen, known
<1>8. LockHeld'
  BY <1>4, <1>6 DEF IInv, StartListing, LockHeld
<1> QED
  BY <1>5, <1>7, <1>8, NothingWritten DEF IInv, StartListing

LEMMA ListingGoesOn ==
    ASSUME IInv, NEW l \in Listers, CheckBackOff(l) \/ CheckStale(l) \/ SpawnRefresh(l)
    PROVE  IInv'
<1>1. PICK at \in {"idle", "due", "stale"} : At(l, at)
  BY DEF CheckBackOff, CheckStale, SpawnRefresh
<1>2. /\ listing' \in [Listers -> ListingType]
      /\ listing'[l].at = at
      /\ \A k \in Listers : k # l => listing'[k] = listing[k]
      /\ \A k \in Listers : listing'[k].hasCatalog = listing[k].hasCatalog
  BY <1>1, ListingMoves DEF IInv
<1>3. TypeOK'
  BY <1>2 DEF IInv, CheckBackOff, CheckStale, SpawnRefresh, TypeOK, ListingType, Snapshot, state
<1>4. CatalogSeen' /\ LockHeld'
  BY <1>2 DEF IInv, CheckBackOff, CheckStale, SpawnRefresh, CatalogSeen, LockHeld
<1> QED
  BY <1>3, <1>4, NothingWritten DEF IInv, CheckBackOff, CheckStale, SpawnRefresh

\* The fetch, up to its results.
LEMMA FetchGoesOn ==
    ASSUME IInv, Fetched \/ FetchFailed \/ FetchOver \/ BackoffEnds
    PROVE  IInv'
<1>1. catalog' \in 0..MaxCatalogs /\ (catalog > 0 => catalog' > 0) /\ (Fetched => catalog' > 0)
  BY StatsAssumption DEF IInv, TypeOK, Fetched, FetchFailed, FetchOver, BackoffEnds
<1>2. failures' \in 0..MaxFailures /\ (FetchFailed => failures' # 0)
  BY StatsAssumption DEF IInv, TypeOK, Fetched, FetchFailed, FetchOver, BackoffEnds
<1>3. UNCHANGED <<state, holder, listing, jobs, disk, persisted, restarts>>
  BY DEF Fetched, FetchFailed, FetchOver, BackoffEnds
<1>4. inFlight' \in BOOLEAN /\ backoff' \in BOOLEAN /\ fetch' \in {"idle", "fetching", "fetched", "over"}
  BY DEF IInv, TypeOK, Fetched, FetchFailed, FetchOver, BackoffEnds
<1>5. TypeOK'
  BY <1>1, <1>2, <1>3, <1>4 DEF IInv, TypeOK, Snapshot, state
<1>6. CatalogSeen' /\ LockHeld'
  BY <1>1, <1>3 DEF IInv, CatalogSeen, LockHeld, Fetched, FetchFailed, FetchOver, BackoffEnds
<1>7. ResolvedWasLookedUp' /\ FilesSound' /\ FileFollows'
  BY <1>2, <1>3 DEF IInv, state, ResolvedWasLookedUp, FilesSound, FileFollows, AllStale, Snapshot, Sound,
                    Fetched, FetchFailed, FetchOver, BackoffEnds
<1> QED
  BY <1>5, <1>6, <1>7 DEF IInv
-----------------------------------------------------------------------------
LEMMA LastOfAppend ==
    ASSUME NEW S, NEW s \in Seq(S), NEW e \in S
    PROVE  /\ Append(s, e) # <<>> /\ Append(s, e)[Len(Append(s, e))] = e
           /\ \A i \in DOMAIN Append(s, e) : (i \in DOMAIN s /\ Append(s, e)[i] = s[i]) \/ Append(s, e)[i] = e
OBVIOUS

\* A write that is handed out is the last of all, and has the cache as it is.
LEMMA Persisting ==
    ASSUME IInv, Persist, Snapshot' \in Cache, ResolvedWasLookedUp', UNCHANGED <<disk, failures>>
    PROVE  jobs' \in Seq(JobType) /\ persisted' \in BOOLEAN /\ FilesSound' /\ FileFollows'
<1> DEFINE job == [snap |-> Snapshot', stale |-> FALSE]
<1>1. job \in JobType /\ job.snap = Snapshot' /\ ~job.stale
  BY DEF JobType
<1>2. jobs \in Seq(JobType)
  BY TypesOfState DEF IInv
<1>3. jobs' = Append(jobs, job) /\ persisted' = TRUE
  BY DEF Persist
<1> HIDE DEF job
<1>4. /\ jobs' # <<>> /\ jobs'[Len(jobs')] = job
      /\ \A i \in DOMAIN jobs' : (i \in DOMAIN jobs /\ jobs'[i] = jobs[i]) \/ jobs'[i] = job
  BY <1>1, <1>2, <1>3, LastOfAppend
<1>5. Sound(Snapshot')
  BY DEF Sound, ResolvedWasLookedUp, Snapshot
<1>6. FilesSound'
  BY <1>1, <1>4, <1>5 DEF IInv, FilesSound, Sound
<1>7. FileFollows'
  BY <1>1, <1>4 DEF FileFollows
<1> QED
  BY <1>6, <1>7, PersistKeepsTypes, <1>2

\* The entries that are no longer listed are dropped.
LEMMA AlignKeeps ==
    ASSUME IInv, NEW l \in Listers, Align(l)
    PROVE  IInv'
<1> DEFINE ids == listing[l].ids
<1>1. /\ entries \in EntryMaps /\ resolved \subseteq Ids /\ resolved \subseteq DOMAIN entries
      /\ listing[l].ids \subseteq Ids /\ listing \in [Listers -> ListingType]
      /\ DOMAIN entries \subseteq Ids /\ entries \in [DOMAIN entries -> 0..MaxCatalogs]
  BY TypesOfState, EntryMapsAre DEF IInv, ListingType
<1>2. /\ DOMAIN entries' = DOMAIN entries \cap ids
      /\ \A id \in DOMAIN entries' : entries'[id] = entries[id]
      /\ resolved' = resolved \cap ids
      /\ entries' = [id \in DOMAIN entries' |-> entries'[id]]
  BY DEF Align
<1>3. entries' \in EntryMaps /\ resolved' \subseteq Ids /\ resolved' \subseteq DOMAIN entries'
  <2>1. DOMAIN entries' \subseteq Ids /\ entries' \in [DOMAIN entries' -> 0..MaxCatalogs]
    BY <1>1, <1>2
  <2> QED
    BY <1>1, <1>2, <2>1, EntryMapsAre
<1>4. Snapshot' \in Cache
  BY <1>3 DEF Snapshot, Cache
<1>5. ResolvedWasLookedUp'
  BY <1>1, <1>2 DEF IInv, ResolvedWasLookedUp
<1>6. \E at \in {"adding", "synced"} :
          /\ At(l, at)
          /\ at = "adding" => holder' = l /\ UNCHANGED <<jobs, persisted>>
          /\ at = "synced" => holder' = holder /\ (Persist \/ (Dropped(l) = {} /\ UNCHANGED <<jobs, persisted>>))
  BY DEF Align
<1>7. PICK at \in {"adding", "synced"} :
          /\ At(l, at)
          /\ at = "adding" => holder' = l /\ UNCHANGED <<jobs, persisted>>
          /\ at = "synced" => holder' = holder /\ (Persist \/ (Dropped(l) = {} /\ UNCHANGED <<jobs, persisted>>))
  BY <1>6
<1>8. /\ listing' \in [Listers -> ListingType]
      /\ listing'[l].at = at
      /\ \A k \in Listers : k # l => listing'[k] = listing[k]
      /\ \A k \in Listers : listing'[k].hasCatalog = listing[k].hasCatalog
  BY <1>7, ListingMoves DEF IInv
<1>9. UNCHANGED <<catalog, inFlight, fetch, backoff, disk, failures, restarts>> /\ holder = NoOne
  BY DEF Align
<1>10. CatalogSeen' /\ LockHeld'
  BY <1>7, <1>8, <1>9, StatsAssumption DEF IInv, CatalogSeen, LockHeld
<1>11. jobs' \in Seq(JobType) /\ persisted' \in BOOLEAN /\ FilesSound' /\ FileFollows'
  <2>1. CASE Persist
    BY <2>1, <1>4, <1>5, <1>9, Persisting
  <2>2. CASE UNCHANGED <<jobs, persisted>>
    <3>1. jobs' \in Seq(JobType) /\ persisted' \in BOOLEAN /\ FilesSound'
      BY <2>2, <1>9, TypesOfState DEF IInv, FilesSound, Sound
    <3>2. CASE at = "adding"
      BY <1>7, <3>1, <3>2, StatsAssumption DEF FileFollows
    <3>3. CASE at = "synced" /\ Dropped(l) = {}
      <4>1. DOMAIN entries' = DOMAIN entries /\ resolved' = resolved
        BY <1>1, <1>2, <3>3 DEF Dropped
      <4>2. entries' = entries
        BY <1>1, <1>2, <4>1
      <4> QED
        BY <1>9, <2>2, <3>1, <4>1, <4>2 DEF IInv, FileFollows, AllStale, Snapshot
    <3>4. CASE at = "synced" /\ Persist
      BY <3>4, <1>4, <1>5, <1>9, Persisting
    <3> QED
      BY <1>7, <3>2, <3>3, <3>4
  <2> QED
    BY <1>7, <2>1, <2>2
<1>12. TypeOK'
  BY <1>3, <1>7, <1>8, <1>9, <1>11, TypesOfState DEF IInv, TypeOK, Snapshot, Cache, JobType, ListingType
<1> QED
  BY <1>5, <1>10, <1>11, <1>12 DEF IInv

\* A new id counts as resolved only if the listing knows of a catalog, from
\* which the entry then comes.
LEMMA AddKeeps ==
    ASSUME IInv, NEW l \in Listers, NEW id \in Ids, AddEntry(l, id)
    PROVE  IInv'
<1>1. /\ entries \in EntryMaps /\ resolved \subseteq Ids /\ resolved \subseteq DOMAIN entries
      /\ DOMAIN entries \subseteq Ids /\ entries \in [DOMAIN entries -> 0..MaxCatalogs]
      /\ catalog \in 0..MaxCatalogs /\ id \notin DOMAIN entries
  BY TypesOfState, EntryMapsAre DEF IInv, AddEntry, Missing
<1>2. /\ DOMAIN entries' = DOMAIN entries \union {id}
      /\ \A i \in DOMAIN entries : entries'[i] = entries[i]
      /\ entries'[id] = catalog
      /\ entries' = [i \in DOMAIN entries' |-> entries'[i]]
  BY <1>1 DEF AddEntry
<1>3. resolved' \subseteq resolved \union {id} /\ (id \in resolved' => catalog > 0)
  BY <1>1 DEF AddEntry, IInv, CatalogSeen
<1>4. entries' \in EntryMaps /\ resolved' \subseteq Ids /\ resolved' \subseteq DOMAIN entries'
  <2>1. DOMAIN entries' \subseteq Ids /\ entries' \in [DOMAIN entries' -> 0..MaxCatalogs]
    BY <1>1, <1>2
  <2> QED
    BY <1>1, <1>2, <1>3, <2>1, EntryMapsAre
<1>5. UNCHANGED <<catalog, holder, listing, inFlight, fetch, backoff, jobs, disk, persisted, failures, restarts>>
  BY DEF AddEntry
<1>6. ResolvedWasLookedUp'
  BY <1>1, <1>2, <1>3, <1>4 DEF IInv, ResolvedWasLookedUp
<1>7. holder' # NoOne
  BY <1>5, StatsAssumption DEF AddEntry, IInv, LockHeld
<1>8. FilesSound' /\ CatalogSeen' /\ LockHeld' /\ FileFollows'
  BY <1>5, <1>7 DEF IInv, FilesSound, Sound, CatalogSeen, LockHeld, FileFollows
<1>9. TypeOK'
  BY <1>4, <1>5, TypesOfState DEF IInv, TypeOK, Snapshot, Cache, JobType, ListingType
<1> QED
  BY <1>6, <1>8, <1>9 DEF IInv

LEMMA AlignedKeeps ==
    ASSUME IInv, NEW l \in Listers, Aligned(l)
    PROVE  IInv'
<1>1. /\ listing' \in [Listers -> ListingType]
      /\ listing'[l].at = "synced"
      /\ \A k \in Listers : k # l => listing'[k] = listing[k]
      /\ \A k \in Listers : listing'[k].hasCatalog = listing[k].hasCatalog
  BY ListingMoves DEF IInv, Aligned
<1>2. UNCHANGED <<catalog, state, inFlight, fetch, backoff, disk, failures, restarts>> /\ holder' = NoOne /\ holder = l
  BY DEF Aligned, IInv, LockHeld
<1>3. Snapshot' = Snapshot /\ Snapshot' \in Cache /\ ResolvedWasLookedUp'
  BY <1>2 DEF state, Snapshot, IInv, TypeOK, ResolvedWasLookedUp
<1>4. jobs' \in Seq(JobType) /\ persisted' \in BOOLEAN /\ FilesSound' /\ FileFollows'
  BY <1>2, <1>3, Persisting DEF Aligned
<1>5. CatalogSeen'
  BY <1>1, <1>2 DEF IInv, CatalogSeen
<1>6. LockHeld'
  BY <1>1, <1>2, StatsAssumption DEF IInv, LockHeld
<1>7. TypeOK'
  BY <1>1, <1>2, <1>4, TypesOfState DEF IInv, TypeOK, Snapshot, JobType, ListingType, state
<1> QED
  BY <1>3, <1>4, <1>5, <1>6, <1>7 DEF IInv

\* The unresolved entries are computed from a catalog there is.
LEMMA ResolveKeeps ==
    ASSUME IInv, Resolve
    PROVE  IInv'
<1>1. /\ entries \in EntryMaps /\ resolved \subseteq Ids /\ resolved \subseteq DOMAIN entries
      /\ DOMAIN entries \subseteq Ids /\ entries \in [DOMAIN entries -> 0..MaxCatalogs]
      /\ catalog \in 0..MaxCatalogs /\ catalog > 0
  BY TypesOfState, EntryMapsAre DEF IInv, Resolve, CatalogSeen
<1>2. /\ DOMAIN entries' = DOMAIN entries
      /\ \A i \in DOMAIN entries : entries'[i] = IF i \in resolved THEN entries[i] ELSE catalog
      /\ entries' = [i \in DOMAIN entries' |-> entries'[i]]
      /\ resolved' = DOMAIN entries
  BY DEF Resolve
<1>3. entries' \in EntryMaps /\ resolved' \subseteq Ids /\ resolved' \subseteq DOMAIN entries'
  <2>1. entries' \in [DOMAIN entries' -> 0..MaxCatalogs]
    BY <1>1, <1>2
  <2> QED
    BY <1>1, <1>2, <2>1, EntryMapsAre
<1>4. Snapshot' \in Cache
  BY <1>3 DEF Snapshot, Cache
<1>5. ResolvedWasLookedUp'
  BY <1>1, <1>2 DEF IInv, ResolvedWasLookedUp
<1>6. UNCHANGED <<catalog, holder, listing, inFlight, disk, failures, restarts>> /\ fetch' = "over" /\ backoff' = FALSE
  BY DEF Resolve
<1>7. jobs' \in Seq(JobType) /\ persisted' \in BOOLEAN /\ FilesSound' /\ FileFollows'
  BY <1>4, <1>5, <1>6, Persisting DEF Resolve
<1>8. CatalogSeen' /\ LockHeld'
  BY <1>6 DEF IInv, CatalogSeen, LockHeld
<1>9. TypeOK'
  <2>1. backoff' \in BOOLEAN
    BY <1>6
  <2> QED
    BY <1>3, <1>6, <1>7, <2>1, TypesOfState DEF IInv, TypeOK, Snapshot, Cache, JobType, ListingType
<1> QED
  BY <1>5, <1>7, <1>8, <1>9 DEF IInv

LEMMA RestartKeeps == IInv /\ Restart => IInv'
<1> SUFFICES ASSUME IInv, Restart PROVE IInv'
  OBVIOUS
<1>1. disk \in Cache /\ Load(disk) /\ disk' = disk
  BY DEF IInv, TypeOK, Restart
<1>2. entries' \in EntryMaps /\ resolved' \subseteq Ids /\ resolved' \subseteq DOMAIN entries'
  BY <1>1, LoadKeepsTypes
<1>3. Idle \in ListingType /\ Idle.at = "idle" /\ Idle.hasCatalog = FALSE
  BY DEF Idle, ListingType
<1>4. listing' \in [Listers -> ListingType] /\ \A l \in Listers : listing'[l] = Idle
  BY <1>3 DEF Restart
<1>5. catalog' \in 0..MaxCatalogs /\ restarts' \in 0..MaxRestarts /\ failures' \in 0..MaxFailures
  BY StatsAssumption DEF Restart, IInv, TypeOK
<1>6. inFlight' \in BOOLEAN /\ backoff' \in BOOLEAN /\ persisted' \in BOOLEAN
  BY DEF Restart
<1>7. jobs' = <<>> /\ jobs' \in Seq(JobType) /\ holder' = NoOne /\ fetch' = "idle" /\ persisted' = FALSE
  BY DEF Restart
<1>8. TypeOK'
  BY <1>1, <1>2, <1>4, <1>5, <1>6, <1>7, TypesOfState DEF TypeOK, Snapshot, Cache, JobType, ListingType
<1>9. ResolvedWasLookedUp' /\ FilesSound'
  BY <1>1, <1>7 DEF IInv, FilesSound, Sound, ResolvedWasLookedUp, Load
<1>10. CatalogSeen' /\ LockHeld' /\ FileFollows'
  BY <1>3, <1>4, <1>7, StatsAssumption DEF CatalogSeen, LockHeld, FileFollows
<1> QED
  BY <1>8, <1>9, <1>10 DEF IInv
-----------------------------------------------------------------------------
LEMMA JobRemoved ==
    ASSUME jobs \in Seq(JobType), NEW i \in DOMAIN jobs
    PROVE  /\ WithoutJob(i) \in Seq(JobType) /\ Len(WithoutJob(i)) = Len(jobs) - 1
           /\ DOMAIN WithoutJob(i) = 1..(Len(jobs) - 1)
           /\ \A j \in 1..(Len(jobs) - 1) : WithoutJob(i)[j] = IF j < i THEN jobs[j] ELSE jobs[j + 1]
<1>1. i \in 1..Len(jobs) /\ Len(jobs) \in Nat
  OBVIOUS
<1>2. SubSeq(jobs, 1, i - 1) \in Seq(JobType) /\ SubSeq(jobs, i + 1, Len(jobs)) \in Seq(JobType)
  BY <1>1
<1> DEFINE before == SubSeq(jobs, 1, i - 1)
           after  == SubSeq(jobs, i + 1, Len(jobs))
<1>3. Len(before) = i - 1 /\ Len(after) = Len(jobs) - i
  BY <1>1
<1>4. /\ \A j \in 1..(i - 1) : before[j] = jobs[j]
      /\ \A j \in 1..(Len(jobs) - i) : after[j] = jobs[j + i]
  BY <1>1
<1> HIDE DEF before, after
<1>5. WithoutJob(i) = before \o after /\ before \in Seq(JobType) /\ after \in Seq(JobType)
  BY <1>2 DEF WithoutJob, before, after
<1>6. WithoutJob(i) \in Seq(JobType) /\ Len(WithoutJob(i)) = Len(jobs) - 1
  BY <1>1, <1>3, <1>5
<1>7. ASSUME NEW j \in 1..(Len(jobs) - 1)
      PROVE  WithoutJob(i)[j] = IF j < i THEN jobs[j] ELSE jobs[j + 1]
  <2>1. CASE j < i
    BY <2>1, <1>1, <1>3, <1>4, <1>5
  <2>2. CASE ~(j < i)
    <3>1. j - (i - 1) \in 1..(Len(jobs) - i) /\ (j - (i - 1)) + i = j + 1
      BY <2>2, <1>1
    <3>2. WithoutJob(i)[j] = after[j - (i - 1)]
      <4>1. j \in 1..(Len(before) + Len(after)) /\ j > Len(before) /\ i - 1 = Len(before)
        BY <2>2, <1>1, <1>3
      <4>2. (before \o after)[j] = after[j - Len(before)]
        BY <4>1, <1>5
      <4> QED
        BY <4>1, <4>2, <1>5
    <3>3. after[j - (i - 1)] = jobs[j + 1]
      BY <3>1, <1>4
    <3> QED
      BY <2>2, <3>2, <3>3
  <2> QED
    BY <2>1, <2>2
<1> QED
  BY <1>1, <1>6, <1>7

LEMMA FailedWriteKeeps ==
    ASSUME IInv, NEW i \in DOMAIN jobs, WriteFailed(i)
    PROVE  IInv'
<1>1. jobs \in Seq(JobType)
  BY TypesOfState DEF IInv
<1>2. /\ jobs' \in Seq(JobType)
      /\ \A j \in DOMAIN jobs' : \E k \in DOMAIN jobs : jobs'[j] = jobs[k]
  <2>1. jobs' = WithoutJob(i) /\ DOMAIN jobs = 1..Len(jobs) /\ i \in 1..Len(jobs) /\ Len(jobs) \in Nat
    BY <1>1 DEF WriteFailed
  <2>2. /\ WithoutJob(i) \in Seq(JobType) /\ DOMAIN WithoutJob(i) = 1..(Len(jobs) - 1)
        /\ \A j \in 1..(Len(jobs) - 1) : WithoutJob(i)[j] = IF j < i THEN jobs[j] ELSE jobs[j + 1]
    BY <1>1, JobRemoved
  <2> QED
    BY <2>1, <2>2
<1>3. failures' \in 0..MaxFailures /\ failures' # 0
  BY StatsAssumption DEF WriteFailed, IInv, TypeOK
<1>4. UNCHANGED <<catalog, state, holder, listing, inFlight, fetch, backoff, disk, persisted, restarts>>
  BY DEF WriteFailed
<1>5. TypeOK'
  BY <1>2, <1>3, <1>4, TypesOfState DEF IInv, TypeOK, Snapshot, JobType, ListingType, state
<1>6. FilesSound' /\ ResolvedWasLookedUp'
  BY <1>2, <1>4 DEF IInv, FilesSound, Sound, ResolvedWasLookedUp, state
<1>7. CatalogSeen' /\ LockHeld' /\ FileFollows'
  BY <1>3, <1>4 DEF IInv, CatalogSeen, LockHeld, FileFollows
<1> QED
  BY <1>5, <1>6, <1>7 DEF IInv

\* A write that runs makes those before it stale; the last one is never among
\* them.
LEMMA WriteKeeps ==
    ASSUME IInv, NEW i \in DOMAIN jobs, WriteCacheFile(i)
    PROVE  IInv'
<1> DEFINE rest == WithoutJob(i)
           marked(j) == IF j < i /\ ~jobs[i].stale THEN [rest[j] EXCEPT !.stale = TRUE] ELSE rest[j]
<1>1. jobs \in Seq(JobType) /\ i \in 1..Len(jobs) /\ DOMAIN jobs = 1..Len(jobs) /\ Len(jobs) \in Nat
  BY TypesOfState DEF IInv
<1>2. /\ DOMAIN rest = 1..(Len(jobs) - 1) /\ Len(rest) = Len(jobs) - 1 /\ rest \in Seq(JobType)
      /\ \A j \in 1..(Len(jobs) - 1) : rest[j] = IF j < i THEN jobs[j] ELSE jobs[j + 1]
  BY <1>1, JobRemoved
<1>3. jobs' = [j \in DOMAIN rest |-> marked(j)] /\ disk' = IF jobs[i].stale THEN disk ELSE jobs[i].snap
  BY DEF WriteCacheFile
<1> HIDE DEF rest
<1>20. \A j \in DOMAIN rest : rest[j] \in JobType
  BY <1>2
<1>4. \A j \in DOMAIN rest : marked(j) \in JobType /\ marked(j).snap = rest[j].snap
  BY <1>20 DEF JobType
<1>5. \A j \in DOMAIN rest : marked(j).stale <=> (rest[j].stale \/ (j < i /\ ~jobs[i].stale))
  BY <1>20 DEF JobType
<1> HIDE DEF marked
<1>6. jobs' \in Seq(JobType) /\ DOMAIN jobs' = 1..(Len(jobs) - 1) /\ Len(jobs') = Len(jobs) - 1
  BY <1>1, <1>2, <1>3, <1>4
<1>7. UNCHANGED <<catalog, state, holder, listing, inFlight, fetch, backoff, persisted, failures, restarts>>
  BY DEF WriteCacheFile
<1>8. disk' \in Cache /\ Sound(disk')
  <2>1. jobs[i] \in JobType
    BY <1>1
  <2>2. jobs[i].snap \in Cache /\ Sound(jobs[i].snap)
    BY <2>1 DEF JobType, IInv, FilesSound
  <2>3. disk \in Cache /\ Sound(disk)
    BY DEF IInv, TypeOK, FilesSound
  <2> QED
    BY <1>3, <2>2, <2>3
<1>9. \A j \in DOMAIN jobs' : Sound(jobs'[j].snap)
  BY <1>1, <1>2, <1>3, <1>4, <1>6 DEF IInv, FilesSound
<1>10. TypeOK'
  BY <1>6, <1>7, <1>8, TypesOfState DEF IInv, TypeOK, Snapshot, JobType, ListingType, state
<1>11. FilesSound' /\ ResolvedWasLookedUp'
  BY <1>7, <1>8, <1>9 DEF IInv, FilesSound, Sound, ResolvedWasLookedUp, state
<1>12. CatalogSeen' /\ LockHeld'
  BY <1>7 DEF IInv, CatalogSeen, LockHeld
<1>13. ASSUME persisted, failures = 0, holder = NoOne
       PROVE  \/ /\ jobs' # <<>> /\ ~jobs'[Len(jobs')].stale
                 /\ jobs'[Len(jobs')].snap = Snapshot
              \/ (\A j \in DOMAIN jobs' : jobs'[j].stale) /\ disk' = Snapshot
  <2>1. CASE AllStale /\ disk = Snapshot
    <3>1. jobs[i].stale /\ disk' = Snapshot
      BY <2>1, <1>3 DEF AllStale
    <3>2. \A j \in DOMAIN rest : rest[j].stale
      <4> TAKE j \in DOMAIN rest
      <4>1. j \in DOMAIN jobs /\ j + 1 \in DOMAIN jobs
        BY <1>1, <1>2
      <4> QED
        BY <4>1, <2>1, <1>2 DEF AllStale
    <3> QED
      BY <3>1, <3>2, <1>2, <1>3, <1>5, <1>6
  <2>2. CASE ~jobs[Len(jobs)].stale /\ jobs[Len(jobs)].snap = Snapshot /\ i = Len(jobs)
    BY <2>2, <1>1, <1>2, <1>3, <1>5, <1>6
  <2>3. CASE ~jobs[Len(jobs)].stale /\ jobs[Len(jobs)].snap = Snapshot /\ i < Len(jobs)
    <3>1. Len(jobs) - 1 \in DOMAIN rest /\ ~(Len(jobs) - 1 < i) /\ rest[Len(jobs) - 1] = jobs[Len(jobs)]
      BY <2>3, <1>1, <1>2
    <3> QED
      BY <2>3, <3>1, <1>3, <1>4, <1>5, <1>6
  <2> QED
    BY <1>1, <1>13, <2>1, <2>2, <2>3 DEF IInv, FileFollows
<1>14. FileFollows'
  BY <1>7, <1>13 DEF FileFollows, AllStale, Snapshot, state
<1> QED
  BY <1>10, <1>11, <1>12, <1>14 DEF IInv
-----------------------------------------------------------------------------
LEMMA IInvPreserved == IInv /\ [Next]_vars => IInv'
<1> SUFFICES ASSUME IInv, [Next]_vars PROVE IInv'
  OBVIOUS
<1>1. ASSUME NEW l \in Listers, List(l) PROVE IInv'
  BY <1>1, ListingStarts, AlignKeeps, AddKeeps, AlignedKeeps, ListingGoesOn DEF List
<1>2. CASE Background \/ BackoffEnds
  BY <1>2, FetchGoesOn, ResolveKeeps DEF Background
<1>3. ASSUME NEW i \in DOMAIN jobs, WriteCacheFile(i) \/ WriteFailed(i) PROVE IInv'
  BY <1>3, WriteKeeps, FailedWriteKeeps
<1>4. CASE Restart
  BY <1>4, RestartKeeps
<1>5. CASE UNCHANGED vars
  <2>1. TypeOK'
    BY <1>5, TypesOfState DEF IInv, vars, state, TypeOK, Snapshot, JobType, ListingType
  <2>2. CatalogSeen' /\ LockHeld'
    BY <1>5 DEF IInv, vars, CatalogSeen, LockHeld
  <2> QED
    BY <1>5, <2>1, <2>2, NothingWritten DEF IInv, vars, state
<1> QED
  BY <1>1, <1>2, <1>3, <1>4, <1>5 DEF Next

\* The cache, the file and the writes keep their types, for any listings, files
\* and bounds (CacheState of model_stats.rs).
THEOREM TypeCorrect == Spec => []TypeOK
<1>1. IInv => TypeOK
  BY DEF IInv
<1> QED
  BY Initially, IInvPreserved, <1>1, PTL DEF Spec

\* No race of listings and fetches, no file and no restart leaves an id resolved
\* that was never looked up (sync_models, refresh, with_cache_path).
THEOREM ResolvedWasLookedUpHolds == Spec => []ResolvedWasLookedUp
<1>1. IInv => ResolvedWasLookedUp
  BY DEF IInv
<1> QED
  BY Initially, IInvPreserved, <1>1, PTL DEF Spec

\* In whatever order the pool runs the writes, the file ends up with the cache as
\* it is (persist, write_cache_file).
THEOREM DiskCatchesUpHolds == Spec => []DiskCatchesUp
<1>1. IInv => DiskCatchesUp
  BY DEF IInv, FileFollows, DiskCatchesUp
<1> QED
  BY Initially, IInvPreserved, <1>1, PTL DEF Spec

\* Neither a fetch nor a listing touches the entry of an id that stays resolved
\* (docs/model-stats.md).
THEOREM ResolvedStaysAsItWasHolds == Spec => ResolvedStaysAsItWas
<1>1. ASSUME IInv, [Next]_vars, restarts' = restarts, NEW id \in resolved \cap resolved'
      PROVE  entries'[id] = entries[id]
  <2>1. id \in DOMAIN entries
    BY <1>1 DEF IInv, TypeOK
  <2>2. restarts \in Nat
    BY <1>1, StatsAssumption DEF IInv, TypeOK
  <2>3. CASE \E l \in Listers : Align(l)
    <3>1. PICK l \in Listers : Align(l)
      BY <2>3
    <3>2. id \in DOMAIN entries \cap listing[l].ids
      BY <1>1, <2>1, <3>1 DEF Align
    <3> QED
      BY <3>1, <3>2 DEF Align
  <2>4. CASE \E l \in Listers, i \in Ids : AddEntry(l, i)
    BY <2>1, <2>4 DEF AddEntry, Missing
  <2>5. CASE Resolve
    BY <1>1, <2>1, <2>5 DEF Resolve
  <2>6. CASE UNCHANGED state
    BY <2>6 DEF state
  <2>7. CASE Restart
    BY <1>1, <2>2, <2>7 DEF Restart
  <2>8. \/ UNCHANGED state \/ Restart \/ Resolve
        \/ (\E l \in Listers : Align(l)) \/ (\E l \in Listers, i \in Ids : AddEntry(l, i))
    BY <1>1 DEF Next, List, Background, StartListing, Aligned, CheckBackOff, CheckStale, SpawnRefresh, Fetched,
                FetchFailed, FetchOver, BackoffEnds, WriteCacheFile, WriteFailed, vars
  <2> QED
    BY <2>3, <2>4, <2>5, <2>6, <2>7, <2>8
<1>2. IInv /\ [Next]_vars =>
        [restarts' = restarts => \A id \in resolved \cap resolved' : entries'[id] = entries[id]]_vars
  BY <1>1
<1> QED
  BY Initially, IInvPreserved, <1>2, PTL DEF Spec, ResolvedStaysAsItWas
=============================================================================
