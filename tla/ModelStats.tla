------------------------------ MODULE ModelStats ------------------------------
(***************************************************************************)
(* ModelStatsStore of model_stats.rs: the statistics of Artificial Analysis*)
(* that GET /v1/models adds to its entries.  Each listing aligns the cache *)
(* with the ids it lists, then may start the one background fetch; what    *)
(* changes is written to a file by jobs that may run in any order.         *)
(*                                                                         *)
(* Three locks: the catalog's, the state's (entries and resolved), and the *)
(* timing's.  A listing takes each in turn, never two at once but for the  *)
(* catalog under the state.  An entry is modelled by the number of the     *)
(* catalog it was computed from: 0 if there was none, 1 if it was one of   *)
(* an earlier run.                                                         *)
(***************************************************************************)
EXTENDS Naturals, Sequences, FiniteSets

CONSTANTS
    Listers,       \* concurrent GET /v1/models requests
    Ids,           \* model ids
    Listings,      \* the sets of ids a listing may have
    NoOne,
    Files,         \* what the cache file may hold when the program first starts
    MaxCatalogs,   \* bound: later catalogs have the number of the last one
    MaxJobs, MaxFailures, MaxRestarts   \* bounds of an instance

\* An entry is from some catalog, or from none.
EntryMaps == UNION {[S -> 0..MaxCatalogs] : S \in SUBSET Ids}
Cache     == [entries : EntryMaps, resolved : SUBSET Ids]

\* What this program wrote in an earlier run has statistics for the entries it
\* calls resolved; what it calls resolved without an entry is a leftover.
ASSUME StatsAssumption ==
    /\ Files \subseteq Cache
    /\ \A f \in Files : \A id \in f.resolved \cap DOMAIN f.entries : f.entries[id] = 1
    /\ Listings \subseteq SUBSET Ids
    /\ NoOne \notin Listers
    /\ MaxCatalogs \in Nat \ {0, 1}
    /\ MaxJobs \in Nat \ {0}
    /\ MaxFailures \in Nat /\ MaxRestarts \in Nat

VARIABLES
    catalog,      \* number of the catalog in memory, 0 if there is none
    entries,      \* CacheState.entries: id -> catalog its stats are from
    resolved,     \* CacheState.resolved
    holder,       \* the listing that holds the state's lock
    listing,      \* what each listing is doing
    inFlight,     \* in_flight
    fetch,        \* where the background task is
    backoff,      \* next_attempt lies ahead
    jobs,         \* file writes to run: [snap, stale], in the order of their seq
    disk,         \* content of model-stats-cache.json
    (* history *)
    persisted,    \* something was handed to a job in this run of the program
    failures, restarts

state == <<entries, resolved>>
vars  == <<catalog, state, holder, listing, inFlight, fetch, backoff, jobs, disk,
           persisted, failures, restarts>>

Snapshot == [entries |-> entries, resolved |-> resolved]
Idle     == [at |-> "idle", ids |-> {}, hasCatalog |-> FALSE]

\* with_cache_path: what is resolved counts only with its entry.
Load(f) ==
    /\ entries' = f.entries
    /\ resolved' = f.resolved \cap DOMAIN f.entries

Init ==
    /\ disk \in Files
    /\ entries = disk.entries
    /\ resolved = disk.resolved \cap DOMAIN disk.entries
    /\ catalog = 0
    /\ holder = NoOne
    /\ listing = [l \in Listers |-> Idle]
    /\ inFlight = FALSE
    /\ fetch = "idle"
    /\ backoff = FALSE
    /\ jobs = <<>>
    /\ persisted = FALSE
    /\ failures = 0
    /\ restarts = 0
-----------------------------------------------------------------------------
\* persist, called under the state's lock with the state as it will be.
Persist ==
    /\ jobs' = Append(jobs, [snap |-> Snapshot', stale |-> FALSE])
    /\ persisted' = TRUE

At(l, place) == listing' = [listing EXCEPT ![l].at = place]

\* sync_models reads whether there is a catalog, before it takes the lock.
StartListing(l) ==
    /\ listing[l].at = "idle"
    /\ \E ids \in Listings :
          listing' = [listing EXCEPT ![l] = [at |-> "looked", ids |-> ids, hasCatalog |-> catalog > 0]]
    /\ UNCHANGED <<catalog, state, holder, inFlight, fetch, backoff, jobs, disk, persisted, failures, restarts>>

Dropped(l) == DOMAIN entries \ listing[l].ids
Missing(l) == listing[l].ids \ DOMAIN entries

\* With the lock: what is no longer listed goes.  An unchanged cache is not
\* written, so the lock is released at once.
Align(l) ==
    /\ listing[l].at = "looked"
    /\ holder = NoOne
    /\ Len(jobs) < MaxJobs
    /\ entries' = [id \in DOMAIN entries \cap listing[l].ids |-> entries[id]]
    /\ resolved' = resolved \cap listing[l].ids
    /\ IF Missing(l) = {}
       THEN /\ IF Dropped(l) = {} THEN UNCHANGED <<jobs, persisted>> ELSE Persist
            /\ At(l, "synced")
            /\ UNCHANGED holder
       ELSE /\ holder' = l
            /\ At(l, "adding")
            /\ UNCHANGED <<jobs, persisted>>
    /\ UNCHANGED <<catalog, inFlight, fetch, backoff, disk, failures, restarts>>

\* Mutant: the id counts as resolved if there is a catalog in the end.
AddEntryLateLook(l, id) ==
    /\ listing[l].at = "adding"
    /\ id \in Missing(l)
    /\ entries' = [i \in DOMAIN entries \union {id} |-> IF i = id THEN (IF listing[l].hasCatalog THEN catalog ELSE 0) ELSE entries[i]]
    /\ resolved' = IF catalog > 0 THEN resolved \union {id} ELSE resolved
    /\ UNCHANGED <<catalog, holder, listing, inFlight, fetch, backoff, jobs, disk, persisted, failures, restarts>>

\* A new id gets its entry from the catalog there is now; whether it counts
\* as resolved was settled before.
AddEntry(l, id) ==
    /\ listing[l].at = "adding"
    /\ id \in Missing(l)
    /\ entries' = [i \in DOMAIN entries \union {id} |-> IF i = id THEN catalog ELSE entries[i]]
    /\ resolved' = IF listing[l].hasCatalog THEN resolved \union {id} ELSE resolved
    /\ UNCHANGED <<catalog, holder, listing, inFlight, fetch, backoff, jobs, disk, persisted, failures, restarts>>

Aligned(l) ==
    /\ listing[l].at = "adding"
    /\ Missing(l) = {}
    /\ UNCHANGED state
    /\ Persist
    /\ At(l, "synced")
    /\ holder' = NoOne
    /\ UNCHANGED <<catalog, inFlight, fetch, backoff, disk, failures, restarts>>

\* needs_refresh looks whether an attempt is due, under the lock of the timing ...
CheckBackOff(l) ==
    /\ listing[l].at = "synced"
    /\ At(l, IF backoff THEN "idle" ELSE "due")
    /\ UNCHANGED <<catalog, state, holder, inFlight, fetch, backoff, jobs, disk, persisted, failures, restarts>>

\* ... then whether one is needed, under the lock of the state ...
CheckStale(l) ==
    /\ listing[l].at = "due"
    /\ holder = NoOne
    /\ At(l, IF listing[l].ids \ resolved # {} THEN "stale" ELSE "idle")
    /\ UNCHANGED <<catalog, state, holder, inFlight, fetch, backoff, jobs, disk, persisted, failures, restarts>>

\* ... and only then spawn_refresh_if_stale takes the flag that keeps fetches apart.
SpawnRefresh(l) ==
    /\ listing[l].at = "stale"
    /\ At(l, "idle")
    /\ inFlight' = TRUE
    /\ fetch' = IF inFlight THEN fetch ELSE "fetching"
    /\ UNCHANGED <<catalog, state, holder, backoff, jobs, disk, persisted, failures, restarts>>

List(l) ==
    \/ StartListing(l)
    \/ Align(l)
    \/ \E id \in Ids : AddEntry(l, id)
    \/ Aligned(l)
    \/ CheckBackOff(l)
    \/ CheckStale(l)
    \/ SpawnRefresh(l)
-----------------------------------------------------------------------------
\* fetch_all got every page.
Fetched ==
    /\ fetch = "fetching"
    /\ fetch' = "fetched"
    /\ catalog' = IF catalog = 0 THEN 2
                  ELSE IF catalog < MaxCatalogs THEN catalog + 1 ELSE catalog
    /\ UNCHANGED <<state, holder, listing, inFlight, backoff, jobs, disk, persisted, failures, restarts>>

FetchFailed ==
    /\ fetch = "fetching"
    /\ failures < MaxFailures
    /\ failures' = failures + 1
    /\ fetch' = "over"
    /\ backoff' = TRUE
    /\ UNCHANGED <<catalog, state, holder, listing, inFlight, jobs, disk, persisted, restarts>>

\* Mutant: every entry is computed again.
ResolveAll ==
    /\ fetch = "fetched"
    /\ holder = NoOne
    /\ Len(jobs) < MaxJobs
    /\ entries' = [id \in DOMAIN entries |-> catalog]
    /\ resolved' = DOMAIN entries
    /\ Persist
    /\ backoff' = FALSE
    /\ fetch' = "over"
    /\ UNCHANGED <<catalog, holder, listing, inFlight, disk, failures, restarts>>

\* refresh: the unresolved entries are computed from the new catalog.
Resolve ==
    /\ fetch = "fetched"
    /\ holder = NoOne
    /\ Len(jobs) < MaxJobs
    /\ entries' = [id \in DOMAIN entries |-> IF id \in resolved THEN entries[id] ELSE catalog]
    /\ resolved' = DOMAIN entries
    /\ Persist
    /\ backoff' = FALSE
    /\ fetch' = "over"
    /\ UNCHANGED <<catalog, holder, listing, inFlight, disk, failures, restarts>>

FetchOver ==
    /\ fetch = "over"
    /\ fetch' = "idle"
    /\ inFlight' = FALSE
    /\ UNCHANGED <<catalog, state, holder, listing, backoff, jobs, disk, persisted, failures, restarts>>

BackoffEnds ==
    /\ backoff
    /\ backoff' = FALSE
    /\ UNCHANGED <<catalog, state, holder, listing, inFlight, fetch, jobs, disk, persisted, failures, restarts>>
-----------------------------------------------------------------------------
WithoutJob(i) == SubSeq(jobs, 1, i - 1) \o SubSeq(jobs, i + 1, Len(jobs))

\* Mutant: a job writes whatever was written before.
WriteCacheFileAnyway(i) ==
    /\ disk' = jobs[i].snap
    /\ jobs' = WithoutJob(i)
    /\ UNCHANGED <<catalog, state, holder, listing, inFlight, fetch, backoff, persisted, failures, restarts>>

\* write_cache_file: a job writes unless a later one has; the file is replaced
\* in one step (temporary file and rename).
WriteCacheFile(i) ==
    /\ disk' = IF jobs[i].stale THEN disk ELSE jobs[i].snap
    /\ jobs' = LET rest == WithoutJob(i)
               IN  [j \in DOMAIN rest |-> IF j < i /\ ~jobs[i].stale THEN [rest[j] EXCEPT !.stale = TRUE]
                                          ELSE rest[j]]
    /\ UNCHANGED <<catalog, state, holder, listing, inFlight, fetch, backoff, persisted, failures, restarts>>

WriteFailed(i) ==
    /\ failures < MaxFailures
    /\ failures' = failures + 1
    /\ jobs' = WithoutJob(i)
    /\ UNCHANGED <<catalog, state, holder, listing, inFlight, fetch, backoff, disk, persisted, restarts>>

\* The program stops at any point and starts again from the file.
Restart ==
    /\ restarts < MaxRestarts
    /\ restarts' = restarts + 1
    /\ Load(disk)
    /\ catalog' = 0
    /\ holder' = NoOne
    /\ listing' = [l \in Listers |-> Idle]
    /\ inFlight' = FALSE
    /\ fetch' = "idle"
    /\ backoff' = FALSE
    /\ jobs' = <<>>
    /\ persisted' = FALSE
    /\ UNCHANGED <<disk, failures>>

Background ==
    \/ Fetched
    \/ FetchFailed
    \/ Resolve
    \/ FetchOver

Next ==
    \/ \E l \in Listers : List(l)
    \/ Background
    \/ BackoffEnds
    \/ \E i \in DOMAIN jobs : WriteCacheFile(i) \/ WriteFailed(i)
    \/ Restart

Spec == Init /\ [][Next]_vars

-----------------------------------------------------------------------------
TypeOK ==
    /\ catalog \in 0..MaxCatalogs
    /\ Snapshot \in Cache
    /\ resolved \subseteq DOMAIN entries
    /\ holder \in Listers \union {NoOne}
    /\ listing \in [Listers -> [at : {"idle", "looked", "adding", "synced", "due", "stale"},
                                ids : SUBSET Ids, hasCatalog : BOOLEAN]]
    /\ inFlight \in BOOLEAN
    /\ fetch \in {"idle", "fetching", "fetched", "over"}
    /\ backoff \in BOOLEAN
    /\ jobs \in Seq([snap : Cache, stale : BOOLEAN])
    /\ disk \in Cache
    /\ persisted \in BOOLEAN
    /\ failures \in 0..MaxFailures /\ restarts \in 0..MaxRestarts

\* An id that counts as resolved, and so is never fetched for again, was
\* looked up in a catalog: no race between a listing and a fetch, and no file,
\* leaves it without its statistics for good.
ResolvedWasLookedUp ==
    \A id \in resolved : id \in DOMAIN entries /\ entries[id] > 0

\* Once the writes are done the file has the cache as it is, in whatever
\* order they ran.
DiskCatchesUp ==
    persisted /\ jobs = <<>> /\ failures = 0 /\ holder = NoOne => disk = Snapshot

\* docs/model-stats.md: when a fetch happens only the unresolved ids are
\* computed again; what a listing has of the others stays as it was.
ResolvedStaysAsItWas ==
    [][restarts' = restarts =>
         \A id \in resolved \cap resolved' : entries'[id] = entries[id]]_vars

=============================================================================
