------------------------------- MODULE JobSearch -------------------------------
(***************************************************************************)
(* Searching jobs while ingestion, scrapes and checks change them: the     *)
(* list with its cache in Redis, the full-text index and the total.        *)
(*                                                                         *)
(* The index is an external-content FTS5 table without triggers: only the  *)
(* rebuild of a successful ingestion brings it up to date.  Answers are    *)
(* cached under a version that only an ingestion raises, as its last step. *)
(***************************************************************************)
EXTENDS JobQuery

CONSTANTS
    Ids,          \* jobs.id, an AUTOINCREMENT key: a deleted one is not used again
    Requests,     \* list requests under way at the same time
    Asked,        \* the filters they come with
    NoRow,        \* no such row, no entry, no value
    MaxCycles     \* bound: ingestions

ASSUME SearchAssumption ==
    /\ Ids \subseteq Nat /\ IsFiniteSet(Ids) /\ Asked \subseteq Filters
    /\ MaxCycles \in Nat

VARIABLES
    jobs,     \* the table
    index,    \* jobs_fts: the word each rowid is indexed under
    now,      \* datetime('now')
    cycle,    \* the ingestion: [n: ingestions begun, at: its step]
    loaded,   \* ghost: ingestions whose rows are all in the table
    version,  \* jobs:cache:version in Redis
    since,    \* ghost: ingestions loaded when the version was raised to its value
    entry,    \* the answers under jobs:search:v<version>:<filter>, of the present version
              \* (no request finds the older ones again): NoRow, or how many ingestions
              \* had been loaded when the answer was read from the table
    request,  \* a list request: [at, f, ver: the version it read, of: as in entry]
    total     \* [marker: in app_maintenance, cache: of the process, held: what a
              \* reader has read and not yet stored]

cacheVars == <<version, since, entry, request>>
vars == <<jobs, index, now, cycle, loaded, cacheVars, total>>

Versions == 0 .. MaxCycles
NoEntry == [at |-> "idle", f |-> NoRow, ver |-> 0, of |-> 0]
Counts == Nat \cup {NoRow}

TypeOK ==
    /\ jobs \in [Ids -> Rows \cup {NoRow}]
    /\ index \in [Ids -> Words \cup {NoRow}]
    /\ now \in Stamps /\ ~ now.iso
    /\ cycle \in [n : 0 .. MaxCycles, at : {"idle", "load", "rebuild", "total", "bump"}]
    /\ loaded \in 0 .. MaxCycles /\ version \in Versions /\ since \in 0 .. MaxCycles
    /\ entry \in [Asked -> 0 .. MaxCycles \cup {NoRow}]
    /\ request \in [Requests -> [at : {"idle", "select", "store"}, f : Asked \cup {NoRow},
                                 ver : Versions, of : 0 .. MaxCycles]]
    /\ total \in [marker : Counts, cache : Counts, held : Counts]

Init ==
    /\ jobs = [i \in Ids |-> NoRow] /\ index = jobs
    /\ now = [day |-> 0, hour |-> 0, iso |-> FALSE]
    /\ cycle = [n |-> 0, at |-> "idle"] /\ loaded = 0
    /\ version = 0 /\ since = 0
    /\ entry = [f \in Asked |-> NoRow]
    /\ request = [r \in Requests |-> NoEntry]
    /\ total = [marker |-> NoRow, cache |-> NoRow, held |-> NoRow]
-----------------------------------------------------------------------------
Existing == {i \in Ids : jobs[i] # NoRow}
Table == [i \in Existing |-> jobs[i]]
Index == [i \in {j \in Ids : index[j] # NoRow} |-> index[i]]
Found(f) == Listed(Table, Index, f, now)
Count == Cardinality(Existing)

(* Writers of the table.                                                   *)

\* Slip: a missing time is left, for TypeOK.
SlipStamp(published) == IF published = NoRow THEN NoRow ELSE [published EXCEPT !.iso = TRUE]

\* process_parquet: a row as published, its time of posting kept unless it is
\* missing or a day ahead; then it is the time of ingestion, with a T.
Stamp(published) ==
    IF published = NoRow \/ ~ TimeLeq(published, [now EXCEPT !.day = @ + 1])
    THEN [now EXCEPT !.iso = TRUE]
    ELSE [published EXCEPT !.iso = TRUE]

\* An UPSERT updates all but the status; ids only grow.
Upsert(i, col, word, published) ==
    /\ i \in Existing \/ \A j \in Ids : j >= i => jobs[j] = NoRow /\ index[j] = NoRow
    /\ jobs' = [jobs EXCEPT ![i] =
                  [col |-> col, word |-> word, posted |-> Stamp(published),
                   expired |-> i \in Existing /\ jobs[i].expired]]

Published == {[day |-> d, hour |-> h, iso |-> TRUE] : d \in 0 .. MaxDay, h \in 0 .. Hours - 1}
AnyRow(i) == \E col \in [Columns -> Values], word \in Words, published \in Published \cup {NoRow} :
                Upsert(i, col, word, published)

\* A local scrape loads rows and leaves index, total and cache.
Scrape(i) ==
    /\ AnyRow(i)
    /\ UNCHANGED <<index, now, cycle, loaded, cacheVars, total>>

\* A check, a report or the administrator marks the job or brings it back.
Mark(i) ==
    /\ i \in Existing
    /\ jobs' = [jobs EXCEPT ![i].expired = ~ @]
    /\ UNCHANGED <<index, now, cycle, loaded, cacheVars, total>>
-----------------------------------------------------------------------------
(* run_ingestion, as far as a search can tell.                             *)

At(step) == cycle.at = step
Goto(step) == cycle' = [cycle EXCEPT !.at = step]

Begin ==
    /\ At("idle") /\ cycle.n < MaxCycles
    /\ cycle' = [n |-> cycle.n + 1, at |-> "load"]
    /\ UNCHANGED <<jobs, index, now, loaded, cacheVars, total>>

Load(i) ==
    /\ At("load")
    /\ AnyRow(i)
    /\ UNCHANGED <<index, now, cycle, loaded, cacheVars, total>>

\* Any exception before the last steps: what is loaded stays, and nothing follows.
Fail ==
    /\ cycle.at \in {"load", "rebuild"}
    /\ Goto("idle")
    /\ UNCHANGED <<jobs, index, now, loaded, cacheVars, total>>

\* prune_old: which rows go is IngestCycle's.
Prune ==
    /\ At("load")
    /\ \E gone \in SUBSET Existing :
          jobs' = [i \in Ids |-> IF i \in gone THEN NoRow ELSE jobs[i]]
    /\ loaded' = cycle.n
    /\ Goto("rebuild")
    /\ UNCHANGED <<index, now, cacheVars, total>>

Rebuild ==
    /\ At("rebuild")
    /\ index' = [i \in Ids |-> IF i \in Existing THEN jobs[i].word ELSE NoRow]
    /\ Goto("total")
    /\ UNCHANGED <<jobs, now, loaded, cacheVars, total>>

\* refresh_jobs_total
RefreshTotal ==
    /\ At("total")
    /\ total' = [total EXCEPT !.marker = Count, !.cache = Count]
    /\ Goto("bump")
    /\ UNCHANGED <<jobs, index, now, loaded, cacheVars>>

\* bump_jobs_cache_version, which Redis may miss.
Bump ==
    /\ At("bump")
    /\ \/ version' = version + 1 /\ since' = loaded /\ entry' = [f \in Asked |-> NoRow]
       \/ UNCHANGED <<version, since, entry>>
    /\ Goto("idle")
    /\ UNCHANGED <<jobs, index, now, loaded, request, total>>
-----------------------------------------------------------------------------
(* list_jobs and the cache.                                                *)

\* The version and the entry are read first: a hit ends the request.
Ask(r, f) ==
    /\ request[r].at = "idle" /\ entry[f] = NoRow
    /\ request' = [request EXCEPT ![r] =
                     [at |-> "select", f |-> f, ver |-> version, of |-> 0]]
    /\ UNCHANGED <<jobs, index, now, cycle, loaded, version, since, entry, total>>

Select(r) ==
    /\ request[r].at = "select"
    /\ request' = [request EXCEPT ![r].at = "store", ![r].of = loaded]
    /\ UNCHANGED <<jobs, index, now, cycle, loaded, version, since, entry, total>>

\* Slip: the answer is stored under the version of the moment, for HitsAreCurrent.
SlipStore(r) ==
    /\ request[r].at = "store"
    /\ entry' = [entry EXCEPT ![request[r].f] = request[r].of]
    /\ request' = [request EXCEPT ![r] = NoEntry]
    /\ UNCHANGED <<jobs, index, now, cycle, loaded, version, since, total>>

\* The answer is stored under the version that was read at first, or Redis misses it.
Store(r) ==
    /\ request[r].at = "store"
    /\ \/ /\ request[r].ver = version
          /\ entry' = [entry EXCEPT ![request[r].f] = request[r].of]
       \/ UNCHANGED entry
    /\ request' = [request EXCEPT ![r] = NoEntry]
    /\ UNCHANGED <<jobs, index, now, cycle, loaded, version, since, total>>

\* redis_cache_ttl_seconds
Evict(f) ==
    /\ entry[f] # NoRow
    /\ entry' = [entry EXCEPT ![f] = NoRow]
    /\ UNCHANGED <<jobs, index, now, cycle, loaded, version, since, request, total>>
-----------------------------------------------------------------------------
(* cached_jobs_total.                                                      *)

\* The marker is read, or else the rows are counted and the marker written.
ReadTotal ==
    /\ total.cache = NoRow /\ total.held = NoRow
    /\ LET n == IF total.marker = NoRow THEN Count ELSE total.marker
       IN  total' = [total EXCEPT !.marker = n, !.held = n]
    /\ UNCHANGED <<jobs, index, now, cycle, loaded, cacheVars>>

\* Later the value goes into the process's cache, whatever is there now.
KeepTotal ==
    /\ total.held # NoRow
    /\ total' = [total EXCEPT !.cache = total.held, !.held = NoRow]
    /\ UNCHANGED <<jobs, index, now, cycle, loaded, cacheVars>>

\* Slip: the process keeps its value for good, for TotalSettles.
SlipTotalLapses == FALSE /\ UNCHANGED vars

\* _JOBS_TOTAL_TTL_SECONDS
TotalLapses ==
    /\ total.cache # NoRow
    /\ total' = [total EXCEPT !.cache = NoRow]
    /\ UNCHANGED <<jobs, index, now, cycle, loaded, cacheVars>>

Tick ==
    /\ now.hour < Hours - 1 \/ now.day < MaxDay
    /\ now' = [now EXCEPT !.hour = IF @ = Hours - 1 THEN 0 ELSE @ + 1,
                          !.day = IF now.hour = Hours - 1 THEN @ + 1 ELSE @]
    /\ UNCHANGED <<jobs, index, cycle, loaded, cacheVars, total>>

Ingest == Begin \/ (\E i \in Ids : Load(i)) \/ Fail \/ Prune \/ Rebuild \/ RefreshTotal \/ Bump
List(r) == (\E f \in Asked : Ask(r, f)) \/ Select(r) \/ Store(r)
Totals == ReadTotal \/ KeepTotal \/ TotalLapses

Next ==
    \/ \E i \in Ids : Scrape(i) \/ Mark(i)
    \/ Ingest
    \/ \E r \in Requests : List(r)
    \/ \E f \in Asked : Evict(f)
    \/ Totals \/ Tick

Spec == Init /\ [][Next]_vars

\* Ingestion goes on once begun; the dashboard keeps asking for the total.
Fairness ==
    /\ WF_vars(Fail \/ Prune \/ Rebuild \/ RefreshTotal \/ Bump)
    /\ WF_vars(ReadTotal) /\ WF_vars(KeepTotal) /\ WF_vars(TotalLapses)
FairSpec == Spec /\ Fairness
-----------------------------------------------------------------------------
(* Properties.                                                             *)

\* An answer found under the current version has been read from a table with all the
\* rows of the ingestion that raised the version to its value, however late it was stored.
HitsAreCurrent ==
    \A f \in Asked : entry[f] # NoRow => entry[f] >= since

\* The count a facet shows is what the list would have "if I checked this"
\* (docstring of facets), while the other filters stay and expired jobs are hidden.
FacetsForetell ==
    \A f \in {g \in Asked : g.expired = "hide"}, c \in Columns, v \in Values :
        FacetCount(Table, Index, f, now, c, v)
          = Cardinality(Found([f EXCEPT !.want[c] = {v}]))

\* Of what a window of h hours is searched for, the list holds all that was posted in it up
\* to yesterday, nothing older than the day on which it begins, and nothing of a day to come.
WindowToTheDay ==
    \A f \in {g \in Asked : g.hours > 0} :
        LET start == Back(now, f.hours) IN
        /\ \A i \in Found(f) : jobs[i].posted.day \in start.day .. now.day
        /\ \A i \in Existing :
              /\ f.q = NoQuery \/ i \in Prefiltered(Index, f.q)
              /\ TimeLeq(start, jobs[i].posted) /\ jobs[i].posted.day < now.day
              /\ Wanted(f, jobs[i], {}) /\ Shown(f, jobs[i])
              => i \in Found(f)

\* The same, wherever expired jobs are asked for: facets counts without them.
FacetsForetellExpired ==
    \A f \in Asked, c \in Columns, v \in Values :
        FacetCount(Table, Index, f, now, c, v)
          = Cardinality(Found([f EXCEPT !.want[c] = {v}]))

\* "5000 covers any realistic paging depth" (query.py:246): sorted by newest, the first page
\* of a search holds the newest of the jobs found.  The rows kept are those of least rowid.
NewestIsFound ==
    \A f \in {g \in Asked : g.q # NoQuery} : \A i \in DOMAIN Index \cap Existing :
        /\ Index[i] = f.q /\ Wanted(f, jobs[i], {}) /\ InTime(f, jobs[i], now) /\ Shown(f, jobs[i])
        /\ \A j \in Found(f) : jobs[j].posted # jobs[i].posted /\ TextLeq(jobs[j].posted, jobs[i].posted)
        => i \in Found(f)

\* "Defaults to USA, last 24h" (list_jobs), only later dates being cut off
\* (query.py:170): a job posted within the window is listed.
PostedIsListed ==
    \A f \in {g \in Asked : g.q = NoQuery /\ g.hours > 0} : \A i \in Existing :
        /\ TimeLeq(Back(now, f.hours), jobs[i].posted) /\ TimeLeq(jobs[i].posted, now)
        /\ Wanted(f, jobs[i], {}) /\ Shown(f, jobs[i])
        => i \in Found(f)

\* The total settles on the value stored last, although a reader may put an older one
\* over it.
TotalSettles == \A n \in 0 .. Cardinality(Ids) :
    <>[](total.marker = n) => []<>(total.cache = n)
=============================================================================
