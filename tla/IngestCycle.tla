---------------------------- MODULE IngestCycle ----------------------------
(***************************************************************************)
(* Ingestion cycles and who starts them.                                    *)
(*                                                                          *)
(* A run of run_ingestion is started by the scheduler under the ingest lock *)
(* (the daily cron, the catch-up poll, the start-up check), by an HTTP or   *)
(* admin request without the lock, or by the command line in a process of   *)
(* its own.  Until the downloads are in, a run awaits the network and other *)
(* runs interleave; from the first upsert to the manifest_log row it holds  *)
(* the event loop, so only threads and the command line interleave.         *)
(*                                                                          *)
(* Time is kept as ages in UTC days: 'seen' is the age of a row's           *)
(* last_seen_in_manifest_at, 'age' that of a run's cycle_start_iso.  The    *)
(* two are compared as text, and on one day 'YYYY-MM-DD HH:MM:SS' is        *)
(* smaller than 'YYYY-MM-DDTHH:MM:SS' whatever the hours are.               *)
(*                                                                          *)
(* Contents of rows, counts, durations and the FTS index are left out.      *)
(***************************************************************************)
EXTENDS Integers, FiniteSets

CONSTANTS
  Urls,        \* urls of jobs
  Ats,         \* the manifest's by_ats names
  AtsOf,       \* the ATS that publishes each url
  Daily,       \* runs of _run_daily
  Polls,       \* runs of _run_catchup_poll
  Startups,    \* runs of _run_if_stale
  Manual,      \* runs of /api/ingest and of the admin's ingest button
  Cli,         \* runs of the command line, each in its own process
  Filters,     \* the ats_filter values given on the command line
  Forces,      \* the force values requests and the command line give
  Catalogs,    \* histories of upstream: the urls listed by each version
  Expirable,   \* urls the lifecycle may expire
  Scrapable,   \* urls a local scrape may load
  MaxVersion,  \* bound: versions upstream publishes
  MaxAge,      \* bound: days a run may last; older rows are not told apart
  MaxMissed,   \* bound: missed_ingest_cycles is not counted beyond this
  MaxAtsFailures, \* bound: downloads and loads of one ATS that fail
  MaxFailures  \* bound: runs that fail as a whole, and restarts

Versions == 1..MaxVersion
Locked   == Daily \cup Polls \cup Startups
Loop     == Locked \cup Manual
Runs     == Loop \cup Cli

ASSUME SourcesAssumption ==
  /\ AtsOf \in [Urls -> Ats]
  /\ Filters \subseteq SUBSET Ats /\ Forces \subseteq BOOLEAN
  /\ Catalogs \subseteq [Versions -> SUBSET Urls]
  /\ Expirable \subseteq Urls /\ Scrapable \subseteq Urls
ASSUME RunsAssumption ==
  /\ Daily \cap (Polls \cup Startups \cup Manual \cup Cli) = {}
  /\ Polls \cap (Startups \cup Manual \cup Cli) = {}
  /\ Startups \cap (Manual \cup Cli) = {} /\ Manual \cap Cli = {}
ASSUME BoundsAssumption ==
  /\ MaxVersion \in Nat \ {0} /\ MaxAge \in Nat /\ MaxMissed \in Nat
  /\ MaxAtsFailures \in Nat /\ MaxFailures \in Nat

NoRow == [seen |-> 0, missed |-> 0, status |-> "none"]
Rows  == [seen : 0..MaxAge, missed : 0..MaxMissed,
          status : {"none", "live", "expired", "overdue"}]
Cycles == [ver : 0..MaxVersion, age : 0..MaxAge, inWindow : BOOLEAN,
           force : BOOLEAN, todo : SUBSET Ats, got : SUBSET Ats,
           outside : SUBSET Urls, fresh : SUBSET Urls, marked : BOOLEAN]
NoCycle == [ver |-> 0, age |-> 0, inWindow |-> FALSE, force |-> FALSE,
            todo |-> {}, got |-> {}, outside |-> {}, fresh |-> {},
            marked |-> FALSE]
Labels == {"idle", "lock", "manifest", "decide", "skip", "download", "upsert",
           "mark", "finish", "total", "drain"}
NoLog  == [success |-> FALSE, latest |-> "none"]

VARIABLES
  catalog,    \* what each version of upstream's manifest lists
  version,    \* the version upstream serves now
  outdated,   \* urls whose posting date has left the rolling window
  phase,      \* the part of the UTC day: before, in and after the poll window
  rows,       \* the jobs table
  last,       \* manifest_log: the version of its latest success row, or 0
  lastToday,  \* whether that row's fetched_at is of the current day
  today,      \* manifest_log: the rows fetched today since ingest_hour_utc
  pc,         \* the next step of each run
  run,        \* its locals
  busy,       \* the runs that hold the event loop
  due,        \* scheduler jobs whose time has come: "daily", "startup"
  swept,      \* urls the post-ingest sweep has taken up since they were seen
  unlisted,   \* history: urls a marking run's manifest lacked since then
  ingested,   \* history: the versions with a success row
  failures    \* history: ATS failures and other failures, for the bounds

upVars  == <<catalog, version, outdated>>
logVars == <<last, lastToday, today, ingested>>
vars == <<catalog, version, outdated, phase, rows, last, lastToday, today, pc,
          run, busy, due, swept, unlisted, ingested, failures>>

Underway == {c \in Runs : pc[c] \notin {"idle", "lock", "drain"}}

\* Type invariant: tables, locals and clock have their types, a run that is not
\* underway has no locals, and at most one run is between loading and its end
\* on the event loop.
TypeOK ==
  /\ catalog \in Catalogs /\ version \in Versions /\ outdated \subseteq Urls
  /\ phase \in {"morning", "window", "evening"}
  /\ rows \in [Urls -> Rows]
  /\ last \in 0..MaxVersion /\ lastToday \in BOOLEAN
  /\ today \in [success : BOOLEAN,
                latest : {"none", "success", "skipped", "failed"}]
  /\ pc \in [Runs -> Labels]
  /\ run \in [Runs -> Cycles]
  /\ \A c \in Runs \ Underway : run[c] = NoCycle
  /\ busy = {c \in Loop : pc[c] \in {"upsert", "mark", "finish", "total"}}
  /\ Cardinality(busy) <= 1
  /\ due \subseteq {"daily", "startup"}
  /\ swept \subseteq Urls /\ unlisted \subseteq Urls
  /\ ingested \subseteq Versions
  /\ failures \in [ats : 0..MaxAtsFailures, run : 0..MaxFailures]

Init ==
  /\ catalog \in Catalogs
  /\ version = 1
  /\ outdated = {}
  /\ phase = "morning"
  /\ rows = [u \in Urls |-> NoRow]
  /\ last = 0 /\ lastToday = FALSE
  /\ today = NoLog
  /\ pc = [c \in Runs |-> "idle"]
  /\ run = [c \in Runs |-> NoCycle]
  /\ busy = {}
  /\ due = {"startup"}
  /\ swept = {} /\ unlisted = {} /\ ingested = {}
  /\ failures = [ats |-> 0, run |-> 0]

Present     == {u \in Urls : rows[u].status # "none"}
Flagged     == {u \in Present : rows[u].missed >= 2}
\* Slip: only the daily run takes the lock.
LockHoldersDaily == Daily \cap Underway
LockHolders == Locked \cap Underway
LoopFree(c) == c \in Cli \/ busy \subseteq {c}
Capped(n, max) == IF n > max THEN max ELSE n

-----------------------------------------------------------------------------
(* Upstream, the clock and the other writers of job rows. *)

Publish ==
  /\ version < MaxVersion
  /\ version' = version + 1
  /\ UNCHANGED <<catalog, outdated, phase, rows, logVars, pc, run, busy, due,
                 swept, unlisted, failures>>

LeaveWindow(u) ==
  /\ u \notin outdated
  /\ outdated' = outdated \cup {u}
  /\ UNCHANGED <<catalog, version, phase, rows, logVars, pc, run, busy, due,
                 swept, unlisted, failures>>

\* The cron time: the job becomes due unless its previous run is still going
\* (max_instances is 1).
IngestHour ==
  /\ phase = "morning"
  /\ phase' = "window"
  /\ due' = IF \E c \in Daily : pc[c] = "idle" THEN due \cup {"daily"} ELSE due
  /\ UNCHANGED <<upVars, rows, logVars, pc, run, busy, swept, unlisted, failures>>

\* Hours later a due job has been started, or the loop was held and the job is
\* past its misfire_grace_time.
PollEnd ==
  /\ phase = "window"
  /\ "daily" \in due => busy # {}
  /\ phase' = "evening"
  /\ due' = due \ {"daily"}
  /\ UNCHANGED <<upVars, rows, logVars, pc, run, busy, swept, unlisted, failures>>

Midnight ==
  /\ phase = "evening"
  /\ \A c \in Underway : run[c].age < MaxAge
  /\ phase' = "morning"
  /\ rows' = [u \in Urls |->
                IF u \in Present
                THEN [rows[u] EXCEPT !.seen = Capped(@ + 1, MaxAge)]
                ELSE NoRow]
  /\ run' = [c \in Runs |-> IF c \in Underway THEN [run[c] EXCEPT !.age = @ + 1]
                            ELSE run[c]]
  /\ lastToday' = FALSE
  /\ today' = NoLog
  /\ UNCHANGED <<upVars, last, ingested, pc, busy, due, swept, unlisted, failures>>

\* Slip: the upsert forgets to reset missed_ingest_cycles.
TouchedKeepsMissed(S) ==
  [u \in Urls |->
     IF u \notin S THEN rows[u]
     ELSE IF u \in Present THEN [rows[u] EXCEPT !.seen = 0]
     ELSE [NoRow EXCEPT !.status = "live"]]

\* UPSERT_SQL on a set of urls: inserted rows are live, updated rows keep
\* their status.
Touched(S) ==
  [u \in Urls |->
     IF u \notin S THEN rows[u]
     ELSE [seen   |-> 0, missed |-> 0,
           status |-> IF u \in Present THEN rows[u].status ELSE "live"]]

Touch(S) ==
  /\ rows' = Touched(S)
  /\ swept' = swept \ S
  /\ unlisted' = unlisted \ S

Freshen(S) == [c \in Runs |-> IF c \in Underway
                              THEN [run[c] EXCEPT !.fresh = @ \cup S]
                              ELSE run[c]]

\* A local scrape run loads a parquet through the same upsert, on the loop.
LocalLoad(u) ==
  /\ u \in Scrapable \ outdated
  /\ busy = {}
  /\ Touch({u})
  /\ run' = Freshen({u})
  /\ UNCHANGED <<upVars, phase, logVars, pc, busy, due, failures>>

\* The lifecycle expires a row; thirty days later prune_old may delete it.
Expire(u) ==
  /\ u \in Expirable
  /\ rows[u].status = "live"
  /\ rows' = [rows EXCEPT ![u].status = "expired"]
  /\ UNCHANGED <<upVars, phase, logVars, pc, run, busy, due, swept, unlisted, failures>>

ThirtyDaysExpired(u) ==
  /\ rows[u].status = "expired"
  /\ rows' = [rows EXCEPT ![u].status = "overdue"]
  /\ UNCHANGED <<upVars, phase, logVars, pc, run, busy, due, swept, unlisted, failures>>

-----------------------------------------------------------------------------
(* Who starts a run. *)

Begun(force) == [NoCycle EXCEPT !.force = force, !.inWindow = phase # "morning",
                                !.outside = outdated]

\* _run_daily fires and waits for the ingest lock.
DailyFires(c) ==
  /\ c \in Daily /\ "daily" \in due /\ pc[c] = "idle" /\ busy = {}
  /\ due' = due \ {"daily"}
  /\ pc' = [pc EXCEPT ![c] = "lock"]
  /\ UNCHANGED <<upVars, phase, rows, logVars, run, busy, swept, unlisted, failures>>

\* _run_if_stale looks at the database, then waits for the lock.
StartupFires(c) ==
  /\ c \in Startups /\ "startup" \in due /\ pc[c] = "idle" /\ busy = {}
  /\ due' = due \ {"startup"}
  /\ pc' = IF Present = {} \/ last = 0 \/ ~lastToday
           THEN [pc EXCEPT ![c] = "lock"] ELSE pc
  /\ UNCHANGED <<upVars, phase, rows, logVars, run, busy, swept, unlisted, failures>>

AcquireLock(c) ==
  /\ pc[c] = "lock"
  /\ LockHolders = {} /\ busy = {}
  /\ pc' = [pc EXCEPT ![c] = "manifest"]
  /\ run' = [run EXCEPT ![c] = Begun(FALSE)]
  /\ UNCHANGED <<upVars, phase, rows, logVars, busy, due, swept, unlisted, failures>>

\* _should_run_catchup_poll_now, the locked() test and the acquisition: no await.
PollFires(c) ==
  /\ c \in Polls /\ pc[c] = "idle" /\ busy = {}
  /\ phase = "window"
  /\ ~today.success /\ today.latest = "skipped"
  /\ LockHolders = {}
  /\ pc' = [pc EXCEPT ![c] = "manifest"]
  /\ run' = [run EXCEPT ![c] = Begun(FALSE)]
  /\ UNCHANGED <<upVars, phase, rows, logVars, busy, due, swept, unlisted, failures>>

\* A request or the command line: nothing asks for the lock.
StartUnlocked(c, force) ==
  /\ c \in Manual \cup Cli /\ pc[c] = "idle" /\ LoopFree(c)
  /\ pc' = [pc EXCEPT ![c] = "manifest"]
  /\ run' = [run EXCEPT ![c] = Begun(force)]
  /\ UNCHANGED <<upVars, phase, rows, logVars, busy, due, swept, unlisted, failures>>

-----------------------------------------------------------------------------
(* run_ingestion. *)

At(c, label)   == pc[c] = label /\ LoopFree(c)
Goto(c, label) == pc' = [pc EXCEPT ![c] = label]
End(c) ==
  /\ Goto(c, "idle")
  /\ run' = [run EXCEPT ![c] = NoCycle]
  /\ busy' = busy \ {c}

\* A manifest_log row; fetched_at is the run's start.
Log(c, status) ==
  /\ today' = IF run[c].age = 0 /\ run[c].inWindow
              THEN [success |-> today.success \/ status = "success",
                    latest |-> status]
              ELSE today
  /\ IF status = "success"
     THEN /\ last' = run[c].ver
          /\ lastToday' = (run[c].age = 0)
          /\ ingested' = ingested \cup {run[c].ver}
     ELSE UNCHANGED <<last, lastToday, ingested>>

\* Slip: the manifest of the latest success is taken for upstream's.
FetchManifestCached(c) ==
  /\ At(c, "manifest")
  /\ run' = [run EXCEPT ![c].ver = IF last = 0 THEN version ELSE last]
  /\ Goto(c, "decide")
  /\ UNCHANGED <<upVars, phase, rows, logVars, busy, due, swept, unlisted, failures>>

FetchManifest(c) ==
  /\ At(c, "manifest")
  /\ run' = [run EXCEPT ![c].ver = version]
  /\ Goto(c, "decide")
  /\ UNCHANGED <<upVars, phase, rows, logVars, busy, due, swept, unlisted, failures>>

FetchFails(c) ==
  /\ At(c, "manifest")
  /\ failures.run < MaxFailures
  /\ failures' = [failures EXCEPT !.run = @ + 1]
  /\ End(c)
  /\ UNCHANGED <<upVars, phase, rows, logVars, due, swept, unlisted>>

\* latest_manifest_log and should_ingest.
ShouldIngest(c) == last # run[c].ver

Decide(c, filter) ==
  /\ At(c, "decide")
  /\ filter = Ats \/ (c \in Cli /\ filter \in Filters)
  /\ IF run[c].force \/ ShouldIngest(c)
     THEN /\ Goto(c, "download")
          /\ run' = [run EXCEPT ![c].todo = filter]
     ELSE /\ Goto(c, "skip")
          /\ UNCHANGED run
  /\ UNCHANGED <<upVars, phase, rows, logVars, busy, due, swept, unlisted, failures>>

LogSkipped(c) ==
  /\ At(c, "skip")
  /\ Log(c, "skipped")
  /\ End(c)
  /\ UNCHANGED <<upVars, phase, rows, due, swept, unlisted, failures>>

\* The sha256 of the manifest guards the file: what is used is what it lists.
Download(c, a) ==
  /\ At(c, "download") /\ a \in run[c].todo
  /\ run' = [run EXCEPT ![c].todo = @ \ {a}, ![c].got = @ \cup {a}]
  /\ UNCHANGED <<upVars, phase, rows, logVars, pc, busy, due, swept, unlisted, failures>>

DownloadFails(c, a) ==
  /\ At(c, "download") /\ a \in run[c].todo
  /\ failures.ats < MaxAtsFailures
  /\ failures' = [failures EXCEPT !.ats = @ + 1]
  /\ run' = [run EXCEPT ![c].todo = @ \ {a}]
  /\ UNCHANGED <<upVars, phase, rows, logVars, pc, busy, due, swept, unlisted>>

\* All downloads are in; from here to the end of the cycle there is no await.
StartLoading(c) ==
  /\ At(c, "download") /\ run[c].todo = {}
  /\ Goto(c, "upsert")
  /\ busy' = busy \cup ({c} \cap Loop)
  /\ UNCHANGED <<upVars, phase, rows, logVars, run, due, swept, unlisted, failures>>

\* What process_parquet upserts: the listed urls within the rolling window.
Listed(c, a) == {u \in catalog[run[c].ver] : AtsOf[u] = a} \ run[c].outside

Load(c, a, S) ==
  /\ At(c, "upsert") /\ a \in run[c].got
  /\ Touch(S)
  /\ run' = [Freshen(S) EXCEPT ![c].got = @ \ {a}]
  /\ UNCHANGED <<upVars, phase, logVars, pc, busy, due>>

ProcessParquet(c, a) ==
  /\ Load(c, a, Listed(c, a))
  /\ UNCHANGED failures

\* A batch is rolled back and the rest of the file is given up.
ProcessFails(c, a) ==
  /\ At(c, "upsert") /\ a \in run[c].got
  /\ failures.ats < MaxAtsFailures
  /\ failures' = [failures EXCEPT !.ats = @ + 1]
  /\ \E S \in SUBSET Listed(c, a) : Load(c, a, S)

PruneOld(c) ==
  /\ At(c, "upsert") /\ run[c].got = {}
  /\ rows' = [u \in Urls |->
                IF \/ rows[u].status = "overdue"
                   \/ rows[u].status = "live" /\ u \in outdated
                THEN NoRow ELSE rows[u]]
  /\ swept' = {u \in swept : rows'[u] # NoRow}
  /\ unlisted' = {u \in unlisted : rows'[u] # NoRow}
  /\ Goto(c, "mark")
  /\ UNCHANGED <<upVars, phase, logVars, run, busy, due, failures>>

\* Slip: a strict comparison of days.
OlderStrict(u, c) == u \in Present /\ rows[u].seen > run[c].age

\* The text comparison of mark_manifest_drops.
Older(u, c) == u \in Present /\ rows[u].seen >= run[c].age

MarkManifestDrops(c) ==
  /\ At(c, "mark")
  /\ rows' = [u \in Urls |->
                IF Older(u, c)
                THEN [rows[u] EXCEPT !.missed = Capped(@ + 1, MaxMissed)]
                ELSE rows[u]]
  /\ unlisted' = unlisted \cup (Present \ catalog[run[c].ver])
  /\ run' = [run EXCEPT ![c].marked = TRUE]
  /\ Goto(c, "finish")
  /\ UNCHANGED <<upVars, phase, logVars, busy, due, swept, failures>>

\* Rebuild the index, perhaps vacuum, and log the success.
LogSuccess(c) ==
  /\ At(c, "finish")
  /\ Log(c, "success")
  /\ Goto(c, "total")
  /\ UNCHANGED <<upVars, phase, rows, run, busy, due, swept, unlisted, failures>>

\* Slip: the run ends but its locals are left behind.
ReturnForgetful(c) ==
  /\ At(c, "total")
  /\ Goto(c, IF c \in Daily THEN "drain" ELSE "idle")
  /\ busy' = busy \ {c}
  /\ UNCHANGED <<upVars, phase, rows, run, logVars, due, swept, unlisted, failures>>

\* refresh_jobs_total; afterwards only the daily run goes on to the sweep.
Return(c) ==
  /\ At(c, "total")
  /\ Goto(c, IF c \in Daily THEN "drain" ELSE "idle")
  /\ run' = [run EXCEPT ![c] = NoCycle]
  /\ busy' = busy \ {c}
  /\ UNCHANGED <<upVars, phase, rows, logVars, due, swept, unlisted, failures>>

\* An exception after the loads, in any statement up to refresh_jobs_total.
CycleFails(c) ==
  /\ \/ At(c, "upsert") /\ run[c].got = {}
     \/ At(c, "mark")
     \/ At(c, "finish")
     \/ At(c, "total")
  /\ failures.run < MaxFailures
  /\ failures' = [failures EXCEPT !.run = @ + 1]
  /\ Log(c, "failed")
  /\ End(c)
  /\ UNCHANGED <<upVars, phase, rows, due, swept, unlisted>>

\* drain_manifest_drops takes up the active rows with two or more misses.
SweepDrops(c) ==
  /\ At(c, "drain")
  /\ swept' = swept \cup {u \in Flagged : rows[u].status = "live"}
  /\ End(c)
  /\ UNCHANGED <<upVars, phase, rows, logVars, due, unlisted, failures>>

-----------------------------------------------------------------------------
(* The server restarts, or somebody ends a command-line run. *)

Restart ==
  /\ failures.run < MaxFailures
  /\ failures' = [failures EXCEPT !.run = @ + 1]
  /\ pc' = [c \in Runs |-> IF c \in Loop THEN "idle" ELSE pc[c]]
  /\ run' = [c \in Runs |-> IF c \in Loop THEN NoCycle ELSE run[c]]
  /\ busy' = {}
  /\ due' = {"startup"}
  /\ UNCHANGED <<upVars, phase, rows, logVars, swept, unlisted>>

KillCli(c) ==
  /\ c \in Cli /\ pc[c] # "idle"
  /\ failures.run < MaxFailures
  /\ failures' = [failures EXCEPT !.run = @ + 1]
  /\ End(c)
  /\ UNCHANGED <<upVars, phase, rows, logVars, due, swept, unlisted>>

-----------------------------------------------------------------------------
Environment ==
  \/ Publish \/ IngestHour \/ PollEnd \/ Midnight \/ Restart
  \/ \E u \in Urls : \/ LeaveWindow(u) \/ LocalLoad(u)
                     \/ Expire(u) \/ ThirtyDaysExpired(u)

Starts ==
  \E c \in Runs : \/ DailyFires(c) \/ StartupFires(c) \/ PollFires(c)
                  \/ \E force \in Forces : StartUnlocked(c, force)

\* The steps a run takes by itself once it is started.
Proceed(c) ==
  \/ AcquireLock(c)
  \/ FetchManifest(c)
  \/ \E filter \in Filters \cup {Ats} : Decide(c, filter)
  \/ LogSkipped(c)
  \/ \E a \in Ats : Download(c, a) \/ ProcessParquet(c, a)
  \/ StartLoading(c) \/ PruneOld(c) \/ MarkManifestDrops(c)
  \/ LogSuccess(c) \/ Return(c) \/ SweepDrops(c)

Failures ==
  \E c \in Runs : \/ FetchFails(c) \/ CycleFails(c) \/ KillCli(c)
                  \/ \E a \in Ats : DownloadFails(c, a) \/ ProcessFails(c, a)

Next == Environment \/ Starts \/ Failures \/ \E c \in Runs : Proceed(c)

\* The clock goes on, due jobs fire and runs proceed.  Requests, restarts,
\* failures, publications and scrapes may never come; and a poll tick need
\* not fall into the moments that allow it.
Fairness ==
  /\ WF_vars(IngestHour) /\ WF_vars(PollEnd) /\ WF_vars(Midnight)
  /\ WF_vars(\E c \in Daily : DailyFires(c))
  /\ WF_vars(\E c \in Startups : StartupFires(c))
  /\ \A c \in Runs : WF_vars(Proceed(c))

Spec == Init /\ [][Next]_vars
FairSpec == Spec /\ Fairness

-----------------------------------------------------------------------------
(* Properties. *)

\* Without the command line and ATS failures, an active row has two missed
\* cycles only if a cycle since it was last upserted found it gone from the
\* manifest (mark_manifest_drops, README 520).
FlagNeedsAbsence == \A u \in Flagged : rows[u].status = "live" => u \in unlisted

\* The runs the scheduler starts never ingest one version of the manifest twice,
\* whatever fails or restarts, once a success row of it is there.
OncePerVersion ==
  [][\A c \in Runs :
       pc[c] = "finish" /\ pc'[c] = "total" => run[c].ver \notin ingested]_vars

\* mark_manifest_drops misses no row: one that nobody upserted since the cycle
\* started is counted as missed.
DropsNeverEscape ==
  [][\A c \in Runs :
       pc[c] = "mark" /\ pc'[c] = "finish" =>
         \A u \in Present \ run[c].fresh :
           rows'[u].missed = Capped(rows[u].missed + 1, MaxMissed)]_vars

\* And it counts no row that the cycle upserted itself (README 513).
TouchedNotMissed ==
  [][\A c \in Runs :
       pc[c] = "mark" /\ pc'[c] = "finish" =>
         \A u \in Present \cap run[c].fresh : rows'[u].missed = rows[u].missed]_vars

\* A cycle that counted missed rows ends with a success row (docstring of
\* mark_manifest_drops, README 609).
OnlySuccessCounts ==
  [][\A c \in Runs :
       pc[c] # "idle" /\ pc'[c] = "idle" /\ run[c].marked => run[c].ver \in ingested']_vars

\* When upstream stops publishing, the log comes to say so and the jobs it
\* lists are there: no order of failures, restarts and skips wedges ingestion.
Converges ==
  <>[](/\ last = version
       /\ catalog[version] \ outdated \subseteq Present)

\* A row with two missed cycles is taken up by the post-ingest sweep, unless
\* it is seen again or leaves the active state (README 761).
DropsSwept ==
  \A u \in Urls : (u \in Flagged /\ rows[u].status = "live")
                    ~> (u \in swept \/ u \notin Flagged \/ rows[u].status # "live")
=============================================================================
