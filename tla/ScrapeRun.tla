----------------------------- MODULE ScrapeRun -----------------------------
(***************************************************************************)
(* Local scrape runs: claiming the single slot, the orchestrator task, the  *)
(* scraper child process of each ATS, cancellation, the event streams, and  *)
(* what a restart of the server leaves behind.                              *)
(*                                                                          *)
(* Requests, orchestrators and streams are coroutines of one event loop.    *)
(* An orchestrator gives the loop away only before it starts, while it      *)
(* waits for the child process and when it is done; its other steps are     *)
(* separate statements because each may raise and the server may stop       *)
(* between any two of them.                                                 *)
(*                                                                          *)
(* Counters, company selection, parquet files and log files are left out.   *)
(***************************************************************************)
EXTENDS Integers, FiniteSets

CONSTANTS
  Ats,          \* the ATSes a run may ask for
  NoAts,        \* no ATS is being scraped
  Streams,      \* clients of /runs/{id}/stream
  NoRun,        \* a stream that is not attached to a handle
  Duplicates,   \* whether a request or preset may name an ATS twice
  QueueSize,    \* maxsize of a subscriber's queue
  HistoryKeep,  \* settings.scrape_run_history_keep
  MaxRuns,      \* bound: runs claimed
  MaxProgress,  \* bound: progress events of one run
  MaxFaults,    \* bound: exceptions in run_one_ats other than a timeout
  MaxCrashes,   \* bound: exceptions in the orchestrator itself
  MaxRestarts   \* bound: restarts of the server

Runs == 1..MaxRuns

ASSUME NamesAssumption == NoAts \notin Ats /\ NoRun \notin Runs
ASSUME SettingsAssumption ==
  /\ IsFiniteSet(Ats) /\ Ats # {}
  /\ Duplicates \in BOOLEAN
  /\ QueueSize \in Nat \ {0} /\ HistoryKeep \in Nat \ {0}
ASSUME BoundsAssumption ==
  /\ MaxRuns \in Nat /\ MaxProgress \in Nat /\ MaxFaults \in Nat
  /\ MaxCrashes \in Nat /\ MaxRestarts \in Nat

Active    == {"queued", "running"}
Finished  == {"succeeded", "partial", "failed", "cancelled"}
Unsettled == {"pending", "running"}
Settled   == {"succeeded", "failed", "skipped", "cancelled"}

VARIABLES
  runStatus,  \* scrape_run.status, "none" before and "deleted" after the row
  atsStatus,  \* scrape_run_ats.status per run and ATS, "none" without a row
  pc,         \* where each run's orchestrator is
  todo,       \* the ATSes its loop has still to visit
  cur,        \* the ATS it is working on
  flags,      \* any_succeeded, any_failed, any_safeguard
  cancel,     \* the handles with cancel_event set
  shims,      \* live scraper processes, as <<run, ats>>
  sub,        \* the run whose handle each stream has a queue on
  queued,     \* the number of events in that queue
  ended,      \* whether run_finished is among them
  server,     \* "up", or the start-up step that comes next
  reclaimed,  \* the ids cleanup_orphans has read
  faults,     \* history: exceptions, crashes and restarts so far
  progressed  \* history: progress events per run

orchVars   == <<todo, cur, flags>>
streamVars == <<sub, queued, ended>>
bootVars   == <<server, reclaimed>>
vars == <<runStatus, atsStatus, pc, todo, cur, flags, cancel, shims, sub,
          queued, ended, server, reclaimed, faults, progressed>>

\* Statements between which the orchestrator, or start_run, holds the loop.
Holding == {"children", "next", "select", "load"}
Working == Holding \cup {"created", "scraping"}

\* Statements at which an orchestrator works on one ATS.
Busy == {"select", "scraping", "load"}

RowsOK ==
  /\ runStatus \in [Runs -> Active \cup Finished \cup {"none", "deleted"}]
  /\ atsStatus \in [Runs -> [Ats -> Unsettled \cup Settled \cup {"none"}]]
TasksOK ==
  /\ pc \in [Runs -> Working \cup {"none", "finished", "gone"}]
  /\ todo \in [Runs -> SUBSET Ats]
  /\ cur \in [Runs -> Ats \cup {NoAts}]
  /\ flags \in [Runs -> SUBSET {"succeeded", "failed", "safeguard"}]
  /\ cancel \subseteq Runs
  /\ shims \subseteq Runs \X Ats
  /\ \A r \in Runs : pc[r] \in Busy => cur[r] \in Ats
StreamsOK ==
  /\ sub \in [Streams -> Runs \cup {NoRun}]
  /\ queued \in [Streams -> 0..QueueSize]
  /\ ended \in [Streams -> BOOLEAN]
OthersOK ==
  /\ server \in {"up", "orphans", "children", "retention"}
  /\ reclaimed \subseteq Runs
  /\ faults \in [shim : 0..MaxFaults, crash : 0..MaxCrashes, restart : 0..MaxRestarts]
  /\ progressed \in [Runs -> 0..MaxProgress]

\* Type invariant: rows, tasks, streams and start-up steps have their types, a
\* task that works on an ATS has one, and one task at most holds the loop.
TypeOK ==
  /\ RowsOK /\ TasksOK /\ StreamsOK /\ OthersOK
  /\ \A q, r \in Runs : pc[q] \in Holding /\ pc[r] \in Holding => q = r

Init ==
  /\ runStatus = [r \in Runs |-> "none"]
  /\ atsStatus = [r \in Runs |-> [a \in Ats |-> "none"]]
  /\ pc = [r \in Runs |-> "none"]
  /\ todo = [r \in Runs |-> {}]
  /\ cur = [r \in Runs |-> NoAts]
  /\ flags = [r \in Runs |-> {}]
  /\ cancel = {}
  /\ shims = {}
  /\ sub = [s \in Streams |-> NoRun]
  /\ queued = [s \in Streams |-> 0]
  /\ ended = [s \in Streams |-> FALSE]
  /\ server = "up"
  /\ reclaimed = {}
  /\ faults = [shim |-> 0, crash |-> 0, restart |-> 0]
  /\ progressed = [r \in Runs |-> 0]

\* (The definitions marked Slip are faults that the properties must notice.)

\* Slip: only a running run counts.
ActiveRunsRunning == {r \in Runs : runStatus[r] = "running"}

ActiveRuns    == {r \in Runs : runStatus[r] \in Active}
Registered(r) == pc[r] \in Working \cup {"finished"} /\ pc[r] # "children"
LoopFree      == server = "up" /\ \A r \in Runs : pc[r] \notin Holding
Goto(r, l)    == pc' = [pc EXCEPT ![r] = l]
SetAts(r, a, status) == atsStatus' = [atsStatus EXCEPT ![r][a] = status]

\* Slip: queues without a limit.
BroadcastUnbounded(r, last) ==
  LET heard == {s \in Streams : sub[s] = r}
  IN /\ queued' = [s \in Streams |-> queued[s] + IF s \in heard THEN 1 ELSE 0]
     /\ ended' = [s \in Streams |-> ended[s] \/ (last /\ s \in heard)]
     /\ UNCHANGED sub

\* RunHandle.broadcast: a full queue drops the event.
Broadcast(r, last) ==
  LET heard == {s \in Streams : sub[s] = r /\ queued[s] < QueueSize}
  IN /\ queued' = [s \in Streams |-> queued[s] + IF s \in heard THEN 1 ELSE 0]
     /\ ended' = [s \in Streams |-> ended[s] \/ (last /\ s \in heard)]
     /\ UNCHANGED sub

-----------------------------------------------------------------------------
(* start_run. *)

\* _claim_run: nothing active, then the row itself.
Claim(r, S) ==
  /\ LoopFree
  /\ runStatus[r] = "none" /\ \A q \in Runs : q < r => runStatus[q] # "none"
  /\ ActiveRuns = {}
  /\ S # {}
  /\ runStatus' = [runStatus EXCEPT ![r] = "queued"]
  /\ todo' = [todo EXCEPT ![r] = S]
  /\ Goto(r, "children")
  /\ UNCHANGED <<atsStatus, cur, flags, cancel, shims, streamVars, bootVars,
                 faults, progressed>>

\* The pending rows, the handle in the registry, the task.
InsertChildren(r) ==
  /\ pc[r] = "children"
  /\ atsStatus' = [atsStatus EXCEPT ![r] =
                     [a \in Ats |-> IF a \in todo[r] THEN "pending" ELSE "none"]]
  /\ Goto(r, "created")
  /\ UNCHANGED <<runStatus, orchVars, cancel, shims, streamVars, bootVars,
                 faults, progressed>>

\* An ATS named twice breaks UNIQUE(run_id, ats) after the rows S before it;
\* the error leaves start_run.
InsertDuplicate(r, S) ==
  /\ Duplicates
  /\ pc[r] = "children"
  /\ S # {} /\ S \subseteq todo[r]
  /\ atsStatus' = [atsStatus EXCEPT ![r] =
                     [a \in Ats |-> IF a \in S THEN "pending" ELSE "none"]]
  /\ todo' = [todo EXCEPT ![r] = {}]
  /\ Goto(r, "gone")
  /\ UNCHANGED <<runStatus, cur, flags, cancel, shims, streamVars, bootVars,
                 faults, progressed>>

-----------------------------------------------------------------------------
(* The orchestrator. *)

Begin(r) ==
  /\ LoopFree /\ pc[r] = "created"
  /\ runStatus' = [runStatus EXCEPT ![r] = "running"]
  /\ Broadcast(r, FALSE)
  /\ Goto(r, "next")
  /\ UNCHANGED <<atsStatus, orchVars, cancel, shims, bootVars, faults, progressed>>

SkipCancelled(r, a) ==
  /\ pc[r] = "next" /\ a \in todo[r] /\ r \in cancel
  /\ SetAts(r, a, "cancelled")
  /\ todo' = [todo EXCEPT ![r] = @ \ {a}]
  /\ flags' = [flags EXCEPT ![r] = @ \cup {"failed"}]
  /\ UNCHANGED <<runStatus, pc, cur, cancel, shims, streamVars, bootVars,
                 faults, progressed>>

StartAts(r, a) ==
  /\ pc[r] = "next" /\ a \in todo[r] /\ r \notin cancel
  /\ SetAts(r, a, "running")
  /\ Broadcast(r, FALSE)
  /\ cur' = [cur EXCEPT ![r] = a]
  /\ todo' = [todo EXCEPT ![r] = @ \ {a}]
  /\ Goto(r, "select")
  /\ UNCHANGED <<runStatus, flags, cancel, shims, bootVars, faults, progressed>>

\* select_companies_for_run, then run_one_ats launches the child and waits.
Launch(r) ==
  /\ pc[r] = "select"
  /\ shims' = shims \cup {<<r, cur[r]>>}
  /\ Goto(r, "scraping")
  /\ UNCHANGED <<runStatus, atsStatus, orchVars, cancel, streamVars, bootVars,
                 faults, progressed>>

Scraping(r)  == LoopFree /\ pc[r] = "scraping"
ShimAlive(r) == <<r, cur[r]>> \in shims

\* on_progress: the row is set running again and the event broadcast.
Progress(r) ==
  /\ Scraping(r)
  /\ progressed[r] < MaxProgress
  /\ progressed' = [progressed EXCEPT ![r] = @ + 1]
  /\ SetAts(r, cur[r], "running")
  /\ Broadcast(r, FALSE)
  /\ UNCHANGED <<runStatus, pc, orchVars, cancel, shims, bootVars, faults>>

\* The child ends by itself, at any time, orphaned or not.
ShimExits(r, a) ==
  /\ <<r, a>> \in shims
  /\ shims' = shims \ {<<r, a>>}
  /\ UNCHANGED <<runStatus, atsStatus, pc, orchVars, cancel, streamVars,
                 bootVars, faults, progressed>>

\* _watch_cancel kills the process group.
KillOnCancel(r) ==
  /\ Scraping(r) /\ ShimAlive(r) /\ r \in cancel
  /\ shims' = shims \ {<<r, cur[r]>>}
  /\ UNCHANGED <<runStatus, atsStatus, pc, orchVars, cancel, streamVars,
                 bootVars, faults, progressed>>

\* Slip: a failure that does not set any_failed.
GiveUpSilently(r, status) ==
  /\ SetAts(r, cur[r], status)
  /\ Goto(r, "next")
  /\ UNCHANGED <<runStatus, todo, cur, flags, cancel, streamVars, bootVars, progressed>>

\* The ATS is over for this run without a load.
GiveUp(r, status) ==
  /\ SetAts(r, cur[r], status)
  /\ flags' = [flags EXCEPT ![r] = @ \cup {"failed"}]
  /\ Goto(r, "next")
  /\ UNCHANGED <<runStatus, todo, cur, cancel, streamVars, bootVars, progressed>>

\* run_one_ats returns, or raises ScrapeCancelled if the event is set by then.
Collect(r) ==
  /\ Scraping(r) /\ ~ShimAlive(r)
  /\ \/ r \in cancel /\ GiveUp(r, "cancelled")
     \/ /\ r \notin cancel
        /\ Goto(r, "load")
        /\ UNCHANGED <<runStatus, atsStatus, orchVars, cancel, streamVars,
                       bootVars, progressed>>
  /\ UNCHANGED <<shims, faults>>

\* Slip: the timeout leaves the child alone.
TimeoutLeaks(r) ==
  /\ Scraping(r) /\ ShimAlive(r)
  /\ GiveUp(r, "failed")
  /\ UNCHANGED <<shims, faults>>

\* Slip: the timeout is caught and the wait starts again.
TimeoutRearmed(r) == Scraping(r) /\ ShimAlive(r) /\ UNCHANGED vars

Timeout(r) ==
  /\ Scraping(r) /\ ShimAlive(r)
  /\ shims' = shims \ {<<r, cur[r]>>}
  /\ GiveUp(r, "failed")
  /\ UNCHANGED faults

\* An exception in run_one_ats, before the launch or while it reads the child's
\* events; nobody kills a child that was launched.
ScrapeFails(r) ==
  /\ pc[r] = "select" \/ Scraping(r)
  /\ faults.shim < MaxFaults
  /\ faults' = [faults EXCEPT !.shim = @ + 1]
  /\ GiveUp(r, "failed")
  /\ UNCHANGED shims

LoadFails(r) ==
  /\ pc[r] = "load"
  /\ GiveUp(r, "failed")
  /\ UNCHANGED <<shims, faults>>

\* The load, or the empty-ATS safeguard that takes its place.
Loaded(r, status, flag) ==
  /\ pc[r] = "load"
  /\ SetAts(r, cur[r], status)
  /\ flags' = [flags EXCEPT ![r] = @ \cup {flag}]
  /\ Broadcast(r, FALSE)
  /\ Goto(r, "next")
  /\ UNCHANGED <<runStatus, todo, cur, cancel, shims, bootVars, faults, progressed>>

Load(r)      == Loaded(r, "succeeded", "succeeded")
Safeguard(r) == Loaded(r, "skipped", "safeguard")

\* Slip: cancellation looked at last.
VerdictCancelLast(r) ==
  IF "succeeded" \in flags[r] /\ "failed" \notin flags[r] THEN "succeeded"
  ELSE IF "succeeded" \in flags[r] THEN "partial"
  ELSE IF flags[r] = {"safeguard"} THEN "succeeded"
  ELSE IF r \in cancel THEN "cancelled"
  ELSE "failed"

\* The overall status: in this order.
Verdict(r) ==
  IF r \in cancel THEN "cancelled"
  ELSE IF "succeeded" \in flags[r] /\ "failed" \notin flags[r] THEN "succeeded"
  ELSE IF "succeeded" \in flags[r] THEN "partial"
  ELSE IF flags[r] = {"safeguard"} THEN "succeeded"
  ELSE "failed"

\* Slip: a cancelled run ends without an event.
FinishQuietly(r) ==
  /\ pc[r] = "next" /\ todo[r] = {}
  /\ runStatus' = [runStatus EXCEPT ![r] = Verdict(r)]
  /\ IF r \in cancel THEN UNCHANGED streamVars ELSE Broadcast(r, TRUE)
  /\ Goto(r, "finished")
  /\ UNCHANGED <<atsStatus, orchVars, cancel, shims, bootVars, faults, progressed>>

Finish(r) ==
  /\ pc[r] = "next" /\ todo[r] = {}
  /\ runStatus' = [runStatus EXCEPT ![r] = Verdict(r)]
  /\ Broadcast(r, TRUE)
  /\ Goto(r, "finished")
  /\ UNCHANGED <<atsStatus, orchVars, cancel, shims, bootVars, faults, progressed>>

\* An exception outside run_one_ats and safe_load ends the task; _orchestrate
\* marks the run, unless that write fails too.
Crash(r) ==
  /\ pc[r] \in Working \ {"children"}
  /\ pc[r] \in {"created", "scraping"} => LoopFree
  /\ pc[r] = "scraping" => ~ShimAlive(r)
  /\ faults.crash < MaxCrashes
  /\ faults' = [faults EXCEPT !.crash = @ + 1]
  /\ runStatus' \in {runStatus, [runStatus EXCEPT ![r] = "failed"]}
  /\ Goto(r, "finished")
  /\ UNCHANGED <<atsStatus, orchVars, cancel, shims, streamVars, bootVars, progressed>>

\* The done callback takes the handle out of the registry; the task's locals
\* and the handle's event go with it.
DropHandle(r) ==
  /\ LoopFree /\ pc[r] = "finished"
  /\ Goto(r, "gone")
  /\ todo' = [todo EXCEPT ![r] = {}]
  /\ cur' = [cur EXCEPT ![r] = NoAts]
  /\ flags' = [flags EXCEPT ![r] = {}]
  /\ cancel' = cancel \ {r}
  /\ progressed' = [progressed EXCEPT ![r] = 0]
  /\ UNCHANGED <<runStatus, atsStatus, shims, streamVars, bootVars, faults>>

-----------------------------------------------------------------------------
(* Cancel requests and event streams. *)

RequestCancel(r) ==
  /\ LoopFree
  /\ r \in ActiveRuns /\ Registered(r)
  /\ cancel' = cancel \cup {r}
  /\ UNCHANGED <<runStatus, atsStatus, pc, orchVars, shims, streamVars,
                 bootVars, faults, progressed>>

Attach(s, r) ==
  /\ LoopFree
  /\ sub[s] = NoRun /\ Registered(r)
  /\ sub' = [sub EXCEPT ![s] = r]
  /\ UNCHANGED <<runStatus, atsStatus, pc, orchVars, cancel, shims, queued,
                 ended, bootVars, faults, progressed>>

Detached(s) ==
  /\ sub' = [sub EXCEPT ![s] = NoRun]
  /\ queued' = [queued EXCEPT ![s] = 0]
  /\ ended' = [ended EXCEPT ![s] = FALSE]

\* The generator takes one event; run_finished, the last one, ends it.
Deliver(s) ==
  /\ LoopFree
  /\ queued[s] > 0
  /\ IF queued[s] = 1 /\ ended[s] THEN Detached(s)
     ELSE /\ queued' = [queued EXCEPT ![s] = @ - 1]
          /\ UNCHANGED <<sub, ended>>
  /\ UNCHANGED <<runStatus, atsStatus, pc, orchVars, cancel, shims, bootVars,
                 faults, progressed>>

\* The client goes away.
Disconnect(s) ==
  /\ LoopFree
  /\ sub[s] # NoRun
  /\ Detached(s)
  /\ UNCHANGED <<runStatus, atsStatus, pc, orchVars, cancel, shims, bootVars,
                 faults, progressed>>

-----------------------------------------------------------------------------
(* Restart and start-up. *)

\* Registry, tasks and streams are lost; the children run in sessions of their own.
Restart ==
  /\ faults.restart < MaxRestarts
  /\ faults' = [faults EXCEPT !.restart = @ + 1]
  /\ pc' = [r \in Runs |-> IF pc[r] = "none" THEN "none" ELSE "gone"]
  /\ todo' = [r \in Runs |-> {}]
  /\ cur' = [r \in Runs |-> NoAts]
  /\ flags' = [r \in Runs |-> {}]
  /\ progressed' = [r \in Runs |-> 0]
  /\ cancel' = {}
  /\ sub' = [s \in Streams |-> NoRun]
  /\ queued' = [s \in Streams |-> 0]
  /\ ended' = [s \in Streams |-> FALSE]
  /\ server' = "orphans"
  /\ reclaimed' = {}
  /\ UNCHANGED <<runStatus, atsStatus, shims>>

\* Slip: a queued run is not reclaimed.
ReclaimRunsRunning ==
  /\ server = "orphans"
  /\ reclaimed' = {r \in Runs : runStatus[r] = "running"}
  /\ runStatus' = [r \in Runs |-> IF r \in reclaimed' THEN "failed" ELSE runStatus[r]]
  /\ server' = IF reclaimed' = {} THEN "retention" ELSE "children"
  /\ UNCHANGED <<atsStatus, pc, orchVars, cancel, shims, streamVars, faults, progressed>>

\* cleanup_orphans, first statement: the runs.
ReclaimRuns ==
  /\ server = "orphans"
  /\ reclaimed' = ActiveRuns
  /\ runStatus' = [r \in Runs |-> IF r \in ActiveRuns THEN "failed" ELSE runStatus[r]]
  /\ server' = IF ActiveRuns = {} THEN "retention" ELSE "children"
  /\ UNCHANGED <<atsStatus, pc, orchVars, cancel, shims, streamVars, faults, progressed>>

\* Slip: a pending row is not reclaimed.
ReclaimChildrenRunning ==
  /\ server = "children"
  /\ atsStatus' = [r \in Runs |-> [a \in Ats |->
                     IF r \in reclaimed /\ atsStatus[r][a] = "running"
                     THEN "failed" ELSE atsStatus[r][a]]]
  /\ server' = "retention"
  /\ UNCHANGED <<runStatus, pc, orchVars, cancel, shims, streamVars, reclaimed,
                 faults, progressed>>

\* Second statement: their ATS rows.
ReclaimChildren ==
  /\ server = "children"
  /\ atsStatus' = [r \in Runs |-> [a \in Ats |->
                     IF r \in reclaimed /\ atsStatus[r][a] \in Unsettled
                     THEN "failed" ELSE atsStatus[r][a]]]
  /\ server' = "retention"
  /\ UNCHANGED <<runStatus, pc, orchVars, cancel, shims, streamVars, reclaimed,
                 faults, progressed>>

\* cleanup_retention keeps the newest rows; a locked database postpones it.
Retain ==
  /\ server = "retention"
  /\ LET rows == {r \in Runs : runStatus[r] \notin {"none", "deleted"}}
         old  == {r \in rows :
                    Cardinality({q \in rows : q > r}) >= HistoryKeep}
     IN \/ UNCHANGED <<runStatus, atsStatus>>
        \/ /\ runStatus' = [r \in Runs |-> IF r \in old THEN "deleted" ELSE runStatus[r]]
           /\ atsStatus' = [r \in Runs |-> IF r \in old THEN [a \in Ats |-> "none"]
                                           ELSE atsStatus[r]]
  /\ server' = "up"
  /\ reclaimed' = {}
  /\ UNCHANGED <<pc, orchVars, cancel, shims, streamVars, faults, progressed>>

-----------------------------------------------------------------------------
Startup == ReclaimRuns \/ ReclaimChildren \/ Retain

\* What a claimed run does by itself.
Work(r) ==
  \/ InsertChildren(r) \/ Begin(r) \/ Launch(r) \/ Collect(r) \/ Finish(r)
  \/ LoadFails(r) \/ Load(r) \/ Safeguard(r) \/ DropHandle(r)
  \/ \E a \in Ats : SkipCancelled(r, a) \/ StartAts(r, a)

Next ==
  \/ Startup \/ Restart
  \/ \E r \in Runs :
       \/ Work(r) \/ Progress(r) \/ KillOnCancel(r) \/ Timeout(r)
       \/ ScrapeFails(r) \/ Crash(r) \/ RequestCancel(r)
       \/ \E S \in SUBSET Ats : Claim(r, S) \/ InsertDuplicate(r, S)
       \/ \E a \in Ats : ShimExits(r, a)
  \/ \E s \in Streams :
       \/ Deliver(s) \/ Disconnect(s)
       \/ \E r \in Runs : Attach(s, r)

\* Tasks run, the watcher and the hard timeout act, streams are read and a
\* started server starts up.  Children need not exit and clients need not go.
Fairness ==
  /\ WF_vars(Startup)
  /\ \A r \in Runs :
       WF_vars(Work(r)) /\ WF_vars(KillOnCancel(r)) /\ WF_vars(Timeout(r))
  /\ \A s \in Streams : WF_vars(Deliver(s))

Spec == Init /\ [][Next]_vars
FairSpec == Spec /\ Fairness

-----------------------------------------------------------------------------
(* Properties. *)

\* At most one run is queued or running and at most one orchestrator works,
\* over cancellations, failures and restarts (_claim_run, README 886).
SingleFlight ==
  /\ \A q, r \in ActiveRuns : q = r
  /\ \A q, r \in Runs : pc[q] \in Working /\ pc[r] \in Working => q = r

Done(r)   == {a \in Ats : atsStatus[r][a] \in {"succeeded", "skipped"}}
Undone(r) == {a \in Ats : atsStatus[r][a] \notin {"none", "succeeded", "skipped"}}

\* The status of a run agrees with those of its ATSes: succeeded when all of them
\* were done, partial when some were, cancelled only when one was not: a
\* cancel that comes too late to stop anything does not mark the run.
Truthful(r) ==
  /\ runStatus[r] = "succeeded" => Undone(r) = {}
  /\ runStatus[r] = "partial"   => Done(r) # {} /\ Undone(r) # {}
  /\ runStatus[r] = "cancelled" => Undone(r) # {}
StatusTruthful == \A r \in Runs : Truthful(r)

\* Once the server is up, a run that is over has no ATS pending or running
\* (docstring of cleanup_orphans).
ChildrenSettled ==
  server = "up" =>
    \A r \in Runs : runStatus[r] \in Finished =>
      \A a \in Ats : atsStatus[r][a] \notin Unsettled

\* Once the server is up, an active run has an orchestrator to end it (docstring
\* of start_run).
ActiveHasOrchestrator ==
  server = "up" => \A r \in ActiveRuns : pc[r] \in Working

\* A live scraper process belongs to the run and the ATS that waits for it:
\* timeouts and cancellations leave none behind (docstring of run_one_ats).
ShimsContained ==
  \A r \in Runs, a \in Ats :
    <<r, a>> \in shims => pc[r] = "scraping" /\ cur[r] = a

\* Whatever fails, an orchestrator ends only after it has visited every ATS
\* (docstring of _orchestrate).
FailureContained ==
  [][\A r \in Runs :
       pc[r] \in Working /\ pc'[r] = "finished" => todo[r] = {}]_vars

\* A run that is queued or running comes to an end, also when the child hangs or
\* the server restarts.
EveryRunEnds == \A r \in Runs : r \in ActiveRuns ~> r \notin ActiveRuns

\* A run asked to cancel ends as cancelled, not as what it had achieved.
CancelEndsRun ==
  \A r \in Runs : (r \in cancel /\ r \in ActiveRuns) ~> runStatus[r] = "cancelled"

\* A stream attached to an active run ends (docstring of stream).
StreamSeesEnd ==
  \A s \in Streams, r \in Runs :
    (sub[s] = r /\ r \in ActiveRuns) ~> sub[s] = NoRun

\* Every stream ends (docstring of stream).
StreamEnds == \A s \in Streams : sub[s] # NoRun ~> sub[s] = NoRun
=============================================================================
