--------------------------- MODULE ScrapeRunProofs ---------------------------
(***************************************************************************)
(* Proofs about scrape runs, for any ATSes and streams and any bounds.      *)
(***************************************************************************)
EXTENDS ScrapeRun, TLAPS

-----------------------------------------------------------------------------
(* Types. *)

\* A broadcast keeps every queue within its size.
LEMMA BroadcastType ==
  ASSUME StreamsOK, NEW r \in Runs, NEW last \in BOOLEAN, Broadcast(r, last)
  PROVE  StreamsOK'
BY SettingsAssumption DEF StreamsOK, Broadcast

\* The tables and locals, without the claim that the loop is held once.
Types == RowsOK /\ TasksOK /\ StreamsOK /\ OthersOK

LEMMA InitTypes == Init => Types
BY SettingsAssumption, BoundsAssumption
   DEF Init, Types, RowsOK, TasksOK, StreamsOK, OthersOK, Active, Finished,
       Unsettled, Settled, Working, Holding, Busy

\* What a claimed run does keeps the types.
LEMMA WorkTypes ==
  ASSUME Types, NEW r \in Runs, Work(r)
  PROVE  Types'
<1>. USE DEF Types, Active, Finished, Unsettled, Settled, Working, Holding, Busy,
             orchVars, streamVars, bootVars, Goto, SetAts
<1>1. CASE InsertChildren(r)
  BY <1>1 DEF InsertChildren, RowsOK, TasksOK, StreamsOK, OthersOK
<1>2. CASE Begin(r)
  BY <1>2, BroadcastType DEF Begin, RowsOK, TasksOK, OthersOK
<1>3. CASE Launch(r)
  BY <1>3 DEF Launch, RowsOK, TasksOK, StreamsOK, OthersOK
<1>4. CASE Collect(r)
  <2>1. CASE GiveUp(r, "cancelled")
    BY <1>4, <2>1 DEF Collect, Scraping, GiveUp, RowsOK, TasksOK, StreamsOK, OthersOK
  <2>2. CASE ~GiveUp(r, "cancelled")
    BY <1>4, <2>2 DEF Collect, Scraping, RowsOK, TasksOK, StreamsOK, OthersOK
  <2>. QED  BY <2>1, <2>2
<1>5. CASE Finish(r)
  BY <1>5, BroadcastType DEF Finish, Verdict, RowsOK, TasksOK, OthersOK
<1>6. CASE LoadFails(r)
  BY <1>6 DEF LoadFails, GiveUp, RowsOK, TasksOK, StreamsOK, OthersOK
<1>7. CASE Load(r)
  BY <1>7, BroadcastType DEF Load, Loaded, RowsOK, TasksOK, OthersOK
<1>8. CASE Safeguard(r)
  BY <1>8, BroadcastType DEF Safeguard, Loaded, RowsOK, TasksOK, OthersOK
<1>9. CASE DropHandle(r)
  BY <1>9, BoundsAssumption DEF DropHandle, RowsOK, TasksOK, StreamsOK, OthersOK
<1>10. ASSUME NEW a \in Ats, SkipCancelled(r, a) PROVE Types'
  BY <1>10 DEF SkipCancelled, RowsOK, TasksOK, StreamsOK, OthersOK
<1>11. ASSUME NEW a \in Ats, StartAts(r, a) PROVE Types'
  BY <1>11, BroadcastType DEF StartAts, RowsOK, TasksOK, OthersOK
<1>. QED
  BY <1>1, <1>2, <1>3, <1>4, <1>5, <1>6, <1>7, <1>8, <1>9, <1>10, <1>11 DEF Work

\* And so does everything that happens to it.
LEMMA EventTypes ==
  ASSUME Types, NEW r \in Runs,
         \/ Progress(r) \/ KillOnCancel(r) \/ Timeout(r)
         \/ ScrapeFails(r) \/ Crash(r) \/ RequestCancel(r)
         \/ \E S \in SUBSET Ats : Claim(r, S) \/ InsertDuplicate(r, S)
         \/ \E a \in Ats : ShimExits(r, a)
  PROVE  Types'
<1>. USE DEF Types, Active, Finished, Unsettled, Settled, Working, Holding, Busy,
             orchVars, streamVars, bootVars, Goto, SetAts
<1>1. CASE Progress(r)
  <2>1. StreamsOK'
    BY <1>1, BroadcastType DEF Progress
  <2>2. RowsOK' /\ TasksOK'
    BY <1>1 DEF Progress, Scraping, RowsOK, TasksOK
  <2>3. OthersOK'
    BY <1>1, BoundsAssumption DEF Progress, OthersOK
  <2>. QED  BY <2>1, <2>2, <2>3
<1>2. CASE KillOnCancel(r)
  BY <1>2 DEF KillOnCancel, RowsOK, TasksOK, StreamsOK, OthersOK
<1>3. CASE Timeout(r)
  BY <1>3 DEF Timeout, Scraping, GiveUp, RowsOK, TasksOK, StreamsOK, OthersOK
<1>4. CASE ScrapeFails(r)
  <2>1. RowsOK' /\ TasksOK' /\ StreamsOK'
    BY <1>4 DEF ScrapeFails, Scraping, GiveUp, RowsOK, TasksOK, StreamsOK
  <2>2. OthersOK'
    BY <1>4, BoundsAssumption DEF ScrapeFails, GiveUp, OthersOK
  <2>. QED  BY <2>1, <2>2
<1>5. CASE Crash(r)
  <2>1. RowsOK' /\ TasksOK' /\ StreamsOK'
    BY <1>5 DEF Crash, RowsOK, TasksOK, StreamsOK
  <2>2. OthersOK'
    BY <1>5, BoundsAssumption DEF Crash, OthersOK
  <2>. QED  BY <2>1, <2>2
<1>6. CASE RequestCancel(r)
  BY <1>6 DEF RequestCancel, RowsOK, TasksOK, StreamsOK, OthersOK
<1>7. ASSUME NEW S \in SUBSET Ats, Claim(r, S) PROVE Types'
  BY <1>7 DEF Claim, RowsOK, TasksOK, StreamsOK, OthersOK
<1>8. ASSUME NEW S \in SUBSET Ats, InsertDuplicate(r, S) PROVE Types'
  BY <1>8 DEF InsertDuplicate, RowsOK, TasksOK, StreamsOK, OthersOK
<1>9. ASSUME NEW a \in Ats, ShimExits(r, a) PROVE Types'
  BY <1>9 DEF ShimExits, RowsOK, TasksOK, StreamsOK, OthersOK
<1>. QED
  BY <1>1, <1>2, <1>3, <1>4, <1>5, <1>6, <1>7, <1>8, <1>9

\* Streams, restarts and start-up keep the types.
LEMMA ServerTypes ==
  ASSUME Types,
         \/ Startup \/ Restart
         \/ \E s \in Streams :
              \/ Deliver(s) \/ Disconnect(s)
              \/ \E r \in Runs : Attach(s, r)
  PROVE  Types'
<1>. USE DEF Types, Active, Finished, Unsettled, Settled, Working, Holding, Busy,
             orchVars, streamVars, bootVars
<1>1. CASE ReclaimRuns
  BY <1>1 DEF ReclaimRuns, ActiveRuns, RowsOK, TasksOK, StreamsOK, OthersOK
<1>2. CASE ReclaimChildren
  BY <1>2 DEF ReclaimChildren, RowsOK, TasksOK, StreamsOK, OthersOK
<1>3. CASE Retain
  <2>1. PICK old \in SUBSET Runs :
          \/ UNCHANGED <<runStatus, atsStatus>>
          \/ /\ runStatus' = [r \in Runs |-> IF r \in old THEN "deleted" ELSE runStatus[r]]
             /\ atsStatus' = [r \in Runs |-> IF r \in old THEN [a \in Ats |-> "none"]
                                             ELSE atsStatus[r]]
    BY <1>3, Zenon DEF Retain
  <2>2. RowsOK'
    BY <2>1 DEF RowsOK
  <2>. QED  BY <1>3, <2>2 DEF Retain, TasksOK, StreamsOK, OthersOK
<1>4. CASE Restart
  BY <1>4, BoundsAssumption, SettingsAssumption
     DEF Restart, RowsOK, TasksOK, StreamsOK, OthersOK
<1>5. ASSUME NEW s \in Streams, Deliver(s) PROVE Types'
  <2>1. StreamsOK'
    <3>1. CASE Detached(s)
      BY <3>1, SettingsAssumption DEF Detached, StreamsOK
    <3>2. CASE ~Detached(s)
      BY <1>5, <3>2, SettingsAssumption DEF Deliver, StreamsOK
    <3>. QED  BY <3>1, <3>2
  <2>. QED  BY <1>5, <2>1 DEF Deliver, RowsOK, TasksOK, OthersOK
<1>6. ASSUME NEW s \in Streams, Disconnect(s) PROVE Types'
  BY <1>6, SettingsAssumption DEF Disconnect, Detached, RowsOK, TasksOK, StreamsOK, OthersOK
<1>7. ASSUME NEW s \in Streams, NEW r \in Runs, Attach(s, r) PROVE Types'
  BY <1>7 DEF Attach, RowsOK, TasksOK, StreamsOK, OthersOK
<1>. QED
  BY <1>1, <1>2, <1>3, <1>4, <1>5, <1>6, <1>7 DEF Startup

LEMMA StutterTypes == ASSUME Types, UNCHANGED vars PROVE Types'
BY DEF Types, RowsOK, TasksOK, StreamsOK, OthersOK, vars

LEMMA TypesHold == Spec => []Types
<1>1. ASSUME Types, [Next]_vars PROVE Types'
  BY <1>1, WorkTypes, EventTypes, ServerTypes, StutterTypes DEF Next
<1>. QED  BY <1>1, InitTypes, PTL DEF Spec

-----------------------------------------------------------------------------
(* One run at a time. *)

\* Why one: an orchestrator works only on an active run, there is one such run,
\* and while the server starts nobody works.
SlotInv ==
  /\ \A q, r \in ActiveRuns : q = r
  /\ \A r \in Runs : pc[r] \in Working => r \in ActiveRuns
  /\ server # "up" => \A r \in Runs : pc[r] \notin Working

LEMMA InitSlot == Init => SlotInv
BY DEF Init, SlotInv, ActiveRuns, Active, Working, Holding

LEMMA WorkSlot ==
  ASSUME Types, SlotInv, NEW r \in Runs, Work(r)
  PROVE  SlotInv'
<1>. USE DEF Types, RowsOK, TasksOK, ActiveRuns, Active, Working, Holding, Busy,
             streamVars, bootVars, Goto
<1>1. CASE Begin(r)
  BY <1>1 DEF Begin, LoopFree, SlotInv
<1>2. CASE Finish(r)
  BY <1>2 DEF Finish, Verdict, SlotInv
<1>3. CASE InsertChildren(r) \/ Launch(r) \/ DropHandle(r)
  BY <1>3 DEF InsertChildren, Launch, DropHandle, SlotInv
<1>4. CASE Collect(r) \/ LoadFails(r)
  BY <1>4 DEF Collect, LoadFails, GiveUp, Scraping, SlotInv
<1>5. CASE Load(r) \/ Safeguard(r)
  BY <1>5 DEF Load, Safeguard, Loaded, SlotInv
<1>6. ASSUME NEW a \in Ats, SkipCancelled(r, a) \/ StartAts(r, a) PROVE SlotInv'
  BY <1>6 DEF SkipCancelled, StartAts, SlotInv
<1>. QED  BY <1>1, <1>2, <1>3, <1>4, <1>5, <1>6 DEF Work

LEMMA EventSlot ==
  ASSUME Types, SlotInv, NEW r \in Runs,
         \/ Progress(r) \/ KillOnCancel(r) \/ Timeout(r)
         \/ ScrapeFails(r) \/ Crash(r) \/ RequestCancel(r)
         \/ \E S \in SUBSET Ats : Claim(r, S) \/ InsertDuplicate(r, S)
         \/ \E a \in Ats : ShimExits(r, a)
  PROVE  SlotInv'
<1>. USE DEF Types, RowsOK, TasksOK, ActiveRuns, Active, Working, Holding, Busy,
             streamVars, bootVars, Goto
<1>1. CASE Progress(r) \/ KillOnCancel(r) \/ RequestCancel(r)
  BY <1>1 DEF Progress, KillOnCancel, RequestCancel, SlotInv
<1>2. CASE Timeout(r) \/ ScrapeFails(r)
  BY <1>2 DEF Timeout, ScrapeFails, Scraping, GiveUp, SlotInv
<1>3. CASE Crash(r)
  BY <1>3 DEF Crash, SlotInv
<1>4. ASSUME NEW S \in SUBSET Ats, Claim(r, S) PROVE SlotInv'
  BY <1>4 DEF Claim, LoopFree, SlotInv
<1>5. ASSUME NEW S \in SUBSET Ats, InsertDuplicate(r, S) PROVE SlotInv'
  BY <1>5 DEF InsertDuplicate, SlotInv
<1>6. ASSUME NEW a \in Ats, ShimExits(r, a) PROVE SlotInv'
  BY <1>6 DEF ShimExits, SlotInv
<1>. QED  BY <1>1, <1>2, <1>3, <1>4, <1>5, <1>6

LEMMA ServerSlot ==
  ASSUME Types, SlotInv,
         \/ Startup \/ Restart
         \/ \E s \in Streams :
              \/ Deliver(s) \/ Disconnect(s)
              \/ \E r \in Runs : Attach(s, r)
  PROVE  SlotInv'
<1>. USE DEF Types, RowsOK, TasksOK, ActiveRuns, Active, Working, Holding, Busy,
             streamVars, bootVars
<1>1. CASE ReclaimRuns
  BY <1>1 DEF ReclaimRuns, SlotInv
<1>2. CASE ReclaimChildren
  BY <1>2 DEF ReclaimChildren, SlotInv
<1>3. CASE Retain
  <2>1. \A r \in Runs : runStatus'[r] \in Active => r \in ActiveRuns
    BY <1>3 DEF Retain
  <2>2. server = "retention" /\ UNCHANGED pc
    BY <1>3 DEF Retain
  <2>. QED  BY <2>1, <2>2 DEF SlotInv
<1>4. CASE Restart
  BY <1>4 DEF Restart, SlotInv
<1>5. ASSUME NEW s \in Streams,
             Deliver(s) \/ Disconnect(s) \/ \E r \in Runs : Attach(s, r)
      PROVE  SlotInv'
  BY <1>5 DEF Deliver, Disconnect, Attach, SlotInv
<1>. QED
  BY <1>1, <1>2, <1>3, <1>4, <1>5 DEF Startup

LEMMA StutterSlot == ASSUME SlotInv, UNCHANGED vars PROVE SlotInv'
BY DEF SlotInv, ActiveRuns, vars

LEMMA SlotHolds == Spec => []SlotInv
<1>1. ASSUME Types, SlotInv, [Next]_vars PROVE SlotInv'
  BY <1>1, WorkSlot, EventSlot, ServerSlot, StutterSlot DEF Next
<1>. QED  BY <1>1, InitSlot, TypesHold, PTL DEF Spec

\* The type invariant of the runs: tables and locals keep their types, and two
\* tasks never hold the event loop together.
THEOREM TypeCorrect == Spec => []TypeOK
<1>1. Types /\ SlotInv => TypeOK
  BY DEF Types, SlotInv, TypeOK, Working
<1>. QED  BY <1>1, TypesHold, SlotHolds, PTL

\* Single flight: at most one run is queued or running and at most one
\* orchestrator works, across any number of crashes and restarts, without
\* help from the unique index (_claim_run).
THEOREM OneAtATime == Spec => []SingleFlight
<1>1. SlotInv => SingleFlight
  BY DEF SlotInv, SingleFlight
<1>. QED  BY <1>1, SlotHolds, PTL

-----------------------------------------------------------------------------
(* The status of a run. *)

\* Why a status is truthful: any_failed and any_succeeded say what the rows say,
\* an ATS still to visit is pending, the one worked on is running, and an
\* orchestrator that goes on after a cancel has an ATS left to skip or has
\* lost one already.
VisitOK(r) ==
  /\ \A a \in todo[r] : atsStatus[r][a] = "pending"
  /\ pc[r] \in Busy => cur[r] \notin todo[r] /\ atsStatus[r][cur[r]] = "running"
  /\ \A a \in Ats : atsStatus[r][a] \in Unsettled =>
                      a \in todo[r] \/ (pc[r] \in Busy /\ a = cur[r])
  /\ "failed" \in flags[r] <=>
       \E a \in Ats : atsStatus[r][a] \in {"failed", "cancelled"}
  /\ "succeeded" \in flags[r] <=> \E a \in Ats : atsStatus[r][a] = "succeeded"
CancelOK(r) ==
  /\ r \in cancel => pc[r] \notin {"none", "children", "select", "load", "gone"}
  /\ pc[r] = "next" /\ r \in cancel => todo[r] # {} \/ "failed" \in flags[r]
RunOK(r) ==
  /\ runStatus[r] = "none" => pc[r] = "none"
  /\ pc[r] \in {"none", "children", "created"} => flags[r] = {}
  /\ pc[r] \in {"children", "created"} => todo[r] # {}
  /\ pc[r] \in Busy \cup {"created", "next"} => VisitOK(r)
  /\ CancelOK(r)
  /\ r \in reclaimed => runStatus[r] = "failed"
AccountInv == \A r \in Runs : Truthful(r) /\ RunOK(r)

LEMMA InitAccount == Init => AccountInv
BY DEF Init, AccountInv, Truthful, RunOK, CancelOK, Busy

\* A run that a step does not touch.
Same(q) ==
  /\ runStatus'[q] = runStatus[q] /\ atsStatus'[q] = atsStatus[q]
  /\ pc'[q] = pc[q] /\ todo'[q] = todo[q] /\ cur'[q] = cur[q]
  /\ flags'[q] = flags[q]
  /\ q \in cancel' <=> q \in cancel
  /\ q \in reclaimed' => q \in reclaimed

LEMMA SameKept ==
  ASSUME NEW q \in Runs, Same(q), Truthful(q), RunOK(q)
  PROVE  Truthful(q)' /\ RunOK(q)'
BY DEF Same, Truthful, Done, Undone, RunOK, VisitOK, CancelOK

\* A step that touches one run keeps the account if it keeps that run's.
LEMMA OneTouched ==
  ASSUME AccountInv, NEW r \in Runs, \A q \in Runs \ {r} : Same(q),
         Truthful(r)', RunOK(r)'
  PROVE  AccountInv'
BY SameKept DEF AccountInv

\* While an orchestrator works its run is active: the rows of a run with a
\* final status do not change any more.
LEMMA WorkingNotFinal ==
  ASSUME SlotInv, NEW r \in Runs, pc[r] \in Working
  PROVE  runStatus[r] \in Active
BY DEF SlotInv, ActiveRuns

LEMMA WorkAccount ==
  ASSUME Types, SlotInv, AccountInv, NEW r \in Runs, Work(r)
  PROVE  AccountInv'
<1>. USE DEF Types, RowsOK, TasksOK, OthersOK, Active, Finished, Unsettled, Settled,
             Working, Holding, Busy, orchVars, streamVars, bootVars, Goto, SetAts
<1>0. Truthful(r) /\ RunOK(r)
  BY DEF AccountInv
<1>1. CASE InsertChildren(r)
  <2>1. \A q \in Runs \ {r} : Same(q)
    BY <1>1 DEF InsertChildren, Same
  <2>2. Truthful(r)'
    BY <1>1, WorkingNotFinal DEF InsertChildren, Truthful
  <2>3. RunOK(r)'
    BY <1>0, <1>1 DEF InsertChildren, RunOK, VisitOK, CancelOK
  <2>. QED  BY <2>1, <2>2, <2>3, OneTouched
<1>2. CASE Begin(r)
  <2>1. \A q \in Runs \ {r} : Same(q)
    BY <1>2 DEF Begin, Same
  <2>2. Truthful(r)'
    BY <1>2 DEF Begin, Truthful
  <2>3. RunOK(r)'
    BY <1>0, <1>2, WorkingNotFinal DEF Begin, RunOK, VisitOK, CancelOK
  <2>. QED  BY <2>1, <2>2, <2>3, OneTouched
<1>3. CASE Launch(r)
  <2>1. \A q \in Runs \ {r} : Same(q)
    BY <1>3 DEF Launch, Same
  <2>2. Truthful(r)'
    BY <1>3, WorkingNotFinal DEF Launch, Truthful
  <2>3. RunOK(r)'
    BY <1>0, <1>3 DEF Launch, RunOK, VisitOK, CancelOK
  <2>. QED  BY <2>1, <2>2, <2>3, OneTouched
<1>4. ASSUME NEW status \in {"failed", "cancelled"}, pc[r] \in Busy,
             GiveUp(r, status)
      PROVE  AccountInv'
  <2>1. \A q \in Runs \ {r} : Same(q)
    BY <1>4 DEF GiveUp, Same
  <2>2. Truthful(r)'
    BY <1>4, WorkingNotFinal DEF GiveUp, Truthful
  <2>3. RunOK(r)'
    BY <1>0, <1>4 DEF GiveUp, RunOK, VisitOK, CancelOK
  <2>. QED  BY <2>1, <2>2, <2>3, OneTouched
<1>5. CASE Collect(r)
  <2>1. CASE r \in cancel
    BY <1>4, <1>5, <2>1 DEF Collect, Scraping
  <2>2. CASE r \notin cancel
    <3>1. \A q \in Runs \ {r} : Same(q)
      BY <1>5, <2>2 DEF Collect, Scraping, Same
    <3>2. Truthful(r)'
      BY <1>5, <2>2, WorkingNotFinal DEF Collect, Scraping, Truthful
    <3>3. RunOK(r)'
      BY <1>0, <1>5, <2>2 DEF Collect, Scraping, RunOK, VisitOK, CancelOK
    <3>. QED  BY <3>1, <3>2, <3>3, OneTouched
  <2>. QED  BY <2>1, <2>2
<1>6. CASE Finish(r)
  <2>1. \A q \in Runs \ {r} : Same(q)
    BY <1>6 DEF Finish, Same
  <2>2. VisitOK(r) /\ CancelOK(r) /\ todo[r] = {} /\ pc[r] = "next"
    BY <1>0, <1>6 DEF Finish, RunOK
  <2>3. /\ "failed" \in flags[r] <=> Undone(r) # {}
        /\ "succeeded" \in flags[r] => Done(r) # {}
    <3>1. \A a \in Ats : atsStatus[r][a] \in Settled \cup {"none"}
      BY <2>2 DEF VisitOK
    <3>2. Undone(r) = {a \in Ats : atsStatus[r][a] \in {"failed", "cancelled"}}
      BY <3>1 DEF Undone
    <3>. QED  BY <2>2, <3>2 DEF VisitOK, Done
  <2>4. /\ Verdict(r) = "succeeded" => "failed" \notin flags[r]
        /\ Verdict(r) = "partial" => {"succeeded", "failed"} \subseteq flags[r]
        /\ Verdict(r) = "cancelled" => "failed" \in flags[r]
    BY <2>2 DEF Verdict, CancelOK
  <2>5. Done(r)' = Done(r) /\ Undone(r)' = Undone(r) /\ runStatus'[r] = Verdict(r)
    BY <1>6 DEF Finish, Done, Undone
  <2>6. Truthful(r)'
    BY <2>3, <2>4, <2>5 DEF Truthful
  <2>7. RunOK(r)'
    BY <1>0, <1>6, WorkingNotFinal DEF Finish, Verdict, RunOK, CancelOK
  <2>. QED  BY <2>1, <2>6, <2>7, OneTouched
<1>7. CASE LoadFails(r)
  BY <1>4, <1>7 DEF LoadFails
<1>8. ASSUME NEW a \in Ats, SkipCancelled(r, a) PROVE AccountInv'
  <2>1. \A q \in Runs \ {r} : Same(q)
    BY <1>8 DEF SkipCancelled, Same
  <2>2. Truthful(r)'
    BY <1>8, WorkingNotFinal DEF SkipCancelled, Truthful
  <2>3. RunOK(r)'
    BY <1>0, <1>8 DEF SkipCancelled, RunOK, VisitOK, CancelOK
  <2>. QED  BY <2>1, <2>2, <2>3, OneTouched
<1>9. ASSUME NEW a \in Ats, StartAts(r, a) PROVE AccountInv'
  <2>1. \A q \in Runs \ {r} : Same(q)
    BY <1>9 DEF StartAts, Same
  <2>2. Truthful(r)'
    BY <1>9, WorkingNotFinal DEF StartAts, Truthful
  <2>3. RunOK(r)'
    BY <1>0, <1>9 DEF StartAts, RunOK, VisitOK, CancelOK
  <2>. QED  BY <2>1, <2>2, <2>3, OneTouched
<1>10. ASSUME NEW status \in {"succeeded", "skipped"},
              NEW flag \in {"succeeded", "safeguard"},
              flag = "succeeded" <=> status = "succeeded",
              Loaded(r, status, flag)
       PROVE  AccountInv'
  <2>1. \A q \in Runs \ {r} : Same(q)
    BY <1>10 DEF Loaded, Same
  <2>2. Truthful(r)'
    BY <1>10, WorkingNotFinal DEF Loaded, Truthful
  <2>3. RunOK(r)'
    BY <1>0, <1>10 DEF Loaded, RunOK, VisitOK, CancelOK
  <2>. QED  BY <2>1, <2>2, <2>3, OneTouched
<1>11. CASE Load(r) \/ Safeguard(r)
  BY <1>10, <1>11 DEF Load, Safeguard
<1>12. CASE DropHandle(r)
  <2>1. \A q \in Runs \ {r} : Same(q)
    BY <1>12 DEF DropHandle, Same
  <2>2. Truthful(r)'
    BY <1>0, <1>12 DEF DropHandle, Truthful, Done, Undone
  <2>3. RunOK(r)'
    BY <1>0, <1>12 DEF DropHandle, RunOK, VisitOK, CancelOK
  <2>. QED  BY <2>1, <2>2, <2>3, OneTouched
<1>. QED
  BY <1>1, <1>2, <1>3, <1>5, <1>6, <1>7, <1>8, <1>9, <1>11, <1>12 DEF Work

LEMMA EventAccount ==
  ASSUME Types, SlotInv, AccountInv, NEW r \in Runs,
         \/ Progress(r) \/ KillOnCancel(r) \/ Timeout(r)
         \/ ScrapeFails(r) \/ Crash(r) \/ RequestCancel(r)
         \/ \E S \in SUBSET Ats : Claim(r, S) \/ InsertDuplicate(r, S)
         \/ \E a \in Ats : ShimExits(r, a)
  PROVE  AccountInv'
<1>. USE DEF Types, RowsOK, TasksOK, OthersOK, Active, Finished, Unsettled, Settled,
             Working, Holding, Busy, orchVars, streamVars, bootVars, Goto, SetAts
<1>0. Truthful(r) /\ RunOK(r)
  BY DEF AccountInv
<1>1. CASE Progress(r)
  <2>1. \A q \in Runs \ {r} : Same(q)
    BY <1>1 DEF Progress, Scraping, Same
  <2>2. Truthful(r)'
    BY <1>1, WorkingNotFinal DEF Progress, Scraping, Truthful
  <2>3. RunOK(r)'
    BY <1>0, <1>1 DEF Progress, Scraping, RunOK, VisitOK, CancelOK
  <2>. QED  BY <2>1, <2>2, <2>3, OneTouched
<1>2. CASE KillOnCancel(r) \/ \E a \in Ats : ShimExits(r, a)
  <2>1. \A q \in Runs : Same(q)
    BY <1>2 DEF KillOnCancel, ShimExits, Same
  <2>. QED  BY <2>1, SameKept DEF AccountInv
<1>3. CASE Timeout(r) \/ ScrapeFails(r)
  <2>1. pc[r] \in Busy /\ GiveUp(r, "failed")
    BY <1>3 DEF Timeout, ScrapeFails, Scraping
  <2>2. \A q \in Runs \ {r} : Same(q)
    BY <2>1 DEF GiveUp, Same
  <2>3. Truthful(r)'
    BY <2>1, WorkingNotFinal DEF GiveUp, Truthful
  <2>4. RunOK(r)'
    BY <1>0, <2>1 DEF GiveUp, RunOK, VisitOK, CancelOK
  <2>. QED  BY <2>2, <2>3, <2>4, OneTouched
<1>4. CASE Crash(r)
  <2>1. \A q \in Runs \ {r} : Same(q)
    BY <1>4 DEF Crash, Same
  <2>2. Truthful(r)'
    BY <1>4, WorkingNotFinal DEF Crash, Truthful
  <2>3. RunOK(r)'
    BY <1>0, <1>4, WorkingNotFinal DEF Crash, RunOK, CancelOK
  <2>. QED  BY <2>1, <2>2, <2>3, OneTouched
<1>5. CASE RequestCancel(r)
  <2>1. \A q \in Runs \ {r} : Same(q)
    BY <1>5 DEF RequestCancel, Same
  <2>2. Truthful(r)'
    BY <1>0, <1>5 DEF RequestCancel, Truthful, Done, Undone
  <2>3. RunOK(r)'
    BY <1>0, <1>5 DEF RequestCancel, LoopFree, Registered, RunOK, VisitOK, CancelOK
  <2>. QED  BY <2>1, <2>2, <2>3, OneTouched
<1>6. ASSUME NEW S \in SUBSET Ats, Claim(r, S) PROVE AccountInv'
  <2>1. \A q \in Runs \ {r} : Same(q)
    BY <1>6 DEF Claim, Same
  <2>2. Truthful(r)'
    BY <1>6 DEF Claim, Truthful
  <2>3. RunOK(r)'
    BY <1>0, <1>6 DEF Claim, RunOK, CancelOK
  <2>. QED  BY <2>1, <2>2, <2>3, OneTouched
<1>7. ASSUME NEW S \in SUBSET Ats, InsertDuplicate(r, S) PROVE AccountInv'
  <2>1. \A q \in Runs \ {r} : Same(q)
    BY <1>7 DEF InsertDuplicate, Same
  <2>2. Truthful(r)'
    BY <1>7, WorkingNotFinal DEF InsertDuplicate, Truthful
  <2>3. RunOK(r)'
    BY <1>0, <1>7 DEF InsertDuplicate, RunOK, CancelOK
  <2>. QED  BY <2>1, <2>2, <2>3, OneTouched
<1>. QED  BY <1>1, <1>2, <1>3, <1>4, <1>5, <1>6, <1>7

LEMMA ServerAccount ==
  ASSUME Types, SlotInv, AccountInv,
         \/ Startup \/ Restart
         \/ \E s \in Streams :
              \/ Deliver(s) \/ Disconnect(s)
              \/ \E r \in Runs : Attach(s, r)
  PROVE  AccountInv'
<1>. USE DEF Types, RowsOK, TasksOK, OthersOK, Active, Finished, Unsettled, Settled,
             Working, Holding, Busy, orchVars, streamVars, bootVars
<1>1. CASE ReclaimRuns
  <2>. SUFFICES ASSUME NEW r \in Runs PROVE Truthful(r)' /\ RunOK(r)'
    BY DEF AccountInv
  <2>1. Truthful(r) /\ RunOK(r) /\ pc[r] \notin Working
    BY <1>1 DEF AccountInv, ReclaimRuns, SlotInv
  <2>2. Truthful(r)'
    BY <1>1, <2>1 DEF ReclaimRuns, ActiveRuns, Truthful, Done, Undone
  <2>3. RunOK(r)'
    BY <1>1, <2>1 DEF ReclaimRuns, ActiveRuns, RunOK, CancelOK
  <2>. QED  BY <2>2, <2>3
<1>2. CASE ReclaimChildren
  <2>. SUFFICES ASSUME NEW r \in Runs PROVE Truthful(r)' /\ RunOK(r)'
    BY DEF AccountInv
  <2>1. Truthful(r) /\ RunOK(r) /\ pc[r] \notin Working
    BY <1>2 DEF AccountInv, ReclaimChildren, SlotInv
  <2>2. Truthful(r)'
    <3>1. CASE r \in reclaimed
      BY <1>2, <2>1, <3>1 DEF ReclaimChildren, RunOK, Truthful
    <3>2. CASE r \notin reclaimed
      <4>1. atsStatus'[r] = atsStatus[r] /\ runStatus'[r] = runStatus[r]
        BY <1>2, <3>2 DEF ReclaimChildren
      <4>. QED  BY <2>1, <4>1 DEF Truthful, Done, Undone
    <3>. QED  BY <3>1, <3>2
  <2>3. RunOK(r)'
    BY <1>2, <2>1 DEF ReclaimChildren, RunOK, CancelOK
  <2>. QED  BY <2>2, <2>3
<1>3. CASE Retain
  <2>. SUFFICES ASSUME NEW r \in Runs PROVE Truthful(r)' /\ RunOK(r)'
    BY DEF AccountInv
  <2>1. Truthful(r) /\ RunOK(r) /\ pc[r] \notin Working
    BY <1>3 DEF AccountInv, Retain, SlotInv
  <2>2. \/ runStatus'[r] = "deleted"
        \/ runStatus'[r] = runStatus[r] /\ atsStatus'[r] = atsStatus[r]
    BY <1>3 DEF Retain
  <2>3. Truthful(r)'
    BY <2>1, <2>2 DEF Truthful, Done, Undone
  <2>4. RunOK(r)'
    BY <1>3, <2>1 DEF Retain, RunOK, CancelOK
  <2>. QED  BY <2>3, <2>4
<1>4. CASE Restart
  <2>. SUFFICES ASSUME NEW r \in Runs PROVE Truthful(r)' /\ RunOK(r)'
    BY DEF AccountInv
  <2>1. Truthful(r) /\ RunOK(r)
    BY DEF AccountInv
  <2>2. Truthful(r)'
    BY <1>4, <2>1 DEF Restart, Truthful, Done, Undone
  <2>3. RunOK(r)'
    BY <1>4, <2>1 DEF Restart, RunOK, CancelOK
  <2>. QED  BY <2>2, <2>3
<1>5. ASSUME NEW s \in Streams,
             Deliver(s) \/ Disconnect(s) \/ \E r \in Runs : Attach(s, r)
      PROVE  AccountInv'
  <2>1. \A q \in Runs : Same(q)
    BY <1>5 DEF Deliver, Disconnect, Attach, Same
  <2>. QED  BY <2>1, SameKept DEF AccountInv
<1>. QED
  BY <1>1, <1>2, <1>3, <1>4, <1>5 DEF Startup

LEMMA StutterAccount == ASSUME AccountInv, UNCHANGED vars PROVE AccountInv'
<1>1. \A q \in Runs : Same(q)
  BY DEF vars, Same
<1>. QED  BY <1>1, SameKept DEF AccountInv

LEMMA AccountHolds == Spec => []AccountInv
<1>1. ASSUME Types, SlotInv, AccountInv, [Next]_vars PROVE AccountInv'
  BY <1>1, WorkAccount, EventAccount, ServerAccount, StutterAccount DEF Next
<1>. QED  BY <1>1, InitAccount, TypesHold, SlotHolds, PTL DEF Spec

\* A final status tells the truth about the ATSes whatever fails, is cancelled or
\* restarted, and stays true (_orchestrate_inner, lines 464-475).
THEOREM StatusHonest == Spec => []StatusTruthful
<1>1. AccountInv => StatusTruthful
  BY DEF AccountInv, StatusTruthful
<1>. QED  BY <1>1, AccountHolds, PTL

-----------------------------------------------------------------------------
(* What is left behind.  The steps that leave something are named as          *)
(* assumptions about a behaviour, so that the theorems speak of all others.   *)

Crashes == \E r \in Runs : Crash(r)
Repeats == \E r \in Runs, S \in SUBSET Ats : InsertDuplicate(r, S)

\* Once the start-up has looked for orphans, an active run has an orchestrator.
OwnedInv == server # "orphans" => \A r \in ActiveRuns : pc[r] \in Working

LEMMA OneOwned ==
  ASSUME OwnedInv, NEW r \in Runs, server' = server,
         \A q \in Runs \ {r} : runStatus'[q] = runStatus[q] /\ pc'[q] = pc[q],
         runStatus'[r] \in Active /\ pc'[r] \notin Working
           => runStatus[r] \in Active /\ pc[r] \notin Working
  PROVE  OwnedInv'
<1>. SUFFICES ASSUME server' # "orphans", NEW q \in ActiveRuns' PROVE pc'[q] \in Working
  BY DEF OwnedInv
<1>1. CASE q = r
  BY <1>1 DEF OwnedInv, ActiveRuns
<1>2. CASE q # r
  BY <1>2 DEF OwnedInv, ActiveRuns
<1>. QED  BY <1>1, <1>2

LEMMA StepOwned ==
  ASSUME Types, SlotInv, OwnedInv, [Next]_vars, ~ Crashes, ~ Repeats
  PROVE  OwnedInv'
<1>. USE DEF Types, RowsOK, TasksOK, Active, Finished, Working, Holding, Busy,
             streamVars, bootVars, orchVars, Goto
<1>1. ASSUME NEW r \in Runs, Work(r) PROVE OwnedInv'
  <2>1. server' = server
    BY <1>1 DEF Work, InsertChildren, Begin, Launch, Collect, GiveUp, Finish, LoadFails, Load,
                Safeguard, Loaded, DropHandle, SkipCancelled, StartAts
  <2>2. \A q \in Runs \ {r} : runStatus'[q] = runStatus[q] /\ pc'[q] = pc[q]
    BY <1>1 DEF Work, InsertChildren, Begin, Launch, Collect, GiveUp, Finish, LoadFails, Load,
                Safeguard, Loaded, DropHandle, SkipCancelled, StartAts
  <2>3. CASE Finish(r)
    BY <2>1, <2>2, <2>3, OneOwned DEF Finish, Verdict
  <2>4. CASE DropHandle(r)
    BY <2>1, <2>2, <2>4, OneOwned DEF DropHandle
  <2>5. CASE ~ Finish(r) /\ ~ DropHandle(r)
    <3>1. pc'[r] \in Working
      BY <1>1, <2>5 DEF Work, InsertChildren, Begin, Launch, Collect, Scraping, GiveUp, LoadFails, Load,
                Safeguard, Loaded, SkipCancelled, StartAts
    <3>. QED  BY <2>1, <2>2, <3>1, OneOwned
  <2>. QED  BY <2>3, <2>4, <2>5
<1>2. ASSUME NEW r \in Runs, Progress(r) \/ KillOnCancel(r) \/ RequestCancel(r) \/ \E a \in Ats : ShimExits(r, a)
      PROVE  OwnedInv'
  <2>1. UNCHANGED <<runStatus, pc, server>>
    BY <1>2 DEF Progress, KillOnCancel, RequestCancel, ShimExits
  <2>. QED  BY <2>1, OneOwned
<1>3. ASSUME NEW r \in Runs, Timeout(r) \/ ScrapeFails(r) PROVE OwnedInv'
  <2>1. /\ UNCHANGED <<runStatus, server>> /\ pc'[r] = "next"
        /\ \A q \in Runs \ {r} : pc'[q] = pc[q]
    BY <1>3 DEF Timeout, ScrapeFails, GiveUp
  <2>. QED  BY <2>1, OneOwned
<1>4. ASSUME NEW r \in Runs, NEW S \in SUBSET Ats, Claim(r, S) PROVE OwnedInv'
  <2>1. /\ server' = server /\ pc'[r] = "children"
        /\ \A q \in Runs \ {r} : runStatus'[q] = runStatus[q] /\ pc'[q] = pc[q]
    BY <1>4 DEF Claim
  <2>. QED  BY <2>1, OneOwned
<1>5. CASE Startup
  <2>1. CASE ReclaimRuns
    BY <2>1 DEF ReclaimRuns, ActiveRuns, OwnedInv
  <2>2. CASE ReclaimChildren
    BY <2>2 DEF ReclaimChildren, ActiveRuns, OwnedInv
  <2>3. CASE Retain
    <3>1. \A r \in Runs : runStatus'[r] \in Active => r \in ActiveRuns
      BY <2>3 DEF Retain, ActiveRuns
    <3>2. server = "retention" /\ UNCHANGED pc
      BY <2>3 DEF Retain
    <3>. QED  BY <3>1, <3>2 DEF OwnedInv, ActiveRuns
  <2>. QED  BY <1>5, <2>1, <2>2, <2>3 DEF Startup
<1>6. CASE Restart
  BY <1>6 DEF Restart, OwnedInv
<1>7. ASSUME \/ UNCHANGED vars
             \/ \E s \in Streams : Deliver(s) \/ Disconnect(s) \/ \E r \in Runs : Attach(s, r)
      PROVE  OwnedInv'
  <2>1. UNCHANGED <<runStatus, pc, server>>
    BY <1>7 DEF Deliver, Disconnect, Attach, vars
  <2>. QED  BY <2>1 DEF OwnedInv, ActiveRuns
<1>. QED  BY <1>1, <1>2, <1>3, <1>4, <1>5, <1>6, <1>7 DEF Next, Crashes, Repeats

\* Over any cancellations, timeouts and restarts, an active run has an orchestrator
\* to end it once the server is up, as long as no orchestrator raises and no request
\* names an ATS twice: either leaves a run queued or running for good (start_run,
\* _orchestrate).
THEOREM SlotIsOwned == Spec /\ [][~ Crashes /\ ~ Repeats]_vars => []ActiveHasOrchestrator
<1>1. Init => OwnedInv
  BY DEF Init, OwnedInv, ActiveRuns, Active
<1>2. OwnedInv => ActiveHasOrchestrator
  BY DEF OwnedInv, ActiveHasOrchestrator
<1>3. Types /\ SlotInv /\ OwnedInv /\ [Next]_vars /\ [~ Crashes /\ ~ Repeats]_vars => OwnedInv'
  <2>1. OwnedInv /\ UNCHANGED vars => OwnedInv'
    BY DEF OwnedInv, ActiveRuns, vars
  <2>. QED  BY <2>1, StepOwned
<1>. QED  BY <1>1, <1>2, <1>3, TypesHold, SlotHolds, PTL DEF Spec

\* A run that is over has no row unsettled, but for the runs that the start-up has
\* marked and whose rows are its next statement.
SettledInv ==
  \A r \in Runs : runStatus[r] \in Finished /\ ~ (server = "children" /\ r \in reclaimed)
    => \A a \in Ats : atsStatus[r][a] \notin Unsettled

LEMMA OneSettled ==
  ASSUME SettledInv, NEW r \in Runs, UNCHANGED bootVars,
         \A q \in Runs \ {r} : runStatus'[q] = runStatus[q] /\ atsStatus'[q] = atsStatus[q],
         runStatus'[r] \in Finished =>
           \/ \A a \in Ats : atsStatus'[r][a] \notin Unsettled
           \/ runStatus'[r] = runStatus[r] /\ atsStatus'[r] = atsStatus[r]
  PROVE  SettledInv'
<1>. SUFFICES ASSUME NEW q \in Runs, runStatus'[q] \in Finished, ~ (server' = "children" /\ q \in reclaimed'),
                     NEW a \in Ats
              PROVE  atsStatus'[q][a] \notin Unsettled
  BY DEF SettledInv
<1>1. CASE q = r
  BY <1>1 DEF SettledInv, bootVars
<1>2. CASE q # r
  BY <1>2 DEF SettledInv, bootVars
<1>. QED  BY <1>1, <1>2

LEMMA StepSettled ==
  ASSUME Types, SlotInv, AccountInv, SettledInv, [Next]_vars,
         ~ Crashes, ~ (Restart /\ server = "children")
  PROVE  SettledInv'
<1>. USE DEF Types, RowsOK, TasksOK, Active, Finished, Working, Holding, Busy,
             streamVars, bootVars, orchVars, Goto, SetAts
<1>1. ASSUME NEW r \in Runs, Work(r) PROVE SettledInv'
  <2>1. UNCHANGED bootVars
    BY <1>1 DEF Work, InsertChildren, Begin, Launch, Collect, GiveUp, Finish, LoadFails, Load,
                Safeguard, Loaded, DropHandle, SkipCancelled, StartAts
  <2>2. \A q \in Runs \ {r} : runStatus'[q] = runStatus[q] /\ atsStatus'[q] = atsStatus[q]
    BY <1>1 DEF Work, InsertChildren, Begin, Launch, Collect, GiveUp, Finish, LoadFails, Load,
                Safeguard, Loaded, DropHandle, SkipCancelled, StartAts
  <2>3. CASE Finish(r)
    <3>1. atsStatus' = atsStatus /\ VisitOK(r) /\ pc[r] = "next" /\ todo[r] = {}
      BY <2>3 DEF Finish, AccountInv, RunOK
    <3>. QED  BY <2>1, <2>2, <3>1, OneSettled DEF VisitOK
  <2>4. CASE DropHandle(r)
    BY <2>1, <2>2, <2>4, OneSettled DEF DropHandle
  <2>5. CASE ~ Finish(r) /\ ~ DropHandle(r)
    <3>1. pc[r] \in Working /\ runStatus'[r] \in {runStatus[r], "running"}
      BY <1>1, <2>5 DEF Work, InsertChildren, Begin, Launch, Collect, Scraping, GiveUp, LoadFails, Load,
                Safeguard, Loaded, SkipCancelled, StartAts
    <3>. QED  BY <2>1, <2>2, <3>1, OneSettled, WorkingNotFinal
  <2>. QED  BY <2>3, <2>4, <2>5
<1>2. ASSUME NEW r \in Runs, KillOnCancel(r) \/ RequestCancel(r) \/ \E a \in Ats : ShimExits(r, a)
      PROVE  SettledInv'
  <2>1. UNCHANGED <<runStatus, atsStatus, bootVars>>
    BY <1>2 DEF KillOnCancel, RequestCancel, ShimExits
  <2>. QED  BY <2>1, OneSettled
<1>3. ASSUME NEW r \in Runs, Progress(r) \/ Timeout(r) \/ ScrapeFails(r) PROVE SettledInv'
  <2>1. /\ UNCHANGED <<runStatus, bootVars>> /\ pc[r] \in Working
        /\ \A q \in Runs \ {r} : atsStatus'[q] = atsStatus[q]
    BY <1>3 DEF Progress, Timeout, ScrapeFails, Scraping, GiveUp
  <2>. QED  BY <2>1, OneSettled, WorkingNotFinal
<1>4. ASSUME NEW r \in Runs, NEW S \in SUBSET Ats, Claim(r, S) PROVE SettledInv'
  <2>1. /\ UNCHANGED <<atsStatus, bootVars>> /\ runStatus'[r] = "queued"
        /\ \A q \in Runs \ {r} : runStatus'[q] = runStatus[q]
    BY <1>4 DEF Claim
  <2>. QED  BY <2>1, OneSettled
<1>5. ASSUME NEW r \in Runs, NEW S \in SUBSET Ats, InsertDuplicate(r, S) PROVE SettledInv'
  <2>1. /\ UNCHANGED <<runStatus, bootVars>> /\ pc[r] \in Working
        /\ \A q \in Runs \ {r} : atsStatus'[q] = atsStatus[q]
    BY <1>5 DEF InsertDuplicate
  <2>. QED  BY <2>1, OneSettled, WorkingNotFinal
<1>6. CASE Startup
  <2>1. CASE ReclaimRuns
    <3>1. ASSUME NEW r \in Runs, runStatus'[r] \in Finished, ~ (server' = "children" /\ r \in reclaimed')
          PROVE  runStatus[r] \in Finished /\ server = "orphans" /\ atsStatus' = atsStatus
      BY <2>1, <3>1 DEF ReclaimRuns, ActiveRuns
    <3>. QED  BY <3>1 DEF SettledInv
  <2>2. CASE ReclaimChildren
    <3>1. ASSUME NEW r \in Runs, runStatus'[r] \in Finished, NEW a \in Ats
          PROVE  atsStatus'[r][a] \notin Unsettled
      <4>1. /\ runStatus' = runStatus /\ server = "children"
            /\ atsStatus'[r][a] = IF r \in reclaimed /\ atsStatus[r][a] \in Unsettled
                                  THEN "failed" ELSE atsStatus[r][a]
        BY <2>2 DEF ReclaimChildren
      <4>. QED  BY <3>1, <4>1 DEF SettledInv, Unsettled
    <3>. QED  BY <3>1 DEF SettledInv
  <2>3. CASE Retain
    <3>1. ASSUME NEW r \in Runs, runStatus'[r] \in Finished
          PROVE  runStatus'[r] = runStatus[r] /\ atsStatus'[r] = atsStatus[r]
      BY <2>3, <3>1 DEF Retain
    <3>2. server = "retention"
      BY <2>3 DEF Retain
    <3>. QED  BY <3>1, <3>2 DEF SettledInv
  <2>. QED  BY <1>6, <2>1, <2>2, <2>3 DEF Startup
<1>7. CASE Restart
  <2>1. server # "children" /\ UNCHANGED <<runStatus, atsStatus>>
    BY <1>7 DEF Restart
  <2>. QED  BY <2>1 DEF SettledInv
<1>8. ASSUME \/ UNCHANGED vars
             \/ \E s \in Streams : Deliver(s) \/ Disconnect(s) \/ \E r \in Runs : Attach(s, r)
      PROVE  SettledInv'
  <2>1. UNCHANGED <<runStatus, atsStatus, server, reclaimed>>
    BY <1>8 DEF Deliver, Disconnect, Attach, vars
  <2>. QED  BY <2>1 DEF SettledInv
<1>. QED  BY <1>1, <1>2, <1>3, <1>4, <1>5, <1>6, <1>7, <1>8 DEF Next, Crashes

\* A run that is over has no ATS pending or running once the server is up, over any
\* number of restarts none of which falls between the two statements of
\* cleanup_orphans, and as long as no orchestrator raises (_orchestrate marks the run
\* alone).  A request that names an ATS twice does no harm here.
THEOREM RowsAreSettled ==
  Spec /\ [][~ Crashes /\ ~ (Restart /\ server = "children")]_vars => []ChildrenSettled
<1>1. Init => SettledInv
  BY DEF Init, SettledInv, Finished
<1>2. SettledInv => ChildrenSettled
  BY DEF SettledInv, ChildrenSettled
<1>3. Types /\ SlotInv /\ AccountInv /\ SettledInv /\ [Next]_vars
      /\ [~ Crashes /\ ~ (Restart /\ server = "children")]_vars => SettledInv'
  <2>1. SettledInv /\ UNCHANGED vars => SettledInv'
    BY DEF SettledInv, vars
  <2>. QED  BY <2>1, StepSettled
<1>. QED  BY <1>1, <1>2, <1>3, TypesHold, SlotHolds, AccountHolds, PTL DEF Spec

\* The steps that leave a scraper process to itself: the server stops, or an
\* exception leaves run_one_ats while its child is alive.
Abandons == Restart \/ \E r \in Runs : ScrapeFails(r) /\ ShimAlive(r)

LEMMA OneContained ==
  ASSUME ShimsContained, NEW r \in Runs,
         \A q \in Runs \ {r} : /\ pc'[q] = pc[q] /\ cur'[q] = cur[q]
                               /\ \A a \in Ats : <<q, a>> \in shims' => <<q, a>> \in shims,
         \A a \in Ats : <<r, a>> \in shims' => pc'[r] = "scraping" /\ cur'[r] = a
  PROVE  ShimsContained'
<1>. SUFFICES ASSUME NEW q \in Runs, NEW a \in Ats, <<q, a>> \in shims'
              PROVE  pc'[q] = "scraping" /\ cur'[q] = a
  BY DEF ShimsContained
<1>1. CASE q = r
  BY <1>1
<1>2. CASE q # r
  BY <1>2 DEF ShimsContained
<1>. QED  BY <1>1, <1>2

LEMMA StepContained ==
  ASSUME Types, SlotInv, ShimsContained, [Next]_vars, ~ Abandons
  PROVE  ShimsContained'
<1>. USE DEF Types, TasksOK, Working, Holding, Busy, orchVars, Goto
<1>1. ASSUME NEW r \in Runs, Launch(r) PROVE ShimsContained'
  <2>1. /\ pc[r] = "select" /\ pc'[r] = "scraping" /\ cur' = cur
        /\ shims' = shims \cup {<<r, cur[r]>>}
        /\ \A q \in Runs \ {r} : pc'[q] = pc[q]
    BY <1>1 DEF Launch
  <2>2. \A a \in Ats : <<r, a>> \notin shims
    BY <2>1 DEF ShimsContained
  <2>. QED  BY <2>1, <2>2, OneContained
\* Where no child is left, the orchestrator may go anywhere.
<1>2. ASSUME NEW r \in Runs, shims' \subseteq shims, \A a \in Ats : <<r, a>> \notin shims',
             \A q \in Runs \ {r} : pc'[q] = pc[q] /\ cur'[q] = cur[q]
      PROVE  ShimsContained'
  BY <1>2, OneContained
<1>3. ASSUME NEW r \in Runs, pc[r] # "scraping" PROVE \A a \in Ats : <<r, a>> \notin shims
  BY <1>3 DEF ShimsContained
<1>4. ASSUME NEW r \in Runs,
             \/ InsertChildren(r) \/ Begin(r) \/ Finish(r) \/ LoadFails(r) \/ Load(r) \/ Safeguard(r)
             \/ DropHandle(r) \/ \E a \in Ats : SkipCancelled(r, a) \/ StartAts(r, a)
             \/ \E S \in SUBSET Ats : InsertDuplicate(r, S)
      PROVE  ShimsContained'
  <2>1. /\ pc[r] # "scraping" /\ shims' = shims
        /\ \A q \in Runs \ {r} : pc'[q] = pc[q] /\ cur'[q] = cur[q]
    BY <1>4 DEF InsertChildren, Begin, Finish, LoadFails, GiveUp, Load, Safeguard, Loaded, DropHandle,
                SkipCancelled, StartAts, InsertDuplicate
  <2>. QED  BY <1>2, <1>3, <2>1
<1>5. ASSUME NEW r \in Runs, NEW S \in SUBSET Ats, Claim(r, S) PROVE ShimsContained'
  <2>1. /\ shims' = shims
        /\ \A q \in Runs \ {r} : pc'[q] = pc[q] /\ cur'[q] = cur[q]
    BY <1>5 DEF Claim
  <2>2. pc[r] # "scraping"
    BY <1>5 DEF Claim, SlotInv
  <2>. QED  BY <1>2, <1>3, <2>1, <2>2
<1>6. ASSUME NEW r \in Runs, Collect(r) \/ ScrapeFails(r) \/ Crash(r) PROVE ShimsContained'
  <2>1. /\ shims' = shims
        /\ pc[r] = "scraping" => ~ ShimAlive(r)
        /\ \A q \in Runs \ {r} : pc'[q] = pc[q] /\ cur'[q] = cur[q]
    BY <1>6 DEF Collect, ScrapeFails, Scraping, GiveUp, Crash, Abandons
  <2>2. \A a \in Ats : <<r, a>> \notin shims
    BY <1>3, <2>1 DEF ShimAlive, ShimsContained
  <2>. QED  BY <1>2, <2>1, <2>2
<1>7. ASSUME NEW r \in Runs, Timeout(r) PROVE ShimsContained'
  <2>1. /\ shims' = shims \ {<<r, cur[r]>>}
        /\ \A q \in Runs \ {r} : pc'[q] = pc[q] /\ cur'[q] = cur[q]
    BY <1>7 DEF Timeout, GiveUp
  <2>2. \A a \in Ats : <<r, a>> \notin shims'
    BY <2>1 DEF ShimsContained
  <2>. QED  BY <1>2, <2>1, <2>2
<1>8. ASSUME shims' \subseteq shims, UNCHANGED <<pc, cur>> PROVE ShimsContained'
  BY <1>8 DEF ShimsContained
<1>9. ASSUME NEW r \in Runs, Progress(r) \/ KillOnCancel(r) \/ RequestCancel(r) \/ \E a \in Ats : ShimExits(r, a)
      PROVE  ShimsContained'
  BY <1>8, <1>9 DEF Progress, KillOnCancel, RequestCancel, ShimExits
<1>10. ASSUME \/ UNCHANGED vars \/ Startup
              \/ \E s \in Streams : Deliver(s) \/ Disconnect(s) \/ \E r \in Runs : Attach(s, r)
       PROVE  ShimsContained'
  BY <1>8, <1>10 DEF Deliver, Disconnect, Attach, vars, Startup, ReclaimRuns, ReclaimChildren, Retain
<1>. QED
  BY <1>1, <1>4, <1>5, <1>6, <1>7, <1>9, <1>10 DEF Next, Work, Abandons

\* Timeouts, cancellations and crashes of the orchestrator leave no scraper process
\* behind: whatever else happens, a live child belongs to the run and the ATS that
\* waits for it (run_one_ats, _watch_cancel).
THEOREM ShimsAreContained == Spec /\ [][~ Abandons]_vars => []ShimsContained
<1>1. Init => ShimsContained
  BY DEF Init, ShimsContained
<1>2. Types /\ SlotInv /\ ShimsContained /\ [Next]_vars /\ [~ Abandons]_vars => ShimsContained'
  <2>1. ShimsContained /\ UNCHANGED vars => ShimsContained'
    BY DEF ShimsContained, vars
  <2>. QED  BY <2>1, StepContained
<1>. QED  BY <1>1, <1>2, TypesHold, SlotHolds, PTL DEF Spec
=============================================================================
