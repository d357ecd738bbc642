------------------------- MODULE JobLifecycleProofs -------------------------
(***************************************************************************)
(* Proofs about the job lifecycle, for any sets of jobs, users, ATSes,      *)
(* threads and coroutines and any settings.                                 *)
(***************************************************************************)
EXTENDS JobLifecycle, FiniteSetTheorems, TLAPS

-----------------------------------------------------------------------------
(* Types. *)

\* A process that finishes has well-typed locals again.
LEMMA FinishLocals ==
  ASSUME LocalsOK, NEW p \in Procs, pc[p] \notin {"idle"}, Finish(p),
         kind[p] = "drop" => job[p] \in Jobs
  PROVE  LocalsOK'
<1>. USE DEF LocalsOK
<1>1. CASE kind[p] = "drop"
  <2>1. /\ pc' = [pc EXCEPT ![p] = "fetch"]
        /\ kind' = [kind EXCEPT ![p] = "check"]
        /\ seen' = [seen EXCEPT ![p] = NoView]
        /\ bucket' = [bucket EXCEPT ![p] = NoBucket]
        /\ job' = job /\ doomed' = doomed
    BY <1>1 DEF Finish, Goto
  <2>2. NoView \in View /\ "fetch" \in Labels /\ "check" \in Kinds
    BY DEF NoView, View, Statuses, Labels, Kinds
  <2>. QED  BY <2>1, <2>2, <1>1
<1>2. CASE kind[p] # "drop"
  <2>1. /\ pc' = [pc EXCEPT ![p] = "idle"]
        /\ kind' = [kind EXCEPT ![p] = "none"]
        /\ job' = [job EXCEPT ![p] = NoJob]
        /\ seen' = [seen EXCEPT ![p] = NoView]
        /\ bucket' = [bucket EXCEPT ![p] = NoBucket]
        /\ doomed' = [doomed EXCEPT ![p] = {}]
    BY <1>2 DEF Finish, Goto
  <2>2. NoView \in View /\ "idle" \in Labels /\ "none" \in Kinds
    BY DEF NoView, View, Statuses, Labels, Kinds
  <2>. QED  BY <2>1, <2>2
<1>. QED  BY <1>1, <1>2

\* A process that moves on to a label with its locals unchanged keeps them
\* well-typed if the label's own demands are met.
LEMMA ContinueLocals ==
  ASSUME LocalsOK, NEW p \in Procs, pc[p] \notin {"idle", "purge"},
         NEW l \in Labels \ {"purge"}, Continue(p, l),
         l = "bump" => AtsOf[job[p]] \in Ats,
         l \in {"reread", "trip"} => bucket[p] \in Buckets
  PROVE  LocalsOK'
<1>1. CASE l = "idle"
  BY <1>1, FinishLocals DEF Continue, LocalsOK
<1>2. CASE l # "idle"
  BY <1>2 DEF Continue, Goto, LocalsOK, locVars
<1>. QED  BY <1>1, <1>2

LEMMA InitType == Init => TypeOK
BY SettingsAssumption, BoundsAssumption
   DEF Init, TypeOK, TablesOK, LocalsOK, Statuses, Kinds, View, NoView, Labels,
       Hours, NoBucket, Causes

\* Every step of the lifecycle functions keeps the types.
LEMMA LifecycleType ==
  ASSUME TypeOK, NEW p \in Procs, Lifecycle(p)
  PROVE  TypeOK'
<1>. USE DEF TypeOK
<1>1. CASE ReadStatus(p)
  <2>. DEFINE v == [status |-> status[job[p]],
                    missed |-> IF kind[p] = "drop" THEN seen[p].missed ELSE missed[job[p]],
                    count  |-> reportCount[job[p]]]
              d == Decision(kind[p], v)
  <2>1. TablesOK'
    BY <1>1 DEF ReadStatus, jobVars, brVars, TablesOK
  <2>2. CASE Finish(p)
    BY <2>1, <2>2, <1>1, FinishLocals DEF ReadStatus, LocalsOK
  <2>3. CASE ~Finish(p) /\ kind[p] = "report"
    <3>1. /\ Exists(job[p])
          /\ seen' = [seen EXCEPT ![p] = v]
          /\ Goto(p, "distinct")
          /\ UNCHANGED <<kind, job, bucket, doomed>>
      BY <1>1, <2>3 DEF ReadStatus
    <3>2. v \in View
      BY <1>1, <3>1 DEF ReadStatus, TablesOK, LocalsOK, Exists, View, Statuses
    <3>3. pc' = [pc EXCEPT ![p] = "distinct"] /\ pc[p] = "read" /\ "distinct" \in Labels
      BY <1>1, <3>1 DEF Goto, ReadStatus, Labels
    <3>4. LocalsOK'
      <4>. HIDE DEF v
      <4>. QED  BY <3>1, <3>2, <3>3 DEF LocalsOK
    <3>. QED  BY <2>1, <3>4
  <2>4. CASE ~Finish(p) /\ kind[p] # "report"
    <3>1. Continue(p, d) /\ pc[p] = "read"
      BY <1>1, <2>4 DEF ReadStatus
    <3>2. d \in {"suspect", "tripped", "activate", "idle"}
      BY DEF Decision
    <3>3. d \in Labels \ {"purge"} /\ d \notin {"bump", "reread", "trip"}
      BY <3>2 DEF Labels
    <3>. HIDE DEF d, v
    <3>4. LocalsOK'
      BY <3>1, <3>3, ContinueLocals
    <3>. QED  BY <2>1, <3>4
  <2>. QED  BY <2>2, <2>3, <2>4
<1>2. CASE CheckTripped(p)
  <2>1. TablesOK'
    BY <1>2 DEF CheckTripped, jobVars, brVars, TablesOK
  <2>2. PICK l \in {"idle", "expire", "bump"} :
           /\ Continue(p, l)
           /\ l = "bump" => AtsOf[job[p]] # NoAts
    BY <1>2 DEF CheckTripped, AtsOfProc
  <2>3. AtsOf[job[p]] \in Ats \cup {NoAts}
    BY <1>2, AtsAssumption DEF CheckTripped, LocalsOK
  <2>4. LocalsOK'
    <3>1. pc[p] = "tripped"
      BY <1>2 DEF CheckTripped
    <3>. QED  BY <3>1, <2>2, <2>3, ContinueLocals DEF Labels
  <2>. QED  BY <2>1, <2>4
<1>3. CASE Bump(p)
  <2>1. Current(p) \in Buckets
    BY <1>3 DEF Bump, Current, AtsOfProc, Buckets, TablesOK, LocalsOK
  <2>2. TablesOK'
    BY <1>3, <2>1 DEF Bump, jobVars, TablesOK
  <2>3. LocalsOK'
    <3>1. /\ pc[p] = "bump"
          /\ pc' = [pc EXCEPT ![p] = "reread"]
          /\ bucket' = [bucket EXCEPT ![p] = Current(p)]
          /\ UNCHANGED <<kind, job, seen, doomed>>
      BY <1>3 DEF Bump, Goto
    <3>. QED  BY <3>1, <2>1 DEF LocalsOK, Labels
  <2>. QED  BY <2>2, <2>3
<1>4. CASE Reread(p)
  <2>1. pc[p] = "reread" /\ bucket[p] \in Buckets
    BY <1>4 DEF Reread, LocalsOK
  <2>2. TablesOK'
    BY <1>4, <2>1 DEF Reread, jobVars, TablesOK
  <2>3. PICK l \in {"idle", "trip", "expire"} : Continue(p, l)
    BY <1>4 DEF Reread
  <2>4. LocalsOK'
    BY <2>1, <2>3, ContinueLocals DEF Labels
  <2>. QED  BY <2>2, <2>4
<1>5. CASE Trip(p)
  <2>1. TablesOK'
    BY <1>5 DEF Trip, jobVars, TablesOK, LocalsOK
  <2>2. LocalsOK'
    BY <1>5, FinishLocals DEF Trip, LocalsOK
  <2>. QED  BY <2>1, <2>2
<1>6. CASE SetStatus(p)
  <2>1. Target(pc[p]) \in Statuses
    BY <1>6 DEF SetStatus, Target, Statuses
  <2>2. TablesOK'
    BY <1>6, <2>1 DEF SetStatus, brVars, TablesOK
  <2>3. LocalsOK'
    BY <1>6, FinishLocals DEF SetStatus, LocalsOK
  <2>. QED  BY <2>2, <2>3
<1>. QED  BY <1>1, <1>2, <1>3, <1>4, <1>5, <1>6 DEF Lifecycle

\* Deleting rows keeps the tables well-typed.
LEMMA DeleteRowsType ==
  ASSUME TablesOK, NEW S \in SUBSET Jobs, DeleteRows(S)
  PROVE  /\ status' \in [Jobs -> Statuses \cup {"gone"}]
         /\ reports' \subseteq Users \X Jobs
BY DEF TablesOK, DeleteRows

\* Every step of a request thread outside the lifecycle keeps the types.
LEMMA ServeType ==
  ASSUME TypeOK, NEW t \in Threads, Serve(t)
  PROVE  TypeOK'
<1>. USE DEF TypeOK
<1>p. t \in Procs  BY DEF Procs
<1>1. ASSUME NEW j \in Jobs, NEW u \in Users, InsertReport(t, j, u)
      PROVE  TypeOK'
  <2>1. TablesOK'  BY <1>1 DEF InsertReport, brVars, TablesOK
  <2>2. LocalsOK'
    BY <1>1, <1>p DEF InsertReport, Goto, LocalsOK, Labels, Kinds
  <2>. QED  BY <2>1, <2>2
<1>2. ASSUME NEW j \in Jobs, NEW u \in Users, DeleteReport(t, j, u)
      PROVE  TypeOK'
  <2>1. TablesOK'  BY <1>2 DEF DeleteReport, brVars, TablesOK
  <2>2. LocalsOK'
    BY <1>2, <1>p DEF DeleteReport, Goto, LocalsOK, Labels, Kinds
  <2>. QED  BY <2>1, <2>2
<1>3. ASSUME CountReports(t) PROVE TypeOK'
  <2>1. TablesOK'  BY <1>3 DEF CountReports, jobVars, brVars, TablesOK
  <2>2. Cardinality(Reporters(job[t])) \in Nat
    <3>1. IsFiniteSet(Reporters(job[t]))
      BY UsersAssumption, FS_Subset DEF Reporters
    <3>. QED  BY <3>1, FS_CardinalityType
  <2>3. seen'[t] \in View /\ seen' = [seen EXCEPT ![t] = seen'[t]]
    BY <1>3, <1>p, <2>2 DEF CountReports, LocalsOK, View
  <2>4. LocalsOK'
    BY <1>3, <1>p, <2>3 DEF CountReports, Goto, LocalsOK, Labels
  <2>. QED  BY <2>1, <2>4
<1>4. ASSUME StoreCount(t) PROVE TypeOK'
  <2>1. pc[t] = "store" /\ job[t] \in Jobs /\ seen[t].count \in Nat
    BY <1>4, <1>p DEF StoreCount, LocalsOK, View
  <2>2. TablesOK'
    BY <1>4, <2>1 DEF StoreCount, brVars, TablesOK
  <2>3. PICK l \in {"read", "idle"} : Continue(t, l)
    BY <1>4 DEF StoreCount
  <2>4. LocalsOK'
    BY <1>p, <2>1, <2>3, ContinueLocals DEF Labels
  <2>. QED  BY <2>2, <2>4
<1>5. ASSUME CountReporters(t) PROVE TypeOK'
  <2>1. TablesOK'  BY <1>5 DEF CountReporters, jobVars, brVars, TablesOK
  <2>2. PICK l \in {"suspect", "tripped", "activate", "idle"} : Continue(t, l)
    BY <1>5 DEF CountReporters, Decision
  <2>3. LocalsOK'
    <3>1. pc[t] = "distinct"  BY <1>5 DEF CountReporters
    <3>. QED  BY <3>1, <1>p, <2>2, ContinueLocals DEF Labels
  <2>. QED  BY <2>1, <2>3
<1>6. ASSUME NEW S \in SUBSET Jobs, SelectDoomed(t, S) PROVE TypeOK'
  <2>1. TablesOK'  BY <1>6 DEF SelectDoomed, jobVars, brVars, TablesOK
  <2>2. LocalsOK'
    BY <1>6, <1>p DEF SelectDoomed, Goto, LocalsOK, Labels, Kinds
  <2>. QED  BY <2>1, <2>2
<1>7. ASSUME Purge(t) PROVE TypeOK'
  <2>1. doomed[t] \in SUBSET Jobs  BY <1>p DEF LocalsOK
  <2>2. TablesOK'
    BY <1>7, <2>1, DeleteRowsType DEF Purge, brVars, TablesOK
  <2>3. LocalsOK'
    BY <1>7, <1>p, FinishLocals DEF Purge, LocalsOK
  <2>. QED  BY <2>2, <2>3
<1>. QED  BY <1>1, <1>2, <1>3, <1>4, <1>5, <1>6, <1>7 DEF Serve

\* Every step of a verifier coroutine outside the lifecycle keeps the types.
LEMMA VerifyType ==
  ASSUME TypeOK, NEW c \in Checks, Verify(c)
  PROVE  TypeOK'
<1>. USE DEF TypeOK
<1>p. c \in Procs  BY DEF Procs
<1>1. ASSUME NEW j \in Jobs, PickDropped(c, j) PROVE TypeOK'
  <2>1. TablesOK'  BY <1>1 DEF PickDropped, jobVars, brVars, TablesOK
  <2>2. seen'[c] \in View /\ seen' = [seen EXCEPT ![c] = seen'[c]]
    BY <1>1, <1>p DEF PickDropped, LocalsOK, TablesOK, View
  <2>3. LocalsOK'
    BY <1>1, <1>p, <2>2 DEF PickDropped, Goto, LocalsOK, Labels, Kinds
  <2>. QED  BY <2>1, <2>3
<1>2. ASSUME NEW j \in Jobs, PickForCheck(c, j) PROVE TypeOK'
  <2>1. TablesOK'  BY <1>2 DEF PickForCheck, jobVars, brVars, TablesOK
  <2>2. LocalsOK'
    BY <1>2, <1>p DEF PickForCheck, Goto, LocalsOK, Labels, Kinds
  <2>. QED  BY <2>1, <2>2
<1>3. ASSUME NEW answer \in {"live", "dead", "unclear"}, Respond(c, answer)
      PROVE  TypeOK'
  <2>1. TablesOK'
    BY <1>3, <1>p DEF Respond, jobVars, brVars, TablesOK, LocalsOK, Causes
  <2>2. LocalsOK'
    BY <1>3, <1>p DEF Respond, Goto, LocalsOK, Labels, Kinds
  <2>. QED  BY <2>1, <2>2
<1>. QED  BY <1>1, <1>2, <1>3 DEF Verify

\* So does every step of admins, ingestion and the clock.
LEMMA EnvironmentType ==
  ASSUME TypeOK, Environment
  PROVE  TypeOK'
<1>. USE DEF TypeOK
<1>1. LocalsOK'
  BY DEF Environment, AdminExpire, AdminReactivate, BulkReactivate, Reactivate,
         SeenInManifest, MissCycle, PruneOld, ClearBreaker, Tick, locVars, LocalsOK
<1>2. ASSUME NEW j \in Jobs,
             \/ AdminExpire(j) \/ SeenInManifest(j) \/ MissCycle(j)
      PROVE  TablesOK'
  BY <1>2 DEF AdminExpire, SeenInManifest, MissCycle, brVars, TablesOK,
              Statuses, Causes
<1>3. ASSUME NEW S \in SUBSET Jobs, Reactivate(S)
      PROVE  TablesOK'
  BY <1>3 DEF Reactivate, brVars, TablesOK, Statuses
<1>4. ASSUME NEW j \in Jobs, PruneOld(j)
      PROVE  TablesOK'
  BY <1>4, DeleteRowsType DEF PruneOld, brVars, TablesOK
<1>5. ASSUME NEW a \in Ats, ClearBreaker(a)
      PROVE  TablesOK'
  BY <1>5 DEF ClearBreaker, jobVars, TablesOK
<1>6. ASSUME Tick
      PROVE  TablesOK'
  BY <1>6, BoundsAssumption DEF Tick, jobVars, TablesOK, Hours
<1>. QED
  BY <1>1, <1>2, <1>3, <1>4, <1>5, <1>6
     DEF Environment, AdminReactivate, BulkReactivate

\* Type correctness: every statement of every handler, in any interleaving,
\* leaves the tables and the locals with values of their types, so no read of
\* a job or of a breaker bucket is ever undefined.
THEOREM TypeCorrect == Spec => []TypeOK
<1>1. TypeOK /\ [Next]_vars => TypeOK'
  <2>1. TypeOK /\ UNCHANGED vars => TypeOK'
    BY DEF vars, TypeOK, TablesOK, LocalsOK
  <2>. QED
    BY <2>1, ServeType, VerifyType, LifecycleType, EnvironmentType DEF Next
<1>. QED  BY <1>1, InitType, PTL DEF Spec

-----------------------------------------------------------------------------
(* Every automatic expiry has a cause other than user reports. *)

\* What the label of a process says about the request it serves: before the
\* status is read nothing is known of the missed cycles; from the breaker on
\* auto-marking is on, and a report got past the test of two missed cycles.
PhaseOK(p) ==
  /\ pc[p] \in {"idle", "count", "store", "fetch", "purge"} => seen[p].missed = 0
  /\ pc[p] = "idle" => kind[p] = "none"
  /\ pc[p] = "distinct" => kind[p] = "report"
  /\ kind[p] = "drop" => seen[p].missed >= 2
  /\ pc[p] \in {"tripped", "bump", "reread", "trip", "expire"} =>
       AutoMarking /\ kind[p] \in {"report", "drop", "dead"}
  /\ pc[p] \in {"bump", "reread", "trip", "expire"} /\ kind[p] = "report" =>
       seen[p].missed >= 2

\* What a process has read or heard is recorded as a cause for its job.
EvidenceOK(p) ==
  /\ seen[p].missed >= 2 => "drop" \in cause[job[p]]
  /\ kind[p] = "dead" => "http" \in cause[job[p]]

\* The inductive invariant behind ExpiryHasCause.
CauseInv ==
  /\ \A j \in Jobs : missed[j] >= 2 => "drop" \in cause[j]
  /\ \A p \in Procs : PhaseOK(p) /\ EvidenceOK(p)
  /\ ExpiryHasCause

LEMMA InitCause == Init => CauseInv
BY DEF Init, CauseInv, PhaseOK, EvidenceOK, ExpiryHasCause, NoView

\* A process whose locals do not change stays justified while causes grow.
LEMMA OthersKeep ==
  ASSUME TypeOK, NEW q \in Procs, PhaseOK(q), EvidenceOK(q),
         pc'[q] = pc[q], kind'[q] = kind[q], job'[q] = job[q], seen'[q] = seen[q],
         \A j \in Jobs : cause[j] \subseteq cause'[j]
  PROVE  PhaseOK(q)' /\ EvidenceOK(q)'
<1>1. PhaseOK(q)'
  BY DEF PhaseOK
<1>2. seen[q].missed >= 2 \/ kind[q] = "dead" => job[q] \in Jobs
  BY DEF PhaseOK, TypeOK, LocalsOK
<1>3. EvidenceOK(q)'
  BY <1>2 DEF EvidenceOK
<1>. QED  BY <1>1, <1>3

\* A step of one process that leaves its bookkeeping justified, makes no job
\* expired without a cause and counts no missed cycle keeps the invariant.
LEMMA StepOfOne ==
  ASSUME TypeOK, CauseInv, NEW p \in Procs,
         \A q \in Procs \ {p} : /\ pc'[q] = pc[q] /\ kind'[q] = kind[q]
                                /\ job'[q] = job[q] /\ seen'[q] = seen[q],
         \A j \in Jobs : cause[j] \subseteq cause'[j],
         missed' = missed,
         PhaseOK(p)' /\ EvidenceOK(p)',
         \A j \in Jobs : status'[j] = "expired" =>
           status[j] = "expired" \/ (AutoMarking /\ cause[j] \ {"admin"} # {})
  PROVE  CauseInv'
<1>1. \A j \in Jobs : missed'[j] >= 2 => "drop" \in cause'[j]
  BY DEF CauseInv
<1>2. ASSUME NEW q \in Procs PROVE PhaseOK(q)' /\ EvidenceOK(q)'
  <2>1. CASE q = p  BY <2>1
  <2>2. CASE q # p  BY <2>2, OthersKeep DEF CauseInv
  <2>. QED  BY <2>1, <2>2
<1>3. ExpiryHasCause'
  BY DEF ExpiryHasCause, CauseInv
<1>. QED  BY <1>1, <1>2, <1>3 DEF CauseInv

\* A process that finishes is justified again.
LEMMA FinishPhase ==
  ASSUME TypeOK, NEW p \in Procs, PhaseOK(p), EvidenceOK(p), Finish(p)
  PROVE  /\ PhaseOK(p)' /\ EvidenceOK(p)'
         /\ \A q \in Procs \ {p} : /\ pc'[q] = pc[q] /\ kind'[q] = kind[q]
                                  /\ job'[q] = job[q] /\ seen'[q] = seen[q]
BY DEF TypeOK, LocalsOK, PhaseOK, EvidenceOK, Finish, Goto, NoView

\* So is one that moves on, if the new label demands nothing its old one and
\* its locals do not give.
LEMMA ContinuePhase ==
  ASSUME TypeOK, NEW p \in Procs, PhaseOK(p), EvidenceOK(p),
         NEW l \in {"suspect", "tripped", "activate", "idle", "read",
                    "bump", "expire", "trip"},
         Continue(p, l), cause' = cause,
         l \in {"tripped", "bump", "trip", "expire"} =>
            AutoMarking /\ kind[p] \in {"report", "drop", "dead"},
         l \in {"bump", "trip", "expire"} /\ kind[p] = "report" => seen[p].missed >= 2
  PROVE  /\ PhaseOK(p)' /\ EvidenceOK(p)'
         /\ \A q \in Procs \ {p} : /\ pc'[q] = pc[q] /\ kind'[q] = kind[q]
                                  /\ job'[q] = job[q] /\ seen'[q] = seen[q]
<1>1. CASE l = "idle"
  BY <1>1, FinishPhase DEF Continue
<1>2. CASE l # "idle"
  BY <1>2 DEF Continue, TypeOK, LocalsOK, PhaseOK, EvidenceOK, Goto, locVars
<1>. QED  BY <1>1, <1>2

\* Every step of the lifecycle functions keeps the invariant.
LEMMA LifecycleCause ==
  ASSUME TypeOK, CauseInv, NEW p \in Procs, Lifecycle(p)
  PROVE  CauseInv'
<1>p. PhaseOK(p) /\ EvidenceOK(p)
  BY DEF CauseInv
<1>1. CASE ReadStatus(p)
  <2>. DEFINE v == [status |-> status[job[p]],
                    missed |-> IF kind[p] = "drop" THEN seen[p].missed ELSE missed[job[p]],
                    count  |-> reportCount[job[p]]]
              d == Decision(kind[p], v)
  <2>0. /\ UNCHANGED <<status, missed, cause>> /\ pc[p] = "read"
        /\ job[p] \in Jobs
    BY <1>1 DEF ReadStatus, jobVars, TypeOK, LocalsOK
  <2>1. CASE Finish(p)
    BY <2>0, <2>1, <1>p, FinishPhase, StepOfOne
  <2>2. CASE ~Finish(p) /\ kind[p] = "report"
    <3>1. /\ seen' = [seen EXCEPT ![p] = v]
          /\ pc' = [pc EXCEPT ![p] = "distinct"]
          /\ UNCHANGED <<kind, job, bucket, doomed>>
      BY <1>1, <2>2 DEF ReadStatus, Goto
    <3>2. v.missed >= 2 => "drop" \in cause[job[p]]
      BY <2>0, <1>p DEF CauseInv, EvidenceOK
    <3>. HIDE DEF v
    <3>3. PhaseOK(p)' /\ EvidenceOK(p)'
      BY <1>p, <2>0, <2>2, <3>1, <3>2 DEF PhaseOK, EvidenceOK, TypeOK, LocalsOK
    <3>4. \A q \in Procs \ {p} : /\ pc'[q] = pc[q] /\ kind'[q] = kind[q]
                                 /\ job'[q] = job[q] /\ seen'[q] = seen[q]
      BY <3>1 DEF TypeOK, LocalsOK
    <3>. QED  BY <2>0, <3>3, <3>4, StepOfOne
  <2>3. CASE ~Finish(p) /\ kind[p] # "report"
    <3>1. Continue(p, d)
      BY <1>1, <2>3 DEF ReadStatus
    <3>2. /\ d \in {"suspect", "tripped", "activate", "idle"}
          /\ d = "tripped" => AutoMarking /\ kind[p] \in {"report", "drop", "dead"}
      BY DEF Decision, Condemns
    <3>. HIDE DEF d, v
    <3>3. pc' = [pc EXCEPT ![p] = d] /\ UNCHANGED <<kind, job, seen>> /\ d # "idle"
      BY <3>1, <2>3 DEF Continue, Goto, locVars
    <3>4. PhaseOK(p)' /\ EvidenceOK(p)'
      BY <1>p, <2>0, <3>2, <3>3 DEF PhaseOK, EvidenceOK, TypeOK, LocalsOK
    <3>5. \A q \in Procs \ {p} : /\ pc'[q] = pc[q] /\ kind'[q] = kind[q]
                                 /\ job'[q] = job[q] /\ seen'[q] = seen[q]
      BY <3>3 DEF TypeOK, LocalsOK
    <3>. QED  BY <2>0, <3>4, <3>5, StepOfOne
  <2>. QED  BY <2>1, <2>2, <2>3
<1>2. CASE CheckTripped(p)
  <2>0. /\ UNCHANGED <<status, missed, cause>> /\ pc[p] = "tripped"
    BY <1>2 DEF CheckTripped, jobVars
  <2>1. PICK l \in {"idle", "expire", "bump"} :
           /\ Continue(p, l)
           /\ l # "idle" /\ kind[p] = "report" => ~(seen[p].missed < 2)
    BY <1>2 DEF CheckTripped
  <2>2. l # "idle" /\ kind[p] = "report" => seen[p].missed >= 2
    BY <2>1 DEF TypeOK, LocalsOK, View
  <2>3. AutoMarking /\ kind[p] \in {"report", "drop", "dead"}
    BY <2>0, <1>p DEF PhaseOK
  <2>. QED  BY <1>p, <2>0, <2>1, <2>2, <2>3, ContinuePhase, StepOfOne
<1>3. CASE Bump(p)
  <2>1. /\ pc[p] = "bump" /\ pc' = [pc EXCEPT ![p] = "reread"]
        /\ UNCHANGED <<status, missed, cause, kind, job, seen>>
    BY <1>3 DEF Bump, Goto, jobVars
  <2>2. PhaseOK(p)' /\ EvidenceOK(p)'
    BY <1>p, <2>1 DEF PhaseOK, EvidenceOK, TypeOK, LocalsOK
  <2>. QED  BY <2>1, <2>2, StepOfOne DEF TypeOK, LocalsOK
<1>4. CASE Reread(p)
  <2>0. /\ UNCHANGED <<status, missed, cause>> /\ pc[p] = "reread"
    BY <1>4 DEF Reread, jobVars
  <2>1. PICK l \in {"idle", "trip", "expire"} : Continue(p, l)
    BY <1>4 DEF Reread
  <2>2. /\ AutoMarking /\ kind[p] \in {"report", "drop", "dead"}
        /\ kind[p] = "report" => seen[p].missed >= 2
    BY <2>0, <1>p DEF PhaseOK
  <2>. QED  BY <1>p, <2>0, <2>1, <2>2, ContinuePhase, StepOfOne
<1>5. CASE Trip(p)
  BY <1>5, <1>p, FinishPhase, StepOfOne DEF Trip, jobVars
<1>6. CASE SetStatus(p)
  <2>1. ASSUME NEW j \in Jobs, status'[j] = "expired", status[j] # "expired"
        PROVE  AutoMarking /\ cause[j] \ {"admin"} # {}
    <3>1. pc[p] = "expire" /\ j = job[p]
      BY <1>6, <2>1 DEF SetStatus, Target, TypeOK, TablesOK, LocalsOK
    <3>2. AutoMarking /\ kind[p] \in {"report", "drop", "dead"}
      BY <3>1, <1>p DEF PhaseOK
    <3>3. "drop" \in cause[j] \/ "http" \in cause[j]
      BY <3>1, <3>2, <1>p DEF PhaseOK, EvidenceOK
    <3>. QED  BY <3>2, <3>3
  <2>. QED  BY <1>6, <1>p, <2>1, FinishPhase, StepOfOne DEF SetStatus
<1>. QED  BY <1>1, <1>2, <1>3, <1>4, <1>5, <1>6 DEF Lifecycle

\* So does every other step of a request thread.
LEMMA ServeCause ==
  ASSUME TypeOK, CauseInv, NEW t \in Threads, Serve(t)
  PROVE  CauseInv'
<1>p. t \in Procs /\ PhaseOK(t) /\ EvidenceOK(t)
  BY DEF CauseInv, Procs
<1>1. ASSUME NEW j \in Jobs, NEW u \in Users,
             InsertReport(t, j, u) \/ DeleteReport(t, j, u)
      PROVE  CauseInv'
  <2>1. /\ pc[t] = "idle" /\ pc' = [pc EXCEPT ![t] = "count"]
        /\ \/ kind' = [kind EXCEPT ![t] = "report"]
           \/ kind' = [kind EXCEPT ![t] = "withdraw"]
        /\ job' = [job EXCEPT ![t] = j]
        /\ UNCHANGED <<status, missed, cause, seen>>
    BY <1>1 DEF InsertReport, DeleteReport, Goto
  <2>2. PhaseOK(t)' /\ EvidenceOK(t)'
    BY <1>p, <2>1 DEF PhaseOK, EvidenceOK, TypeOK, LocalsOK
  <2>. QED  BY <1>p, <2>1, <2>2, StepOfOne DEF TypeOK, LocalsOK
<1>2. ASSUME CountReports(t) PROVE CauseInv'
  <2>1. /\ pc[t] = "count" /\ pc' = [pc EXCEPT ![t] = "store"]
        /\ seen' = [seen EXCEPT ![t].count = Cardinality(Reporters(job[t]))]
        /\ UNCHANGED <<status, missed, cause, kind, job>>
    BY <1>2 DEF CountReports, Goto, jobVars
  <2>2. seen'[t].missed = seen[t].missed
    BY <1>p, <2>1 DEF TypeOK, LocalsOK, View
  <2>3. PhaseOK(t)' /\ EvidenceOK(t)'
    BY <1>p, <2>1, <2>2 DEF PhaseOK, EvidenceOK, TypeOK, LocalsOK
  <2>. QED  BY <1>p, <2>1, <2>3, StepOfOne DEF TypeOK, LocalsOK
<1>3. ASSUME StoreCount(t) PROVE CauseInv'
  <2>1. PICK l \in {"read", "idle"} : Continue(t, l)
    BY <1>3 DEF StoreCount
  <2>. QED  BY <1>3, <1>p, <2>1, ContinuePhase, StepOfOne DEF StoreCount
<1>4. ASSUME CountReporters(t) PROVE CauseInv'
  <2>1. PICK l \in {"suspect", "tripped", "activate", "idle"} :
           Continue(t, l) /\ (l = "tripped" => AutoMarking)
    BY <1>4 DEF CountReporters, Decision, Condemns
  <2>2. /\ UNCHANGED <<status, missed, cause>> /\ pc[t] = "distinct"
        /\ kind[t] = "report"
    BY <1>4, <1>p DEF CountReporters, jobVars, PhaseOK
  <2>. QED  BY <1>p, <2>1, <2>2, ContinuePhase, StepOfOne
<1>5. ASSUME NEW S \in SUBSET Jobs, SelectDoomed(t, S) PROVE CauseInv'
  <2>1. /\ pc[t] = "idle" /\ pc' = [pc EXCEPT ![t] = "purge"]
        /\ kind' = [kind EXCEPT ![t] = "purge"]
        /\ UNCHANGED <<status, missed, cause, seen, job>>
    BY <1>5 DEF SelectDoomed, Goto, jobVars
  <2>2. PhaseOK(t)' /\ EvidenceOK(t)'
    BY <1>p, <2>1 DEF PhaseOK, EvidenceOK, TypeOK, LocalsOK
  <2>. QED  BY <1>p, <2>1, <2>2, StepOfOne DEF TypeOK, LocalsOK
<1>6. ASSUME Purge(t) PROVE CauseInv'
  <2>1. \A j \in Jobs : status'[j] = "expired" => status[j] = "expired"
    BY <1>6 DEF Purge, DeleteRows
  <2>. QED  BY <1>6, <1>p, <2>1, FinishPhase, StepOfOne DEF Purge
<1>. QED  BY <1>1, <1>2, <1>3, <1>4, <1>5, <1>6 DEF Serve

\* So does every other step of a verifier coroutine.
LEMMA VerifyCause ==
  ASSUME TypeOK, CauseInv, NEW c \in Checks, Verify(c)
  PROVE  CauseInv'
<1>p. c \in Procs /\ PhaseOK(c) /\ EvidenceOK(c)
  BY DEF CauseInv, Procs
<1>1. ASSUME NEW j \in Jobs, PickDropped(c, j) PROVE CauseInv'
  <2>1. /\ pc[c] = "idle" /\ pc' = [pc EXCEPT ![c] = "read"]
        /\ kind' = [kind EXCEPT ![c] = "drop"]
        /\ job' = [job EXCEPT ![c] = j]
        /\ seen' = [seen EXCEPT ![c].missed = missed[j]]
        /\ missed[j] >= 2
        /\ UNCHANGED <<status, missed, cause>>
    BY <1>1 DEF PickDropped, Goto, jobVars
  <2>2. seen'[c].missed = missed[j] /\ "drop" \in cause[j]
    BY <1>p, <2>1 DEF TypeOK, LocalsOK, View, CauseInv
  <2>3. PhaseOK(c)' /\ EvidenceOK(c)'
    BY <1>p, <2>1, <2>2 DEF PhaseOK, EvidenceOK, TypeOK, LocalsOK
  <2>. QED  BY <1>p, <2>1, <2>3, StepOfOne DEF TypeOK, LocalsOK
<1>2. ASSUME NEW j \in Jobs, PickForCheck(c, j) PROVE CauseInv'
  <2>1. /\ pc[c] = "idle" /\ pc' = [pc EXCEPT ![c] = "fetch"]
        /\ kind' = [kind EXCEPT ![c] = "check"]
        /\ job' = [job EXCEPT ![c] = j]
        /\ UNCHANGED <<status, missed, cause, seen>>
    BY <1>2 DEF PickForCheck, Goto, jobVars
  <2>2. PhaseOK(c)' /\ EvidenceOK(c)'
    BY <1>p, <2>1 DEF PhaseOK, EvidenceOK, TypeOK, LocalsOK
  <2>. QED  BY <1>p, <2>1, <2>2, StepOfOne DEF TypeOK, LocalsOK
<1>3. ASSUME NEW answer \in {"live", "dead", "unclear"}, Respond(c, answer)
      PROVE  CauseInv'
  <2>1. /\ pc[c] = "fetch" /\ pc' = [pc EXCEPT ![c] = "read"]
        /\ kind' = [kind EXCEPT ![c] = answer]
        /\ UNCHANGED <<status, missed, seen, job>>
        /\ cause' = IF answer = "dead" THEN [cause EXCEPT ![job[c]] = @ \cup {"http"}]
                    ELSE cause
    BY <1>3 DEF Respond, Goto, jobVars
  <2>2. job[c] \in Jobs
    BY <1>p, <2>1 DEF TypeOK, LocalsOK
  <2>3. /\ \A j \in Jobs : cause[j] \subseteq cause'[j]
        /\ answer = "dead" => "http" \in cause'[job[c]]
    BY <2>1, <2>2 DEF TypeOK, TablesOK
  <2>4. PhaseOK(c)' /\ EvidenceOK(c)'
    BY <1>p, <2>1, <2>2, <2>3 DEF PhaseOK, EvidenceOK, TypeOK, LocalsOK
  <2>. QED  BY <1>p, <2>1, <2>3, <2>4, StepOfOne DEF TypeOK, LocalsOK
<1>. QED  BY <1>1, <1>2, <1>3 DEF Verify

\* So do admins, ingestion and the clock.
LEMMA EnvironmentCause ==
  ASSUME TypeOK, CauseInv, Environment
  PROVE  CauseInv'
<1>. DEFINE Kept == /\ UNCHANGED <<pc, kind, job, seen>>
                    /\ \A j \in Jobs : cause[j] \subseteq cause'[j]
             Recorded == \A j \in Jobs : missed'[j] >= 2 => "drop" \in cause'[j]
<1>1. Kept
  <2>1. ASSUME NEW j \in Jobs, AdminExpire(j) \/ MissCycle(j) PROVE Kept
    BY <2>1 DEF AdminExpire, MissCycle, locVars, TypeOK, TablesOK
  <2>2. ASSUME \/ \E j \in Jobs : SeenInManifest(j) \/ PruneOld(j)
               \/ \E S \in SUBSET Jobs : Reactivate(S)
               \/ \E a \in Ats : ClearBreaker(a)
               \/ Tick
        PROVE  Kept
    BY <2>2 DEF SeenInManifest, PruneOld, Reactivate, ClearBreaker, Tick, locVars
  <2>. HIDE DEF Kept
  <2>3. ASSUME NEW j \in Jobs, AdminReactivate(j) PROVE Kept
    BY <2>2, <2>3 DEF AdminReactivate
  <2>. QED
    BY <2>1, <2>2, <2>3 DEF Environment, BulkReactivate
<1>2. \A q \in Procs : PhaseOK(q)' /\ EvidenceOK(q)'
  BY <1>1, OthersKeep DEF CauseInv
<1>3. Recorded /\ ExpiryHasCause'
  <2>1. ASSUME NEW j \in Jobs, AdminExpire(j)
        PROVE  Recorded /\ ExpiryHasCause'
    BY <2>1 DEF AdminExpire, CauseInv, ExpiryHasCause, TypeOK, TablesOK
  <2>2. ASSUME NEW j \in Jobs, MissCycle(j)
        PROVE  Recorded /\ ExpiryHasCause'
    BY <2>2 DEF MissCycle, CauseInv, ExpiryHasCause, TypeOK, TablesOK
  <2>3. ASSUME NEW j \in Jobs, SeenInManifest(j)
        PROVE  Recorded /\ ExpiryHasCause'
    BY <2>3 DEF SeenInManifest, CauseInv, ExpiryHasCause, TypeOK, TablesOK
  <2>4. ASSUME NEW S \in SUBSET Jobs, Reactivate(S)
        PROVE  Recorded /\ ExpiryHasCause'
    BY <2>4 DEF Reactivate, CauseInv, ExpiryHasCause
  <2>5. ASSUME NEW j \in Jobs, PruneOld(j)
        PROVE  Recorded /\ ExpiryHasCause'
    BY <2>5 DEF PruneOld, DeleteRows, CauseInv, ExpiryHasCause
  <2>6. ASSUME (\E a \in Ats : ClearBreaker(a)) \/ Tick
        PROVE  Recorded /\ ExpiryHasCause'
    BY <2>6 DEF ClearBreaker, Tick, jobVars, CauseInv, ExpiryHasCause
  <2>. QED
    BY <2>1, <2>2, <2>3, <2>4, <2>5, <2>6
       DEF Environment, AdminReactivate, BulkReactivate
<1>. QED  BY <1>2, <1>3 DEF CauseInv

\* The invariant holds throughout every execution.
THEOREM CauseKept == Spec => []CauseInv
<1>1. Init => TypeOK /\ CauseInv
  BY InitType, InitCause
<1>2. TypeOK /\ CauseInv /\ [Next]_vars => CauseInv'
  <2>1. TypeOK /\ CauseInv /\ UNCHANGED vars => CauseInv'
    BY DEF vars, CauseInv, PhaseOK, EvidenceOK, ExpiryHasCause
  <2>. QED
    BY <2>1, ServeCause, VerifyCause, LifecycleCause, EnvironmentCause DEF Next
<1>. QED  BY <1>1, <1>2, TypeCorrect, PTL DEF Spec

\* However requests, checks, admin actions, ingestion and clean-up interleave,
\* user reports alone never expire a job, and with auto-marking off only an
\* admin does.
THEOREM ExpiryJustified == Spec => []ExpiryHasCause
<1>1. CauseInv => ExpiryHasCause
  BY DEF CauseInv
<1>. QED  BY <1>1, CauseKept, PTL

-----------------------------------------------------------------------------
(* The hourly budget of the circuit breaker. *)

\* The processes that have bumped a bucket and not yet read it back.
Waiting(b) == {p \in Procs : pc[p] = "reread" /\ bucket[p] = b}

\* Every bump is waiting to be read back, was granted, or was refused: so a
\* read that still finds the counter within the threshold grants a new permit
\* within the threshold, whoever bumps between the upsert and the read.
BudgetInv ==
  /\ ExpiryBudget
  /\ \A b \in Buckets : granted[b] + Cardinality(Waiting(b)) <= bumps[b]

LEMMA WaitingFinite == \A b : IsFiniteSet(Waiting(b)) /\ Cardinality(Waiting(b)) \in Nat
<1>1. IsFiniteSet(Procs)
  BY ProcessAssumption, FS_Union DEF Procs
<1>2. \A b : IsFiniteSet(Waiting(b))
  BY <1>1, FS_Subset DEF Waiting
<1>. QED  BY <1>2, FS_CardinalityType

LEMMA InitBudget == Init => BudgetInv
<1>. SUFFICES ASSUME Init PROVE BudgetInv
  OBVIOUS
<1>1. ExpiryBudget
  BY SettingsAssumption DEF Init, ExpiryBudget
<1>2. \A b \in Buckets : Waiting(b) = {}
  BY DEF Init, Waiting
<1>3. Cardinality({}) = 0
  BY FS_EmptySet
<1>4. \A b \in Buckets : bumps[b] = 0 /\ granted[b] = 0
  BY DEF Init
<1>. QED  BY <1>1, <1>2, <1>3, <1>4 DEF BudgetInv

\* A step in which no process starts to wait and nothing is granted.
LEMMA NoBumpKeeps ==
  ASSUME TypeOK, BudgetInv, bumps' = bumps, granted' = granted,
         \A p \in Procs : pc'[p] = "reread" => pc[p] = "reread" /\ bucket'[p] = bucket[p]
  PROVE  BudgetInv'
<1>1. ExpiryBudget'
  BY DEF BudgetInv, ExpiryBudget
<1>2. ASSUME NEW b \in Buckets
      PROVE  granted[b] + Cardinality(Waiting(b)') <= bumps[b]
  <2>1. Waiting(b)' \subseteq Waiting(b)
    BY DEF Waiting
  <2>2. Cardinality(Waiting(b)') <= Cardinality(Waiting(b)) /\ Cardinality(Waiting(b)') \in Nat
    BY <2>1, WaitingFinite, FS_Subset, FS_CardinalityType
  <2>3. granted[b] + Cardinality(Waiting(b)) <= bumps[b] /\ granted[b] \in Nat /\ bumps[b] \in Nat
    BY DEF BudgetInv, TypeOK, TablesOK
  <2>. QED  BY <2>2, <2>3, WaitingFinite
<1>. QED  BY <1>1, <1>2 DEF BudgetInv

\* The upsert: one more bump, one more process that waits.
LEMMA BumpBudget ==
  ASSUME TypeOK, BudgetInv, NEW p \in Procs, Bump(p)
  PROVE  BudgetInv'
<1>. DEFINE c == Current(p)
<1>1. /\ c \in Buckets /\ pc[p] = "bump" /\ granted' = granted
      /\ bumps' = [bumps EXCEPT ![c] = @ + 1]
      /\ pc' = [pc EXCEPT ![p] = "reread"]
      /\ bucket' = [bucket EXCEPT ![p] = c]
  BY DEF Bump, Goto, Current, AtsOfProc, Buckets, TypeOK, TablesOK, LocalsOK
<1>. HIDE DEF c
<1>2. ExpiryBudget'
  BY <1>1 DEF BudgetInv, ExpiryBudget
<1>3. ASSUME NEW b \in Buckets
      PROVE  granted[b] + Cardinality(Waiting(b)') <= bumps'[b]
  <2>1. p \notin Waiting(b)
    BY <1>1 DEF Waiting
  <2>2. Waiting(b)' = IF b = c THEN Waiting(b) \cup {p} ELSE Waiting(b)
    BY <1>1 DEF Waiting, TypeOK, LocalsOK
  <2>3. Cardinality(Waiting(b) \cup {p}) = Cardinality(Waiting(b)) + 1
    BY <2>1, WaitingFinite, FS_AddElement
  <2>4. granted[b] + Cardinality(Waiting(b)) <= bumps[b] /\ granted[b] \in Nat /\ bumps[b] \in Nat
    BY DEF BudgetInv, TypeOK, TablesOK
  <2>5. bumps'[b] = IF b = c THEN bumps[b] + 1 ELSE bumps[b]
    BY <1>1 DEF TypeOK, TablesOK
  <2>. QED  BY <2>2, <2>3, <2>4, <2>5, WaitingFinite
<1>. QED  BY <1>1, <1>2, <1>3 DEF BudgetInv

\* The read: one process fewer waits, and perhaps one more permit is granted.
LEMMA RereadBudget ==
  ASSUME TypeOK, BudgetInv, NEW p \in Procs, Reread(p)
  PROVE  BudgetInv'
<1>. DEFINE c == bucket[p]
<1>1. /\ c \in Buckets /\ pc[p] = "reread" /\ bumps' = bumps
      /\ \/ granted' = granted
         \/ bumps[c] <= Threshold /\ granted' = [granted EXCEPT ![c] = @ + 1]
  BY SettingsAssumption DEF Reread, TypeOK, TablesOK, LocalsOK
<1>2. PICK l \in {"idle", "trip", "expire"} : Continue(p, l)
  BY DEF Reread
<1>3. \A q \in Procs : IF q = p THEN pc'[q] # "reread"
                      ELSE pc'[q] = pc[q] /\ bucket'[q] = bucket[q]
  BY <1>2 DEF Continue, Finish, Goto, locVars, TypeOK, LocalsOK
<1>. HIDE DEF c
<1>4. CASE granted' = granted
  BY <1>1, <1>3, <1>4, NoBumpKeeps
<1>5. CASE bumps[c] <= Threshold /\ granted' = [granted EXCEPT ![c] = @ + 1]
  <2>1. ASSUME NEW b \in Buckets
        PROVE  /\ granted'[b] + Cardinality(Waiting(b)') <= bumps[b]
               /\ granted'[b] <= Threshold
    <3>1. /\ granted[b] + Cardinality(Waiting(b)) <= bumps[b] /\ granted[b] <= Threshold
          /\ granted[b] \in Nat /\ bumps[b] \in Nat
      BY DEF BudgetInv, ExpiryBudget, TypeOK, TablesOK
    <3>2. CASE b = c
      <4>1. p \in Waiting(b) /\ Waiting(b)' = Waiting(b) \ {p}
        BY <1>1, <1>3, <3>2 DEF Waiting, c
      <4>2. /\ Cardinality(Waiting(b)') = Cardinality(Waiting(b)) - 1
            /\ Cardinality(Waiting(b)') \in Nat
        BY <4>1, WaitingFinite, FS_RemoveElement, FS_CardinalityType
      <4>3. granted'[b] = granted[b] + 1
        BY <1>5, <3>2 DEF TypeOK, TablesOK
      <4>. QED  BY <3>1, <3>2, <4>2, <4>3, <1>5, WaitingFinite, SettingsAssumption
    <3>3. CASE b # c
      <4>1. Waiting(b)' = Waiting(b)
        BY <1>1, <1>3, <3>3 DEF Waiting, c
      <4>2. granted'[b] = granted[b]
        BY <1>5, <3>3 DEF TypeOK, TablesOK
      <4>. QED  BY <3>1, <4>1, <4>2
    <3>. QED  BY <3>2, <3>3
  <2>. QED  BY <1>1, <2>1 DEF BudgetInv, ExpiryBudget
<1>. QED  BY <1>1, <1>4, <1>5

\* No other step bumps, grants or starts to wait.
LEMMA OthersBudget ==
  ASSUME TypeOK, BudgetInv, [Next]_vars,
         \A p \in Procs : ~Bump(p) /\ ~Reread(p)
  PROVE  BudgetInv'
<1>. DEFINE Calm == /\ bumps' = bumps /\ granted' = granted
                    /\ \A q \in Procs : pc'[q] = "reread" =>
                         pc[q] = "reread" /\ bucket'[q] = bucket[q]
<1>1. ASSUME NEW t \in Threads, Serve(t) PROVE Calm
  BY <1>1 DEF Serve, InsertReport, DeleteReport, CountReports, StoreCount,
              CountReporters, Decision, SelectDoomed, Purge, Continue, Finish, Goto,
              brVars, locVars, Procs, TypeOK, LocalsOK
<1>2. ASSUME NEW c \in Checks, Verify(c) PROVE Calm
  BY <1>2 DEF Verify, PickDropped, PickForCheck, Respond, Goto, brVars, Procs,
              TypeOK, LocalsOK
<1>3. ASSUME NEW p \in Procs, ReadStatus(p) PROVE Calm
  BY <1>3 DEF ReadStatus, Decision, Continue, Finish, Goto, brVars, locVars, TypeOK, LocalsOK
<1>4. ASSUME NEW p \in Procs, CheckTripped(p) \/ Trip(p) \/ SetStatus(p) PROVE Calm
  BY <1>4 DEF CheckTripped, Trip, SetStatus, Continue, Finish, Goto, brVars, locVars,
              TypeOK, LocalsOK
<1>5. ASSUME Environment PROVE Calm
  BY <1>5 DEF Environment, AdminExpire, AdminReactivate, BulkReactivate, Reactivate,
              SeenInManifest, MissCycle, PruneOld, ClearBreaker, Tick, brVars, locVars
<1>6. ASSUME UNCHANGED vars PROVE Calm
  BY <1>6 DEF vars
<1>7. Calm
  BY <1>1, <1>2, <1>3, <1>4, <1>5, <1>6 DEF Next, Lifecycle
<1>. QED  BY <1>7, NoBumpKeeps

\* The invariant holds throughout every execution.
THEOREM BudgetInvKept == Spec => []BudgetInv
<1>1. TypeOK /\ BudgetInv /\ [Next]_vars => BudgetInv'
  BY BumpBudget, RereadBudget, OthersBudget
<1>. QED  BY InitBudget, <1>1, TypeCorrect, PTL DEF Spec

\* Whatever the number of threads, coroutines and jobs, the upsert, the read
\* and the trip of different requests may interleave as they like: no ATS is
\* granted more than Threshold automatic expirations in an hour.
THEOREM BudgetKept == Spec => []ExpiryBudget
<1>1. BudgetInv => ExpiryBudget
  BY DEF BudgetInv
<1>. QED  BY <1>1, BudgetInvKept, PTL
-----------------------------------------------------------------------------
(* The statements of all handlers, in any interleaving, together           *)
(* implement the expiry ledger.                                            *)

\* The bucket a process has bumped is one of its job's ATS.
BucketInv == \A p \in Procs : pc[p] = "reread" => bucket[p][1] = AtsOf[job[p]]

\* Only a bump makes a process wait; while it waits its locals stay.
LEMMA WaitingStays ==
  ASSUME TypeOK, [Next]_vars, NEW q \in Procs, ~Bump(q), pc'[q] = "reread"
  PROVE  pc[q] = "reread" /\ bucket'[q] = bucket[q] /\ job'[q] = job[q]
<1>. DEFINE Goal == pc[q] = "reread" /\ bucket'[q] = bucket[q] /\ job'[q] = job[q]
<1>1. ASSUME NEW t \in Threads, Serve(t) PROVE Goal
  BY <1>1 DEF Serve, InsertReport, DeleteReport, CountReports, StoreCount,
              CountReporters, Decision, SelectDoomed, Purge, Continue, Finish, Goto,
              locVars, Procs, TypeOK, LocalsOK
<1>2. ASSUME NEW c \in Checks, Verify(c) PROVE Goal
  BY <1>2 DEF Verify, PickDropped, PickForCheck, Respond, Goto, Procs, TypeOK, LocalsOK
<1>3. ASSUME NEW p \in Procs, ReadStatus(p) PROVE Goal
  BY <1>3 DEF ReadStatus, Decision, Continue, Finish, Goto, locVars, TypeOK, LocalsOK
<1>4. ASSUME NEW p \in Procs,
             CheckTripped(p) \/ Reread(p) \/ Trip(p) \/ SetStatus(p)
      PROVE  Goal
  BY <1>4 DEF CheckTripped, Reread, Trip, SetStatus, Continue, Finish, Goto, locVars,
              TypeOK, LocalsOK
<1>5. ASSUME NEW p \in Procs, Bump(p) PROVE Goal
  BY <1>5 DEF Bump, Goto, TypeOK, LocalsOK
<1>6. ASSUME Environment PROVE Goal
  BY <1>6 DEF Environment, AdminExpire, AdminReactivate, BulkReactivate, Reactivate,
              SeenInManifest, MissCycle, PruneOld, ClearBreaker, Tick, locVars
<1>7. ASSUME UNCHANGED vars PROVE Goal
  BY <1>7 DEF vars
<1>. QED  BY <1>1, <1>2, <1>3, <1>4, <1>5, <1>6, <1>7 DEF Next, Lifecycle

THEOREM BucketKept == Spec => []BucketInv
<1>1. Init => BucketInv
  BY DEF Init, BucketInv
<1>2. ASSUME TypeOK, BucketInv, [Next]_vars PROVE BucketInv'
  <2>1. ASSUME NEW p \in Procs, pc'[p] = "reread"
        PROVE  bucket'[p][1] = AtsOf[job'[p]]
    <3>1. CASE Bump(p)
      <4>1. /\ bucket' = [bucket EXCEPT ![p] = <<AtsOf[job[p]], hour>>]
            /\ job' = job
        BY <3>1 DEF Bump, Current, AtsOfProc
      <4>2. bucket'[p] = <<AtsOf[job[p]], hour>>
        BY <1>2, <4>1 DEF TypeOK, LocalsOK
      <4>. QED  BY <4>1, <4>2
    <3>2. CASE ~Bump(p)
      BY <2>1, <3>2, <1>2, WaitingStays DEF BucketInv
    <3>. QED  BY <3>1, <3>2
  <2>. QED  BY <2>1 DEF BucketInv
<1>. QED  BY <1>1, <1>2, TypeCorrect, PTL DEF Spec

-----------------------------------------------------------------------------
\* A step after which each process still has, or still lacks, its permit.
LEMMA PermitStays ==
  ASSUME \A q \in Procs : (pc'[q] = "expire") = (pc[q] = "expire"),
         \A q \in Procs : pc[q] = "expire" => job'[q] = job[q]
  PROVE  Permit' = Permit
BY DEF Permit

\* A step of a process that neither had nor gets a permit.
LEMMA PermitOfOthers ==
  ASSUME NEW p \in Procs, pc[p] # "expire", pc'[p] # "expire",
         \A q \in Procs \ {p} : pc'[q] = pc[q] /\ job'[q] = job[q]
  PROVE  Permit' = Permit
BY PermitStays

\* Requests leave the ledger alone, except that a bulk delete removes jobs.
LEMMA ServeLedger ==
  ASSUME TypeOK, NEW t \in Threads, Serve(t)
  PROVE  [Ledger!Next]_(Ledger!vars)
<1>p. t \in Procs
  BY DEF Procs
<1>. DEFINE Aside == /\ pc[t] # "expire" /\ pc'[t] # "expire"
                     /\ \A q \in Procs \ {t} : pc'[q] = pc[q] /\ job'[q] = job[q]
<1>1. Aside
  <2>1. ASSUME NEW j \in Jobs, NEW u \in Users,
               InsertReport(t, j, u) \/ DeleteReport(t, j, u)
        PROVE  Aside
    BY <2>1, <1>p DEF InsertReport, DeleteReport, Goto, TypeOK, LocalsOK
  <2>2. ASSUME CountReports(t) PROVE Aside
    BY <2>2, <1>p DEF CountReports, Goto, TypeOK, LocalsOK
  <2>3. ASSUME NEW l \in {"read", "suspect", "tripped", "activate", "idle"},
               Continue(t, l), pc[t] # "expire"
        PROVE  Aside
    BY <2>3, <1>p DEF Continue, Finish, Goto, locVars, TypeOK, LocalsOK
  <2>4. ASSUME StoreCount(t) \/ CountReporters(t) PROVE Aside
    BY <2>3, <2>4 DEF StoreCount, CountReporters, Decision
  <2>5. ASSUME NEW S \in SUBSET Jobs, SelectDoomed(t, S) PROVE Aside
    BY <2>5, <1>p DEF SelectDoomed, Goto, TypeOK, LocalsOK
  <2>6. ASSUME Purge(t) PROVE Aside
    BY <2>6, <1>p DEF Purge, Finish, Goto, TypeOK, LocalsOK
  <2>. QED  BY <2>1, <2>2, <2>4, <2>5, <2>6 DEF Serve
<1>2. Permit' = Permit
  BY <1>p, <1>1, PermitOfOthers
<1>3. CASE Purge(t)
  <2>1. /\ doomed[t] \in SUBSET Jobs
        /\ status' = [j \in Jobs |-> IF j \in doomed[t] THEN "gone" ELSE status[j]]
        /\ UNCHANGED <<cause, granted>>
    BY <1>3, <1>p DEF Purge, DeleteRows, brVars, TypeOK, LocalsOK
  <2>2. Ledger!Change(doomed[t], "gone")
    BY <1>2, <2>1 DEF Ledger!Change
  <2>. QED  BY <2>1, <2>2 DEF Ledger!Next
<1>4. CASE ~Purge(t)
  <2>1. UNCHANGED <<status, cause, granted>>
    BY <1>4 DEF Serve, InsertReport, DeleteReport, CountReports, StoreCount,
                CountReporters, SelectDoomed, jobVars, brVars
  <2>. QED  BY <1>2, <2>1 DEF Ledger!vars
<1>. QED  BY <1>3, <1>4

\* The verifier's picks and fetches leave it alone; a dead page accuses a job.
LEMMA VerifyLedger ==
  ASSUME TypeOK, NEW c \in Checks, Verify(c)
  PROVE  [Ledger!Next]_(Ledger!vars)
<1>p. c \in Procs
  BY DEF Procs
<1>1. ASSUME NEW j \in Jobs, PickDropped(c, j) \/ PickForCheck(c, j)
      PROVE  UNCHANGED Ledger!vars
  <2>1. Permit' = Permit
    BY <1>1, <1>p, PermitOfOthers DEF PickDropped, PickForCheck, Goto, TypeOK, LocalsOK
  <2>. QED
    BY <1>1, <2>1 DEF PickDropped, PickForCheck, jobVars, brVars, Ledger!vars
<1>2. ASSUME NEW answer \in {"live", "dead", "unclear"}, Respond(c, answer)
      PROVE  [Ledger!Next]_(Ledger!vars)
  <2>1. Permit' = Permit
    BY <1>2, <1>p, PermitOfOthers DEF Respond, Goto, TypeOK, LocalsOK
  <2>2. CASE answer = "dead"
    <3>1. job[c] \in Jobs /\ Ledger!Accuse(job[c], "http")
      BY <1>2, <1>p, <2>1, <2>2
         DEF Respond, jobVars, brVars, Ledger!Accuse, TypeOK, LocalsOK
    <3>. QED  BY <3>1 DEF Ledger!Next
  <2>3. CASE answer # "dead"
    BY <1>2, <2>1, <2>3 DEF Respond, jobVars, brVars, Ledger!vars
  <2>. QED  BY <2>2, <2>3
<1>. QED  BY <1>1, <1>2 DEF Verify

\* Admins, ingestion and the clock: changes and accusations, no permits.
LEMMA EnvironmentLedger ==
  ASSUME TypeOK, Environment
  PROVE  [Ledger!Next]_(Ledger!vars)
<1>1. UNCHANGED <<pc, job, granted>>
  BY DEF Environment, AdminExpire, AdminReactivate, BulkReactivate, Reactivate,
         SeenInManifest, MissCycle, PruneOld, ClearBreaker, Tick, locVars, brVars
<1>2. Permit' = Permit
  BY <1>1, PermitStays
<1>3. ASSUME NEW j \in Jobs, AdminExpire(j) PROVE Ledger!Next
  <2>1. Ledger!AdminExpire(j)
    BY <1>1, <1>2, <1>3 DEF AdminExpire, Exists, Ledger!AdminExpire
  <2>. QED  BY <2>1 DEF Ledger!Next
<1>4. ASSUME NEW S \in SUBSET Jobs, Reactivate(S), \A j \in S : Exists(j)
      PROVE  Ledger!Next
  <2>1. Ledger!Change(S, "active")
    BY <1>1, <1>2, <1>4 DEF Reactivate, Exists, Ledger!Change
  <2>. QED  BY <2>1 DEF Ledger!Next
<1>5. ASSUME NEW j \in Jobs, PruneOld(j) PROVE Ledger!Next
  <2>1. Ledger!Change({j}, "gone")
    BY <1>1, <1>2, <1>5 DEF PruneOld, DeleteRows, Ledger!Change
  <2>. QED  BY <2>1 DEF Ledger!Next
<1>6. ASSUME NEW j \in Jobs, MissCycle(j) PROVE [Ledger!Next]_(Ledger!vars)
  <2>1. CASE missed[j] + 1 >= 2
    <3>1. Ledger!Accuse(j, "drop")
      BY <1>1, <1>2, <1>6, <2>1 DEF MissCycle, Ledger!Accuse
    <3>. QED  BY <3>1 DEF Ledger!Next
  <2>2. CASE ~(missed[j] + 1 >= 2)
    BY <1>1, <1>2, <1>6, <2>2 DEF MissCycle, Ledger!vars
  <2>. QED  BY <2>1, <2>2
<1>7. ASSUME \/ \E j \in Jobs : SeenInManifest(j)
             \/ \E a \in Ats : ClearBreaker(a)
             \/ Tick
      PROVE  UNCHANGED Ledger!vars
  BY <1>1, <1>2, <1>7 DEF SeenInManifest, ClearBreaker, Tick, jobVars, Ledger!vars
<1>8. ASSUME NEW j \in Jobs, AdminReactivate(j) PROVE Ledger!Next
  BY <1>4, <1>8 DEF AdminReactivate
<1>9. ASSUME NEW S \in SUBSET Jobs, BulkReactivate(S) PROVE Ledger!Next
  BY <1>4, <1>9 DEF BulkReactivate, Expired, Exists
<1>. QED  BY <1>3, <1>5, <1>6, <1>7, <1>8, <1>9 DEF Environment

\* A process that holds no permit and finishes or moves on gets none, unless
\* it moves on to the write.
LEMMA MovesOn ==
  ASSUME TypeOK, NEW p \in Procs, pc[p] # "expire",
         NEW l \in Labels \ {"expire"}, Continue(p, l)
  PROVE  Permit' = Permit
<1>1. pc'[p] # "expire" /\ \A q \in Procs \ {p} : pc'[q] = pc[q] /\ job'[q] = job[q]
  BY DEF Continue, Finish, Goto, locVars, TypeOK, LocalsOK
<1>. QED  BY <1>1, PermitOfOthers

\* Moving on to the write is a grant, if it is justified and within budget.
LEMMA MoveToWrite ==
  ASSUME TypeOK, CauseInv, NEW p \in Procs,
         pc[p] \in {"tripped", "reread"}, Continue(p, "expire"),
         UNCHANGED <<status, cause>>,
         \/ AtsOf[job[p]] = NoAts /\ granted' = granted
         \/ \E b \in Buckets : /\ b[1] = AtsOf[job[p]] /\ granted[b] < Threshold
                               /\ granted' = [granted EXCEPT ![b] = @ + 1],
         kind[p] = "report" => seen[p].missed >= 2
  PROVE  Ledger!Next
<1>1. /\ pc' = [pc EXCEPT ![p] = "expire"] /\ job' = job /\ job[p] \in Jobs
  BY DEF Continue, Goto, locVars, TypeOK, LocalsOK
<1>2. /\ Permit[p] = {} /\ Permit' = [Permit EXCEPT ![p] = {job[p]}]
  BY <1>1 DEF Permit, TypeOK, LocalsOK
<1>3. AutoMarking /\ ("drop" \in cause[job[p]] \/ "http" \in cause[job[p]])
  BY DEF CauseInv, PhaseOK, EvidenceOK
<1>4. cause[job[p]] \ {"admin"} # {}
  BY <1>3
<1>5. \/ AtsOf[job[p]] = NoAts /\ UNCHANGED granted
      \/ \E b \in Ledger!Buckets : /\ b[1] = AtsOf[job[p]] /\ granted[b] < Threshold
                                   /\ granted' = [granted EXCEPT ![b] = @ + 1]
  BY DEF Buckets, Hours, Ledger!Buckets
<1>6. Ledger!Grant(p, job[p])
  BY <1>2, <1>3, <1>4, <1>5 DEF Ledger!Grant
<1>. QED  BY <1>1, <1>6 DEF Ledger!Next

\* The lifecycle functions: grants, spendings and changes of one job.
LEMMA LifecycleLedger ==
  ASSUME TypeOK, CauseInv, BudgetInv, BucketInv, NEW p \in Procs, Lifecycle(p)
  PROVE  [Ledger!Next]_(Ledger!vars)
<1>1. CASE ReadStatus(p)
  <2>1. UNCHANGED <<status, cause, granted>> /\ pc[p] = "read"
    BY <1>1 DEF ReadStatus, jobVars, brVars
  <2>2. pc'[p] # "expire" /\ \A q \in Procs \ {p} : pc'[q] = pc[q] /\ job'[q] = job[q]
    BY <1>1 DEF ReadStatus, Decision, Continue, Finish, Goto, locVars, TypeOK, LocalsOK
  <2>. QED  BY <2>1, <2>2, PermitOfOthers DEF Ledger!vars
<1>2. CASE CheckTripped(p)
  <2>1. UNCHANGED <<status, cause, granted>> /\ pc[p] = "tripped"
    BY <1>2 DEF CheckTripped, jobVars, brVars
  <2>2. CASE Continue(p, "idle") \/ Continue(p, "bump")
    BY <2>1, <2>2, MovesOn DEF Labels, Ledger!vars
  <2>3. CASE ~(Continue(p, "idle") \/ Continue(p, "bump"))
    <3>1. /\ Continue(p, "expire") /\ AtsOf[job[p]] = NoAts
          /\ ~(kind[p] = "report" /\ seen[p].missed < 2)
      BY <1>2, <2>3 DEF CheckTripped, AtsOfProc
    <3>2. kind[p] = "report" => seen[p].missed >= 2
      BY <3>1 DEF TypeOK, LocalsOK, View
    <3>. QED  BY <2>1, <3>1, <3>2, MoveToWrite
  <2>. QED  BY <2>2, <2>3
<1>3. CASE Bump(p)
  <2>1. UNCHANGED <<status, cause, granted, job>> /\ pc[p] = "bump"
        /\ pc' = [pc EXCEPT ![p] = "reread"]
    BY <1>3 DEF Bump, Goto, jobVars
  <2>2. Permit' = Permit
    BY <2>1, PermitOfOthers DEF TypeOK, LocalsOK
  <2>. QED  BY <2>1, <2>2 DEF Ledger!vars
<1>4. CASE Reread(p)
  <2>. DEFINE b == bucket[p]
  <2>1. /\ UNCHANGED <<status, cause>> /\ pc[p] = "reread" /\ b \in Buckets
        /\ b[1] = AtsOf[job[p]]
    BY <1>4 DEF Reread, jobVars, BucketInv, TypeOK, LocalsOK
  <2>2. CASE b \in tripped \/ bumps[b] > Threshold
    <3>1. granted' = granted /\ (Continue(p, "idle") \/ Continue(p, "trip"))
      BY <1>4, <2>2 DEF Reread
    <3>. QED  BY <2>1, <3>1, MovesOn DEF Labels, Ledger!vars
  <2>3. CASE ~(b \in tripped \/ bumps[b] > Threshold)
    <3>1. /\ Continue(p, "expire") /\ granted' = [granted EXCEPT ![b] = @ + 1]
      BY <1>4, <2>3 DEF Reread
    <3>2. granted[b] < Threshold
      <4>1. p \in Waiting(b)
        BY <2>1 DEF Waiting
      <4>2. Cardinality(Waiting(b)) # 0
        BY <4>1, WaitingFinite, FS_EmptySet
      <4>3. /\ granted[b] + Cardinality(Waiting(b)) <= bumps[b]
            /\ granted[b] \in Nat /\ bumps[b] \in Nat /\ bumps[b] <= Threshold
        BY <2>1, <2>3, SettingsAssumption DEF BudgetInv, TypeOK, TablesOK
      <4>. QED  BY <4>2, <4>3, WaitingFinite, SettingsAssumption
    <3>3. kind[p] = "report" => seen[p].missed >= 2
      BY <2>1 DEF CauseInv, PhaseOK
    <3>. QED  BY <2>1, <3>1, <3>2, <3>3, MoveToWrite
  <2>. QED  BY <2>2, <2>3
<1>5. CASE Trip(p)
  <2>1. Permit' = Permit
    BY <1>5, MovesOn DEF Trip, Continue, Labels
  <2>. QED  BY <1>5, <2>1 DEF Trip, jobVars, Ledger!vars
<1>6. CASE SetStatus(p)
  <2>0. /\ job[p] \in Jobs /\ UNCHANGED <<cause, granted>>
        /\ status' = IF status[job[p]] # "gone"
                     THEN [status EXCEPT ![job[p]] = Target(pc[p])] ELSE status
    BY <1>6 DEF SetStatus, Exists, brVars, TypeOK, LocalsOK
  <2>1. CASE pc[p] = "expire"
    <3>1. pc'[p] # "expire" /\ \A q \in Procs \ {p} : pc'[q] = pc[q] /\ job'[q] = job[q]
      BY <1>6 DEF SetStatus, Finish, Goto, TypeOK, LocalsOK
    <3>2. job[p] \in Permit[p] /\ Permit' = [Permit EXCEPT ![p] = {}]
      BY <2>1, <3>1 DEF Permit
    <3>3. Ledger!Spend(p, job[p])
      BY <2>0, <2>1, <3>2 DEF Ledger!Spend, Target
    <3>. QED  BY <2>0, <3>3 DEF Ledger!Next
  <2>2. CASE pc[p] # "expire"
    <3>1. Permit' = Permit
      BY <1>6, <2>2, MovesOn DEF SetStatus, Continue, Labels
    <3>2. CASE status[job[p]] = "gone"
      BY <2>0, <3>1, <3>2 DEF Ledger!vars
    <3>3. CASE status[job[p]] # "gone"
      <4>1. Target(pc[p]) \in {"active", "suspected"}
        BY <1>6, <2>2 DEF SetStatus, Target
      <4>2. status' = [j \in Jobs |-> IF j \in {job[p]} THEN Target(pc[p]) ELSE status[j]]
        BY <2>0, <3>3 DEF TypeOK, TablesOK
      <4>3. Ledger!Change({job[p]}, Target(pc[p]))
        BY <2>0, <3>1, <3>3, <4>1, <4>2 DEF Ledger!Change
      <4>. QED  BY <2>0, <4>1, <4>3 DEF Ledger!Next
    <3>. QED  BY <3>2, <3>3
  <2>. QED  BY <2>1, <2>2
<1>. QED  BY <1>1, <1>2, <1>3, <1>4, <1>5, <1>6 DEF Lifecycle

\* The implementation theorem: whatever interleaves, an automatic expiry spends
\* a permit that was granted for a cause, with auto-marking on, within the
\* budget of its ATS and hour.
THEOREM Implements == Spec => ImplementsLedger
<1>1. Init => Ledger!Init
  BY DEF Init, Ledger!Init, Permit, Buckets, Hours, Ledger!Buckets
<1>2. TypeOK /\ CauseInv /\ BudgetInv /\ BucketInv /\ [Next]_vars
        => [Ledger!Next]_(Ledger!vars)
  <2>1. UNCHANGED vars => UNCHANGED Ledger!vars
    BY DEF vars, Ledger!vars, Permit
  <2>. QED
    BY <2>1, ServeLedger, VerifyLedger, LifecycleLedger, EnvironmentLedger DEF Next
<1>. QED
  BY <1>1, <1>2, TypeCorrect, CauseKept, BudgetInvKept, BucketKept, PTL
     DEF Spec, ImplementsLedger, Ledger!Spec

-----------------------------------------------------------------------------
(* The number of reports, when no two requests count those of one job. *)

Counting == {"count", "store"}

\* No two requests are between their write and their store for the same job.
Apart == \A s, t \in Threads :
            pc[s] \in Counting /\ pc[t] \in Counting /\ job[s] = job[t] => s = t

\* What a request is about to store is the number of reports that stand: only
\* requests for the job change them, and the one under way has counted them.
CountInv ==
  /\ \A p \in Procs : pc[p] \in Counting => p \in Threads
  /\ \A p \in Procs : pc[p] = "store" /\ Exists(job[p]) =>
        seen[p].count = Cardinality(Reporters(job[p]))
  /\ ReportCountExact

\* A step that changes no report and no count, revives no row and touches no
\* request that is counting.
LEMMA QuietKeepsCount ==
  ASSUME CountInv, UNCHANGED <<reports, reportCount>>,
         \A j \in Jobs : Exists(j)' => Exists(j),
         \A p \in Procs : /\ pc'[p] \in Counting <=> pc[p] \in Counting
                          /\ pc[p] \in Counting => pc'[p] = pc[p] /\ job'[p] = job[p] /\ seen'[p] = seen[p],
         \A p \in Procs : pc[p] \in Counting => job[p] \in Jobs
  PROVE  CountInv'
<1>1. \A j : Reporters(j)' = Reporters(j)
  BY DEF Reporters
<1>2. \A j \in Jobs : Recounting(j)' <=> Recounting(j)
  BY DEF Recounting, Counting
<1>3. ReportCountExact'
  BY <1>1, <1>2 DEF CountInv, ReportCountExact
<1>4. \A p \in Procs : pc'[p] \in Counting => p \in Threads
  BY DEF CountInv
<1>5. ASSUME NEW p \in Procs, pc'[p] = "store", Exists(job[p])'
      PROVE  seen'[p].count = Cardinality(Reporters(job[p]))'
  <2>1. pc[p] = "store" /\ job'[p] = job[p] /\ seen'[p] = seen[p] /\ job[p] \in Jobs
    BY <1>5 DEF Counting
  <2>2. Exists(job[p])
    BY <1>5, <2>1 DEF Exists
  <2>3. Reporters(job[p])' = Reporters(job[p])
    BY <2>1 DEF Reporters
  <2>. QED  BY <2>1, <2>2, <2>3 DEF CountInv
<1>. QED  BY <1>3, <1>4, <1>5 DEF CountInv

\* A request that writes a report finds no other counting those of the job.
LEMMA ServeCount ==
  ASSUME TypeOK, CountInv, Apart, Apart', NEW t \in Threads, Serve(t)
  PROVE  CountInv'
<1>. USE DEF Counting
<1>t. t \in Procs
  BY DEF Procs
<1>j. \A p \in Procs : pc[p] \in Counting => job[p] \in Jobs /\ p \in Threads
  BY DEF TypeOK, LocalsOK, CountInv
<1>1. ASSUME NEW j \in Jobs, NEW u \in Users, InsertReport(t, j, u) \/ DeleteReport(t, j, u)
      PROVE  CountInv'
  <2>1. /\ pc[t] = "idle" /\ UNCHANGED <<status, reportCount>>
        /\ pc'[t] = "count" /\ job'[t] = j
        /\ \A p \in Procs \ {t} : pc'[p] = pc[p] /\ job'[p] = job[p] /\ seen'[p] = seen[p]
        /\ \A i \in Jobs \ {j} : Reporters(i)' = Reporters(i)
    BY <1>1, <1>t DEF InsertReport, DeleteReport, Goto, TypeOK, LocalsOK, Reporters
  <2>2. \A p \in Procs \ {t} : pc[p] \in Counting => job[p] # j
    BY <1>j, <2>1 DEF Apart
  <2>3. Recounting(j)' /\ \A i \in Jobs \ {j} : Recounting(i)' <=> Recounting(i)
    BY <1>t, <2>1 DEF Recounting
  <2>4. ReportCountExact'
    BY <2>1, <2>3 DEF CountInv, ReportCountExact, Exists
  <2>5. ASSUME NEW p \in Procs, pc'[p] = "store", Exists(job[p])'
        PROVE  seen'[p].count = Cardinality(Reporters(job[p]))'
    <3>1. p # t /\ pc[p] = "store" /\ job'[p] = job[p] /\ job[p] \in Jobs \ {j}
      BY <1>j, <2>1, <2>2, <2>5
    <3>2. Reporters(job[p])' = Reporters(job[p]) /\ Exists(job[p])
      BY <2>1, <2>5, <3>1 DEF Reporters, Exists
    <3>. QED  BY <2>1, <3>1, <3>2 DEF CountInv
  <2>. QED  BY <1>j, <2>1, <2>4, <2>5 DEF CountInv
<1>2. ASSUME CountReports(t) PROVE CountInv'
  <2>1. /\ pc[t] = "count" /\ UNCHANGED <<status, reports, reportCount, job>>
        /\ pc'[t] = "store" /\ seen'[t].count = Cardinality(Reporters(job[t]))
        /\ \A p \in Procs \ {t} : pc'[p] = pc[p] /\ seen'[p] = seen[p]
    BY <1>2, <1>t DEF CountReports, Goto, jobVars, TypeOK, LocalsOK, View
  <2>2. \A i : Reporters(i)' = Reporters(i)
    BY <2>1 DEF Reporters
  <2>4. \A i \in Jobs : Recounting(i)' <=> Recounting(i)
    BY <1>t, <2>1 DEF Recounting
  <2>5. ReportCountExact'
    BY <2>1, <2>2, <2>4 DEF CountInv, ReportCountExact, Exists
  <2>6. ASSUME NEW p \in Procs, pc'[p] = "store", Exists(job[p])'
        PROVE  seen'[p].count = Cardinality(Reporters(job[p]))'
    <3>1. Reporters(job[p])' = Reporters(job[p]) /\ Exists(job[p])
      BY <2>1, <2>6 DEF Reporters, Exists
    <3>. QED  BY <2>1, <2>6, <3>1 DEF CountInv
  <2>. QED  BY <1>j, <2>1, <2>5, <2>6 DEF CountInv
<1>3. ASSUME StoreCount(t) PROVE CountInv'
  <2>1. /\ pc[t] = "store" /\ UNCHANGED <<status, reports>> /\ job[t] \in Jobs
        /\ reportCount' = IF Exists(job[t])
                          THEN [reportCount EXCEPT ![job[t]] = seen[t].count]
                          ELSE reportCount
        /\ pc'[t] \in {"idle", "read", "fetch"}
        /\ \A p \in Procs \ {t} : pc'[p] = pc[p] /\ job'[p] = job[p] /\ seen'[p] = seen[p]
    BY <1>3, <1>t DEF StoreCount, Continue, Finish, Goto, locVars, TypeOK, LocalsOK
  <2>2. \A i : Reporters(i)' = Reporters(i)
    BY <2>1 DEF Reporters
  <2>3. Exists(job[t]) => seen[t].count = Cardinality(Reporters(job[t]))
    BY <1>t, <2>1 DEF CountInv
  <2>4. \A i \in Jobs \ {job[t]} : Recounting(i)' <=> Recounting(i)
    BY <1>t, <2>1 DEF Recounting
  <2>5. ASSUME NEW i \in Jobs, Exists(i), ~ Recounting(i)'
        PROVE  reportCount'[i] = Cardinality(Reporters(i))
    <3>1. CASE i = job[t]
      BY <2>1, <2>3, <2>5, <3>1 DEF TypeOK, TablesOK
    <3>2. CASE i # job[t]
      BY <2>1, <2>4, <2>5, <3>2 DEF CountInv, ReportCountExact, TypeOK, TablesOK
    <3>. QED  BY <3>1, <3>2
  <2>6. ReportCountExact'
    BY <2>1, <2>2, <2>5 DEF ReportCountExact, Exists
  <2>7. ASSUME NEW p \in Procs, pc'[p] = "store", Exists(job[p])'
        PROVE  seen'[p].count = Cardinality(Reporters(job[p]))'
    <3>1. p # t
      BY <2>1, <2>7
    <3>2. Reporters(job[p])' = Reporters(job[p]) /\ Exists(job[p])
      BY <2>1, <2>7, <3>1 DEF Reporters, Exists
    <3>. QED  BY <2>1, <2>7, <3>1, <3>2 DEF CountInv
  <2>. QED  BY <1>j, <2>1, <2>6, <2>7 DEF CountInv
<1>4. ASSUME CountReporters(t) \/ \E S \in SUBSET Jobs : SelectDoomed(t, S) PROVE CountInv'
  <2>1. /\ UNCHANGED <<status, reports, reportCount>>
        /\ pc[t] \notin Counting /\ pc'[t] \notin Counting
        /\ \A p \in Procs \ {t} : pc'[p] = pc[p] /\ job'[p] = job[p] /\ seen'[p] = seen[p]
    <3>1. ASSUME CountReporters(t)
          PROVE  /\ pc'[t] \notin Counting
                 /\ \A p \in Procs \ {t} : pc'[p] = pc[p] /\ job'[p] = job[p] /\ seen'[p] = seen[p]
      <4>1. PICK l \in {"suspect", "tripped", "activate", "idle"} : Continue(t, l)
        BY <3>1 DEF CountReporters, Decision
      <4>. QED  BY <1>t, <4>1 DEF Continue, Finish, Goto, locVars, TypeOK, LocalsOK
    <3>2. ASSUME NEW S \in SUBSET Jobs, SelectDoomed(t, S)
          PROVE  /\ pc'[t] \notin Counting
                 /\ \A p \in Procs \ {t} : pc'[p] = pc[p] /\ job'[p] = job[p] /\ seen'[p] = seen[p]
      BY <1>t, <3>2 DEF SelectDoomed, Goto, TypeOK, LocalsOK
    <3>. QED  BY <1>4, <3>1, <3>2 DEF CountReporters, SelectDoomed, jobVars
  <2>. QED  BY <1>j, <2>1, QuietKeepsCount DEF Exists
<1>5. ASSUME Purge(t) PROVE CountInv'
  <2>1. /\ pc[t] = "purge" /\ reportCount' = reportCount
        /\ pc'[t] \notin Counting
        /\ \A p \in Procs \ {t} : pc'[p] = pc[p] /\ job'[p] = job[p] /\ seen'[p] = seen[p]
        /\ status' = [j \in Jobs |-> IF j \in doomed[t] THEN "gone" ELSE status[j]]
        /\ reports' = {r \in reports : r[2] \notin doomed[t]}
    BY <1>5, <1>t DEF Purge, DeleteRows, Finish, Goto, locVars, TypeOK, LocalsOK
  <2>2. \A i \in Jobs : Recounting(i)' <=> Recounting(i)
    BY <1>t, <2>1 DEF Recounting
  <2>3. ASSUME NEW i \in Jobs, Exists(i)'
        PROVE  Exists(i) /\ Reporters(i)' = Reporters(i)
    BY <2>1, <2>3 DEF Exists, Reporters
  <2>4. ReportCountExact'
    BY <2>1, <2>2, <2>3 DEF CountInv, ReportCountExact
  <2>5. ASSUME NEW p \in Procs, pc'[p] = "store", Exists(job[p])'
        PROVE  seen'[p].count = Cardinality(Reporters(job[p]))'
    <3>1. p # t /\ pc[p] = "store" /\ job'[p] = job[p] /\ job[p] \in Jobs
      BY <1>j, <2>1, <2>5
    <3>2. Reporters(job[p])' = Reporters(job[p]) /\ Exists(job[p])
      BY <2>1, <2>5, <3>1 DEF Reporters, Exists
    <3>. QED  BY <2>1, <3>1, <3>2 DEF CountInv
  <2>. QED  BY <1>j, <2>1, <2>4, <2>5 DEF CountInv
<1>. QED  BY <1>1, <1>2, <1>3, <1>4, <1>5 DEF Serve

\* The verifier and the lifecycle functions change neither a report nor a count.
LEMMA ProcessCount ==
  ASSUME TypeOK, CountInv, NEW p \in Procs, (p \in Checks /\ Verify(p)) \/ Lifecycle(p)
  PROVE  CountInv'
<1>. USE DEF Counting
<1>j. \A q \in Procs : pc[q] \in Counting => job[q] \in Jobs
  BY DEF TypeOK, LocalsOK
<1>1. pc[p] \notin Counting /\ UNCHANGED <<reports, reportCount>>
  BY DEF Verify, PickDropped, PickForCheck, Respond, Lifecycle, ReadStatus, CheckTripped, Bump,
         Reread, Trip, SetStatus, jobVars
<1>2. ASSUME NEW l \in Labels \ Counting, Continue(p, l)
      PROVE  /\ pc'[p] \notin Counting
             /\ \A q \in Procs \ {p} : pc'[q] = pc[q] /\ job'[q] = job[q] /\ seen'[q] = seen[q]
  BY <1>2 DEF Continue, Finish, Goto, locVars, Labels, TypeOK, LocalsOK
<1>3. /\ pc'[p] \notin Counting
      /\ \A q \in Procs \ {p} : pc'[q] = pc[q] /\ job'[q] = job[q] /\ seen'[q] = seen[q]
  <2>1. CASE Verify(p)
    BY <2>1 DEF Verify, PickDropped, PickForCheck, Respond, Goto, TypeOK, LocalsOK
  <2>2. CASE ReadStatus(p)
    <3>1. CASE \E l \in Labels \ Counting : Continue(p, l)
      BY <1>2, <3>1
    <3>2. CASE Finish(p)
      BY <1>2, <3>2 DEF Continue, Labels
    <3>3. CASE Goto(p, "distinct") /\ \E v : seen' = [seen EXCEPT ![p] = v] /\ job' = job
      BY <3>3 DEF Goto, TypeOK, LocalsOK
    <3>. QED  BY <2>2, <3>1, <3>2, <3>3 DEF ReadStatus, Decision, Labels
  <2>3. CASE CheckTripped(p) \/ Reread(p)
    <3>1. \E l \in {"idle", "expire", "bump", "trip"} : Continue(p, l)
      BY <2>3 DEF CheckTripped, Reread
    <3>. QED  BY <1>2, <3>1 DEF Labels
  <2>4. CASE Bump(p)
    BY <2>4 DEF Bump, Goto, TypeOK, LocalsOK
  <2>5. CASE Trip(p) \/ SetStatus(p)
    BY <1>2, <2>5 DEF Trip, SetStatus, Continue, Labels
  <2>. QED  BY <2>1, <2>2, <2>3, <2>4, <2>5 DEF Lifecycle
<1>4. \A i \in Jobs : Exists(i)' => Exists(i)
  BY DEF Verify, PickDropped, PickForCheck, Respond, Lifecycle, ReadStatus, CheckTripped, Bump,
         Reread, Trip, SetStatus, jobVars, Exists, TypeOK, TablesOK
<1>. QED  BY <1>j, <1>1, <1>3, <1>4, QuietKeepsCount

\* Administrators and ingestion delete rows, with their reports, and change no count.
LEMMA EnvironmentCount ==
  ASSUME TypeOK, CountInv, Environment
  PROVE  CountInv'
<1>1. UNCHANGED <<pc, job, seen, reportCount>>
  BY DEF Environment, AdminExpire, AdminReactivate, BulkReactivate, Reactivate,
         SeenInManifest, MissCycle, PruneOld, ClearBreaker, Tick, locVars, jobVars
<1>2. \A i \in Jobs : Exists(i)' => Exists(i) /\ Reporters(i)' = Reporters(i)
  <2>1. ASSUME NEW j \in Jobs, PruneOld(j)
        PROVE  \A i \in Jobs : Exists(i)' => Exists(i) /\ Reporters(i)' = Reporters(i)
    BY <2>1 DEF PruneOld, DeleteRows, Exists, Reporters
  <2>2. ASSUME ~ \E j \in Jobs : PruneOld(j)
        PROVE  reports' = reports /\ \A i \in Jobs : Exists(i)' => Exists(i)
    BY <2>2 DEF Environment, AdminExpire, AdminReactivate, BulkReactivate, Reactivate, Expired,
         SeenInManifest, MissCycle, ClearBreaker, Tick, jobVars, Exists, TypeOK, TablesOK
  <2>. QED  BY <2>1, <2>2 DEF Reporters
<1>3. \A i \in Jobs : Recounting(i)' <=> Recounting(i)
  BY <1>1 DEF Recounting
<1>4. ReportCountExact'
  BY <1>1, <1>2, <1>3 DEF CountInv, ReportCountExact
<1>5. ASSUME NEW p \in Procs, pc'[p] = "store", Exists(job[p])'
      PROVE  seen'[p].count = Cardinality(Reporters(job[p]))'
  <2>1. job[p] \in Jobs /\ pc[p] = "store"
    BY <1>1, <1>5 DEF TypeOK, LocalsOK
  <2>2. Exists(job[p]) /\ Reporters(job[p])' = Reporters(job[p])
    BY <1>1, <1>2, <1>5, <2>1 DEF Reporters, Exists
  <2>. QED  BY <1>1, <2>1, <2>2 DEF CountInv
<1>. QED  BY <1>1, <1>4, <1>5 DEF CountInv

\* report_count is the number of users whose reports stand, whenever no request is
\* between the two, as long as no two requests are between their write and their
\* store for one job: report_job and withdraw_report count the rows and store the
\* number in two statements, and two of them may store in another order than they
\* counted.  Requests for different jobs, the verifier, administrators and
\* ingestion may come between as they like.
THEOREM ReportCountHolds == Spec /\ []Apart => []ReportCountExact
<1>1. Init => CountInv
  <2>. SUFFICES ASSUME Init PROVE CountInv
    OBVIOUS
  <2>1. \A j \in Jobs : Reporters(j) = {}
    BY DEF Init, Reporters
  <2>2. Cardinality({}) = 0
    BY FS_EmptySet
  <2>. QED  BY <2>1, <2>2 DEF Init, CountInv, ReportCountExact, Counting
<1>2. TypeOK /\ CountInv /\ Apart /\ Apart' /\ [Next]_vars => CountInv'
  <2>1. TypeOK /\ CountInv /\ UNCHANGED vars => CountInv'
    <3>. SUFFICES ASSUME TypeOK, CountInv, UNCHANGED vars PROVE CountInv'
      OBVIOUS
    <3>1. \A q \in Procs : pc[q] \in Counting => job[q] \in Jobs
      BY DEF Counting, TypeOK, LocalsOK
    <3>. QED  BY <3>1, QuietKeepsCount DEF vars, Exists
  <2>2. ASSUME TypeOK, CountInv, NEW c \in Checks, Verify(c) PROVE CountInv'
    BY <2>2, ProcessCount DEF Procs
  <2>. QED  BY <2>1, <2>2, ServeCount, ProcessCount, EnvironmentCount DEF Next
<1>3. CountInv => ReportCountExact
  BY DEF CountInv
<1>. QED  BY <1>1, <1>2, <1>3, TypeCorrect, PTL DEF Spec

\* The same of an instance: requests that do not overlap at all are apart.
COROLLARY ReportCountOfOneThread ==
  ASSUME \A s, t \in Threads : s = t
  PROVE  Spec => []ReportCountExact
<1>1. Apart
  BY DEF Apart
<1>. QED  BY <1>1, ReportCountHolds, PTL
=============================================================================
