------------------------- MODULE IngestCycleProofs -------------------------
(***************************************************************************)
(* Proofs about ingestion cycles, for any urls, runs, histories of the     *)
(* manifest and bounds.                                                    *)
(***************************************************************************)
EXTENDS IngestCycle, FiniteSetTheorems, TLAPS

-----------------------------------------------------------------------------
(* Types. *)

Loading == {"upsert", "mark", "finish", "total"}

TablesOK ==
  /\ catalog \in Catalogs /\ version \in Versions /\ outdated \subseteq Urls
  /\ phase \in {"morning", "window", "evening"}
  /\ rows \in [Urls -> Rows]
  /\ last \in 0..MaxVersion /\ lastToday \in BOOLEAN
  /\ today \in [success : BOOLEAN,
                latest : {"none", "success", "skipped", "failed"}]
  /\ due \subseteq {"daily", "startup"}
  /\ swept \subseteq Urls /\ unlisted \subseteq Urls
  /\ ingested \subseteq Versions
  /\ failures \in [ats : 0..MaxAtsFailures, run : 0..MaxFailures]

RunsOK ==
  /\ pc \in [Runs -> Labels]
  /\ run \in [Runs -> Cycles]
  /\ \A c \in Runs \ Underway : run[c] = NoCycle
  /\ \A c \in Underway : pc[c] # "manifest" => run[c].ver \in Versions

\* The loop is held by the one run that is between its loads and its end.
LoopOK ==
  /\ busy \subseteq Loop
  /\ \A c \in Loop : c \in busy <=> pc[c] \in Loading
  /\ \A c, d \in busy : c = d

TypeInv == TablesOK /\ RunsOK /\ LoopOK

LEMMA TypeInvImpliesTypeOK == TypeInv => TypeOK
<1>. SUFFICES ASSUME TypeInv PROVE TypeOK
  OBVIOUS
<1>1. Cardinality(busy) <= 1
  <2>1. busy = {} \/ \E c : busy = {c}
    BY DEF TypeInv, LoopOK
  <2>2. ASSUME NEW c PROVE Cardinality({c}) <= 1
    <3>1. Cardinality({c}) = 1
      BY FS_Singleton
    <3>. QED  BY <3>1
  <2>3. Cardinality({}) <= 1
    BY FS_EmptySet
  <2>. QED  BY <2>1, <2>2, <2>3
<1>2. busy = {c \in Loop : pc[c] \in Loading}
  BY DEF TypeInv, LoopOK
<1>. QED  BY <1>1, <1>2 DEF TypeInv, TablesOK, RunsOK, TypeOK, Loading

LEMMA NoCycleType == NoCycle \in Cycles
BY BoundsAssumption DEF NoCycle, Cycles

LEMMA StartLocals ==
  ASSUME NEW r \in Cycles, NEW force \in BOOLEAN, NEW window \in BOOLEAN,
         NEW outside \in SUBSET Urls
  PROVE  [r EXCEPT !.force = force, !.inWindow = window, !.outside = outside] \in Cycles
BY DEF Cycles

LEMMA BegunType ==
  ASSUME TablesOK, NEW force \in BOOLEAN
  PROVE  Begun(force) \in Cycles
<1>1. (phase # "morning") \in BOOLEAN /\ outdated \in SUBSET Urls
  BY DEF TablesOK
<1>. QED  BY <1>1, NoCycleType, StartLocals, Zenon DEF Begun

LEMMA CappedType ==
  ASSUME NEW max \in Nat, NEW n \in 0 .. max
  PROVE  Capped(n + 1, max) \in 0 .. max
BY DEF Capped

LEMMA TouchedType ==
  ASSUME rows \in [Urls -> Rows], NEW S
  PROVE  Touched(S) \in [Urls -> Rows]
BY BoundsAssumption DEF Touched, Rows

Waiting == {"idle", "lock", "drain"}

\* One run goes to a label with locals that fit it.
LEMMA RunStep ==
  ASSUME RunsOK, NEW c \in Runs, NEW l \in Labels, NEW r \in Cycles,
         pc' = [pc EXCEPT ![c] = l], run' = [run EXCEPT ![c] = r],
         l \in Waiting => r = NoCycle,
         l \notin Waiting \cup {"manifest"} => r.ver \in Versions
  PROVE  RunsOK'
BY DEF RunsOK, Underway, Waiting

LEMMA LocalsStep ==
  ASSUME RunsOK, NEW c \in Underway, NEW r \in Cycles,
         pc' = pc, run' = [run EXCEPT ![c] = r], r.ver = run[c].ver
  PROVE  RunsOK'
BY DEF RunsOK, Underway

\* A run that neither comes to the loads nor leaves them.
LEMMA LoopStep ==
  ASSUME RunsOK, LoopOK, NEW c \in Runs, NEW l \in Labels,
         pc' = [pc EXCEPT ![c] = l], busy' = busy,
         pc[c] \in Loading <=> l \in Loading
  PROVE  LoopOK'
BY DEF RunsOK, LoopOK, Loop, Runs

\* A run that ends leaves no locals, and gives the loop back if it held it.
LEMMA EndTypeInv ==
  ASSUME TypeInv, NEW c \in Runs, End(c)
  PROVE  RunsOK' /\ LoopOK'
<1>1. RunsOK'
  BY RunStep, NoCycleType DEF TypeInv, End, Goto, Labels, Waiting
<1>2. LoopOK'
  BY DEF TypeInv, RunsOK, LoopOK, End, Goto, Labels, Loading, Loop, Runs
<1>. QED  BY <1>1, <1>2

LEMMA LogType ==
  ASSUME TypeInv, NEW c \in Underway, pc[c] # "manifest",
         NEW status \in {"success", "skipped", "failed"}, Log(c, status)
  PROVE  /\ last' \in 0..MaxVersion /\ lastToday' \in BOOLEAN
         /\ today' \in [success : BOOLEAN,
                        latest : {"none", "success", "skipped", "failed"}]
         /\ ingested' \subseteq Versions
<1>. DEFINE Logs == [success : BOOLEAN, latest : {"none", "success", "skipped", "failed"}]
            ok == today.success \/ status = "success"
<1>1. today' = today \/ today' = [success |-> ok, latest |-> status]
  BY DEF Log
<1>2. ok \in BOOLEAN
  BY DEF TypeInv, TablesOK
<1>3. today' \in Logs
  <2>1. ASSUME NEW b \in BOOLEAN PROVE [success |-> b, latest |-> status] \in Logs
    OBVIOUS
  <2>2. today \in Logs
    BY DEF TypeInv, TablesOK
  <2>. HIDE DEF ok, Logs
  <2>. QED  BY <1>1, <1>2, <2>1, <2>2
<1>4. lastToday' \in BOOLEAN
  BY DEF Log, TypeInv, TablesOK
<1>5. run[c].ver \in Versions
  BY DEF TypeInv, RunsOK
<1>6. last' \in 0..MaxVersion /\ ingested' \subseteq Versions
  <2>1. \/ last' = run[c].ver /\ ingested' = ingested \cup {run[c].ver}
        \/ last' = last /\ ingested' = ingested
    BY DEF Log
  <2>2. last \in 0..MaxVersion /\ ingested \subseteq Versions /\ Versions \subseteq 0..MaxVersion
    BY BoundsAssumption DEF TypeInv, TablesOK, Versions
  <2>. QED  BY <1>5, <2>1, <2>2
<1>. QED  BY <1>3, <1>4, <1>6

LEMMA ListedType ==
  ASSUME TypeInv, NEW c \in Underway, pc[c] # "manifest", NEW a
  PROVE  Listed(c, a) \subseteq Urls
BY SourcesAssumption DEF Listed, TypeInv, TablesOK, RunsOK

LEMMA FreshenType ==
  ASSUME RunsOK, NEW S \in SUBSET Urls
  PROVE  /\ Freshen(S) \in [Runs -> Cycles]
         /\ \A d \in Runs : Freshen(S)[d].ver = run[d].ver
         /\ \A d \in Runs \ Underway : Freshen(S)[d] = NoCycle
<1>1. ASSUME NEW r \in Cycles
      PROVE  /\ [r EXCEPT !.fresh = @ \cup S] \in Cycles
             /\ [r EXCEPT !.fresh = @ \cup S].ver = r.ver
  BY DEF Cycles
<1>. QED  BY <1>1 DEF Freshen, RunsOK

LEMMA LoadTypeInv ==
  ASSUME TypeInv, NEW c \in Runs, NEW a, NEW S \in SUBSET Urls, Load(c, a, S)
  PROVE  /\ RunsOK' /\ LoopOK'
         /\ rows' \in [Urls -> Rows] /\ swept' \subseteq Urls /\ unlisted' \subseteq Urls
         /\ UNCHANGED <<upVars, phase, logVars, due>>
<1>1. /\ Freshen(S) \in [Runs -> Cycles]
      /\ \A d \in Runs : Freshen(S)[d].ver = run[d].ver
      /\ \A d \in Runs \ Underway : Freshen(S)[d] = NoCycle
  BY FreshenType DEF TypeInv
<1>2. run' = [Freshen(S) EXCEPT ![c].got = @ \ {a}] /\ pc' = pc /\ c \in Underway
  BY DEF Load, At, Underway
<1>3. ASSUME NEW r \in Cycles
      PROVE  /\ [r EXCEPT !.got = @ \ {a}] \in Cycles
             /\ [r EXCEPT !.got = @ \ {a}].ver = r.ver
  BY DEF Cycles
<1>4. RunsOK'
  BY <1>1, <1>2, <1>3 DEF TypeInv, RunsOK, Underway
<1>. QED  BY <1>4, TouchedType DEF Load, At, Touch, TypeInv, TablesOK, LoopOK

LEMMA InitTypeInv == Init => TypeInv
<1>. SUFFICES ASSUME Init PROVE TypeInv
  OBVIOUS
<1>1. TablesOK
  <2>1. NoRow \in Rows
    BY BoundsAssumption DEF NoRow, Rows
  <2>2. failures \in [ats : 0..MaxAtsFailures, run : 0..MaxFailures]
    BY BoundsAssumption DEF Init
  <2>3. today \in [success : BOOLEAN, latest : {"none", "success", "skipped", "failed"}]
    BY DEF Init, NoLog
  <2>4. rows \in [Urls -> Rows]
    BY <2>1 DEF Init
  <2>5. version \in Versions /\ last \in 0..MaxVersion
    BY BoundsAssumption DEF Init, Versions
  <2>. QED  BY <2>2, <2>3, <2>4, <2>5 DEF Init, TablesOK
<1>2. RunsOK
  BY NoCycleType DEF Init, RunsOK, Underway, Labels
<1>3. LoopOK
  BY DEF Init, LoopOK, Loading, Loop, Runs
<1>. QED  BY <1>1, <1>2, <1>3 DEF TypeInv

LEMMA EnvironmentTypeInv ==
  ASSUME TypeInv, Environment
  PROVE  TypeInv'
<1>. USE DEF TypeInv
<1>1. CASE Publish
  BY <1>1, BoundsAssumption
     DEF Publish, logVars, TablesOK, RunsOK, LoopOK, Underway, Versions
<1>2. CASE IngestHour \/ PollEnd
  BY <1>2 DEF IngestHour, PollEnd, upVars, logVars, TablesOK, RunsOK, LoopOK, Underway
<1>3. CASE Midnight
  <2>1. ASSUME NEW r \in Cycles, r.age < MaxAge
        PROVE  /\ [r EXCEPT !.age = @ + 1] \in Cycles
               /\ [r EXCEPT !.age = @ + 1].ver = r.ver
    <3>1. r.age + 1 \in 0..MaxAge
      BY <2>1, BoundsAssumption DEF Cycles
    <3>. QED  BY <3>1 DEF Cycles
  <2>2. RunsOK'
    BY <1>3, <2>1 DEF Midnight, RunsOK, Underway
  <2>3. rows' \in [Urls -> Rows]
    <3>1. ASSUME NEW r \in Rows PROVE [r EXCEPT !.seen = Capped(@ + 1, MaxAge)] \in Rows
      BY BoundsAssumption, CappedType DEF Rows
    <3>2. NoRow \in Rows
      BY BoundsAssumption DEF NoRow, Rows
    <3>. QED  BY <1>3, <3>1, <3>2 DEF Midnight, TablesOK
  <2>. QED
    BY <1>3, <2>2, <2>3 DEF Midnight, upVars, TablesOK, LoopOK, NoLog
<1>4. CASE Restart
  <2>1. RunsOK' /\ LoopOK'
    BY <1>4, NoCycleType DEF Restart, RunsOK, LoopOK, Underway, Labels, Loading, Loop, Runs
  <2>. QED
    BY <1>4, <2>1, BoundsAssumption DEF Restart, upVars, logVars, TablesOK
<1>5. ASSUME NEW u \in Urls, LeaveWindow(u) PROVE TypeInv'
  BY <1>5 DEF LeaveWindow, logVars, TablesOK, RunsOK, LoopOK, Underway
<1>6. ASSUME NEW u \in Urls, LocalLoad(u) PROVE TypeInv'
  <2>1. RunsOK'
    BY <1>6, FreshenType DEF LocalLoad, RunsOK, Underway
  <2>. QED
    BY <1>6, <2>1, TouchedType DEF LocalLoad, Touch, upVars, logVars, TablesOK, LoopOK
<1>7. ASSUME NEW u \in Urls, Expire(u) \/ ThirtyDaysExpired(u) PROVE TypeInv'
  <2>1. rows' \in [Urls -> Rows]
    BY <1>7 DEF Expire, ThirtyDaysExpired, TablesOK, Rows
  <2>. QED
    BY <1>7, <2>1 DEF Expire, ThirtyDaysExpired, upVars, logVars, TablesOK, RunsOK, LoopOK,
                      Underway
<1>. QED  BY <1>1, <1>2, <1>3, <1>4, <1>5, <1>6, <1>7 DEF Environment

LEMMA StartsTypeInv ==
  ASSUME TypeInv, Starts
  PROVE  TypeInv'
<1>. USE DEF TypeInv
<1>1. ASSUME NEW c \in Runs, DailyFires(c) \/ StartupFires(c) PROVE TypeInv'
  <2>1. pc' = pc \/ pc' = [pc EXCEPT ![c] = "lock"]
    BY <1>1 DEF DailyFires, StartupFires
  <2>2. run' = run /\ busy' = busy /\ pc[c] = "idle"
    BY <1>1 DEF DailyFires, StartupFires
  <2>3. RunsOK'
    BY <2>1, <2>2 DEF RunsOK, Underway, Labels
  <2>4. LoopOK'
    BY <2>1, <2>2 DEF RunsOK, LoopOK, Loading, Labels, Loop, Runs
  <2>. QED
    BY <1>1, <2>3, <2>4 DEF DailyFires, StartupFires, upVars, logVars, TablesOK
<1>2. ASSUME NEW c \in Runs, NEW force \in BOOLEAN, pc[c] = "idle", busy' = busy,
             pc' = [pc EXCEPT ![c] = "manifest"],
             run' = [run EXCEPT ![c] = Begun(force)]
      PROVE  RunsOK' /\ LoopOK'
  BY <1>2, BegunType, RunStep, LoopStep DEF Labels, Loading, Waiting
<1>3. ASSUME NEW c \in Runs, PollFires(c) PROVE TypeInv'
  BY <1>2, <1>3 DEF PollFires, upVars, logVars, TablesOK
<1>4. ASSUME NEW c \in Runs, NEW force \in Forces, StartUnlocked(c, force) PROVE TypeInv'
  BY <1>2, <1>4, SourcesAssumption DEF StartUnlocked, upVars, logVars, TablesOK
<1>. QED  BY <1>1, <1>3, <1>4 DEF Starts

LEMMA FailuresTypeInv ==
  ASSUME TypeInv, Failures
  PROVE  TypeInv'
<1>. USE DEF TypeInv
<1>1. ASSUME NEW c \in Runs, FetchFails(c) \/ KillCli(c) PROVE TypeInv'
  BY <1>1, EndTypeInv, BoundsAssumption DEF FetchFails, KillCli, upVars, logVars, TablesOK
<1>2. ASSUME NEW c \in Runs, CycleFails(c) PROVE TypeInv'
  <2>1. c \in Underway /\ pc[c] # "manifest" /\ Log(c, "failed") /\ End(c)
    BY <1>2 DEF CycleFails, At, Underway
  <2>. QED
    BY <1>2, <2>1, LogType, EndTypeInv, BoundsAssumption DEF CycleFails, upVars, TablesOK
<1>3. ASSUME NEW c \in Runs, NEW a \in Ats, DownloadFails(c, a) PROVE TypeInv'
  <2>. DEFINE r == [run[c] EXCEPT !.todo = @ \ {a}]
  <2>1. r \in Cycles /\ r.ver = run[c].ver
    BY DEF RunsOK, Cycles
  <2>2. run' = [run EXCEPT ![c] = r] /\ pc' = pc /\ c \in Underway
    BY <1>3 DEF DownloadFails, At, Underway
  <2>3. RunsOK'
    BY <2>1, <2>2, LocalsStep
  <2>. QED
    BY <1>3, <2>3, BoundsAssumption DEF DownloadFails, upVars, logVars, TablesOK, LoopOK
<1>4. ASSUME NEW c \in Runs, NEW a \in Ats, ProcessFails(c, a) PROVE TypeInv'
  <2>1. PICK S \in SUBSET Listed(c, a) : Load(c, a, S)
    BY <1>4 DEF ProcessFails
  <2>2. S \in SUBSET Urls
    BY <1>4, ListedType DEF ProcessFails, At, Underway
  <2>. QED
    BY <1>4, <2>1, <2>2, LoadTypeInv, BoundsAssumption
       DEF ProcessFails, TablesOK, upVars, logVars
<1>. QED  BY <1>1, <1>2, <1>3, <1>4 DEF Failures

LEMMA ProceedTypeInv ==
  ASSUME TypeInv, NEW c \in Runs, Proceed(c)
  PROVE  TypeInv'
<1>. USE DEF TypeInv
<1>1. CASE AcquireLock(c)
  <2>1. RunsOK' /\ LoopOK'
    BY <1>1, BegunType, RunStep, LoopStep DEF AcquireLock, Labels, Waiting, Loading
  <2>. QED  BY <1>1, <2>1 DEF AcquireLock, upVars, logVars, TablesOK
<1>2. CASE FetchManifest(c)
  <2>. DEFINE r == [run[c] EXCEPT !.ver = version]
  <2>1. r \in Cycles /\ r.ver \in Versions
    BY BoundsAssumption DEF RunsOK, TablesOK, Cycles, Versions
  <2>2. run' = [run EXCEPT ![c] = r]
    BY <1>2 DEF FetchManifest
  <2>3. RunsOK' /\ LoopOK'
    BY <1>2, <2>1, <2>2, RunStep, LoopStep
       DEF FetchManifest, At, Goto, Labels, Waiting, Loading
  <2>. QED  BY <1>2, <2>3 DEF FetchManifest, upVars, logVars, TablesOK
<1>3. ASSUME NEW filter \in Filters \cup {Ats}, Decide(c, filter) PROVE TypeInv'
  <2>. DEFINE r == [run[c] EXCEPT !.todo = filter]
  <2>1. filter \subseteq Ats
    BY SourcesAssumption
  <2>2. run[c] \in Cycles /\ run[c].ver \in Versions /\ run = [run EXCEPT ![c] = run[c]]
    BY <1>3 DEF RunsOK, Decide, At, Underway
  <2>3. r \in Cycles /\ r.ver = run[c].ver
    BY <2>1, <2>2 DEF Cycles
  <2>4. \/ run' = [run EXCEPT ![c] = r] /\ pc' = [pc EXCEPT ![c] = "download"]
        \/ run' = run /\ pc' = [pc EXCEPT ![c] = "skip"]
    BY <1>3 DEF Decide, Goto
  <2>. HIDE DEF r
  <2>5. RunsOK'
    BY <2>2, <2>3, <2>4, RunStep DEF Labels, Waiting
  <2>6. LoopOK'
    BY <1>3, <2>4, LoopStep DEF Decide, At, Labels, Loading
  <2>. QED  BY <1>3, <2>5, <2>6 DEF Decide, upVars, logVars, TablesOK
<1>4. CASE LogSkipped(c)
  <2>1. c \in Underway /\ pc[c] # "manifest" /\ Log(c, "skipped") /\ End(c)
    BY <1>4 DEF LogSkipped, At, Underway
  <2>. QED  BY <1>4, <2>1, LogType, EndTypeInv DEF LogSkipped, upVars, TablesOK
<1>5. ASSUME NEW a \in Ats, Download(c, a) PROVE TypeInv'
  <2>. DEFINE r == [run[c] EXCEPT !.todo = @ \ {a}, !.got = @ \cup {a}]
  <2>1. run[c] \in Cycles
    BY DEF RunsOK
  <2>2. r \in Cycles /\ r.ver = run[c].ver
    BY <2>1 DEF Cycles
  <2>3. run' = [run EXCEPT ![c] = r] /\ pc' = pc /\ c \in Underway
    BY <1>5 DEF Download, At, Underway, RunsOK
  <2>. HIDE DEF r
  <2>4. RunsOK'
    BY <2>2, <2>3, LocalsStep
  <2>. QED
    BY <1>5, <2>4 DEF Download, upVars, logVars, TablesOK, LoopOK
<1>6. ASSUME NEW a \in Ats, ProcessParquet(c, a) PROVE TypeInv'
  <2>1. Listed(c, a) \in SUBSET Urls
    BY <1>6, ListedType DEF ProcessParquet, Load, At, Underway
  <2>. QED
    BY <1>6, <2>1, LoadTypeInv DEF ProcessParquet, TablesOK, upVars, logVars
<1>7. CASE StartLoading(c)
  <2>1. RunsOK'
    <3>1. run = [run EXCEPT ![c] = run[c]] /\ run[c] \in Cycles /\ run[c].ver \in Versions
      BY <1>7 DEF RunsOK, StartLoading, At, Underway
    <3>. QED  BY <1>7, <3>1, RunStep DEF StartLoading, Goto, Labels, Waiting
  <2>2. LoopOK'
    <3>1. CASE c \in Loop
      <4>1. pc[c] = "download" /\ c \notin Cli
        BY <1>7, <3>1, RunsAssumption DEF StartLoading, At, Loop, Locked
      <4>2. busy = {} /\ busy' = {c}
        BY <1>7, <3>1, <4>1 DEF StartLoading, At, LoopFree, LoopOK, Loading
      <4>. QED  BY <1>7, <3>1, <4>1, <4>2 DEF StartLoading, Goto, RunsOK, LoopOK, Loading, Loop, Runs
    <3>2. CASE c \notin Loop
      BY <1>7, <3>2 DEF StartLoading, Goto, RunsOK, LoopOK, Loop, Runs
    <3>. QED  BY <3>1, <3>2
  <2>. QED  BY <1>7, <2>1, <2>2 DEF StartLoading, upVars, logVars, TablesOK
<1>8. CASE PruneOld(c)
  <2>1. rows' \in [Urls -> Rows]
    BY <1>8, BoundsAssumption DEF PruneOld, TablesOK, NoRow, Rows
  <2>2. RunsOK'
    <3>1. run = [run EXCEPT ![c] = run[c]] /\ run[c] \in Cycles /\ run[c].ver \in Versions
      BY <1>8 DEF RunsOK, PruneOld, At, Underway
    <3>. QED  BY <1>8, <3>1, RunStep DEF PruneOld, Goto, Labels, Waiting
  <2>3. LoopOK'
    BY <1>8, LoopStep DEF PruneOld, At, Goto, Labels, Loading
  <2>. QED  BY <1>8, <2>1, <2>2, <2>3 DEF PruneOld, upVars, logVars, TablesOK
<1>9. CASE MarkManifestDrops(c)
  <2>. DEFINE r == [run[c] EXCEPT !.marked = TRUE]
  <2>1. rows' \in [Urls -> Rows]
    <3>1. ASSUME NEW w \in Rows PROVE [w EXCEPT !.missed = Capped(@ + 1, MaxMissed)] \in Rows
      BY BoundsAssumption, CappedType DEF Rows
    <3>. QED  BY <1>9, <3>1 DEF MarkManifestDrops, TablesOK
  <2>2. run[c] \in Cycles /\ run[c].ver \in Versions
    BY <1>9 DEF RunsOK, MarkManifestDrops, At, Underway
  <2>3. r \in Cycles /\ r.ver = run[c].ver
    BY <2>2 DEF Cycles
  <2>4. run' = [run EXCEPT ![c] = r] /\ pc' = [pc EXCEPT ![c] = "finish"]
    BY <1>9 DEF MarkManifestDrops, Goto
  <2>. HIDE DEF r
  <2>5. RunsOK'
    BY <2>2, <2>3, <2>4, RunStep DEF Labels, Waiting
  <2>6. LoopOK'
    BY <1>9, <2>4, LoopStep DEF MarkManifestDrops, At, Labels, Loading
  <2>. QED
    BY <1>9, <2>1, <2>5, <2>6 DEF MarkManifestDrops, upVars, logVars, TablesOK, Present
<1>10. CASE LogSuccess(c)
  <2>1. c \in Underway /\ pc[c] # "manifest" /\ Log(c, "success")
    BY <1>10 DEF LogSuccess, At, Underway
  <2>2. RunsOK'
    <3>1. run = [run EXCEPT ![c] = run[c]] /\ run[c] \in Cycles /\ run[c].ver \in Versions
      BY <2>1 DEF RunsOK
    <3>. QED  BY <1>10, <3>1, RunStep DEF LogSuccess, Goto, Labels, Waiting
  <2>3. LoopOK'
    BY <1>10, LoopStep DEF LogSuccess, At, Goto, Labels, Loading
  <2>. QED
    BY <1>10, <2>1, <2>2, <2>3, LogType DEF LogSuccess, upVars, TablesOK
<1>11. CASE Return(c)
  <2>1. RunsOK'
    BY <1>11, NoCycleType, RunStep DEF Return, Goto, Labels, Waiting
  <2>2. LoopOK'
    BY <1>11 DEF Return, At, Goto, RunsOK, LoopOK, Labels, Loading, Loop, Runs
  <2>. QED  BY <1>11, <2>1, <2>2 DEF Return, upVars, logVars, TablesOK
<1>12. CASE SweepDrops(c)
  BY <1>12, EndTypeInv DEF SweepDrops, upVars, logVars, TablesOK, Flagged, Present
<1>. QED
  BY <1>1, <1>2, <1>3, <1>4, <1>5, <1>6, <1>7, <1>8, <1>9, <1>10, <1>11, <1>12 DEF Proceed

LEMMA TypesHold == Spec => []TypeInv
<1>1. TypeInv /\ [Next]_vars => TypeInv'
  <2>1. CASE UNCHANGED vars
    BY <2>1 DEF vars, TypeInv, TablesOK, RunsOK, LoopOK, Underway
  <2>. QED  BY <2>1, EnvironmentTypeInv, StartsTypeInv, FailuresTypeInv, ProceedTypeInv DEF Next
<1>. QED  BY <1>1, InitTypeInv, PTL DEF Spec

\* The tables, the locals of every run and the event loop keep their types, and at
\* most one run is between its loads and its end on the loop (run_ingestion awaits
\* nothing there).
THEOREM TypeCorrect == Spec => []TypeOK
BY TypesHold, TypeInvImpliesTypeOK, PTL

\* The event loop and the order of the statements: a run leaves mark only by marking,
\* and finish only by logging its success.
LEMMA StepsInOrder ==
  ASSUME TypeInv, [Next]_vars, NEW c \in Runs
  PROVE  /\ pc[c] = "mark" /\ pc'[c] = "finish" => MarkManifestDrops(c)
         /\ pc[c] = "finish" /\ pc'[c] = "total" => LogSuccess(c)
<1>. SUFFICES ASSUME \/ pc[c] = "mark" /\ pc'[c] = "finish"
                     \/ pc[c] = "finish" /\ pc'[c] = "total"
              PROVE  MarkManifestDrops(c) \/ LogSuccess(c)
  BY DEF MarkManifestDrops, LogSuccess, At
<1>1. ~ Environment
  BY DEF Environment, Publish, IngestHour, PollEnd, Midnight, Restart, LeaveWindow, LocalLoad,
         Expire, ThirtyDaysExpired, TypeInv, RunsOK
<1>2. ~ Starts
  BY DEF Starts, DailyFires, StartupFires, PollFires, StartUnlocked, TypeInv, RunsOK
<1>3. ~ Failures
  BY DEF Failures, FetchFails, CycleFails, KillCli, DownloadFails, ProcessFails, End, Goto, Load,
         TypeInv, RunsOK
<1>4. ASSUME NEW d \in Runs, Proceed(d) PROVE MarkManifestDrops(c) \/ LogSuccess(c)
  <2>1. d = c
    BY <1>4 DEF Proceed, AcquireLock, FetchManifest, Decide, LogSkipped, Download, ProcessParquet,
               Load, StartLoading, PruneOld, MarkManifestDrops, LogSuccess, Return, SweepDrops,
               End, Goto, TypeInv, RunsOK
  <2>. QED
    BY <1>4, <2>1 DEF Proceed, AcquireLock, FetchManifest, Decide, LogSkipped, Download,
               ProcessParquet, Load, StartLoading, PruneOld, Return, SweepDrops,
               At, End, Goto, TypeInv, RunsOK
<1>5. ~ UNCHANGED vars
  BY DEF vars
<1>. QED  BY <1>1, <1>2, <1>3, <1>4, <1>5 DEF Next
-----------------------------------------------------------------------------
(* No row that nobody upserted during a cycle escapes its marking. *)

\* A row not upserted since a cycle began is at least as old as the cycle.
SeenInv == \A c \in Underway : \A u \in Present \ run[c].fresh : rows[u].seen >= run[c].age

\* Whatever is touched is fresh for every run underway.
LEMMA TouchKeepsSeen ==
  ASSUME TypeInv, SeenInv, NEW S \in SUBSET Urls, Touch(S), pc' = pc,
         \A c \in Underway : /\ run'[c].fresh = run[c].fresh \cup S
                             /\ run'[c].age = run[c].age
  PROVE  SeenInv'
<1>. SUFFICES ASSUME NEW c \in Underway, NEW u \in Urls, rows'[u].status # "none",
                     u \notin run[c].fresh \cup S
              PROVE  rows'[u].seen >= run[c].age
  BY DEF SeenInv, Underway, Present
<1>1. rows'[u] = rows[u]
  BY DEF Touch, Touched
<1>. QED  BY <1>1 DEF SeenInv, Present

LEMMA FreshenSeen ==
  ASSUME TypeInv, NEW S, NEW c \in Underway
  PROVE  Freshen(S)[c].fresh = run[c].fresh \cup S /\ Freshen(S)[c].age = run[c].age
BY DEF Freshen, TypeInv, RunsOK, Underway, Cycles

LEMMA LoadKeepsSeen ==
  ASSUME TypeInv, SeenInv, NEW c \in Runs, NEW a, NEW S \in SUBSET Urls, Load(c, a, S)
  PROVE  SeenInv'
<1>1. ASSUME NEW d \in Underway
      PROVE  run'[d].fresh = run[d].fresh \cup S /\ run'[d].age = run[d].age
  <2>1. Freshen(S)[d].fresh = run[d].fresh \cup S /\ Freshen(S)[d].age = run[d].age
    BY FreshenSeen
  <2>2. d \in DOMAIN Freshen(S)
    BY DEF Freshen, Underway
  <2>3. Freshen(S)[c] \in Cycles
    BY FreshenType DEF TypeInv
  <2>. QED  BY <2>1, <2>2, <2>3 DEF Load, Cycles
<1>. QED  BY <1>1, TouchKeepsSeen DEF Load

\* A run whose age and fresh rows stay, or that begins or ends, while the rows it is
\* compared with stay or go.
LEMMA FewerRowsKeepSeen ==
  ASSUME TypeInv, SeenInv,
         \A u \in Urls : rows'[u].status # "none" =>
             rows[u].status # "none" /\ rows'[u].seen = rows[u].seen,
         \A c \in Underway' : \/ c \in Underway /\ run'[c].age = run[c].age
                                  /\ run'[c].fresh = run[c].fresh
                              \/ run'[c].age = 0
  PROVE  SeenInv'
<1>. SUFFICES ASSUME NEW c \in Underway', NEW u \in Urls, rows'[u].status # "none",
                     u \notin run'[c].fresh
              PROVE  rows'[u].seen >= run'[c].age
  BY DEF SeenInv, Present
<1>1. rows[u].seen \in Nat /\ rows'[u].seen = rows[u].seen /\ u \in Present
  BY BoundsAssumption DEF TypeInv, TablesOK, Rows, Present
<1>. QED  BY <1>1 DEF SeenInv

LEMMA SameRowsKeepSeen ==
  ASSUME TypeInv, SeenInv, rows' = rows,
         \A c \in Underway' : \/ c \in Underway /\ run'[c].age = run[c].age
                                  /\ run'[c].fresh = run[c].fresh
                              \/ run'[c].age = 0
  PROVE  SeenInv'
BY FewerRowsKeepSeen

LEMMA SeenStep ==
  ASSUME TypeInv, SeenInv, [Next]_vars
  PROVE  SeenInv'
<1>1. CASE Environment
  <2>1. CASE Midnight
    <3>. SUFFICES ASSUME NEW c \in Underway, NEW u \in Present \ run[c].fresh
                  PROVE  rows'[u].seen >= run'[c].age
      BY <2>1 DEF Midnight, SeenInv, Underway, Present, NoRow, TypeInv, RunsOK, Cycles
    <3>1. rows[u].seen \in 0..MaxAge /\ run[c].age \in 0..MaxAge /\ run[c].age < MaxAge
      BY <2>1 DEF Midnight, TypeInv, TablesOK, RunsOK, Rows, Cycles, Present, Underway
    <3>2. rows'[u].seen = Capped(rows[u].seen + 1, MaxAge) /\ run'[c].age = run[c].age + 1
      BY <2>1 DEF Midnight, TypeInv, TablesOK, RunsOK, Rows, Cycles, Present, Underway
    <3>3. rows[u].seen >= run[c].age
      BY DEF SeenInv
    <3>. QED  BY <3>1, <3>2, <3>3, BoundsAssumption DEF Capped
  <2>2. ASSUME NEW u \in Urls, LocalLoad(u) PROVE SeenInv'
    BY <2>2, FreshenSeen, TouchKeepsSeen DEF LocalLoad
  <2>3. ASSUME NEW u \in Urls, Expire(u) \/ ThirtyDaysExpired(u) PROVE SeenInv'
    <3>1. \A w \in Urls : rows'[w].status # "none" =>
             rows[w].status # "none" /\ rows'[w].seen = rows[w].seen
      BY <2>3 DEF Expire, ThirtyDaysExpired, TypeInv, TablesOK, Rows
    <3>. QED
      BY <2>3, <3>1, FewerRowsKeepSeen DEF Expire, ThirtyDaysExpired, Underway
  <2>4. CASE Restart
    BY <2>4, SameRowsKeepSeen DEF Restart, Underway, TypeInv, RunsOK, Loop
  <2>. QED
    BY <1>1, <2>1, <2>2, <2>3, <2>4, SameRowsKeepSeen
       DEF Environment, Publish, IngestHour, PollEnd, LeaveWindow, Underway
<1>2. CASE Starts
  <2>1. \A force : Begun(force).age = 0
    BY DEF Begun, NoCycle
  <2>2. PICK d \in Runs : \/ DailyFires(d) \/ StartupFires(d) \/ PollFires(d)
                          \/ \E force \in Forces : StartUnlocked(d, force)
    BY <1>2 DEF Starts
  <2>3. rows' = rows
    BY <2>2 DEF DailyFires, StartupFires, PollFires, StartUnlocked
  <2>4. \A c \in Underway' : \/ c \in Underway /\ run'[c] = run[c]
                             \/ run'[c].age = 0
    <3>1. CASE DailyFires(d) \/ StartupFires(d)
      BY <3>1 DEF DailyFires, StartupFires, Underway, TypeInv, RunsOK
    <3>2. CASE PollFires(d)
      BY <2>1, <3>2 DEF PollFires, Underway, TypeInv, RunsOK
    <3>3. ASSUME NEW force, StartUnlocked(d, force)
          PROVE  \A c \in Underway' : (c \in Underway /\ run'[c] = run[c]) \/ run'[c].age = 0
      BY <2>1, <3>3 DEF StartUnlocked, Underway, TypeInv, RunsOK
    <3>. QED  BY <2>2, <3>1, <3>2, <3>3
  <2>. QED  BY <2>3, <2>4, SameRowsKeepSeen
<1>3. CASE Failures
  <2>1. ASSUME NEW c \in Runs, NEW a \in Ats, ProcessFails(c, a) PROVE SeenInv'
    <3>1. PICK S \in SUBSET Listed(c, a) : Load(c, a, S)
      BY <2>1 DEF ProcessFails
    <3>2. S \in SUBSET Urls
      BY <2>1, ListedType DEF ProcessFails, At, Underway
    <3>. QED  BY <3>1, <3>2, LoadKeepsSeen
  <2>2. ASSUME NEW c \in Runs, NEW a \in Ats, DownloadFails(c, a) PROVE SeenInv'
    BY <2>2, SameRowsKeepSeen DEF DownloadFails, Underway, TypeInv, RunsOK, Cycles
  <2>3. ASSUME NEW c \in Runs, FetchFails(c) \/ CycleFails(c) \/ KillCli(c) PROVE SeenInv'
    BY <2>3, SameRowsKeepSeen
       DEF FetchFails, CycleFails, KillCli, End, Goto, Underway, TypeInv, RunsOK
  <2>. QED  BY <1>3, <2>1, <2>2, <2>3 DEF Failures
<1>4. ASSUME NEW c \in Runs, Proceed(c) PROVE SeenInv'
  <2>1. CASE AcquireLock(c)
    <3>1. Begun(FALSE).age = 0
      BY DEF Begun, NoCycle
    <3>. QED
      BY <2>1, <3>1, SameRowsKeepSeen DEF AcquireLock, Underway, TypeInv, RunsOK
  <2>2. ASSUME NEW a \in Ats, ProcessParquet(c, a) PROVE SeenInv'
    BY <2>2, ListedType, LoadKeepsSeen DEF ProcessParquet, Load, At, Underway
  <2>3. CASE PruneOld(c)
    <3>1. \A u \in Urls : rows'[u].status # "none" =>
             rows[u].status # "none" /\ rows'[u].seen = rows[u].seen
      BY <2>3 DEF PruneOld, NoRow
    <3>. QED
      BY <2>3, <3>1, FewerRowsKeepSeen DEF PruneOld, At, Goto, Underway, TypeInv, RunsOK
  <2>4. CASE MarkManifestDrops(c)
    <3>1. \A u \in Urls : rows'[u].status # "none" =>
             rows[u].status # "none" /\ rows'[u].seen = rows[u].seen
      BY <2>4 DEF MarkManifestDrops, TypeInv, TablesOK, Rows
    <3>2. \A d \in Underway' : d \in Underway /\ run'[d].age = run[d].age
                                  /\ run'[d].fresh = run[d].fresh
      BY <2>4 DEF MarkManifestDrops, At, Goto, Underway, TypeInv, RunsOK, Cycles
    <3>. QED  BY <3>1, <3>2, FewerRowsKeepSeen
  <2>5. CASE \/ FetchManifest(c) \/ \E filter \in Filters \cup {Ats} : Decide(c, filter)
             \/ \E a \in Ats : Download(c, a)
    <3>1. rows' = rows /\ \A d \in Underway' : /\ d \in Underway /\ run'[d].age = run[d].age
                                               /\ run'[d].fresh = run[d].fresh
      <4>1. CASE FetchManifest(c)
        BY <4>1 DEF FetchManifest, At, Goto, Underway, TypeInv, RunsOK, Cycles
      <4>2. ASSUME NEW filter, Decide(c, filter)
            PROVE  rows' = rows /\ \A d \in Underway' : /\ d \in Underway /\ run'[d].age = run[d].age
                                                       /\ run'[d].fresh = run[d].fresh
        BY <4>2 DEF Decide, At, Goto, Underway, TypeInv, RunsOK, Cycles
      <4>3. ASSUME NEW a, Download(c, a)
            PROVE  rows' = rows /\ \A d \in Underway' : /\ d \in Underway /\ run'[d].age = run[d].age
                                                       /\ run'[d].fresh = run[d].fresh
        BY <4>3 DEF Download, At, Underway, TypeInv, RunsOK, Cycles
      <4>. QED  BY <2>5, <4>1, <4>2, <4>3
    <3>. QED  BY <3>1, SameRowsKeepSeen
  <2>6. CASE LogSkipped(c) \/ StartLoading(c) \/ LogSuccess(c) \/ Return(c) \/ SweepDrops(c)
    BY <2>6, SameRowsKeepSeen
       DEF LogSkipped, StartLoading, LogSuccess, Return, SweepDrops, At, End, Goto, Underway,
           TypeInv, RunsOK
  <2>. QED  BY <1>4, <2>1, <2>2, <2>3, <2>4, <2>5, <2>6 DEF Proceed
<1>5. CASE UNCHANGED vars
  BY <1>5 DEF vars, SeenInv, Underway, Present
<1>. QED  BY <1>1, <1>2, <1>3, <1>4, <1>5 DEF Next

\* mark_manifest_drops counts every row that no run, local scrape or command line upserted
\* since the cycle started, however days pass and runs overlap, fail or are killed: the
\* text comparison of dates never takes an older row for a newer one.
THEOREM NoDropEscapes == Spec => DropsNeverEscape
<1>1. Init => SeenInv
  BY DEF Init, SeenInv, Underway
<1>2. TypeInv /\ SeenInv /\ [Next]_vars
        => [\A c \in Runs : pc[c] = "mark" /\ pc'[c] = "finish" =>
              \A u \in Present \ run[c].fresh :
                rows'[u].missed = Capped(rows[u].missed + 1, MaxMissed)]_vars
  <2>. SUFFICES ASSUME TypeInv, SeenInv, [Next]_vars, NEW c \in Runs,
                       pc[c] = "mark", pc'[c] = "finish", NEW u \in Present \ run[c].fresh
                PROVE  rows'[u].missed = Capped(rows[u].missed + 1, MaxMissed)
    OBVIOUS
  <2>1. MarkManifestDrops(c)
    BY StepsInOrder
  <2>2. Older(u, c)
    BY DEF SeenInv, Older, Underway
  <2>. QED
    BY <2>1, <2>2 DEF MarkManifestDrops, Present, TypeInv, TablesOK, Rows
<1>. QED  BY <1>1, <1>2, SeenStep, TypesHold, PTL DEF Spec, DropsNeverEscape
-----------------------------------------------------------------------------
(* No version is ingested twice by unforced runs that do not overlap. *)

Ingesting == {"download", "upsert", "mark", "finish"}

\* One run at a time, and none forced: the lock sees to it among the scheduler's
\* runs, nothing does where requests and the command line start others.
Sole == \A c, d \in Underway : c = d /\ run[c].force = FALSE

\* The latest success is of the latest version ingested; a run underway has fetched a
\* version that is no older, and one that it goes on to ingest is newer.
OnceInv ==
  /\ \A v \in ingested : v <= last
  /\ last <= version
  /\ \A c \in Underway :
       /\ pc[c] # "manifest" => last <= run[c].ver /\ run[c].ver <= version
       /\ pc[c] \in Ingesting => run[c].ver # last

\* Steps that log no success and start no run.
LEMMA QuietKeepsOnce ==
  ASSUME TypeInv, OnceInv, last' = last, ingested' = ingested,
         version' = version \/ version' = version + 1, Underway' \subseteq Underway,
         \A c \in Underway' : /\ run'[c].ver = run[c].ver
                              /\ pc'[c] # "manifest" => pc[c] # "manifest"
                              /\ pc'[c] \in Ingesting => pc[c] \in Ingesting
  PROVE  OnceInv'
<1>1. version \in Int /\ last \in Int /\ \A c \in Underway : run[c].ver \in Int
  BY DEF TypeInv, TablesOK, RunsOK, Versions, Cycles, Underway
<1>. QED  BY <1>1 DEF OnceInv

\* A run that starts is the only one.
LEMMA StartKeepsOnce ==
  ASSUME TypeInv, OnceInv, Sole', NEW d \in Runs,
         UNCHANGED <<last, ingested, version>>, pc' = [pc EXCEPT ![d] = "manifest"]
  PROVE  OnceInv'
<1>1. pc'[d] = "manifest" /\ d \in Underway'
  BY DEF Underway, TypeInv, RunsOK
<1>2. Underway' = {d}
  BY <1>1 DEF Sole
<1>. QED  BY <1>1, <1>2 DEF OnceInv, Ingesting

LEMMA ProceedKeepsOnce ==
  ASSUME TypeInv, OnceInv, Sole, Sole', NEW c \in Runs, Proceed(c)
  PROVE  OnceInv'
<1>1. CASE AcquireLock(c)
  BY <1>1, StartKeepsOnce DEF AcquireLock, logVars, upVars
<1>2. CASE FetchManifest(c)
  <2>1. c \in Underway
    BY <1>2 DEF FetchManifest, At, Underway
  <2>2. Underway' = {c} /\ run'[c].ver = version /\ pc'[c] = "decide"
    BY <1>2, <2>1 DEF FetchManifest, At, Goto, Underway, Sole, TypeInv, RunsOK, Cycles
  <2>3. UNCHANGED <<last, ingested, version>> /\ version \in Int
    BY <1>2 DEF FetchManifest, upVars, logVars, TypeInv, TablesOK, Versions
  <2>. QED  BY <2>2, <2>3 DEF OnceInv, Ingesting
<1>3. ASSUME NEW filter, Decide(c, filter) PROVE OnceInv'
  <2>1. c \in Underway /\ pc[c] = "decide"
    BY <1>3 DEF Decide, At, Underway
  <2>2. /\ Underway' = {c} /\ run'[c].ver = run[c].ver
        /\ \/ pc'[c] = "skip"
           \/ pc'[c] = "download" /\ run[c].ver # last
    <3>1. run[c].force = FALSE /\ \A d \in Underway : d = c
      BY <2>1 DEF Sole
    <3>2. \/ pc' = [pc EXCEPT ![c] = "skip"] /\ run' = run
          \/ /\ pc' = [pc EXCEPT ![c] = "download"] /\ run[c].ver # last
             /\ run' = [run EXCEPT ![c].todo = filter]
      BY <1>3, <3>1 DEF Decide, ShouldIngest, Goto
    <3>3. pc'[c] \in {"skip", "download"} /\ \A d \in Runs \ {c} : pc'[d] = pc[d]
      BY <3>2 DEF TypeInv, RunsOK
    <3>4. run'[c].ver = run[c].ver
      BY <3>2 DEF TypeInv, RunsOK, Cycles
    <3>5. pc'[c] = "download" => run[c].ver # last
      BY <3>2 DEF TypeInv, RunsOK
    <3>6. Underway' = {c}
      BY <2>1, <3>1, <3>3 DEF Underway
    <3>. QED  BY <3>3, <3>4, <3>5, <3>6
  <2>3. UNCHANGED <<last, ingested, version>>
    BY <1>3 DEF Decide, upVars, logVars
  <2>. QED  BY <2>1, <2>2, <2>3 DEF OnceInv, Ingesting
<1>4. ASSUME NEW a \in Ats, Download(c, a) PROVE OnceInv'
  BY <1>4, QuietKeepsOnce
     DEF Download, At, upVars, logVars, Underway, TypeInv, RunsOK, Cycles
<1>5. ASSUME NEW a \in Ats, ProcessParquet(c, a) PROVE OnceInv'
  <2>1. \A d \in Underway : run'[d].ver = run[d].ver
    BY <1>5 DEF ProcessParquet, Load, Freshen, Underway, TypeInv, RunsOK, Cycles
  <2>. QED
    BY <1>5, <2>1, QuietKeepsOnce DEF ProcessParquet, Load, upVars, logVars, Underway
<1>6. CASE StartLoading(c) \/ PruneOld(c) \/ MarkManifestDrops(c)
  <2>1. UNCHANGED <<last, ingested, version>>
    BY <1>6 DEF StartLoading, PruneOld, MarkManifestDrops, upVars, logVars
  <2>2. \A d \in Runs : /\ run'[d].ver = run[d].ver
                        /\ pc'[d] # pc[d] => d = c
    BY <1>6 DEF StartLoading, PruneOld, MarkManifestDrops, At, Goto, TypeInv, RunsOK, Cycles
  <2>3. pc[c] \in Ingesting /\ pc'[c] \in Ingesting
    BY <1>6 DEF StartLoading, PruneOld, MarkManifestDrops, At, Goto, TypeInv, RunsOK, Ingesting
  <2>. QED  BY <2>1, <2>2, <2>3, QuietKeepsOnce DEF Underway, Ingesting
<1>7. CASE LogSuccess(c)
  <2>1. c \in Underway /\ pc[c] \in Ingesting /\ pc[c] # "manifest"
    BY <1>7 DEF LogSuccess, At, Underway, Ingesting
  <2>2. /\ last' = run[c].ver /\ ingested' = ingested \cup {run[c].ver}
        /\ version' = version /\ run' = run
    BY <1>7 DEF LogSuccess, Log, upVars
  <2>3. Underway' = {c} /\ pc'[c] = "total"
    BY <1>7, <2>1 DEF LogSuccess, Goto, Underway, Sole, TypeInv, RunsOK
  <2>4. version \in Int /\ last \in Int /\ run[c].ver \in Int /\ ingested \subseteq Int
    BY <2>1 DEF TypeInv, TablesOK, RunsOK, Versions
  <2>5. last <= run[c].ver /\ run[c].ver <= version
    BY <2>1 DEF OnceInv
  <2>6. \A v \in ingested' : v <= last'
    BY <2>2, <2>4, <2>5 DEF OnceInv
  <2>7. \A d \in Underway' : /\ last' <= run'[d].ver
                            /\ run'[d].ver <= version' /\ pc'[d] \notin Ingesting
    BY <2>2, <2>3, <2>4, <2>5 DEF Ingesting
  <2>. QED  BY <2>2, <2>3, <2>5, <2>6, <2>7 DEF OnceInv
<1>8. CASE LogSkipped(c) \/ Return(c) \/ SweepDrops(c)
  <2>1. UNCHANGED <<last, ingested, version>>
    BY <1>8 DEF LogSkipped, Log, Return, SweepDrops, upVars, logVars
  <2>2. /\ \A d \in Runs : d # c => run'[d] = run[d] /\ pc'[d] = pc[d]
        /\ pc'[c] \in {"idle", "drain"}
    BY <1>8 DEF LogSkipped, Return, SweepDrops, End, Goto, TypeInv, RunsOK
  <2>. QED  BY <2>1, <2>2, QuietKeepsOnce DEF Underway
<1>. QED
  BY <1>1, <1>2, <1>3, <1>4, <1>5, <1>6, <1>7, <1>8 DEF Proceed

LEMMA OnceStep ==
  ASSUME TypeInv, OnceInv, Sole, Sole', [Next]_vars
  PROVE  OnceInv'
<1>1. CASE Environment
  <2>1. UNCHANGED <<last, ingested>> /\ (version' = version \/ version' = version + 1)
    BY <1>1 DEF Environment, Publish, IngestHour, PollEnd, Midnight, Restart, LeaveWindow,
                LocalLoad, Touch, Expire, ThirtyDaysExpired, upVars, logVars
  <2>2. Underway' \subseteq Underway /\ \A c \in Underway' : pc'[c] = pc[c]
    BY <1>1 DEF Environment, Publish, IngestHour, PollEnd, Midnight, Restart, LeaveWindow,
                LocalLoad, Touch, Expire, ThirtyDaysExpired, Underway
  <2>3. \A c \in Underway' : run'[c].ver = run[c].ver
    <3>1. CASE Midnight
      BY <2>2, <3>1 DEF Midnight, Underway, TypeInv, RunsOK, Cycles
    <3>2. ASSUME NEW u, LocalLoad(u)
          PROVE  \A c \in Underway' : run'[c].ver = run[c].ver
      BY <2>2, <3>2 DEF LocalLoad, Freshen, Underway, TypeInv, RunsOK, Cycles
    <3>3. CASE Restart
      BY <3>3 DEF Restart, Underway, TypeInv, RunsOK
    <3>. QED
      BY <1>1, <3>1, <3>2, <3>3 DEF Environment, Publish, IngestHour, PollEnd, LeaveWindow,
                                   Expire, ThirtyDaysExpired
  <2>. QED  BY <2>1, <2>2, <2>3, QuietKeepsOnce
<1>2. CASE Starts
  <2>1. PICK d \in Runs : \/ DailyFires(d) \/ StartupFires(d) \/ PollFires(d)
                          \/ \E force \in Forces : StartUnlocked(d, force)
    BY <1>2 DEF Starts
  <2>2. CASE DailyFires(d) \/ StartupFires(d)
    <3>1. UNCHANGED <<last, ingested, version, run>> /\ Underway' \subseteq Underway
          /\ \A c \in Underway' : pc'[c] = pc[c]
      BY <2>2 DEF DailyFires, StartupFires, upVars, logVars, Underway, TypeInv, RunsOK
    <3>. QED  BY <3>1, QuietKeepsOnce
  <2>3. CASE PollFires(d) \/ \E force \in Forces : StartUnlocked(d, force)
    BY <2>3, StartKeepsOnce DEF PollFires, StartUnlocked, upVars, logVars
  <2>. QED  BY <2>1, <2>2, <2>3
<1>3. CASE Failures
  <2>1. UNCHANGED <<last, ingested, version>>
    BY <1>3 DEF Failures, FetchFails, CycleFails, KillCli, DownloadFails, ProcessFails, Load,
                Log, upVars, logVars
  <2>2. /\ Underway' \subseteq Underway
        /\ \A c \in Underway' : /\ pc'[c] = pc[c]
                                /\ run'[c].ver = run[c].ver
    <3>1. ASSUME NEW c \in Runs, FetchFails(c) \/ CycleFails(c) \/ KillCli(c) PROVE <2>2!:
      BY <3>1 DEF FetchFails, CycleFails, KillCli, End, Goto, Underway, TypeInv, RunsOK
    <3>2. ASSUME NEW c \in Runs, NEW a, DownloadFails(c, a) PROVE <2>2!:
      BY <3>2 DEF DownloadFails, Underway, TypeInv, RunsOK, Cycles
    <3>3. ASSUME NEW c \in Runs, NEW a, ProcessFails(c, a) PROVE <2>2!:
      BY <3>3 DEF ProcessFails, Load, Freshen, Underway, TypeInv, RunsOK, Cycles
    <3>. QED  BY <1>3, <3>1, <3>2, <3>3 DEF Failures
  <2>. QED  BY <2>1, <2>2, QuietKeepsOnce
<1>4. ASSUME NEW c \in Runs, Proceed(c) PROVE OnceInv'
  BY <1>4, ProceedKeepsOnce
<1>5. CASE UNCHANGED vars
  BY <1>5 DEF vars, OnceInv, Underway
<1>. QED  BY <1>1, <1>2, <1>3, <1>4, <1>5 DEF Next

\* Unless a run is forced or two overlap, no version of the manifest is ingested twice,
\* whoever starts the runs and whatever fails, restarts, is published meanwhile or
\* found missed by the poll (should_ingest).
THEOREM TwiceNeedsOverlap == Spec /\ []Sole => OncePerVersion
<1>1. Init => OnceInv
  BY DEF Init, OnceInv, Underway
<1>2. TypeInv /\ OnceInv /\ Sole /\ Sole' /\ [Next]_vars => OnceInv'
  BY OnceStep
<1>3. TypeInv /\ OnceInv /\ [Next]_vars
        => [\A c \in Runs :
              pc[c] = "finish" /\ pc'[c] = "total" => run[c].ver \notin ingested]_vars
  <2>. SUFFICES ASSUME TypeInv, OnceInv, [Next]_vars, NEW c \in Runs, pc[c] = "finish",
                       run[c].ver \in ingested
                PROVE  FALSE
    OBVIOUS
  <2>1. c \in Underway /\ run[c].ver \in Int /\ last \in Int
    BY DEF Underway, TypeInv, TablesOK, RunsOK, Cycles
  <2>. QED  BY <2>1 DEF OnceInv, Ingesting
<1>. QED  BY <1>1, <1>2, <1>3, TypesHold, PTL DEF Spec, OncePerVersion

\* The scheduler's runs take the lock, the poll after it has looked whether it is free.
LEMMA LockKeepsSole ==
  ASSUME TypeInv, Sole, Manual = {}, Cli = {}, [Next]_vars
  PROVE  Sole'
<1>0. Runs = Locked /\ LockHolders = Underway
  BY DEF Runs, Loop, LockHolders, Underway
<1>a. ASSUME Underway' \subseteq Underway, \A c \in Underway' : run'[c].force = run[c].force
      PROVE  Sole'
  BY <1>a DEF Sole
<1>b. ASSUME NEW d \in Runs, LockHolders = {}, pc' = [pc EXCEPT ![d] = "manifest"],
             run' = [run EXCEPT ![d] = Begun(FALSE)]
      PROVE  Sole'
  <2>1. Begun(FALSE).force = FALSE
    BY DEF Begun, NoCycle
  <2>2. Underway' = {d} /\ run'[d].force = FALSE
    BY <1>0, <1>b, <2>1 DEF Underway, TypeInv, RunsOK
  <2>. QED  BY <2>2 DEF Sole
<1>1. CASE Environment
  <2>1. Underway' \subseteq Underway
    BY <1>1 DEF Environment, Publish, IngestHour, PollEnd, Midnight, Restart, LeaveWindow,
                LocalLoad, Expire, ThirtyDaysExpired, Underway
  <2>2. \A c \in Underway' : run'[c].force = run[c].force
    <3>1. CASE Midnight
      BY <2>1, <3>1 DEF Midnight, Underway, TypeInv, RunsOK, Cycles
    <3>2. ASSUME NEW u, LocalLoad(u) PROVE \A c \in Underway' : run'[c].force = run[c].force
      BY <2>1, <3>2 DEF LocalLoad, Freshen, Underway, TypeInv, RunsOK, Cycles
    <3>3. CASE Restart
      BY <3>3 DEF Restart, Underway, TypeInv, RunsOK
    <3>. QED
      BY <1>1, <3>1, <3>2, <3>3 DEF Environment, Publish, IngestHour, PollEnd, LeaveWindow,
                                   Expire, ThirtyDaysExpired
  <2>. QED  BY <1>a, <2>1, <2>2
<1>2. CASE Starts
  <2>1. PICK d \in Runs : DailyFires(d) \/ StartupFires(d) \/ PollFires(d)
    BY <1>2 DEF Starts, StartUnlocked
  <2>2. CASE DailyFires(d) \/ StartupFires(d)
    BY <1>a, <2>2 DEF DailyFires, StartupFires, Underway, TypeInv, RunsOK
  <2>. QED  BY <1>b, <2>1, <2>2 DEF PollFires
<1>3. CASE Failures
  <2>1. /\ Underway' \subseteq Underway
        /\ \A c \in Underway' : run'[c].force = run[c].force
    <3>1. ASSUME NEW c \in Runs, FetchFails(c) \/ CycleFails(c) \/ KillCli(c) PROVE <2>1!:
      BY <3>1 DEF FetchFails, CycleFails, KillCli, End, Goto, Underway, TypeInv, RunsOK
    <3>2. ASSUME NEW c \in Runs, NEW a, DownloadFails(c, a) PROVE <2>1!:
      BY <3>2 DEF DownloadFails, Underway, TypeInv, RunsOK, Cycles
    <3>3. ASSUME NEW c \in Runs, NEW a, ProcessFails(c, a) PROVE <2>1!:
      BY <3>3 DEF ProcessFails, Load, Freshen, Underway, TypeInv, RunsOK, Cycles
    <3>. QED  BY <1>3, <3>1, <3>2, <3>3 DEF Failures
  <2>. QED  BY <1>a, <2>1
<1>4. ASSUME NEW c \in Runs, Proceed(c) PROVE Sole'
  <2>1. CASE AcquireLock(c)
    BY <1>b, <2>1 DEF AcquireLock
  <2>2. ASSUME NEW a \in Ats, ProcessParquet(c, a) PROVE Sole'
    BY <1>a, <2>2 DEF ProcessParquet, Load, Freshen, Underway, TypeInv, RunsOK, Cycles
  <2>3. CASE ~ AcquireLock(c) /\ ~ \E a \in Ats : ProcessParquet(c, a)
    <3>1. \A d \in Runs : /\ run'[d].force = run[d].force \/ pc'[d] \in {"idle", "drain"}
                          /\ d # c => pc'[d] = pc[d]
      <4>1. ASSUME FetchManifest(c) PROVE <3>1!:
        BY <4>1 DEF FetchManifest, Goto, TypeInv, RunsOK, Cycles
      <4>0. ASSUME NEW a, Download(c, a) PROVE <3>1!:
        BY <4>0 DEF Download, TypeInv, RunsOK, Cycles
      <4>2. ASSUME NEW filter, Decide(c, filter) PROVE <3>1!:
        <5>1. \/ pc' = [pc EXCEPT ![c] = "skip"] /\ run' = run
              \/ pc' = [pc EXCEPT ![c] = "download"] /\ run' = [run EXCEPT ![c].todo = filter]
          BY <4>2 DEF Decide, Goto
        <5>. QED  BY <5>1 DEF TypeInv, RunsOK, Cycles
      <4>3. CASE StartLoading(c) \/ PruneOld(c) \/ MarkManifestDrops(c) \/ LogSuccess(c)
        BY <4>3 DEF StartLoading, PruneOld, MarkManifestDrops, LogSuccess, Goto, TypeInv, RunsOK, Cycles
      <4>4. CASE LogSkipped(c) \/ Return(c) \/ SweepDrops(c)
        BY <4>4 DEF LogSkipped, Return, SweepDrops, End, Goto, TypeInv, RunsOK
      <4>. QED  BY <1>4, <2>3, <4>0, <4>1, <4>2, <4>3, <4>4 DEF Proceed
    <3>2. c \in Underway \/ pc'[c] = "idle"
      BY <1>4, <2>3
         DEF Proceed, FetchManifest, Decide, LogSkipped, Download, StartLoading, PruneOld,
             MarkManifestDrops, LogSuccess, Return, SweepDrops, At, End, Goto, Underway,
             TypeInv, RunsOK
    <3>. QED  BY <1>a, <3>1, <3>2 DEF Underway
  <2>. QED  BY <2>1, <2>2, <2>3
<1>5. CASE UNCHANGED vars
  BY <1>5 DEF vars, Sole, Underway
<1>. QED  BY <1>1, <1>2, <1>3, <1>4, <1>5 DEF Next

\* As long as only the scheduler starts runs, no version of the manifest is ingested
\* twice (_ingest_lock and should_ingest).
THEOREM NoVersionTwice ==
  ASSUME Manual = {}, Cli = {}
  PROVE  Spec => OncePerVersion
<1>1. Init => Sole
  BY DEF Init, Sole, Underway
<1>2. TypeInv /\ Sole /\ [Next]_vars => Sole'
  BY LockKeepsSole
<1>. QED  BY <1>1, <1>2, TypesHold, TwiceNeedsOverlap, PTL DEF Spec
-----------------------------------------------------------------------------
(* Only rows that the manifest lacked are flagged. *)

IsLive(u) == rows[u].status = "live"

\* One run at a time is between its loads and its end: the event loop sees to it in
\* the server, nothing does for the command line.
OneLoads == \A c, d \in Runs : pc[c] \in Loading /\ pc[d] \in Loading => c = d

\* The steps after which a cycle leaves out rows of its manifest: an ATS that cannot be
\* downloaded or processed, and a filter of the command line.
LeavesOut ==
  \E c \in Runs :
    \/ \E a \in Ats : DownloadFails(c, a) \/ ProcessFails(c, a)
    \/ pc[c] = "decide" /\ pc'[c] = "download" /\ run'[c].todo # Ats

\* What a run still owes a listed row: its upsert, unless the row was outside the
\* rolling window when the run began (and is then pruned).
OwesOK(c) ==
  /\ pc[c] = "download" => run[c].todo \cup run[c].got = Ats
  /\ pc[c] = "upsert" =>
       \A u \in catalog[run[c].ver] : IsLive(u) =>
         \/ AtsOf[u] \in run[c].got
         \/ u \in run[c].outside
         \/ rows[u].missed = 0
  /\ pc[c] = "mark" => \A u \in catalog[run[c].ver] : IsLive(u) => rows[u].missed = 0

FlagInv ==
  /\ \A u \in Urls : IsLive(u) /\ u \notin unlisted => rows[u].missed <= 1
  /\ \A c \in Underway : run[c].outside \subseteq outdated
  /\ \A c \in Runs : OwesOK(c)

LEMMA FlagInvImpliesFlagNeedsAbsence ==
  ASSUME TypeInv, FlagInv
  PROVE  FlagNeedsAbsence
<1>. SUFFICES ASSUME NEW u \in Flagged, rows[u].status = "live", u \notin unlisted
              PROVE  FALSE
  BY DEF FlagNeedsAbsence
<1>1. u \in Urls /\ rows[u].missed >= 2 /\ rows[u].missed \in Int
  BY DEF Flagged, Present, TypeInv, TablesOK, Rows
<1>. QED  BY <1>1 DEF FlagInv, IsLive

\* Labels at which a run owes nothing yet or any more.
OwesNothing == Labels \ {"download", "upsert", "mark"}

\* Steps that make no row live and count no miss, for runs that owe nothing afterwards
\* or stay as they are.
LEMMA QuietKeepsFlags ==
  ASSUME TypeInv, FlagInv, UNCHANGED <<catalog, unlisted>>,
         \A u \in Urls : \/ rows'[u].status # "live"
                         \/ rows[u].status = "live" /\ rows'[u].missed = rows[u].missed,
         \A c \in Underway' : run'[c].outside \subseteq outdated',
         \A c \in Runs : \/ pc'[c] \in OwesNothing
                         \/ /\ pc'[c] = pc[c] /\ run'[c].outside = run[c].outside
                            /\ run'[c].todo = run[c].todo /\ run'[c].got = run[c].got
                            /\ run'[c].ver = run[c].ver
                         \/ OwesOK(c)'
  PROVE  FlagInv'
<1>1. \A u \in Urls : rows'[u].status = "live" /\ u \notin unlisted' => rows'[u].missed <= 1
  BY DEF FlagInv, IsLive
<1>2. ASSUME NEW c \in Runs PROVE OwesOK(c)'
  <2>1. catalog \in [Versions -> SUBSET Urls]
    BY SourcesAssumption DEF TypeInv, TablesOK
  <2>2. c \in Underway /\ pc[c] # "manifest" => catalog[run[c].ver] \subseteq Urls
    BY <2>1 DEF TypeInv, RunsOK
  <2>3. CASE pc'[c] \in OwesNothing
    BY <2>3 DEF OwesNothing, OwesOK
  <2>4. CASE /\ pc'[c] = pc[c] /\ run'[c].outside = run[c].outside
             /\ run'[c].todo = run[c].todo /\ run'[c].got = run[c].got
             /\ run'[c].ver = run[c].ver
    BY <2>2, <2>4 DEF FlagInv, OwesOK, IsLive, Underway
  <2>. QED  BY <2>3, <2>4
<1>. QED  BY <1>1, <1>2 DEF FlagInv, IsLive

\* An upsert that clears what is owed: rows outside S stay, those in S have no miss.
LEMMA TouchKeepsFlags ==
  ASSUME TypeInv, FlagInv, UNCHANGED <<catalog, outdated, pc>>, NEW S \in SUBSET Urls, Touch(S),
         \A c \in Underway : /\ run'[c].outside = run[c].outside
                             /\ run'[c].todo = run[c].todo /\ run'[c].ver = run[c].ver,
         \A c \in Underway : \A u \in catalog[run[c].ver] \ S :
           \/ AtsOf[u] \in run[c].got => AtsOf[u] \in run'[c].got
           \/ u \in run[c].outside,
         \A c \in Underway : pc[c] = "download" => run'[c].got = run[c].got
  PROVE  FlagInv'
<1>1. ASSUME NEW u \in S PROVE rows'[u].missed = 0
  BY <1>1 DEF Touch, Touched
<1>2. ASSUME NEW u \in Urls \ S PROVE rows'[u] = rows[u] /\ (u \in unlisted' <=> u \in unlisted)
  BY <1>2 DEF Touch, Touched
<1>3. ASSUME NEW u \in Urls, rows'[u].status = "live", u \notin unlisted'
      PROVE  rows'[u].missed <= 1
  BY <1>1, <1>2, <1>3 DEF FlagInv, IsLive
<1>4. \A c \in Underway' : run'[c].outside \subseteq outdated'
  BY DEF FlagInv, Underway
<1>5. ASSUME NEW c \in Runs PROVE OwesOK(c)'
  <2>1. catalog \in [Versions -> SUBSET Urls]
    BY SourcesAssumption DEF TypeInv, TablesOK
  <2>2. c \in Underway /\ pc[c] # "manifest" => catalog[run[c].ver] \subseteq Urls
    BY <2>1 DEF TypeInv, RunsOK
  <2>3. CASE pc[c] \in {"upsert", "mark"}
    <3>1. c \in Underway
      BY <2>3 DEF Underway
    <3>2. ASSUME NEW u \in catalog[run[c].ver], rows'[u].status = "live"
          PROVE  \/ pc[c] = "upsert" /\ (AtsOf[u] \in run'[c].got \/ u \in run'[c].outside)
                 \/ rows'[u].missed = 0
      <4>1. CASE u \in S
        BY <1>1, <4>1
      <4>2. CASE u \notin S
        BY <1>2, <2>2, <2>3, <3>1, <3>2, <4>2 DEF FlagInv, OwesOK, IsLive
      <4>. QED  BY <4>1, <4>2
    <3>. QED  BY <2>3, <3>1, <3>2 DEF OwesOK, IsLive
  <2>4. CASE pc[c] \notin {"upsert", "mark"}
    BY <2>4 DEF FlagInv, OwesOK, Underway
  <2>. QED  BY <2>3, <2>4
<1>. QED  BY <1>3, <1>4, <1>5 DEF FlagInv, IsLive

LEMMA EnvironmentKeepsFlags ==
  ASSUME TypeInv, FlagInv, Environment
  PROVE  FlagInv'
<1>1. CASE Publish \/ IngestHour \/ PollEnd \/ \E u \in Urls : LeaveWindow(u)
  BY <1>1, QuietKeepsFlags
     DEF Publish, IngestHour, PollEnd, LeaveWindow, upVars, FlagInv, Underway
<1>2. CASE Midnight
  <2>1. \A u \in Urls : \/ rows'[u].status # "live"
                        \/ rows[u].status = "live" /\ rows'[u].missed = rows[u].missed
    BY <1>2 DEF Midnight, NoRow, Present, TypeInv, TablesOK, Rows
  <2>2. \A c \in Runs : /\ pc'[c] = pc[c] /\ run'[c].outside = run[c].outside
                        /\ run'[c].todo = run[c].todo /\ run'[c].got = run[c].got
                        /\ run'[c].ver = run[c].ver
    BY <1>2 DEF Midnight, TypeInv, RunsOK, Cycles, Underway
  <2>. QED
    BY <1>2, <2>1, <2>2, QuietKeepsFlags DEF Midnight, upVars, FlagInv, Underway
<1>3. CASE Restart
  <2>1. \A c \in Runs : pc'[c] = "idle" \/ (pc'[c] = pc[c] /\ run'[c] = run[c])
    BY <1>3 DEF Restart, TypeInv, RunsOK
  <2>. QED
    BY <1>3, <2>1, QuietKeepsFlags
       DEF Restart, upVars, FlagInv, Underway, OwesNothing, Labels
<1>4. ASSUME NEW u \in Urls, LocalLoad(u) PROVE FlagInv'
  <2>1. \A c \in Underway : /\ run'[c].outside = run[c].outside /\ run'[c].got = run[c].got
                            /\ run'[c].todo = run[c].todo /\ run'[c].ver = run[c].ver
    BY <1>4 DEF LocalLoad, Freshen, TypeInv, RunsOK, Cycles, Underway
  <2>. QED  BY <1>4, <2>1, TouchKeepsFlags DEF LocalLoad, upVars
<1>5. ASSUME NEW u \in Urls, Expire(u) \/ ThirtyDaysExpired(u) PROVE FlagInv'
  <2>1. \A w \in Urls : \/ rows'[w].status # "live"
                        \/ rows[w].status = "live" /\ rows'[w].missed = rows[w].missed
    BY <1>5 DEF Expire, ThirtyDaysExpired, TypeInv, TablesOK, Rows
  <2>. QED
    BY <1>5, <2>1, QuietKeepsFlags DEF Expire, ThirtyDaysExpired, upVars, FlagInv, Underway
<1>. QED  BY <1>1, <1>2, <1>3, <1>4, <1>5 DEF Environment

LEMMA StartsKeepFlags ==
  ASSUME TypeInv, FlagInv, Starts
  PROVE  FlagInv'
<1>1. PICK d \in Runs : \/ DailyFires(d) \/ StartupFires(d) \/ PollFires(d)
                        \/ \E force \in Forces : StartUnlocked(d, force)
  BY DEF Starts
<1>2. \A force : Begun(force).outside = outdated
  BY DEF Begun, NoCycle
<1>3. UNCHANGED <<catalog, unlisted, rows, outdated>>
  BY <1>1 DEF DailyFires, StartupFires, PollFires, StartUnlocked, upVars
<1>4. \A c \in Runs : \/ pc'[c] = pc[c] /\ run'[c] = run[c]
                      \/ pc'[c] = "lock"
                      \/ pc'[c] = "manifest" /\ run'[c].outside = outdated
  <2>1. CASE DailyFires(d) \/ StartupFires(d)
    BY <2>1 DEF DailyFires, StartupFires, TypeInv, RunsOK
  <2>2. CASE PollFires(d)
    BY <1>2, <2>2 DEF PollFires, TypeInv, RunsOK
  <2>3. ASSUME NEW force, StartUnlocked(d, force) PROVE <1>4!:
    BY <1>2, <2>3 DEF StartUnlocked, TypeInv, RunsOK
  <2>. QED  BY <1>1, <2>1, <2>2, <2>3
<1>. QED  BY <1>3, <1>4, QuietKeepsFlags DEF FlagInv, Underway, OwesNothing, Labels

LEMMA FailuresKeepFlags ==
  ASSUME TypeInv, FlagInv, ~ LeavesOut, Failures
  PROVE  FlagInv'
<1>2. PICK c \in Runs : FetchFails(c) \/ CycleFails(c) \/ KillCli(c)
  BY DEF Failures, LeavesOut
<1>3. /\ UNCHANGED <<catalog, unlisted, rows, outdated>>
      /\ \A d \in Runs : pc'[d] = "idle" \/ (pc'[d] = pc[d] /\ run'[d] = run[d])
  BY <1>2 DEF FetchFails, CycleFails, KillCli, End, Goto, upVars, TypeInv, RunsOK
<1>. QED  BY <1>3, QuietKeepsFlags DEF FlagInv, Underway, OwesNothing, Labels

LEMMA ProceedKeepsFlags ==
  ASSUME TypeInv, FlagInv, OneLoads, ~ LeavesOut, NEW c \in Runs, Proceed(c)
  PROVE  FlagInv'
<1>1. CASE AcquireLock(c)
  <2>1. Begun(FALSE).outside = outdated
    BY DEF Begun, NoCycle
  <2>2. \A d \in Runs : \/ pc'[d] = pc[d] /\ run'[d] = run[d]
                        \/ pc'[d] = "manifest" /\ run'[d].outside = outdated
    BY <1>1, <2>1 DEF AcquireLock, TypeInv, RunsOK
  <2>. QED
    BY <1>1, <2>2, QuietKeepsFlags DEF AcquireLock, upVars, FlagInv, Underway, OwesNothing, Labels
<1>2. CASE FetchManifest(c)
  <2>1. \A d \in Runs : /\ (pc'[d] = pc[d] /\ run'[d] = run[d]) \/ pc'[d] = "decide"
                        /\ run'[d].outside = run[d].outside
                        /\ d \in Underway' => d \in Underway
    BY <1>2 DEF FetchManifest, At, Goto, Underway, TypeInv, RunsOK, Cycles
  <2>2. UNCHANGED <<catalog, unlisted, rows, outdated>>
    BY <1>2 DEF FetchManifest, upVars
  <2>3. \A d \in Underway' : run'[d].outside \subseteq outdated'
    BY <2>1, <2>2 DEF FlagInv, Underway
  <2>4. \A d \in Runs : pc'[d] \in OwesNothing \/ (pc'[d] = pc[d] /\ run'[d] = run[d])
    BY <2>1 DEF OwesNothing, Labels
  <2>. QED  BY <2>2, <2>3, <2>4, QuietKeepsFlags
<1>3. ASSUME NEW filter \in Filters \cup {Ats}, Decide(c, filter) PROVE FlagInv'
  <2>1. \/ pc' = [pc EXCEPT ![c] = "skip"] /\ run' = run
        \/ pc' = [pc EXCEPT ![c] = "download"] /\ run' = [run EXCEPT ![c].todo = Ats]
    <3>1. pc' = [pc EXCEPT ![c] = "download"] => run'[c].todo = Ats
      BY <1>3 DEF Decide, At, LeavesOut, TypeInv, RunsOK
    <3>2. \/ pc' = [pc EXCEPT ![c] = "skip"] /\ run' = run
          \/ pc' = [pc EXCEPT ![c] = "download"] /\ run' = [run EXCEPT ![c].todo = filter]
      BY <1>3 DEF Decide, Goto
    <3>. QED  BY <3>1, <3>2 DEF TypeInv, RunsOK, Cycles
  <2>2. run[c].got \in SUBSET Ats /\ c \in Underway
    BY <1>3 DEF Decide, At, Underway, TypeInv, RunsOK, Cycles
  <2>3. /\ \A d \in Runs : run'[d].outside = run[d].outside /\ (d \in Underway' => d \in Underway)
        /\ \A d \in Runs : d # c => pc'[d] = pc[d] /\ run'[d] = run[d]
    BY <2>1, <2>2 DEF Underway, TypeInv, RunsOK, Cycles
  <2>4. pc'[c] = "skip" \/ OwesOK(c)'
    <3>1. CASE pc' = [pc EXCEPT ![c] = "download"] /\ run' = [run EXCEPT ![c].todo = Ats]
      <4>1. run'[c].todo = Ats /\ run'[c].got = run[c].got /\ pc'[c] = "download"
        BY <3>1 DEF TypeInv, RunsOK, Cycles
      <4>. QED  BY <2>2, <4>1 DEF OwesOK
    <3>. QED  BY <2>1, <3>1 DEF TypeInv, RunsOK
  <2>5. UNCHANGED <<catalog, unlisted, rows, outdated>>
    BY <1>3 DEF Decide, upVars
  <2>6. \A d \in Underway' : run'[d].outside \subseteq outdated'
    BY <2>3, <2>5 DEF FlagInv, Underway
  <2>7. \A d \in Runs : \/ pc'[d] \in OwesNothing
                        \/ pc'[d] = pc[d] /\ run'[d] = run[d]
                        \/ OwesOK(d)'
    BY <2>3, <2>4 DEF OwesNothing, Labels
  <2>. QED  BY <2>5, <2>6, <2>7, QuietKeepsFlags
<1>4. ASSUME NEW a \in Ats, Download(c, a) PROVE FlagInv'
  <2>1. /\ pc' = pc /\ pc[c] = "download"
        /\ \A d \in Runs : run'[d].outside = run[d].outside
        /\ \A d \in Runs : d # c => run'[d] = run[d]
        /\ run'[c].todo \cup run'[c].got = run[c].todo \cup run[c].got
    BY <1>4 DEF Download, At, TypeInv, RunsOK, Cycles
  <2>2. OwesOK(c)'
    BY <2>1 DEF FlagInv, OwesOK
  <2>. QED
    BY <1>4, <2>1, <2>2, QuietKeepsFlags DEF Download, upVars, FlagInv, Underway
<1>5. ASSUME NEW a \in Ats, ProcessParquet(c, a) PROVE FlagInv'
  <2>1. Load(c, a, Listed(c, a)) /\ Listed(c, a) \in SUBSET Urls /\ pc[c] = "upsert"
    BY <1>5, ListedType DEF ProcessParquet, Load, At, Underway
  <2>2. \A d \in Underway : /\ run'[d].outside = run[d].outside
                            /\ run'[d].todo = run[d].todo /\ run'[d].ver = run[d].ver
                            /\ run'[d].got = IF d = c THEN run[c].got \ {a} ELSE run[d].got
    BY <2>1 DEF Load, Freshen, TypeInv, RunsOK, Cycles, Underway
  <2>3. \A u \in catalog[run[c].ver] \ Listed(c, a) : AtsOf[u] # a \/ u \in run[c].outside
    BY DEF Listed
  <2>. QED
    BY <2>1, <2>2, <2>3, TouchKeepsFlags DEF Load, upVars
<1>6. CASE StartLoading(c)
  <2>1. /\ run' = run /\ pc'[c] = "upsert" /\ run[c].got = Ats
        /\ \A d \in Runs : d # c => pc'[d] = pc[d]
        /\ Underway' = Underway
    BY <1>6 DEF StartLoading, At, Goto, FlagInv, OwesOK, TypeInv, RunsOK, Underway
  <2>2. OwesOK(c)'
    <3>1. catalog[run[c].ver] \subseteq Urls /\ catalog' = catalog
      BY <1>6, SourcesAssumption
         DEF StartLoading, At, upVars, TypeInv, TablesOK, RunsOK, Underway
    <3>. QED  BY <2>1, <3>1, SourcesAssumption DEF OwesOK
  <2>. QED
    BY <1>6, <2>1, <2>2, QuietKeepsFlags DEF StartLoading, upVars, FlagInv
<1>7. CASE PruneOld(c)
  <2>1. /\ run' = run /\ pc[c] = "upsert" /\ pc'[c] = "mark" /\ run[c].got = {}
        /\ \A d \in Runs : d # c => pc'[d] = pc[d] /\ pc[d] \notin Loading
        /\ Underway' = Underway /\ c \in Underway
    BY <1>7 DEF OneLoads, PruneOld, At, Goto, TypeInv, RunsOK, Underway, Loading
  <2>2. UNCHANGED <<catalog, outdated>>
    BY <1>7 DEF PruneOld, upVars
  <2>3. ASSUME NEW u \in Urls, rows'[u].status = "live"
        PROVE  rows'[u] = rows[u] /\ u \notin outdated /\ (u \in unlisted => u \in unlisted')
    BY <1>7, <2>3 DEF PruneOld, NoRow
  <2>4. \A u \in Urls : rows'[u].status = "live" /\ u \notin unlisted' => rows'[u].missed <= 1
    BY <2>3 DEF FlagInv, IsLive
  <2>5. catalog[run[c].ver] \subseteq Urls
    BY <2>1, SourcesAssumption DEF TypeInv, TablesOK, RunsOK
  <2>6. \A u \in catalog[run[c].ver] : rows'[u].status = "live" => rows'[u].missed = 0
    BY <2>1, <2>3, <2>5 DEF FlagInv, OwesOK, IsLive
  <2>7. \A d \in Runs : OwesOK(d)'
    BY <2>1, <2>2, <2>6 DEF FlagInv, OwesOK, IsLive, Loading
  <2>. QED  BY <2>1, <2>2, <2>4, <2>7 DEF FlagInv, IsLive
<1>8. CASE MarkManifestDrops(c)
  <2>1. /\ pc[c] = "mark" /\ pc'[c] = "finish" /\ c \in Underway
        /\ \A d \in Runs : d # c => pc'[d] = pc[d] /\ run'[d] = run[d] /\ pc[d] \notin Loading
        /\ \A d \in Runs : run'[d].outside = run[d].outside
        /\ Underway' = Underway
    BY <1>8
       DEF OneLoads, MarkManifestDrops, At, Goto, TypeInv, RunsOK, Cycles, Underway, Loading
  <2>2. UNCHANGED <<catalog, outdated>>
    BY <1>8 DEF MarkManifestDrops, upVars
  <2>3. ASSUME NEW u \in Urls, rows'[u].status = "live", u \notin unlisted'
        PROVE  rows'[u].missed <= 1
    <3>1. rows[u].status = "live" /\ u \notin unlisted /\ u \in catalog[run[c].ver]
      BY <1>8, <2>3 DEF MarkManifestDrops, Present, TypeInv, TablesOK, Rows
    <3>2. rows[u].missed = 0
      BY <2>1, <3>1 DEF FlagInv, OwesOK, IsLive
    <3>3. rows'[u].missed \in {0, Capped(1, MaxMissed)}
      BY <1>8, <3>2 DEF MarkManifestDrops, TypeInv, TablesOK, Rows
    <3>. QED  BY <3>3, BoundsAssumption DEF Capped
  <2>4. \A d \in Runs : OwesOK(d)'
    BY <2>1, <2>2 DEF FlagInv, OwesOK, Loading
  <2>5. \A d \in Underway' : run'[d].outside \subseteq outdated'
    BY <2>1, <2>2 DEF FlagInv, Underway
  <2>6. \A u \in Urls : rows'[u].status = "live" /\ u \notin unlisted' => rows'[u].missed <= 1
    BY <2>3
  <2>. QED  BY <2>4, <2>5, <2>6 DEF FlagInv, IsLive
<1>9. CASE LogSkipped(c) \/ LogSuccess(c) \/ Return(c) \/ SweepDrops(c)
  <2>1. /\ UNCHANGED <<catalog, unlisted, rows, outdated>>
        /\ \A d \in Runs : \/ pc'[d] \in {"idle", "drain"}
                           \/ pc'[d] = "total" /\ d \in Underway /\ run'[d] = run[d]
                           \/ pc'[d] = pc[d] /\ run'[d] = run[d]
    BY <1>9 DEF LogSkipped, LogSuccess, Return, SweepDrops, At, End, Goto, upVars, Underway,
                TypeInv, RunsOK
  <2>. QED  BY <2>1, QuietKeepsFlags DEF FlagInv, Underway, OwesNothing, Labels
<1>. QED
  BY <1>1, <1>2, <1>3, <1>4, <1>5, <1>6, <1>7, <1>8, <1>9 DEF Proceed

\* When every download and load succeeds, nothing is filtered and no run of the command
\* line is between its loads and its end beside another run, a live row is flagged only
\* if a cycle since its last upsert found it gone from its manifest: the misses a
\* cycle counts on rows it upserted itself never add up to two.
THEOREM FlaggedWereAbsent ==
  Spec /\ []OneLoads /\ [][~ LeavesOut]_vars => []FlagNeedsAbsence
<1>1. Init => FlagInv
  BY DEF Init, FlagInv, OwesOK, IsLive, Underway, NoRow
<1>2. TypeInv /\ FlagInv /\ OneLoads /\ [Next]_vars /\ [~ LeavesOut]_vars => FlagInv'
  <2>1. CASE UNCHANGED vars
    BY <2>1 DEF vars, FlagInv, OwesOK, IsLive, Underway
  <2>2. CASE ~ LeavesOut
    BY <2>1, <2>2, EnvironmentKeepsFlags, StartsKeepFlags, FailuresKeepFlags, ProceedKeepsFlags
       DEF Next
  <2>. QED  BY <2>1, <2>2
<1>3. TypeInv /\ FlagInv => FlagNeedsAbsence
  BY FlagInvImpliesFlagNeedsAbsence
<1>. QED  BY <1>1, <1>2, <1>3, TypesHold, PTL DEF Spec

\* The same of an instance without command line and without such failures: the loop
\* has one holder, and only the command line filters.
THEOREM OnlyAbsentRowsFlagged ==
  ASSUME Cli = {}, MaxAtsFailures = 0
  PROVE  Spec => []FlagNeedsAbsence
<1>1. TypeInv => OneLoads
  BY DEF TypeInv, LoopOK, Runs, OneLoads
<1>2. TypeInv /\ [Next]_vars => [~ LeavesOut]_vars
  <2>. SUFFICES ASSUME TypeInv, Next, LeavesOut, vars' # vars PROVE FALSE
    OBVIOUS
  <2>1. ~ (failures.ats < MaxAtsFailures)
    BY DEF TypeInv, TablesOK
  <2>2. PICK c \in Runs : pc[c] = "decide" /\ pc'[c] = "download" /\ run'[c].todo # Ats
    BY <2>1 DEF LeavesOut, DownloadFails, ProcessFails
  <2>3. pc' # pc
    BY <2>2
  <2>4. ~ Environment /\ ~ Starts /\ ~ Failures
    BY <2>1, <2>2, <2>3
       DEF Environment, Publish, IngestHour, PollEnd, Midnight, Restart, LeaveWindow, LocalLoad,
           Expire, ThirtyDaysExpired, Starts, DailyFires, StartupFires, PollFires,
           StartUnlocked, Failures, FetchFails, CycleFails, KillCli, DownloadFails,
           ProcessFails, End, Goto, TypeInv, RunsOK
  <2>5. PICK d \in Runs : Proceed(d)
    BY <2>4 DEF Next
  <2>6. ~ \E filter : Decide(d, filter)
    <3>. SUFFICES ASSUME NEW filter, Decide(d, filter) PROVE FALSE
      OBVIOUS
    <3>1. filter = Ats
      BY DEF Decide
    <3>2. run' = run \/ run' = [run EXCEPT ![d].todo = Ats]
      BY <3>1 DEF Decide
    <3>3. pc'[d] \in {"skip", "download"} /\ \A e \in Runs \ {d} : pc'[e] = pc[e]
      BY DEF Decide, Goto, TypeInv, RunsOK
    <3>4. c = d /\ pc' # [pc EXCEPT ![d] = "skip"]
      BY <2>2, <3>3 DEF TypeInv, RunsOK
    <3>5. run' = [run EXCEPT ![d].todo = Ats]
      BY <3>1, <3>4 DEF Decide, Goto
    <3>. QED  BY <2>2, <3>4, <3>5 DEF TypeInv, RunsOK, Cycles
  <2>. QED
    BY <2>2, <2>3, <2>5, <2>6
       DEF Proceed, AcquireLock, FetchManifest, LogSkipped, Download, ProcessParquet, Load,
           StartLoading, PruneOld, MarkManifestDrops, LogSuccess, Return, SweepDrops, At, End,
           Goto, TypeInv, RunsOK
<1>. QED  BY <1>1, <1>2, TypesHold, FlaggedWereAbsent, PTL DEF Spec
=============================================================================
