-------------------------- MODULE VerifierRunsProofs --------------------------
(***************************************************************************)
(* Proofs about verification runs, for any jobs, drains and limits.        *)
(***************************************************************************)
EXTENDS VerifierRuns, FiniteSetTheorems, TLAPS

-----------------------------------------------------------------------------
(* Orders: sequences that hold a job once at most.                         *)

InQueue(s) == s \in Seq(Jobs) /\ \A i, k \in 1 .. Len(s) : s[i] = s[k] => i = k

LEMMA JobCount == Cardinality(Jobs) \in Nat
BY VerifierAssumption, FS_CardinalityType

\* Such a sequence is no longer than there are jobs.
LEMMA QueueIsOrder ==
  ASSUME NEW s, InQueue(s)
  PROVE  s \in Orders /\ Len(s) \in 0 .. Cardinality(Jobs)
<1>1. s \in [1 .. Len(s) -> Jobs] /\ Len(s) \in Nat
  BY DEF InQueue
<1>2. s \in Injection(1 .. Len(s), Jobs)
  BY <1>1 DEF InQueue, Injection, IsInjective
<1>3. Cardinality(1 .. Len(s)) <= Cardinality(Jobs)
  BY <1>2, FS_Injection, VerifierAssumption
<1>4. Cardinality(1 .. Len(s)) = Len(s)
  <2>1. 1 \in Int /\ Len(s) \in Int /\ Len(s) >= 0
    BY <1>1
  <2>2. Cardinality(1 .. Len(s)) = IF 1 > Len(s) THEN 0 ELSE Len(s) - 1 + 1
    BY <2>1, FS_Interval
  <2>. QED  BY <2>1, <2>2
<1>. QED  BY <1>1, <1>3, <1>4, JobCount DEF Orders

LEMMA OrderIsSeq ==
  ASSUME NEW s \in Orders
  PROVE  s \in Seq(Jobs) /\ Len(s) \in 0 .. Cardinality(Jobs)
BY JobCount DEF Orders

\* A pick of n jobs is the front of its order.
LEMMA FirstOfQueue ==
  ASSUME NEW s, InQueue(s), NEW n \in Nat \ {0}
  PROVE  /\ InQueue(First(n, s)) /\ Len(First(n, s)) <= Len(s)
         /\ s # <<>> => First(n, s) # <<>>
         /\ \A i \in 1 .. Len(First(n, s)) : First(n, s)[i] = s[i]
<1>. DEFINE m == IF Len(s) < n THEN Len(s) ELSE n
<1>1. s \in Seq(Jobs) /\ Len(s) \in Nat /\ m \in 0 .. Len(s)
  BY DEF InQueue
<1>2. First(n, s) = SubSeq(s, 1, m)
  BY DEF First
<1>. HIDE DEF m
<1>3. /\ First(n, s) \in Seq(Jobs) /\ Len(First(n, s)) = m
      /\ \A i \in 1 .. m : First(n, s)[i] = s[i]
  BY <1>1, <1>2
<1>4. s # <<>> => m > 0
  BY <1>1 DEF m
<1>. QED  BY <1>1, <1>3, <1>4 DEF InQueue

\* What a drain has left after it took a batch.
LEMMA RestOfQueue ==
  ASSUME NEW s, InQueue(s), NEW m \in 0 .. Len(s)
  PROVE  InQueue(SubSeq(s, m + 1, Len(s))) /\ Len(SubSeq(s, m + 1, Len(s))) = Len(s) - m
<1>. DEFINE t == SubSeq(s, m + 1, Len(s))
<1>1. s \in Seq(Jobs) /\ Len(s) \in Nat
  BY DEF InQueue
<1>2. t \in Seq(Jobs) /\ Len(t) = Len(s) - m /\ \A i \in 1 .. Len(t) : t[i] = s[m + i]
  BY <1>1
<1>. HIDE DEF t
<1>3. InQueue(t) /\ Len(t) = Len(s) - m
  BY <1>1, <1>2 DEF InQueue
<1>. QED  BY <1>3 DEF t

LEMMA PlaceOf ==
  ASSUME NEW s \in Seq(Jobs), NEW j, Holds(s, j)
  PROVE  Place(s, j) \in 1 .. Len(s) /\ s[Place(s, j)] = j
BY DEF Holds, Place

LEMMA WithoutQueue ==
  ASSUME NEW s, InQueue(s), NEW j
  PROVE  /\ InQueue(Without(s, j))
         /\ \A k : Holds(Without(s, j), k) <=> Holds(s, k) /\ k # j
<1>1. s \in Seq(Jobs) /\ Len(s) \in Nat
  BY DEF InQueue
<1>2. CASE ~ Holds(s, j)
  BY <1>2 DEF Without, Holds
<1>3. CASE Holds(s, j)
  <2>. DEFINE p == Place(s, j)
              t == Without(s, j)
              head == SubSeq(s, 1, p - 1)
              tail == SubSeq(s, p + 1, Len(s))
  <2>1. p \in 1 .. Len(s) /\ s[p] = j
    BY <1>1, <1>3, PlaceOf
  <2>2. t = head \o tail
    BY <1>3 DEF Without
  <2>. HIDE DEF p, t
  <2>3. /\ head \in Seq(Jobs) /\ Len(head) = p - 1
        /\ \A i \in 1 .. p - 1 : head[i] = s[i]
    BY <1>1, <2>1
  <2>4. /\ tail \in Seq(Jobs) /\ Len(tail) = Len(s) - p
        /\ \A i \in 1 .. Len(s) - p : tail[i] = s[p + i]
    BY <1>1, <2>1
  <2>. HIDE DEF head, tail
  <2>5. /\ t \in Seq(Jobs) /\ Len(t) = Len(s) - 1
        /\ \A i \in 1 .. Len(t) : t[i] = IF i < p THEN s[i] ELSE s[i + 1]
    <3>1. /\ t \in Seq(Jobs) /\ Len(t) = Len(s) - 1
          /\ \A i \in 1 .. Len(t) : t[i] = IF i <= p - 1 THEN head[i] ELSE tail[i - (p - 1)]
      BY <1>1, <2>1, <2>2, <2>3, <2>4
    <3>2. ASSUME NEW i \in 1 .. Len(t), i < p PROVE t[i] = s[i]
      BY <2>1, <2>3, <3>1, <3>2
    <3>3. ASSUME NEW i \in 1 .. Len(t), ~ (i < p) PROVE t[i] = s[i + 1]
      <4>1. i - (p - 1) \in 1 .. Len(s) - p /\ p + (i - (p - 1)) = i + 1 /\ ~ (i <= p - 1)
        BY <1>1, <2>1, <3>1, <3>3
      <4>. QED  BY <2>4, <3>1, <4>1
    <3>. QED  BY <3>1, <3>2, <3>3
  <2>6. InQueue(t)
    BY <1>1, <2>1, <2>5 DEF InQueue
  <2>7. ASSUME NEW k, Holds(t, k) PROVE Holds(s, k) /\ k # j
    <3>1. PICK i \in 1 .. Len(t) : t[i] = k
      BY <2>5, <2>7 DEF Holds
    <3>2. PICK h \in 1 .. Len(s) : h # p /\ s[h] = k
      BY <1>1, <2>1, <2>5, <3>1
    <3>. QED  BY <1>1, <2>1, <3>2 DEF Holds, InQueue
  <2>8. ASSUME NEW k, Holds(s, k), k # j PROVE Holds(t, k)
    <3>1. PICK h \in 1 .. Len(s) : h # p /\ s[h] = k
      BY <1>1, <2>1, <2>8 DEF Holds
    <3>2. PICK i \in 1 .. Len(t) : t[i] = k
      <4>1. CASE h < p
        BY <1>1, <2>1, <2>5, <3>1, <4>1
      <4>2. CASE h > p
        <5>1. h - 1 \in 1 .. Len(t) /\ ~(h - 1 < p) /\ (h - 1) + 1 = h
          BY <1>1, <2>1, <2>5, <4>2
        <5>. QED  BY <2>5, <3>1, <5>1
      <4>. QED  BY <3>1, <4>1, <4>2, <2>1
    <3>. QED  BY <2>5, <3>2 DEF Holds
  <2>. QED  BY <2>6, <2>7, <2>8 DEF t
<1>. QED  BY <1>2, <1>3

LEMMA AppendQueue ==
  ASSUME NEW s, InQueue(s), NEW j \in Jobs, ~ Holds(s, j)
  PROVE  /\ InQueue(Append(s, j))
         /\ \A k : Holds(Append(s, j), k) <=> Holds(s, k) \/ k = j
<1>. DEFINE t == Append(s, j)
<1>1. s \in Seq(Jobs) /\ Len(s) \in Nat
  BY DEF InQueue
<1>2. /\ t \in Seq(Jobs) /\ Len(t) = Len(s) + 1 /\ t[Len(s) + 1] = j
      /\ \A i \in 1 .. Len(s) : t[i] = s[i]
  BY <1>1
<1>. HIDE DEF t
<1>3. InQueue(t)
  BY <1>1, <1>2 DEF InQueue, Holds
<1>4. \A k : Holds(t, k) <=> Holds(s, k) \/ k = j
  BY <1>1, <1>2 DEF Holds
<1>. QED  BY <1>3, <1>4 DEF t

LEMMA JoinQueues ==
  ASSUME NEW s, InQueue(s), NEW t, InQueue(t), \A k : ~ (Holds(s, k) /\ Holds(t, k))
  PROVE  /\ InQueue(s \o t)
         /\ \A k : Holds(s \o t, k) <=> Holds(s, k) \/ Holds(t, k)
<1>. DEFINE u == s \o t
<1>1. s \in Seq(Jobs) /\ Len(s) \in Nat /\ t \in Seq(Jobs) /\ Len(t) \in Nat
  BY DEF InQueue
<1>2. /\ u \in Seq(Jobs) /\ Len(u) = Len(s) + Len(t)
      /\ \A i \in 1 .. Len(s) : u[i] = s[i]
      /\ \A i \in 1 .. Len(t) : u[Len(s) + i] = t[i]
  BY <1>1
<1>. HIDE DEF u
<1>3. \A i \in 1 .. Len(u) : \/ i \in 1 .. Len(s) /\ u[i] = s[i]
                             \/ /\ i - Len(s) \in 1 .. Len(t) /\ u[i] = t[i - Len(s)]
                                /\ i > Len(s)
  <2>. SUFFICES ASSUME NEW i \in 1 .. Len(u), i > Len(s)
                PROVE  i - Len(s) \in 1 .. Len(t) /\ u[i] = t[i - Len(s)]
    BY <1>1, <1>2
  <2>1. i - Len(s) \in 1 .. Len(t) /\ Len(s) + (i - Len(s)) = i
    BY <1>1, <1>2
  <2>. QED  BY <1>2, <2>1
<1>4. InQueue(u)
  <2>. SUFFICES ASSUME NEW i \in 1 .. Len(u), NEW k \in 1 .. Len(u), u[i] = u[k] PROVE i = k
    BY <1>2 DEF InQueue
  <2>1. /\ \/ i \in 1 .. Len(s) /\ u[i] = s[i]
           \/ i - Len(s) \in 1 .. Len(t) /\ u[i] = t[i - Len(s)]
        /\ \/ k \in 1 .. Len(s) /\ u[k] = s[k]
           \/ k - Len(s) \in 1 .. Len(t) /\ u[k] = t[k - Len(s)]
    BY <1>3
  <2>2. \A a \in 1 .. Len(s), b \in 1 .. Len(t) : s[a] # t[b]
    BY <1>1 DEF Holds
  <2>3. CASE i \in 1 .. Len(s) /\ u[i] = s[i] /\ k \in 1 .. Len(s) /\ u[k] = s[k]
    BY <2>3 DEF InQueue
  <2>4. CASE /\ i - Len(s) \in 1 .. Len(t) /\ u[i] = t[i - Len(s)]
             /\ k - Len(s) \in 1 .. Len(t) /\ u[k] = t[k - Len(s)]
    <3>1. i - Len(s) = k - Len(s)
      BY <2>4 DEF InQueue
    <3>. QED  BY <3>1, <1>1, <1>2
  <2>. QED  BY <2>1, <2>2, <2>3, <2>4
<1>5. ASSUME NEW k PROVE Holds(u, k) <=> Holds(s, k) \/ Holds(t, k)
  <2>1. Holds(u, k) => Holds(s, k) \/ Holds(t, k)
    BY <1>1, <1>2, <1>3 DEF Holds
  <2>2. Holds(s, k) => Holds(u, k)
    BY <1>1, <1>2 DEF Holds
  <2>3. Holds(t, k) => Holds(u, k)
    <3>. SUFFICES ASSUME NEW i \in 1 .. Len(t), t[i] = k PROVE Holds(u, k)
      BY <1>1 DEF Holds
    <3>. QED  BY <1>1, <1>2 DEF Holds
  <2>. QED  BY <2>1, <2>2, <2>3
<1>. QED  BY <1>4, <1>5 DEF u

-----------------------------------------------------------------------------
(* The orders of the picks.                                                *)

JobsOK ==
  /\ standing \in [Jobs -> {"active", "suspected", "expired"}]
  /\ InQueue(byCheck) /\ \A j \in Jobs : Holds(byCheck, j)
  /\ InQueue(bySuspicion)
  /\ \A j \in Jobs : Holds(bySuspicion, j) => standing[j] = "suspected"

LEMMA HeldAreJobs == ASSUME NEW s, InQueue(s), NEW j, Holds(s, j) PROVE j \in Jobs
BY DEF InQueue, Holds

\* Every rank among the active jobs is somebody's.
LEMMA EveryRankTaken ==
  ASSUME JobsOK, NEW n \in 1 .. Cardinality(Active)
  PROVE  \E j \in Active : Cardinality(NotAfter(j)) = n
<1>1. Active \subseteq Jobs /\ IsFiniteSet(Active) /\ Cardinality(Active) \in Nat
  BY VerifierAssumption, FS_Subset, FS_CardinalityType DEF Active
<1>2. byCheck \in Seq(Jobs) /\ Len(byCheck) \in Nat
  BY DEF JobsOK, InQueue
<1>3. \A j \in Active : Place(byCheck, j) \in 1 .. Len(byCheck) /\ byCheck[Place(byCheck, j)] = j
  BY <1>1, <1>2, PlaceOf DEF JobsOK
<1>4. \A j \in Active : /\ NotAfter(j) \subseteq Active /\ IsFiniteSet(NotAfter(j))
                        /\ Cardinality(NotAfter(j)) \in Nat
                        /\ Cardinality(NotAfter(j)) <= Cardinality(Active)
                        /\ j \in NotAfter(j)
  <2>. SUFFICES ASSUME NEW j \in Active
                PROVE  /\ NotAfter(j) \subseteq Active /\ IsFiniteSet(NotAfter(j))
                       /\ Cardinality(NotAfter(j)) \in Nat
                       /\ Cardinality(NotAfter(j)) <= Cardinality(Active)
                       /\ j \in NotAfter(j)
    OBVIOUS
  <2>1. NotAfter(j) \in SUBSET Active /\ j \in NotAfter(j)
    BY <1>3 DEF NotAfter
  <2>. QED  BY <1>1, <2>1, FS_Subset, FS_CardinalityType
<1>5. \A j \in Active : Cardinality(NotAfter(j)) \in 1 .. Cardinality(Active)
  <2>. SUFFICES ASSUME NEW j \in Active, Cardinality(NotAfter(j)) = 0 PROVE FALSE
    BY <1>1, <1>4
  <2>. QED  BY <1>4, FS_EmptySet
<1>. DEFINE f == [j \in Active |-> Cardinality(NotAfter(j))]
            T == 1 .. Cardinality(Active)
<1>6. ASSUME NEW j \in Active, NEW k \in Active, Place(byCheck, j) < Place(byCheck, k)
      PROVE  Cardinality(NotAfter(j)) # Cardinality(NotAfter(k))
  <2>1. NotAfter(j) \in SUBSET NotAfter(k) /\ k \notin NotAfter(j)
    BY <1>3, <1>6 DEF NotAfter
  <2>2. NotAfter(j) # NotAfter(k)
    BY <1>4, <2>1
  <2>. QED  BY <1>4, <2>1, <2>2, FS_Subset
<1>7. f \in Injection(Active, T)
  <2>1. f \in [Active -> T]
    BY <1>5
  <2>2. ASSUME NEW j \in Active, NEW k \in Active, f[j] = f[k] PROVE j = k
    <3>1. Place(byCheck, j) = Place(byCheck, k)
      BY <1>3, <1>6, <2>2
    <3>. QED  BY <1>3, <3>1
  <2>. QED  BY <2>1, <2>2 DEF Injection, IsInjective
<1>8. IsFiniteSet(T) /\ Cardinality(T) = Cardinality(Active)
  <2>1. Cardinality(Active) \in Int /\ 1 \in Int
    BY <1>1
  <2>2. IsFiniteSet(T) /\ Cardinality(T) = IF 1 > Cardinality(Active) THEN 0
                                           ELSE Cardinality(Active) - 1 + 1
    BY <2>1, FS_Interval
  <2>. QED  BY <1>1, <2>2
<1>9. f \in Surjection(Active, T)
  BY <1>7, <1>8, FS_Injection
<1>10. \E j \in Active : f[j] = n
  BY <1>9 DEF Surjection
<1>. QED  BY <1>10

\* The sweep picks active jobs, each once.
LEMMA SweepPicksOnce ==
  ASSUME JobsOK
  PROVE  InQueue(PickSweep)
<1>. DEFINE s == [n \in 1 .. Cardinality(Active) |->
                    CHOOSE j \in Active : Cardinality(NotAfter(j)) = n]
<1>1. Active \subseteq Jobs /\ Cardinality(Active) \in Nat
  BY VerifierAssumption, FS_Subset, FS_CardinalityType DEF Active
<1>2. \A n \in 1 .. Cardinality(Active) : s[n] \in Active /\ Cardinality(NotAfter(s[n])) = n
  BY EveryRankTaken
<1>3. s \in Seq(Jobs) /\ Len(s) = Cardinality(Active)
  BY <1>1, <1>2
<1>4. InQueue(s)
  <2>. HIDE DEF s
  <2>. QED  BY <1>2, <1>3 DEF InQueue
<1>. QED
  <2>. HIDE DEF s
  <2>1. PickSweep = First(SweepBatch, s)
    BY DEF PickSweep, s
  <2>. QED  BY <1>4, <2>1, FirstOfQueue, VerifierAssumption

LEMMA SuspectedPickedOnce ==
  ASSUME JobsOK
  PROVE  InQueue(PickSuspected)
BY FirstOfQueue, VerifierAssumption DEF JobsOK, PickSuspected

LEMMA SetStandingKeepsJobs ==
  ASSUME JobsOK, NEW j \in Jobs, NEW new \in {"active", "suspected", "expired"},
         SetStanding(j, new)
  PROVE  /\ standing' \in [Jobs -> {"active", "suspected", "expired"}]
         /\ InQueue(bySuspicion')
         /\ \A k \in Jobs : Holds(bySuspicion', k) => standing'[k] = "suspected"
<1>. DEFINE others == Without(bySuspicion, j)
<1>1. standing' = [standing EXCEPT ![j] = new]
  BY DEF SetStanding
<1>2. InQueue(others) /\ \A k : Holds(others, k) <=> Holds(bySuspicion, k) /\ k # j
  BY WithoutQueue DEF JobsOK
<1>3. /\ InQueue(Append(others, j))
      /\ \A k : Holds(Append(others, j), k) <=> Holds(others, k) \/ k = j
  <2>. HIDE DEF others
  <2>. QED  BY <1>2, AppendQueue
<1>4. bySuspicion' = IF new = "suspected" THEN Append(others, j) ELSE others
  BY DEF SetStanding
<1>. HIDE DEF others
<1>. QED  BY <1>1, <1>2, <1>3, <1>4 DEF JobsOK

LEMMA ResultKeepsJobs ==
  ASSUME JobsOK, NEW j \in Jobs, NEW result, ApplyResult(j, result)
  PROVE  JobsOK'
<1>. DEFINE others == Without(byCheck, j)
<1>1. InQueue(others) /\ \A k : Holds(others, k) <=> Holds(byCheck, k) /\ k # j
  BY WithoutQueue DEF JobsOK
<1>2. byCheck' = Append(others, j)
  BY DEF ApplyResult
<1>. HIDE DEF others
<1>3. /\ InQueue(Append(others, j))
      /\ \A k : Holds(Append(others, j), k) <=> Holds(others, k) \/ k = j
  BY <1>1, AppendQueue
<1>4. InQueue(byCheck') /\ \A k \in Jobs : Holds(byCheck', k)
  BY <1>1, <1>2, <1>3 DEF JobsOK
<1>5. \/ SetStanding(j, "expired") \/ SetStanding(j, "active") \/ UNCHANGED <<standing, bySuspicion>>
  BY DEF ApplyResult
<1>. QED  BY <1>4, <1>5, SetStandingKeepsJobs DEF JobsOK

\* No constraint of a drop drain's jobs is lost in joining them to the queue.
LEMMA MissingKeepJobs ==
  ASSUME JobsOK, NEW missing \in Orders,
         \A i, k \in DOMAIN missing : i # k => missing[i] # missing[k],
         \A i \in DOMAIN missing : standing[missing[i]] = "active",
         standing' = [j \in Jobs |-> IF \E i \in DOMAIN missing : missing[i] = j
                                     THEN "suspected" ELSE standing[j]],
         bySuspicion' = bySuspicion \o missing, byCheck' = byCheck
  PROVE  JobsOK' /\ InQueue(missing)
<1>1. missing \in Seq(Jobs) /\ DOMAIN missing = 1 .. Len(missing)
  BY OrderIsSeq
<1>2. InQueue(missing)
  BY <1>1 DEF InQueue
<1>3. \A k : ~ (Holds(bySuspicion, k) /\ Holds(missing, k))
  BY HeldAreJobs DEF JobsOK, Holds
<1>4. /\ InQueue(bySuspicion')
      /\ \A k : Holds(bySuspicion', k) <=> Holds(bySuspicion, k) \/ Holds(missing, k)
  BY <1>2, <1>3, JoinQueues DEF JobsOK
<1>5. standing' \in [Jobs -> {"active", "suspected", "expired"}]
  BY DEF JobsOK
<1>6. \A j \in Jobs : Holds(bySuspicion', j) => standing'[j] = "suspected"
  BY <1>4 DEF JobsOK, Holds
<1>. QED  BY <1>2, <1>4, <1>5, <1>6 DEF JobsOK

LEMMA InitJobs == Init => JobsOK
<1>. SUFFICES ASSUME Init PROVE JobsOK
  OBVIOUS
<1>1. byCheck \in Seq(Jobs) /\ Len(byCheck) \in 0 .. Cardinality(Jobs) /\ Len(byCheck) \in Nat
  BY OrderIsSeq, JobCount DEF Init
<1>2. {byCheck[i] : i \in 1 .. Len(byCheck)} = Jobs
  BY DEF Init
<1>3. byCheck \in Surjection(1 .. Len(byCheck), Jobs)
  BY <1>1, <1>2 DEF Surjection
<1>4. IsFiniteSet(1 .. Len(byCheck)) /\ Cardinality(1 .. Len(byCheck)) = Len(byCheck)
  <2>1. 1 \in Int /\ Len(byCheck) \in Int /\ Len(byCheck) >= 0
    BY <1>1
  <2>2. /\ IsFiniteSet(1 .. Len(byCheck))
        /\ Cardinality(1 .. Len(byCheck)) = IF 1 > Len(byCheck) THEN 0 ELSE Len(byCheck) - 1 + 1
    BY <2>1, FS_Interval
  <2>. QED  BY <2>1, <2>2
<1>5. Cardinality(Jobs) <= Len(byCheck) /\ (Cardinality(Jobs) = Len(byCheck) => byCheck \in Injection(1 .. Len(byCheck), Jobs))
  BY <1>3, <1>4, FS_Surjection
<1>6. byCheck \in Injection(1 .. Len(byCheck), Jobs)
  BY <1>1, <1>5, JobCount
<1>7. InQueue(byCheck) /\ \A j \in Jobs : Holds(byCheck, j)
  BY <1>1, <1>2, <1>6 DEF InQueue, Holds, Injection, IsInjective
<1>8. InQueue(bySuspicion) /\ \A j : ~ Holds(bySuspicion, j)
  BY DEF Init, InQueue, Holds
<1>. QED  BY <1>7, <1>8 DEF Init, JobsOK

-----------------------------------------------------------------------------
(* Rows and the drains that own them.                                      *)

N == Cardinality(Jobs)

RowsOK ==
  /\ status \in [Rows -> Live \cup {"free", "cancelled", "completed"}]
  /\ total \in [Rows -> 0 .. N] /\ checked \in [Rows -> 0 .. N]
  /\ latest \in Rows \cup {NoRow}
  /\ row \in [Drains -> Rows \cup {NoRow}]
  /\ OneLiveRow /\ CompletedCounted
  /\ \A d, e \in Drains : row[d] # NoRow /\ row[d] = row[e] => d = e

\* A drain at work has counted, is checking or has still to check every job its row
\* was started with; its row is live or was cancelled by a newer one.
Busy(d) ==
  /\ counted[d] + Cardinality(Own(d)) + Len(todo[d]) = total[row[d]]
  /\ checked[row[d]] <= counted[d]
  /\ status[row[d]] \in Live \cup {"cancelled"}
  /\ row[d] = latest => status[row[d]] \in Live

DrainOK(d) ==
  /\ InQueue(todo[d]) /\ counted[d] \in Nat
  /\ Idle(d) => todo[d] = <<>> /\ counted[d] = 0 /\ Own(d) = {}
  /\ ~ Idle(d) => Busy(d)

DrainsOK ==
  /\ todo = [d \in Drains |-> todo[d]] /\ counted = [d \in Drains |-> counted[d]]
  /\ \A d \in Drains : DrainOK(d)

\* A drain checks a job once at a time.
ChecksOK ==
  /\ checks \subseteq Check /\ IsFiniteSet(checks)
  /\ \A c, x \in checks : ~ c.closed /\ ~ x.closed /\ c.drain = x.drain /\ c.job = x.job => c = x

LEMMA OwnFinite ==
  ASSUME ChecksOK, NEW d
  PROVE  IsFiniteSet(Own(d)) /\ Cardinality(Own(d)) \in Nat
<1>1. Own(d) \in SUBSET checks
  BY DEF Own
<1>. QED  BY <1>1, FS_Subset, FS_CardinalityType DEF ChecksOK

\* An idle drain finds an id that nobody owns and that is not the latest.
LEMMA FreeRow ==
  ASSUME RowsOK, NEW d \in Drains, Idle(d)
  PROVE  \E r \in Rows : r # latest /\ ~ Owned(r)
<1>. SUFFICES ASSUME \A r \in Rows : r = latest \/ Owned(r) PROVE FALSE
  OBVIOUS
<1>. DEFINE f == [e \in Drains |-> IF e = d THEN latest ELSE row[e]]
            T == Rows \cup {latest}
<1>1. IsFiniteSet(Drains) /\ Cardinality(Drains) \in Nat
  BY VerifierAssumption, FS_CardinalityType
<1>2. IsFiniteSet(Rows) /\ Cardinality(Rows) = Cardinality(Drains) + 1
  <2>1. 1 \in Int /\ Cardinality(Drains) + 1 \in Int /\ Cardinality(Drains) >= 0
    BY <1>1
  <2>. DEFINE n == Cardinality(Drains) + 1
  <2>2. n \in Int /\ n >= 1 /\ Rows = 1 .. n
    BY <1>1 DEF Rows
  <2>. HIDE DEF n
  <2>3. IsFiniteSet(1 .. n) /\ Cardinality(1 .. n) = IF 1 > n THEN 0 ELSE n - 1 + 1
    BY <2>1, <2>2, FS_Interval
  <2>4. IsFiniteSet(Rows) /\ Cardinality(Rows) = n
    BY <2>2, <2>3
  <2>. QED  BY <2>4 DEF n
<1>3. \A r \in Rows : \E e \in Drains : f[e] = r
  <2>. SUFFICES ASSUME NEW r \in Rows PROVE \E e \in Drains : f[e] = r
    OBVIOUS
  <2>1. CASE r = latest
    BY <2>1
  <2>2. CASE Owned(r)
    <3>1. PICK e \in Drains : row[e] = r
      BY <2>2 DEF Owned
    <3>2. e # d
      BY <3>1, VerifierAssumption DEF Idle
    <3>. QED  BY <3>1, <3>2
  <2>. QED  BY <2>1, <2>2
<1>4. PICK S : S = {e \in Drains : f[e] \in Rows}
  OBVIOUS
<1>5. IsFiniteSet(S) /\ Cardinality(S) <= Cardinality(Drains) /\ Cardinality(S) \in Nat
  BY <1>1, <1>4, FS_Subset, FS_CardinalityType
<1>. DEFINE g == [e \in S |-> f[e]]
<1>6. g \in Surjection(S, Rows)
  BY <1>3, <1>4 DEF Surjection
<1>7. Cardinality(Rows) <= Cardinality(S)
  <2>. HIDE DEF g
  <2>. QED  BY <1>5, <1>6, FS_Surjection
<1>. QED  BY <1>1, <1>2, <1>5, <1>7

\* Starting a run: every other drain keeps its row, with the count it stands for.
LEMMA StartKeepsRows ==
  ASSUME RowsOK, DrainsOK, ChecksOK, NEW d \in Drains, Idle(d),
         NEW jobs, InQueue(jobs), jobs # <<>>, StartRun(d, jobs), checks' = checks
  PROVE  /\ RowsOK' /\ DrainsOK'
         /\ latest' \in Rows /\ status'[latest'] = "running" /\ checked'[latest'] = 0
         /\ total'[latest'] \in Nat \ {0}
<1>1. PICK r \in Rows : /\ r # latest /\ ~ Owned(r)
                        /\ status' = [s \in Rows |->
                             IF s = r THEN "running"
                             ELSE IF status[s] \in Live THEN "cancelled"
                             ELSE IF Owned(s) THEN status[s] ELSE "free"]
                        /\ total' = [s \in Rows |-> IF s = r THEN Len(jobs)
                                                    ELSE IF Owned(s) THEN total[s] ELSE 0]
                        /\ checked' = [s \in Rows |-> IF s # r /\ Owned(s) THEN checked[s] ELSE 0]
                        /\ latest' = r /\ row' = [row EXCEPT ![d] = r]
  BY FreeRow DEF StartRun
<1>2. todo' = [todo EXCEPT ![d] = jobs] /\ counted' = [counted EXCEPT ![d] = 0]
  BY DEF StartRun
<1>3. Len(jobs) \in 0 .. N /\ Len(jobs) # 0 /\ Len(jobs) \in Nat
  BY QueueIsOrder, JobCount DEF N, InQueue
<1>4. r # NoRow /\ N \in Nat
  BY VerifierAssumption, JobCount DEF N
<1>5. \A e \in Drains : Own(e)' = Own(e)
  BY DEF Own
<1>6. row'[d] = r /\ \A e \in Drains \ {d} : row'[e] = row[e] /\ row[e] # r
  BY <1>1 DEF RowsOK, Owned
<1>7. \A e \in Drains \ {d} : row[e] # NoRow =>
        /\ row[e] \in Rows /\ Owned(row[e]) /\ status'[row[e]] = "cancelled"
        /\ total'[row[e]] = total[row[e]] /\ checked'[row[e]] = checked[row[e]]
  <2>. SUFFICES ASSUME NEW e \in Drains \ {d}, row[e] # NoRow
                PROVE  /\ row[e] \in Rows /\ Owned(row[e]) /\ status'[row[e]] = "cancelled"
                       /\ total'[row[e]] = total[row[e]] /\ checked'[row[e]] = checked[row[e]]
    OBVIOUS
  <2>1. row[e] \in Rows /\ Owned(row[e]) /\ row[e] # r
    BY <1>6 DEF RowsOK, Owned
  <2>2. status[row[e]] \in Live \cup {"cancelled"}
    BY DEF DrainsOK, DrainOK, Busy, Idle
  <2>. QED  BY <1>1, <2>1, <2>2
<1>8. \A s \in Rows : status'[s] \in {"running", "cancelled", "free"} /\ (status'[s] = "running" => s = r)
  <2>. SUFFICES ASSUME NEW s \in Rows, s # r PROVE status'[s] \in {"cancelled", "free"}
    BY <1>1
  <2>1. CASE Owned(s)
    <3>1. PICK e \in Drains : row[e] = s
      BY <2>1 DEF Owned
    <3>2. row[e] # NoRow /\ e # d
      BY <3>1, VerifierAssumption DEF Idle
    <3>. QED  BY <1>7, <3>1, <3>2
  <2>2. CASE ~ Owned(s)
    BY <1>1, <2>2
  <2>. QED  BY <2>1, <2>2
<1>9. RowsOK'
  <2>1. status' \in [Rows -> Live \cup {"free", "cancelled", "completed"}]
    BY <1>1, <1>8 DEF Live
  <2>2. total' \in [Rows -> 0 .. N] /\ checked' \in [Rows -> 0 .. N]
    BY <1>1, <1>3, <1>4 DEF RowsOK
  <2>3. latest' \in Rows \cup {NoRow} /\ row' \in [Drains -> Rows \cup {NoRow}]
    BY <1>1 DEF RowsOK
  <2>4. OneLiveRow'
    BY <1>1, <1>8 DEF OneLiveRow, Live
  <2>5. CompletedCounted'
    BY <1>8 DEF CompletedCounted
  <2>6. \A e, x \in Drains : row'[e] # NoRow /\ row'[e] = row'[x] => e = x
    BY <1>6 DEF RowsOK
  <2>. QED  BY <2>1, <2>2, <2>3, <2>4, <2>5, <2>6 DEF RowsOK
<1>10. DrainOK(d)'
  <2>1. todo'[d] = jobs /\ counted'[d] = 0
    BY <1>2 DEF DrainsOK
  <2>2. Cardinality(Own(d)) = 0
    BY FS_EmptySet DEF DrainsOK, DrainOK
  <2>3. total'[r] = Len(jobs) /\ checked'[r] = 0 /\ status'[r] = "running"
    BY <1>1
  <2>4. Busy(d)'
    BY <1>3, <1>5, <1>6, <2>1, <2>2, <2>3 DEF Busy, Live
  <2>. QED  BY <1>4, <1>6, <2>1, <2>4 DEF DrainOK, Idle
<1>11. ASSUME NEW e \in Drains \ {d} PROVE DrainOK(e)'
  <2>1. todo'[e] = todo[e] /\ counted'[e] = counted[e] /\ row'[e] = row[e] /\ row[e] # r
    BY <1>2, <1>6 DEF DrainsOK
  <2>2. Idle(e)' <=> Idle(e)
    BY <2>1 DEF Idle
  <2>3. ~ Idle(e) => Busy(e)'
    BY <1>1, <1>5, <1>7, <2>1 DEF DrainsOK, DrainOK, Busy, Idle
  <2>. QED  BY <1>5, <2>1, <2>2, <2>3 DEF DrainsOK, DrainOK
<1>12. todo' = [e \in Drains |-> todo'[e]] /\ counted' = [e \in Drains |-> counted'[e]]
  BY <1>2 DEF DrainsOK
<1>. QED  BY <1>1, <1>3, <1>9, <1>10, <1>11, <1>12 DEF DrainsOK

-----------------------------------------------------------------------------
(* Checks.                                                                 *)

\* A batch makes one check of each of its jobs.
LEMMA BatchCount ==
  ASSUME NEW batch, InQueue(batch), NEW d \in Drains, NEW new,
         new = {[drain |-> d, job |-> batch[i], phase |-> "created", closed |-> FALSE] :
                   i \in DOMAIN batch}
  PROVE  /\ new \subseteq Check /\ IsFiniteSet(new) /\ Cardinality(new) = Len(batch)
         /\ \A c \in new : c.drain = d /\ ~ c.closed
         /\ \A c, x \in new : c.job = x.job => c = x
<1>. DEFINE rec(i) == [drain |-> d, job |-> batch[i], phase |-> "created", closed |-> FALSE]
            f == [i \in 1 .. Len(batch) |-> rec(i)]
<1>1. batch \in Seq(Jobs) /\ Len(batch) \in Nat /\ DOMAIN batch = 1 .. Len(batch)
  BY DEF InQueue
<1>2. \A i \in 1 .. Len(batch) : /\ rec(i) \in Check /\ rec(i).drain = d /\ ~ rec(i).closed
                                 /\ rec(i).job = batch[i]
  BY <1>1 DEF Check
<1>. HIDE DEF rec
<1>3. new = {rec(i) : i \in 1 .. Len(batch)}
  BY <1>1 DEF rec
<1>4. f \in Surjection(1 .. Len(batch), new)
  BY <1>3 DEF Surjection
<1>5. f \in Injection(1 .. Len(batch), new)
  BY <1>2, <1>3 DEF Injection, IsInjective, InQueue
<1>6. IsFiniteSet(1 .. Len(batch)) /\ Cardinality(1 .. Len(batch)) = Len(batch)
  <2>1. 1 \in Int /\ Len(batch) \in Int /\ Len(batch) >= 0
    BY <1>1
  <2>2. /\ IsFiniteSet(1 .. Len(batch))
        /\ Cardinality(1 .. Len(batch)) = IF 1 > Len(batch) THEN 0 ELSE Len(batch) - 1 + 1
    BY <2>1, FS_Interval
  <2>. QED  BY <2>1, <2>2
<1>7. IsFiniteSet(new) /\ Cardinality(new) = Len(batch)
  <2>. HIDE DEF f
  <2>. QED  BY <1>4, <1>5, <1>6, FS_Surjection
<1>. QED  BY <1>2, <1>3, <1>7 DEF InQueue

LEMMA MovedCheck ==
  ASSUME NEW c \in Check, NEW p \in {"created", "queued", "admitted", "sent"}
  PROVE  LET m == [c EXCEPT !.phase = p] IN
         m \in Check /\ m.drain = c.drain /\ m.job = c.job /\ m.closed = c.closed
BY DEF Check

\* A check that moves on is counted as before.
LEMMA MoveKeepsOwn ==
  ASSUME ChecksOK, NEW c \in checks, NEW p \in {"created", "queued", "admitted", "sent"},
         MoveTo(c, p)
  PROVE  /\ ChecksOK'
         /\ \A d \in Drains : /\ Cardinality(Own(d))' = Cardinality(Own(d))
                              /\ Own(d) = {} => Own(d)' = {}
<1>. DEFINE m == [c EXCEPT !.phase = p]
<1>1. c \in Check
  BY DEF ChecksOK
<1>2. m \in Check /\ m.drain = c.drain /\ m.job = c.job /\ m.closed = c.closed
  BY <1>1, MovedCheck
<1>3. checks' = (checks \ {c}) \cup {m}
  BY DEF MoveTo
<1>. HIDE DEF m
<1>4. ChecksOK'
  <2>1. IsFiniteSet(checks')
    BY <1>3, FS_RemoveElement, FS_AddElement DEF ChecksOK
  <2>. QED  BY <1>2, <1>3, <2>1 DEF ChecksOK
<1>5. ASSUME NEW d \in Drains
      PROVE  /\ Cardinality(Own(d))' = Cardinality(Own(d))
             /\ Own(d) = {} => Own(d)' = {}
  <2>1. CASE c \notin Own(d)
    <3>1. Own(d)' = Own(d)
      BY <1>2, <1>3, <2>1 DEF Own
    <3>. QED  BY <3>1
  <2>2. CASE c \in Own(d)
    <3>1. Own(d)' = (Own(d) \ {c}) \cup {m}
      BY <1>2, <1>3, <2>2 DEF Own
    <3>2. m \notin Own(d) \ {c}
      BY <1>2, <2>2 DEF Own, ChecksOK
    <3>3. IsFiniteSet(Own(d)) /\ Cardinality(Own(d)) \in Nat
      BY OwnFinite
    <3>4. IsFiniteSet(Own(d) \ {c}) /\ Cardinality(Own(d) \ {c}) = Cardinality(Own(d)) - 1
      BY <2>2, <3>3, FS_RemoveElement
    <3>5. Cardinality((Own(d) \ {c}) \cup {m}) = Cardinality(Own(d) \ {c}) + 1
      BY <3>2, <3>4, FS_AddElement
    <3>. QED  BY <2>2, <3>1, <3>3, <3>4, <3>5
  <2>. QED  BY <2>1, <2>2
<1>. QED  BY <1>4, <1>5

LEMMA MoveKeepsDrains ==
  ASSUME RowsOK, DrainsOK, ChecksOK, NEW c \in checks,
         NEW p \in {"created", "queued", "admitted", "sent"}, MoveTo(c, p),
         UNCHANGED <<rowVars, runVars>>
  PROVE  ChecksOK' /\ DrainsOK'
<1>1. UNCHANGED <<status, total, checked, latest, row, todo, counted>>
  BY DEF rowVars, runVars
<1>2. /\ ChecksOK'
      /\ \A d \in Drains : /\ Cardinality(Own(d))' = Cardinality(Own(d))
                           /\ Own(d) = {} => Own(d)' = {}
  BY MoveKeepsOwn
<1>3. ASSUME NEW d \in Drains PROVE DrainOK(d)'
  BY <1>1, <1>2 DEF DrainsOK, DrainOK, Busy, Idle
<1>. QED  BY <1>1, <1>2, <1>3 DEF DrainsOK

\* A check that ends is counted by the drain that waits for it.
LEMMA RecordKeepsDrains ==
  ASSUME RowsOK, DrainsOK, ChecksOK, NEW c \in checks, NEW result, Record(c, result),
         UNCHANGED <<rowVars, row, todo>>
  PROVE  ChecksOK' /\ DrainsOK'
<1>1. UNCHANGED <<status, total, checked, latest, row, todo>>
  BY DEF rowVars
<1>2. checks' = checks \ {c} /\ c \in Check
  BY DEF Record, ChecksOK
<1>3. ChecksOK'
  BY <1>2, FS_RemoveElement DEF ChecksOK
<1>4. ASSUME NEW d \in Drains PROVE DrainOK(d)'
  <2>1. Own(d)' = Own(d) \ {c}
    BY <1>2 DEF Own
  <2>2. IsFiniteSet(Own(d)) /\ Cardinality(Own(d)) \in Nat
    BY OwnFinite
  <2>3. CASE c \notin Own(d)
    <3>1. Own(d)' = Own(d)
      BY <2>1, <2>3
    <3>2. counted'[d] = counted[d]
      BY <2>3 DEF Record, Own, DrainsOK
    <3>. QED  BY <1>1, <3>1, <3>2 DEF DrainsOK, DrainOK, Busy, Idle
  <2>4. CASE c \in Own(d)
    <3>1. counted' = [counted EXCEPT ![d] = @ + 1]
      BY <2>4 DEF Record, Own
    <3>2. counted'[d] = counted[d] + 1 /\ counted[d] \in Nat
      BY <3>1 DEF DrainsOK, DrainOK
    <3>3. Cardinality(Own(d))' = Cardinality(Own(d)) - 1
      BY <2>1, <2>2, <2>4, FS_RemoveElement
    <3>4. ~ Idle(d) /\ Busy(d) /\ InQueue(todo[d])
      BY <2>4 DEF DrainsOK, DrainOK
    <3>5. row[d] \in Rows /\ checked[row[d]] \in Nat /\ Len(todo[d]) \in Nat
      BY <3>4, JobCount DEF Idle, RowsOK, InQueue, N
    <3>6. Busy(d)'
      BY <1>1, <2>2, <3>2, <3>3, <3>4, <3>5 DEF Busy
    <3>. QED  BY <1>1, <3>2, <3>4, <3>6 DEF DrainOK, Idle
  <2>. QED  BY <2>3, <2>4
<1>5. counted' = [d \in Drains |-> counted'[d]]
  BY DEF Record, DrainsOK
<1>. QED  BY <1>1, <1>3, <1>4, <1>5 DEF DrainsOK

LEMMA ClosedCheck ==
  ASSUME NEW x \in Check, NEW b \in BOOLEAN
  PROVE  LET y == [x EXCEPT !.closed = @ \/ b] IN
         /\ y \in Check /\ y.drain = x.drain /\ y.job = x.job /\ (y.closed <=> x.closed \/ b)
         /\ ~ b => y = x
BY Zenon DEF Check

\* The drain of a check that fails gives up its row and its other checks.
LEMMA FailKeepsDrains ==
  ASSUME RowsOK, DrainsOK, ChecksOK, NEW c \in checks, CheckFails(c)
  PROVE  RowsOK' /\ DrainsOK' /\ ChecksOK'
<1>. DEFINE d == c.drain
            closing(x) == [x EXCEPT !.closed = @ \/ x.drain = d]
<1>1. c \in Check /\ d \in Drains /\ c \in Own(d)
  BY DEF ChecksOK, Check, CheckFails, Own
<1>2. /\ checks' = {closing(x) : x \in checks \ {c}}
      /\ row' = [row EXCEPT ![d] = NoRow] /\ todo' = [todo EXCEPT ![d] = <<>>]
      /\ counted' = [counted EXCEPT ![d] = 0]
      /\ UNCHANGED <<status, total, checked, latest>>
  BY DEF CheckFails, rowVars
<1>3. \A x \in checks : /\ closing(x) \in Check /\ closing(x).drain = x.drain
                        /\ closing(x).job = x.job
                        /\ closing(x).closed <=> x.closed \/ x.drain = d
                        /\ x.drain # d => closing(x) = x
  BY ClosedCheck DEF ChecksOK
<1>. HIDE DEF closing
<1>4. ChecksOK'
  <2>1. IsFiniteSet(checks \ {c})
    BY FS_RemoveElement DEF ChecksOK
  <2>2. IsFiniteSet({closing(x) : x \in checks \ {c}})
    <3>. DEFINE f == [x \in checks \ {c} |-> closing(x)]
                T == {closing(x) : x \in checks \ {c}}
    <3>1. f \in Surjection(checks \ {c}, T)
      BY DEF Surjection
    <3>. HIDE DEF f, T
    <3>2. IsFiniteSet(T)
      BY <2>1, <3>1, FS_Surjection
    <3>. QED  BY <3>2 DEF T
  <2>3. checks' \subseteq Check
    BY <1>2, <1>3
  <2>4. ASSUME NEW x \in checks', NEW y \in checks', ~ x.closed, ~ y.closed,
               x.drain = y.drain, x.job = y.job
        PROVE  x = y
    <3>1. PICK u \in checks, v \in checks : x = closing(u) /\ y = closing(v)
      BY <1>2
    <3>2. ~ u.closed /\ u.drain # d /\ ~ v.closed /\ v.drain # d
      BY <1>3, <2>4, <3>1
    <3>3. u.drain = v.drain /\ u.job = v.job
      BY <1>3, <2>4, <3>1
    <3>4. u = v
      BY <3>2, <3>3 DEF ChecksOK
    <3>. QED  BY <3>1, <3>4
  <2>. QED  BY <1>2, <2>2, <2>3, <2>4 DEF ChecksOK
<1>5. row'[d] = NoRow /\ \A e \in Drains \ {d} : row'[e] = row[e]
  BY <1>1, <1>2 DEF RowsOK
<1>6. RowsOK'
  <2>1. row' \in [Drains -> Rows \cup {NoRow}]
    BY <1>2 DEF RowsOK
  <2>2. \A e, x \in Drains : row'[e] # NoRow /\ row'[e] = row'[x] => e = x
    BY <1>5 DEF RowsOK
  <2>. QED  BY <1>2, <2>1, <2>2 DEF RowsOK, OneLiveRow, CompletedCounted
<1>7. Own(d)' = {}
  <2>1. \A x \in checks : closing(x).drain = d => closing(x).closed
    BY <1>3
  <2>. QED  BY <1>2, <2>1 DEF Own
<1>8. ASSUME NEW e \in Drains \ {d} PROVE Own(e)' = Own(e)
  <2>1. ASSUME NEW x \in Own(e) PROVE x \in Own(e)'
    <3>1. x \in checks \ {c} /\ closing(x) = x
      BY <1>1, <1>3, <2>1 DEF Own
    <3>. QED  BY <1>2, <2>1, <3>1 DEF Own
  <2>2. ASSUME NEW x \in Own(e)' PROVE x \in Own(e)
    <3>1. x \in checks' /\ x.drain = e /\ ~ x.closed
      BY <2>2 DEF Own
    <3>2. PICK u \in checks : x = closing(u)
      BY <1>2, <3>1
    <3>3. u.drain = e
      BY <1>3, <3>1, <3>2
    <3>4. x = u
      BY <1>3, <3>2, <3>3
    <3>. QED  BY <3>1, <3>4 DEF Own
  <2>. QED  BY <2>1, <2>2
<1>9. DrainOK(d)'
  BY <1>1, <1>2, <1>5, <1>7 DEF DrainsOK, DrainOK, Idle, InQueue
<1>10. ASSUME NEW e \in Drains \ {d} PROVE DrainOK(e)'
  <2>1. todo'[e] = todo[e] /\ counted'[e] = counted[e] /\ row'[e] = row[e]
    BY <1>2, <1>5 DEF DrainsOK
  <2>. QED  BY <1>2, <1>8, <2>1 DEF DrainsOK, DrainOK, Busy, Idle
<1>11. todo' = [e \in Drains |-> todo'[e]] /\ counted' = [e \in Drains |-> counted'[e]]
  BY <1>2 DEF DrainsOK
<1>. QED  BY <1>4, <1>6, <1>9, <1>10, <1>11 DEF DrainsOK

-----------------------------------------------------------------------------
(* The drain's own steps.                                                  *)

LEMMA DispatchKeepsDrains ==
  ASSUME RowsOK, DrainsOK, ChecksOK, NEW d \in Drains, Dispatch(d)
  PROVE  RowsOK' /\ DrainsOK' /\ ChecksOK'
<1>. DEFINE batch == First(GlobalLimit, todo[d])
            new == {[drain |-> d, job |-> batch[i], phase |-> "created", closed |-> FALSE] :
                      i \in DOMAIN batch}
<1>1. ~ Idle(d) /\ Busy(d) /\ InQueue(todo[d]) /\ Own(d) = {} /\ counted[d] \in Nat
  BY DEF Dispatch, DrainsOK, DrainOK
<1>2. /\ checks' = checks \cup new
      /\ todo' = [todo EXCEPT ![d] = SubSeq(@, Len(batch) + 1, Len(@))]
      /\ \/ checked' = checked
         \/ checked' = [checked EXCEPT ![row[d]] = counted[d]]
      /\ UNCHANGED <<status, total, latest, row, counted>>
  BY DEF Dispatch
<1>3. InQueue(batch) /\ Len(batch) <= Len(todo[d])
  BY <1>1, FirstOfQueue, VerifierAssumption
<1>4. /\ new \subseteq Check /\ IsFiniteSet(new) /\ Cardinality(new) = Len(batch)
      /\ \A c \in new : c.drain = d /\ ~ c.closed
      /\ \A c, x \in new : c.job = x.job => c = x
  <2>. HIDE DEF batch
  <2>1. new = {[drain |-> d, job |-> batch[i], phase |-> "created", closed |-> FALSE] :
                  i \in DOMAIN batch}
    OBVIOUS
  <2>. HIDE DEF new
  <2>. QED  BY <1>3, <2>1, BatchCount
<1>. HIDE DEF batch, new
<1>5. Len(batch) \in 0 .. Len(todo[d]) /\ Len(batch) \in Nat /\ Len(todo[d]) \in Nat
  BY <1>1, <1>3 DEF InQueue
<1>6. todo'[d] = SubSeq(todo[d], Len(batch) + 1, Len(todo[d]))
  BY <1>2 DEF DrainsOK
<1>7. InQueue(todo'[d]) /\ Len(todo'[d]) = Len(todo[d]) - Len(batch)
  BY <1>1, <1>5, <1>6, RestOfQueue
<1>8. Own(d)' = new /\ \A e \in Drains \ {d} : Own(e)' = Own(e)
  BY <1>1, <1>2, <1>4 DEF Own
<1>9. Cardinality(Own(d)) = 0
  BY <1>1, FS_EmptySet
<1>10. row[d] \in Rows /\ total[row[d]] \in 0 .. N /\ N \in Nat /\ counted[d] \in 0 .. N
       /\ checked[row[d]] \in Nat
  <2>1. row[d] \in Rows /\ total[row[d]] \in 0 .. N /\ N \in Nat /\ checked[row[d]] \in 0 .. N
    BY <1>1, JobCount DEF Idle, RowsOK, N
  <2>2. counted[d] + Len(todo[d]) = total[row[d]]
    BY <1>1, <1>5, <1>9 DEF Busy
  <2>. QED  BY <1>1, <1>5, <2>1, <2>2
<1>11. /\ checked' \in [Rows -> 0 .. N] /\ checked'[row[d]] <= counted[d]
       /\ \A r \in Rows \ {row[d]} : checked'[r] = checked[r]
  <2>1. checked[row[d]] <= counted[d] /\ checked \in [Rows -> 0 .. N]
    BY <1>1 DEF Busy, RowsOK
  <2>2. CASE checked' = checked
    BY <2>1, <2>2
  <2>3. CASE checked' = [checked EXCEPT ![row[d]] = counted[d]]
    BY <1>10, <2>1, <2>3
  <2>. QED  BY <1>2, <2>2, <2>3
<1>12. RowsOK'
  <2>1. status[row[d]] # "completed"
    BY <1>1 DEF Busy, Live
  <2>2. CompletedCounted'
    BY <1>2, <1>11, <2>1 DEF CompletedCounted, RowsOK
  <2>. QED  BY <1>2, <1>11, <2>2 DEF RowsOK, OneLiveRow
<1>13. ChecksOK'
  <2>1. IsFiniteSet(checks')
    BY <1>2, <1>4, FS_Union DEF ChecksOK
  <2>2. checks' \subseteq Check
    BY <1>2, <1>4 DEF ChecksOK
  <2>3. ASSUME NEW c \in checks', NEW x \in checks', ~ c.closed, ~ x.closed,
               c.drain = x.drain, c.job = x.job
        PROVE  c = x
    <3>1. CASE c.drain = d
      BY <1>1, <1>2, <1>4, <2>3, <3>1 DEF Own
    <3>2. CASE c.drain # d
      BY <1>2, <1>4, <2>3, <3>2 DEF ChecksOK
    <3>. QED  BY <3>1, <3>2
  <2>. QED  BY <2>1, <2>2, <2>3 DEF ChecksOK
<1>14. DrainOK(d)'
  <2>1. counted'[d] + Cardinality(Own(d)') + Len(todo'[d]) = total'[row'[d]]
    <3>1. Cardinality(Own(d)') = Len(batch)
      BY <1>4, <1>8
    <3>2. counted[d] + 0 + Len(todo[d]) = total[row[d]]
      BY <1>1, <1>9 DEF Busy
    <3>3. counted[d] + Len(batch) + (Len(todo[d]) - Len(batch)) = total[row[d]]
      BY <1>1, <1>5, <3>2
    <3>. QED  BY <1>2, <1>7, <3>1, <3>3
  <2>2. Busy(d)'
    BY <1>1, <1>2, <1>11, <2>1 DEF Busy
  <2>. QED  BY <1>1, <1>2, <1>7, <2>2 DEF DrainOK, Idle
<1>15. ASSUME NEW e \in Drains \ {d} PROVE DrainOK(e)'
  <2>1. todo'[e] = todo[e] /\ counted'[e] = counted[e] /\ row'[e] = row[e]
    BY <1>2 DEF DrainsOK
  <2>2. row[e] # NoRow => row[e] \in Rows /\ row[e] # row[d]
    BY <1>1 DEF RowsOK, Idle
  <2>. QED  BY <1>2, <1>8, <1>11, <2>1, <2>2 DEF DrainsOK, DrainOK, Busy, Idle
<1>16. todo' = [e \in Drains |-> todo'[e]] /\ counted' = [e \in Drains |-> counted'[e]]
  BY <1>2 DEF DrainsOK
<1>. QED  BY <1>12, <1>13, <1>14, <1>15, <1>16 DEF DrainsOK

LEMMA FinishKeepsDrains ==
  ASSUME RowsOK, DrainsOK, ChecksOK, NEW d \in Drains, Finish(d)
  PROVE  RowsOK' /\ DrainsOK' /\ ChecksOK'
<1>. DEFINE r == row[d]
<1>1. ~ Idle(d) /\ Busy(d) /\ InQueue(todo[d]) /\ Own(d) = {} /\ counted[d] \in Nat
  BY DEF Finish, DrainsOK, DrainOK
<1>2. /\ status' = [status EXCEPT ![r] = IF todo[d] = <<>> THEN "completed" ELSE "cancelled"]
      /\ checked' = [checked EXCEPT ![r] = counted[d]]
      /\ row' = [row EXCEPT ![d] = NoRow]
      /\ todo' = [todo EXCEPT ![d] = <<>>] /\ counted' = [counted EXCEPT ![d] = 0]
      /\ UNCHANGED <<total, latest, checks>>
  BY DEF Finish
<1>3. r \in Rows /\ total[r] \in 0 .. N /\ N \in Nat
  BY <1>1, JobCount DEF Idle, RowsOK, N
<1>4. counted[d] + Len(todo[d]) = total[r] /\ Len(todo[d]) \in Nat
  <2>1. Cardinality(Own(d)) = 0
    BY <1>1, FS_EmptySet
  <2>2. Len(todo[d]) \in Nat
    BY <1>1 DEF InQueue
  <2>. QED  BY <1>1, <2>1, <2>2 DEF Busy
<1>5. counted[d] \in 0 .. N /\ (todo[d] = <<>> => counted[d] = total[r])
  BY <1>1, <1>3, <1>4
<1>6. /\ row'[d] = NoRow
      /\ \A e \in Drains \ {d} : row'[e] = row[e] /\ (row[e] # NoRow => row[e] \in Rows \ {r})
  BY <1>1, <1>2 DEF RowsOK, Idle
<1>7. /\ \A s \in Rows \ {r} : status'[s] = status[s] /\ checked'[s] = checked[s]
      /\ checked'[r] = counted[d]
      /\ status'[r] = IF todo[d] = <<>> THEN "completed" ELSE "cancelled"
  BY <1>2, <1>3 DEF RowsOK
<1>. HIDE DEF r
<1>8. RowsOK'
  <2>1. status' \in [Rows -> Live \cup {"free", "cancelled", "completed"}]
    BY <1>2 DEF RowsOK
  <2>2. checked' \in [Rows -> 0 .. N]
    BY <1>2, <1>5 DEF RowsOK
  <2>3. row' \in [Drains -> Rows \cup {NoRow}]
    BY <1>2 DEF RowsOK
  <2>4. OneLiveRow'
    BY <1>2, <1>7 DEF RowsOK, OneLiveRow, Live
  <2>5. CompletedCounted'
    BY <1>2, <1>5, <1>7 DEF RowsOK, CompletedCounted
  <2>6. \A e, x \in Drains : row'[e] # NoRow /\ row'[e] = row'[x] => e = x
    BY <1>6 DEF RowsOK
  <2>. QED  BY <1>2, <2>1, <2>2, <2>3, <2>4, <2>5, <2>6 DEF RowsOK
<1>9. \A e \in Drains : Own(e)' = Own(e)
  BY <1>2 DEF Own
<1>10. DrainOK(d)'
  BY <1>1, <1>2, <1>6, <1>9 DEF DrainsOK, DrainOK, Idle, InQueue
<1>11. ASSUME NEW e \in Drains \ {d} PROVE DrainOK(e)'
  <2>1. todo'[e] = todo[e] /\ counted'[e] = counted[e]
    BY <1>2 DEF DrainsOK
  <2>2. DrainOK(e) /\ Own(e)' = Own(e) /\ row'[e] = row[e]
    BY <1>6, <1>9 DEF DrainsOK
  <2>3. ASSUME row[e] # NoRow PROVE Busy(e)'
    <3>1. Busy(e) /\ row[e] \in Rows \ {r}
      BY <1>6, <2>2, <2>3 DEF DrainOK, Idle
    <3>2. status'[row[e]] = status[row[e]] /\ checked'[row[e]] = checked[row[e]]
      BY <1>7, <3>1
    <3>. QED  BY <1>2, <2>1, <2>2, <3>1, <3>2 DEF Busy
  <2>. QED  BY <2>1, <2>2, <2>3 DEF DrainOK, Idle
<1>12. todo' = [e \in Drains |-> todo'[e]] /\ counted' = [e \in Drains |-> counted'[e]]
  BY <1>2 DEF DrainsOK
<1>. QED  BY <1>2, <1>8, <1>10, <1>11, <1>12 DEF DrainsOK, ChecksOK

-----------------------------------------------------------------------------
(* The inductive invariant, and what each step does to the board.          *)

OthersOK ==
  /\ lock \in SweepTicks \cup SuspectTicks \cup DropDrains \cup {NoDrain}
  /\ backoff \subseteq Hosts
  /\ disturbed \in 0 .. MaxDisturbances

IInv == JobsOK /\ RowsOK /\ DrainsOK /\ ChecksOK /\ OthersOK

BoardStep == [Board!Next]_(Board!vars)

LEMMA InitIInv == Init => IInv /\ Board!Init
<1>. SUFFICES ASSUME Init PROVE IInv /\ Board!Init
  OBVIOUS
<1>1. JobsOK
  BY InitJobs
<1>2. RowsOK
  BY JobCount DEF Init, RowsOK, N, OneLiveRow, CompletedCounted, Live
<1>3. ChecksOK
  BY FS_EmptySet DEF Init, ChecksOK
<1>4. DrainsOK
  <2>1. ASSUME NEW d \in Drains PROVE DrainOK(d)
    BY DEF Init, DrainOK, Idle, Own, InQueue
  <2>. QED  BY <2>1 DEF Init, DrainsOK
<1>5. OthersOK
  BY VerifierAssumption DEF Init, OthersOK
<1>6. Board!Init
  BY DEF Init, Board!Init
<1>. QED  BY <1>1, <1>2, <1>3, <1>4, <1>5, <1>6 DEF IInv

LEMMA StartShown ==
  ASSUME IInv, NEW d \in Drains, Idle(d), NEW jobs, InQueue(jobs), jobs # <<>>,
         StartRun(d, jobs), checks' = checks
  PROVE  RowsOK' /\ DrainsOK' /\ ChecksOK' /\ BoardStep
<1>1. /\ RowsOK' /\ DrainsOK'
      /\ latest' \in Rows /\ status'[latest'] = "running" /\ checked'[latest'] = 0
      /\ total'[latest'] \in Nat \ {0}
  BY StartKeepsRows DEF IInv
<1>2. latest' # NoRow
  BY <1>1, VerifierAssumption
<1>3. ChecksOK'
  BY DEF IInv, ChecksOK
<1>4. Board!Start
  BY <1>1, <1>2 DEF Board!Start
<1>. QED  BY <1>1, <1>3, <1>4 DEF BoardStep, Board!Next

LEMMA BeginKeeps ==
  ASSUME IInv, Begin
  PROVE  IInv' /\ BoardStep
<1>1. ASSUME NEW d \in SweepTicks, SweepTick(d) PROVE IInv' /\ BoardStep
  <2>1. InQueue(PickSweep)
    BY SweepPicksOnce DEF IInv
  <2>2. JobsOK' /\ OthersOK'
    BY <1>1 DEF IInv, SweepTick, jobVars, JobsOK, OthersOK
  <2>3. RowsOK' /\ DrainsOK' /\ ChecksOK' /\ BoardStep
    BY <1>1, <2>1, StartShown DEF SweepTick, Drains
  <2>. QED  BY <2>2, <2>3 DEF IInv
<1>2. ASSUME NEW d \in SuspectTicks, SuspectTick(d) PROVE IInv' /\ BoardStep
  <2>1. InQueue(PickSuspected)
    BY SuspectedPickedOnce DEF IInv
  <2>2. JobsOK' /\ OthersOK'
    BY <1>2 DEF IInv, SuspectTick, jobVars, JobsOK, OthersOK
  <2>3. RowsOK' /\ DrainsOK' /\ ChecksOK' /\ BoardStep
    BY <1>2, <2>1, StartShown DEF SuspectTick, Drains
  <2>. QED  BY <2>2, <2>3 DEF IInv
<1>3. ASSUME NEW d \in DropDrains, DropDrain(d) PROVE IInv' /\ BoardStep
  <2>1. PICK missing \in Orders :
          /\ Len(missing) \in 1 .. DropBatch
          /\ \A i, k \in DOMAIN missing : i # k => missing[i] # missing[k]
          /\ \A i \in DOMAIN missing : standing[missing[i]] = "active"
          /\ standing' = [j \in Jobs |-> IF \E i \in DOMAIN missing : missing[i] = j
                                         THEN "suspected" ELSE standing[j]]
          /\ bySuspicion' = bySuspicion \o missing
          /\ StartRun(d, missing)
    BY <1>3 DEF DropDrain
  <2>2. byCheck' = byCheck /\ checks' = checks
    BY <1>3 DEF DropDrain
  <2>3. JobsOK' /\ InQueue(missing)
    BY <2>1, <2>2, MissingKeepJobs DEF IInv
  <2>4. OthersOK'
    BY <1>3 DEF IInv, DropDrain, OthersOK
  <2>5. missing # <<>>
    BY <2>1
  <2>6. RowsOK' /\ DrainsOK' /\ ChecksOK' /\ BoardStep
    BY <1>3, <2>1, <2>2, <2>3, <2>5, StartShown DEF DropDrain, Drains
  <2>. QED  BY <2>3, <2>4, <2>6 DEF IInv
<1>4. ASSUME NEW d \in AdminSweeps, AdminSweep(d) PROVE IInv' /\ BoardStep
  <2>1. InQueue(PickSweep)
    BY SweepPicksOnce DEF IInv
  <2>2. JobsOK' /\ OthersOK'
    BY <1>4 DEF IInv, AdminSweep, jobVars, JobsOK, OthersOK
  <2>3. RowsOK' /\ DrainsOK' /\ ChecksOK' /\ BoardStep
    BY <1>4, <2>1, StartShown DEF AdminSweep, Drains
  <2>. QED  BY <2>2, <2>3 DEF IInv
<1>. QED  BY <1>1, <1>2, <1>3, <1>4 DEF Begin

\* Nothing is shown to change when no row does.
LEMMA RowsShown ==
  ASSUME UNCHANGED <<status, total, checked, latest>>
  PROVE  BoardStep
BY DEF BoardStep, Board!vars

\* Progress of the latest row only grows, of a live run.
LEMMA DispatchShown ==
  ASSUME IInv, NEW d \in Drains, Dispatch(d)
  PROVE  BoardStep
<1>1. ~ Idle(d) /\ Busy(d) /\ counted[d] \in Nat /\ InQueue(todo[d])
  BY DEF Dispatch, IInv, DrainsOK, DrainOK
<1>2. CASE checked' = checked
  BY <1>2, RowsShown DEF Dispatch
<1>3. CASE checked' = [checked EXCEPT ![row[d]] = counted[d]]
  <2>1. UNCHANGED <<status, total, latest>>
    BY DEF Dispatch
  <2>2. CASE row[d] # latest
    <3>1. latest # NoRow => checked'[latest] = checked[latest]
      BY <1>3, <2>2 DEF IInv, RowsOK
    <3>. QED  BY <2>1, <3>1 DEF BoardStep, Board!vars
  <2>3. CASE row[d] = latest
    <3>1. latest \in Rows /\ latest # NoRow
      BY <1>1, <2>3 DEF Idle, IInv, RowsOK
    <3>2. status[latest] \in Live /\ checked[latest] <= counted[d] /\ checked[latest] \in Nat
      BY <1>1, <2>3, <3>1, JobCount DEF Busy, IInv, RowsOK, N
    <3>3. counted[d] <= total[latest] /\ total[latest] \in Nat
      <4>1. Cardinality(Own(d)) \in Nat /\ Len(todo[d]) \in Nat /\ total[latest] \in Nat
        BY <1>1, <3>1, OwnFinite, JobCount DEF IInv, InQueue, RowsOK, N
      <4>2. counted[d] + Cardinality(Own(d)) + Len(todo[d]) = total[latest]
        BY <1>1, <2>3 DEF Busy
      <4>. QED  BY <1>1, <4>1, <4>2
    <3>4. checked'[latest] = counted[d]
      BY <1>3, <2>3, <3>1 DEF IInv, RowsOK
    <3>5. counted[d] \in checked[latest] .. total[latest]
      BY <1>1, <3>2, <3>3
    <3>6. Board!Progress
      BY <2>1, <3>1, <3>2, <3>4, <3>5 DEF Board!Progress, Board!Live, Live
    <3>. QED  BY <3>6 DEF BoardStep, Board!Next
  <2>. QED  BY <2>2, <2>3
<1>. QED  BY <1>2, <1>3 DEF Dispatch

\* The last write of a drain completes the run shown, or ends it after a stop.
LEMMA FinishShown ==
  ASSUME IInv, NEW d \in Drains, Finish(d)
  PROVE  BoardStep
<1>. DEFINE r == row[d]
<1>1. ~ Idle(d) /\ Busy(d) /\ counted[d] \in Nat /\ InQueue(todo[d]) /\ Own(d) = {}
  BY DEF Finish, IInv, DrainsOK, DrainOK
<1>2. r \in Rows /\ r # NoRow /\ checked[r] \in Nat /\ total[r] \in Nat
  BY <1>1, JobCount DEF Idle, IInv, RowsOK, N
<1>3. /\ status' = [status EXCEPT ![r] = IF todo[d] = <<>> THEN "completed" ELSE "cancelled"]
      /\ checked' = [checked EXCEPT ![r] = counted[d]]
      /\ UNCHANGED <<total, latest>>
  BY DEF Finish
<1>4. /\ status'[r] = (IF todo[d] = <<>> THEN "completed" ELSE "cancelled")
      /\ checked'[r] = counted[d]
      /\ \A s \in Rows \ {r} : status'[s] = status[s] /\ checked'[s] = checked[s]
  BY <1>2, <1>3 DEF IInv, RowsOK
<1>5. CASE r # latest
  <2>1. latest # NoRow => status'[latest] = status[latest] /\ checked'[latest] = checked[latest]
    BY <1>4, <1>5 DEF IInv, RowsOK
  <2>. QED  BY <1>3, <2>1 DEF BoardStep, Board!vars
<1>6. CASE r = latest
  <2>1. status[r] \in Live /\ checked[r] <= counted[d]
    BY <1>1, <1>6 DEF Busy
  <2>2. counted[d] + Len(todo[d]) = total[r] /\ Len(todo[d]) \in Nat
    <3>1. Cardinality(Own(d)) = 0
      BY <1>1, FS_EmptySet
    <3>2. Len(todo[d]) \in Nat
      BY <1>1 DEF InQueue
    <3>. QED  BY <1>1, <3>1, <3>2 DEF Busy
  <2>3. CASE todo[d] = <<>>
    <3>1. counted[d] = total[r] /\ status'[r] = "completed"
      BY <1>1, <1>2, <1>4, <2>2, <2>3
    <3>2. Board!Complete
      BY <1>2, <1>3, <1>4, <1>6, <2>1, <3>1 DEF Board!Complete, Board!Live, Live
    <3>. QED  BY <3>2 DEF BoardStep, Board!Next
  <2>4. CASE todo[d] # <<>>
    <3>1. status[r] = "cancel_requested" /\ status'[r] = "cancelled"
      BY <1>4, <2>4 DEF Finish
    <3>2. counted[d] \in checked[r] .. total[r]
      BY <1>1, <1>2, <2>1, <2>2
    <3>3. Board!Cancel
      BY <1>2, <1>3, <1>4, <1>6, <3>1, <3>2 DEF Board!Cancel
    <3>. QED  BY <3>3 DEF BoardStep, Board!Next
  <2>. QED  BY <2>3, <2>4
<1>. QED  BY <1>5, <1>6

LEMMA AdvanceKeeps ==
  ASSUME IInv, NEW d \in Drains, Advance(d)
  PROVE  IInv' /\ BoardStep
<1>1. CASE Dispatch(d)
  <2>1. JobsOK' /\ OthersOK'
    BY <1>1 DEF IInv, Dispatch, jobVars, JobsOK, OthersOK
  <2>. QED  BY <1>1, <2>1, DispatchKeepsDrains, DispatchShown DEF IInv
<1>2. CASE Finish(d)
  <2>1. JobsOK'
    BY <1>2 DEF IInv, Finish, jobVars, JobsOK
  <2>2. OthersOK'
    BY <1>2 DEF IInv, Finish, Release, OthersOK
  <2>. QED  BY <1>2, <2>1, <2>2, FinishKeepsDrains, FinishShown DEF IInv
<1>. QED  BY <1>1, <1>2 DEF Advance

LEMMA CheckKeeps ==
  ASSUME IInv, NEW c \in checks, CheckStep(c) \/ CheckFails(c)
  PROVE  IInv' /\ BoardStep
<1>. USE DEF IInv
<1>1. c \in Check /\ c.job \in Jobs /\ AtsOf[c.job] \in Hosts
  BY DEF ChecksOK, Check, Hosts
<1>2. CASE Enter(c)
  <2>1. UNCHANGED <<rowVars, row, todo, lock, backoff, disturbed>>
    BY <1>2 DEF Enter
  <2>2. CASE Record(c, "unknown")
    <3>1. JobsOK'
      BY <1>1, <2>2, ResultKeepsJobs DEF Record
    <3>2. DrainsOK' /\ ChecksOK'
      BY <2>1, <2>2, RecordKeepsDrains
    <3>. QED  BY <2>1, <3>1, <3>2, RowsShown DEF rowVars, RowsOK, OneLiveRow, CompletedCounted, OthersOK
  <2>3. CASE /\ MoveTo(c, IF Cardinality(AtWork) < GlobalLimit THEN PhaseWithSlot(c) ELSE "queued")
             /\ UNCHANGED <<jobVars, counted>>
    <3>1. PICK p \in {"created", "queued", "admitted", "sent"} : MoveTo(c, p)
      BY <2>3 DEF PhaseWithSlot
    <3>2. DrainsOK' /\ ChecksOK'
      BY <2>1, <2>3, <3>1, MoveKeepsDrains DEF runVars
    <3>3. JobsOK'
      BY <2>3 DEF jobVars, JobsOK
    <3>. QED  BY <2>1, <3>2, <3>3, RowsShown DEF rowVars, RowsOK, OneLiveRow, CompletedCounted, OthersOK
  <2>. QED  BY <1>2, <2>2, <2>3 DEF Enter
<1>3. CASE Proceed(c)
  <2>1. UNCHANGED <<jobVars, rowVars, runVars, lock, backoff, disturbed>>
    BY <1>3 DEF Proceed
  <2>2. PICK p \in {"created", "queued", "admitted", "sent"} : MoveTo(c, p)
    BY <1>3 DEF Proceed, PhaseWithSlot
  <2>3. DrainsOK' /\ ChecksOK'
    BY <2>1, <2>2, MoveKeepsDrains
  <2>. QED  BY <2>1, <2>3, RowsShown
            DEF rowVars, runVars, jobVars, RowsOK, OneLiveRow, CompletedCounted, JobsOK, OthersOK
<1>4. CASE Answer(c)
  <2>1. UNCHANGED <<rowVars, row, todo, lock, disturbed>>
    BY <1>4 DEF Answer
  <2>2. PICK result : Record(c, result)
    BY <1>4 DEF Answer
  <2>3. JobsOK'
    BY <1>1, <2>2, ResultKeepsJobs DEF Record
  <2>4. DrainsOK' /\ ChecksOK'
    BY <2>1, <2>2, RecordKeepsDrains
  <2>5. backoff' \subseteq Hosts
    BY <1>1, <1>4 DEF Answer, OthersOK
  <2>. QED  BY <2>1, <2>3, <2>4, <2>5, RowsShown
            DEF rowVars, RowsOK, OneLiveRow, CompletedCounted, OthersOK
<1>5. CASE CheckFails(c)
  <2>1. RowsOK' /\ DrainsOK' /\ ChecksOK'
    BY <1>5, FailKeepsDrains
  <2>2. UNCHANGED <<jobVars, rowVars, backoff>>
    BY <1>5 DEF CheckFails
  <2>3. OthersOK'
    <3>1. disturbed' \in 0 .. MaxDisturbances
      BY <1>5, VerifierAssumption DEF CheckFails, OthersOK
    <3>2. lock' = lock \/ lock' = NoDrain
      BY <1>5 DEF CheckFails, Release
    <3>. QED  BY <2>2, <3>1, <3>2 DEF OthersOK
  <2>. QED  BY <2>1, <2>2, <2>3, RowsShown DEF jobVars, rowVars, JobsOK
<1>. QED  BY <1>2, <1>3, <1>4, <1>5 DEF CheckStep

\* A stop reaches the one live row, which is the row shown.
LEMMA StopKeeps ==
  ASSUME IInv, Stop
  PROVE  IInv' /\ BoardStep
<1>1. PICK r \in Rows : status[r] = "running"
  BY DEF Stop
<1>2. r = latest /\ latest # NoRow
  BY <1>1, VerifierAssumption DEF IInv, RowsOK, OneLiveRow, Live
<1>3. /\ status' = [s \in Rows |-> IF status[s] = "running" THEN "cancel_requested" ELSE status[s]]
      /\ UNCHANGED <<jobVars, total, checked, latest, runVars, lock, checks, backoff>>
  BY DEF Stop
<1>4. \A s \in Rows : /\ status'[s] \in Live <=> status[s] \in Live
                      /\ status[s] \notin Live => status'[s] = status[s]
  BY <1>3 DEF Live
<1>5. RowsOK'
  <2>1. status' \in [Rows -> Live \cup {"free", "cancelled", "completed"}]
    BY <1>3 DEF IInv, RowsOK, Live
  <2>2. OneLiveRow' /\ CompletedCounted'
    BY <1>3, <1>4 DEF IInv, RowsOK, OneLiveRow, CompletedCounted, Live
  <2>. QED  BY <1>3, <2>1, <2>2 DEF IInv, RowsOK, runVars
<1>6. \A d \in Drains : Own(d)' = Own(d)
  BY <1>3 DEF Own
<1>7. ASSUME NEW d \in Drains PROVE DrainOK(d)'
  <2>1. DrainOK(d) /\ UNCHANGED <<todo, counted, row, total, checked, latest>>
    BY <1>3 DEF IInv, DrainsOK, runVars
  <2>2. ASSUME row[d] # NoRow PROVE Busy(d)'
    <3>1. Busy(d) /\ row[d] \in Rows
      BY <2>1, <2>2 DEF DrainOK, Idle, IInv, RowsOK
    <3>2. /\ status'[row[d]] \in Live \cup {"cancelled"}
          /\ row[d] = latest => status'[row[d]] \in Live
      BY <1>4, <3>1 DEF Busy
    <3>. QED  BY <1>6, <2>1, <3>1, <3>2 DEF Busy
  <2>. QED  BY <1>6, <2>1, <2>2 DEF DrainOK, Idle
<1>8. DrainsOK'
  BY <1>3, <1>7 DEF IInv, DrainsOK, runVars
<1>9. ChecksOK' /\ JobsOK' /\ OthersOK'
  BY <1>3, VerifierAssumption DEF Stop, IInv, ChecksOK, JobsOK, jobVars, OthersOK
<1>10. Board!AskStop
  BY <1>1, <1>2, <1>3 DEF Board!AskStop
<1>. QED  BY <1>5, <1>8, <1>9, <1>10 DEF IInv, BoardStep, Board!Next

LEMMA RestKeeps ==
  ASSUME IInv, (\E j \in Jobs : Report(j)) \/ (\E h \in Hosts : BackoffEnds(h)) \/ UNCHANGED vars
  PROVE  IInv' /\ BoardStep
<1>1. UNCHANGED <<rowVars, runVars, lock, checks, disturbed>>
  BY DEF Report, BackoffEnds, vars
<1>2. JobsOK'
  <2>1. ASSUME NEW j \in Jobs, Report(j) PROVE JobsOK'
    BY <2>1, SetStandingKeepsJobs DEF IInv, Report, JobsOK
  <2>2. CASE UNCHANGED jobVars
    BY <2>2 DEF IInv, jobVars, JobsOK
  <2>. QED  BY <2>1, <2>2 DEF BackoffEnds, vars
<1>3. RowsOK' /\ ChecksOK'
  BY <1>1 DEF IInv, rowVars, runVars, RowsOK, OneLiveRow, CompletedCounted, ChecksOK
<1>4. DrainsOK'
  BY <1>1 DEF IInv, rowVars, runVars, DrainsOK, DrainOK, Busy, Idle, Own
<1>5. OthersOK'
  BY <1>1 DEF IInv, OthersOK, Report, BackoffEnds, vars
<1>6. BoardStep
  BY <1>1, RowsShown DEF rowVars
<1>. QED  BY <1>2, <1>3, <1>4, <1>5, <1>6 DEF IInv

LEMMA RestartKeeps ==
  ASSUME IInv, Restart
  PROVE  IInv' /\ BoardStep
<1>1. UNCHANGED <<status, total, checked, latest>> /\ UNCHANGED jobVars
  BY DEF Restart, rowVars
<1>2. checks' = {} /\ \A d \in Drains : row'[d] = NoRow /\ todo'[d] = <<>> /\ counted'[d] = 0
  BY DEF Restart
<1>3. RowsOK'
  BY <1>1, <1>2 DEF Restart, IInv, RowsOK, OneLiveRow, CompletedCounted
<1>4. ChecksOK' /\ \A d \in Drains : Own(d)' = {}
  BY <1>2, FS_EmptySet DEF ChecksOK, Own
<1>5. DrainsOK'
  <2>1. ASSUME NEW d \in Drains PROVE DrainOK(d)'
    <3>1. InQueue(<<>>)
      BY DEF InQueue
    <3>2. row'[d] = NoRow /\ todo'[d] = <<>> /\ counted'[d] = 0 /\ Own(d)' = {}
      BY <1>2, <1>4
    <3>. QED  BY <3>1, <3>2 DEF DrainOK, Idle
  <2>. QED  BY <2>1 DEF Restart, DrainsOK
<1>6. JobsOK' /\ OthersOK'
  BY <1>1, VerifierAssumption DEF Restart, IInv, jobVars, JobsOK, OthersOK
<1>. QED  BY <1>1, <1>3, <1>4, <1>5, <1>6, RowsShown DEF IInv

LEMMA StepKeeps ==
  ASSUME IInv, [Next]_vars
  PROVE  IInv' /\ BoardStep
<1>1. CASE Begin
  BY <1>1, BeginKeeps
<1>2. ASSUME NEW d \in Drains, Advance(d) PROVE IInv' /\ BoardStep
  BY <1>2, AdvanceKeeps
<1>3. ASSUME NEW c \in checks, CheckStep(c) \/ CheckFails(c) PROVE IInv' /\ BoardStep
  BY <1>3, CheckKeeps
<1>4. CASE Stop
  BY <1>4, StopKeeps
<1>5. CASE Restart
  BY <1>5, RestartKeeps
<1>6. CASE (\E j \in Jobs : Report(j)) \/ (\E h \in Hosts : BackoffEnds(h)) \/ UNCHANGED vars
  BY <1>6, RestKeeps
<1>. QED  BY <1>1, <1>2, <1>3, <1>4, <1>5, <1>6 DEF Next

LEMMA Invariant == Spec => []IInv
<1>1. IInv /\ [Next]_vars => IInv'
  BY StepKeeps
<1>. QED  BY <1>1, InitIInv, PTL DEF Spec

-----------------------------------------------------------------------------
(* Theorems.                                                               *)

\* At most one row of verifier_runs is live, the latest, however ticks, the drain of an
\* ingestion, admins, stops, failing checks and restarts overlap (_start_run ends every
\* live row before it inserts its own; _finish_run and request_stop revive none).
THEOREM OneRowIsLive == Spec => []OneLiveRow
<1>1. IInv => OneLiveRow
  BY DEF IInv, RowsOK
<1>. QED  BY <1>1, Invariant, PTL

\* A row says completed only with every job of its drain counted, also when a newer
\* drain had marked it cancelled or a stop came too late (_drain, _finish_run).
THEOREM CompletedIsCounted == Spec => []CompletedCounted
<1>1. IInv => CompletedCounted
  BY DEF IInv, RowsOK
<1>. QED  BY <1>1, Invariant, PTL

\* The orders of the picks hold every job once at most, rows count no more jobs than
\* there are, and checks, locks and backoffs keep their types.
THEOREM TypesHold == Spec => []TypeOK
<1>1. IInv => TypeOK
  <2>. SUFFICES ASSUME IInv PROVE TypeOK
    OBVIOUS
  <2>1. byCheck \in Orders /\ bySuspicion \in Orders
    BY QueueIsOrder DEF IInv, JobsOK
  <2>2. todo \in [Drains -> Orders]
    BY QueueIsOrder DEF IInv, DrainsOK, DrainOK
  <2>3. counted \in [Drains -> 0 .. Cardinality(Jobs)]
    <3>1. ASSUME NEW d \in Drains PROVE counted[d] \in 0 .. Cardinality(Jobs)
      <4>1. CASE Idle(d)
        BY <4>1, JobCount DEF IInv, DrainsOK, DrainOK
      <4>2. CASE ~ Idle(d)
        <5>1. Busy(d) /\ counted[d] \in Nat /\ Len(todo[d]) \in Nat /\ Cardinality(Own(d)) \in Nat
          BY <4>2, OwnFinite DEF IInv, DrainsOK, DrainOK, InQueue
        <5>2. total[row[d]] \in 0 .. Cardinality(Jobs)
          BY <4>2 DEF IInv, RowsOK, Idle, N
        <5>. QED  BY <5>1, <5>2, JobCount DEF Busy
      <4>. QED  BY <4>1, <4>2
    <3>. QED  BY <3>1 DEF IInv, DrainsOK
  <2>. QED  BY <2>1, <2>2, <2>3 DEF IInv, TypeOK, JobsOK, RowsOK, ChecksOK, OthersOK, N
<1>. QED  BY <1>1, Invariant, PTL

\* What get_run_state shows of the latest row keeps the board's promises, step by step:
\* the count of a run only grows, a run ends cancelled only after a stop and completed
\* only with all jobs counted, and a superseded drain never writes to the row shown.
THEOREM ShowsTheBoard == Spec => ImplementsBoard
<1>1. IInv /\ [Next]_vars => [Board!Next]_(Board!vars)
  BY StepKeeps DEF BoardStep
<1>2. Init => Board!Init
  BY InitIInv
<1>. QED  BY <1>1, <1>2, Invariant, PTL DEF Spec, ImplementsBoard, Board!Spec
=============================================================================
