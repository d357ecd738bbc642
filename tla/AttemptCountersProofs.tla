------------------------ MODULE AttemptCountersProofs ------------------------
(***************************************************************************)
(* Proofs about the attempt counters, for any clients, addresses, e-mails  *)
(* and policies.                                                           *)
(***************************************************************************)
EXTENDS AttemptCounters, SequenceTheorems, TLAPS

\* What is left of a request's buckets when one is done.
LEMMA QueueTail ==
  ASSUME NEW q \in Queues, q # <<>>
  PROVE  /\ q \in Seq(Buckets) /\ Head(q) \in Buckets
         /\ Tail(q) \in Queues /\ Len(q) \in 1 .. 3 /\ Len(Tail(q)) = Len(q) - 1
<1>1. PICK l \in 0 .. 3 : q \in [1 .. l -> Buckets]
  BY DEF Queues
<1>2. q \in Seq(Buckets) /\ Len(q) = l
  BY <1>1
<1>3. Tail(q) \in Seq(Buckets) /\ Len(Tail(q)) = l - 1 /\ Len(q) \in 1 .. 3
  BY <1>2
<1>4. Tail(q) \in [1 .. (l - 1) -> Buckets] /\ l - 1 \in 0 .. 3
  <2>1. Tail(q) \in [1 .. Len(Tail(q)) -> Buckets]
    BY <1>3, LenProperties, Zenon
  <2>. QED  BY <1>2, <1>3, <2>1
<1>. QED  BY <1>2, <1>3, <1>4 DEF Queues

\* A request under way has a bucket in its queue, and a row only to write it.
AtWork == \A c \in Clients : /\ pc[c] # "idle" => queue[c] # <<>>
                             /\ draft[c] # NoRow => pc[c] = "write"

\* What a request is about to write justifies its lockout as a row does.
DraftJustified ==
    \A c \in Clients : pc[c] = "write" /\ draft[c] # NoRow /\ draft[c].locked
        => \E p \in Policies : draft[c].n >= p[Kind(Head(queue[c]))]

IInv == TypeOK /\ AtWork /\ LockJustified /\ DraftJustified

LEMMA RowFacts == NoRow \notin Row /\ MaxCount \in Nat \ {0} /\ Policies \subseteq [Kinds -> Nat \ {0}]
BY CountersAssumption DEF Row

LEMMA KindOfBucket == \A k \in Buckets : Kind(k) \in Kinds
BY DEF Buckets, Kind, Kinds

LEMMA InitIInv == Init => IInv
BY DEF Init, IInv, TypeOK, AtWork, LockJustified, DraftJustified, Locked, Queues

\* A row that is read, counted up and stored is a row.
LEMMA IncrementedType ==
  ASSUME NEW row \in Row, NEW max \in Nat \ {0}, row.over \/ row.n < MaxCount
  PROVE  /\ Incremented(row, max) \in Row
         /\ Incremented(row, max).locked => Incremented(row, max).n >= max
<1>. DEFINE n == IF row.over THEN 1 ELSE row.n + 1
<1>1. n \in 0 .. MaxCount /\ n \in Int /\ max \in Int
  BY RowFacts DEF Row
<1>2. (n >= max) \in BOOLEAN
  BY <1>1
<1>3. Incremented(row, max) = [n |-> n, over |-> FALSE, locked |-> n >= max]
  BY DEF Incremented
<1>. DEFINE lock == n >= max
<1>4. [n |-> n, over |-> FALSE, locked |-> lock] \in Row
  <2>. HIDE DEF n, lock
  <2>1. n \in 0 .. MaxCount /\ lock \in BOOLEAN
    BY <1>1, <1>2 DEF lock
  <2>. QED  BY <2>1, Zenon DEF Row
<1>5. Incremented(row, max).locked = lock /\ Incremented(row, max).n = n
  <2>. HIDE DEF n, lock
  <2>1. Incremented(row, max) = [n |-> n, over |-> FALSE, locked |-> lock]
    BY <1>3 DEF lock
  <2>2. [n |-> n, over |-> FALSE, locked |-> lock].n = n
    OBVIOUS
  <2>3. [n |-> n, over |-> FALSE, locked |-> lock].locked = lock
    OBVIOUS
  <2>. QED  BY <2>1, <2>2, <2>3, Zenon
<1>. QED  BY <1>3, <1>4, <1>5, Zenon

\* The buckets a request goes through make a queue.
LEMMA QueuesOf ==
  ASSUME NEW c \in Clients, NEW e \in Emails
  PROVE  /\ <<Pair(c, e), <<"email", e>>, <<"ip", IpOf[c]>> >> \in Queues
         /\ <<Pair(c, e)>> \in Queues /\ <<Signups(c)>> \in Queues /\ <<>> \in Queues
<1>1. Pair(c, e) \in Buckets /\ <<"email", e>> \in Buckets
      /\ <<"ip", IpOf[c]>> \in Buckets /\ Signups(c) \in Buckets
  BY DEF Pair, Signups, Buckets, Ips
<1>2. /\ <<Pair(c, e), <<"email", e>>, <<"ip", IpOf[c]>> >> \in [1 .. 3 -> Buckets]
      /\ <<Pair(c, e)>> \in [1 .. 1 -> Buckets] /\ <<Signups(c)>> \in [1 .. 1 -> Buckets]
      /\ <<>> \in [1 .. 0 -> Buckets]
  BY <1>1
<1>. QED  BY <1>2 DEF Queues

\* Requests that begin or end touch no row that is locked.
LEMMA SubmitIInv ==
  ASSUME IInv, NEW c \in Clients, Submit(c)
  PROVE  IInv'
<1>. USE DEF IInv, TypeOK, AtWork, LockJustified, DraftJustified, Locked, Goto
<1>1. CASE Signup(c)
  <2>1. <<Signups(c)>> \in Queues /\ <<Signups(c)>> # <<>>
    <3>1. Signups(c) \in Buckets
      BY DEF Signups, Buckets, Ips
    <3>2. <<Signups(c)>> \in [1 .. 1 -> Buckets] /\ <<Signups(c)>> # <<>>
      BY <3>1
    <3>. QED  BY <3>2 DEF Queues
  <2>. QED  BY <1>1, <2>1 DEF Signup
<1>2. ASSUME NEW e \in Emails, SigninFails(c, e) PROVE IInv'
  BY <1>2, QueuesOf DEF SigninFails
<1>3. ASSUME NEW e \in Emails, SigninPasses(c, e) PROVE IInv'
  BY <1>3, QueuesOf DEF SigninPasses
<1>. QED  BY <1>1, <1>2, <1>3 DEF Submit

\* A count that is read, raised and stored keeps its reason, though the row and the
\* policy may be others by then.
LEMMA StepIInv ==
  ASSUME IInv, NEW c \in Clients, Step(c)
  PROVE  IInv'
<1>. USE DEF IInv, TypeOK, AtWork, LockJustified, DraftJustified, Locked, Goto
<1>. DEFINE k == Head(queue[c])
<1>1. /\ queue[c] # <<>> /\ k \in Buckets /\ Tail(queue[c]) \in Queues /\ <<>> \in Queues
      /\ Len(queue[c]) > 1 <=> Tail(queue[c]) # <<>>
  <2>1. queue[c] \in Queues /\ queue[c] # <<>>
    BY DEF Step, Forgive, ReadBucket, InsertRow, UpdateRow
  <2>2. <<>> \in Queues
    BY DEF Queues
  <2>3. /\ k \in Buckets /\ Tail(queue[c]) \in Queues
        /\ Len(queue[c]) \in 1 .. 3 /\ Len(Tail(queue[c])) = Len(queue[c]) - 1
    BY <2>1, QueueTail
  <2>4. \A q \in Queues : q = <<>> <=> Len(q) = 0
    BY EmptySeq, LenProperties DEF Queues
  <2>5. Len(Tail(queue[c])) = 0 <=> ~ Len(queue[c]) > 1
    <3>1. \A m, n : n \in 1 .. 3 /\ m = n - 1 => (m = 0 <=> ~ n > 1)
      OBVIOUS
    <3>. QED  BY <2>3, <3>1, Zenon
  <2>. QED  BY <2>1, <2>2, <2>3, <2>4, <2>5
<1>2. CASE Forgive(c)
  BY <1>1, <1>2 DEF Forgive
<1>3. CASE ReadBucket(c)
  <2>1. CASE bucket[k] = NoRow /\ UNCHANGED draft
    BY <1>1, <1>3, <2>1 DEF ReadBucket
  <2>2. CASE bucket[k] # NoRow
    <3>1. bucket[k] \in Row /\ (bucket[k].over \/ bucket[k].n < MaxCount)
      BY <1>1, <1>3, <2>2 DEF ReadBucket
    <3>2. PICK p \in Policies : draft' = [draft EXCEPT ![c] = Incremented(bucket[k], p[Kind(k)])]
      BY <1>3, <2>2 DEF ReadBucket
    <3>3. p[Kind(k)] \in Nat \ {0}
      BY <1>1, RowFacts, KindOfBucket
    <3>4. /\ draft'[c] \in Row
          /\ draft'[c].locked => draft'[c].n >= p[Kind(k)]
      BY <3>1, <3>2, <3>3, IncrementedType
    <3>. QED  BY <1>1, <1>3, <3>2, <3>4 DEF ReadBucket
  <2>. QED  BY <1>3, <2>1, <2>2 DEF ReadBucket
<1>4. CASE InsertRow(c)
  <2>1. [n |-> 1, over |-> FALSE, locked |-> FALSE] \in Row
    BY RowFacts DEF Row
  <2>2. CASE bucket[k] = NoRow
    <3>1. bucket' = [bucket EXCEPT ![k] = [n |-> 1, over |-> FALSE, locked |-> FALSE]] /\ Done(c)
          /\ draft[c] = NoRow /\ UNCHANGED draft
      BY <1>4, <2>2 DEF InsertRow
    <3>. QED  BY <1>1, <2>1, <3>1, RowFacts DEF Done
  <2>3. CASE bucket[k] # NoRow
    BY <1>1, <1>4, <2>3 DEF InsertRow
  <2>. QED  BY <2>2, <2>3
<1>5. CASE UpdateRow(c)
  <2>1. draft[c] \in Row
    BY <1>5 DEF UpdateRow
  <2>. QED  BY <1>1, <1>5, <2>1, RowFacts DEF UpdateRow, Done
<1>. QED  BY <1>2, <1>3, <1>4, <1>5 DEF Step

\* Unlocking resets the count and the lockout together; clearing ends lockouts only.
LEMMA OthersIInv ==
  ASSUME IInv, Admin \/ \E k \in Buckets : WindowEnds(k) \/ LockoutEnds(k)
  PROVE  IInv'
<1>. USE RowFacts DEF IInv, TypeOK, AtWork, LockJustified, DraftJustified, Locked
<1>1. CASE ClearLockouts
  <2>1. \A k \in Buckets : bucket[k] # NoRow => [bucket[k] EXCEPT !.locked = FALSE] \in Row
    BY DEF Row
  <2>. QED  BY <1>1, <2>1 DEF ClearLockouts, Row
<1>2. ASSUME NEW of \in Emails \cup Ips, ClearRows(of) PROVE IInv'
  BY <1>2 DEF ClearRows
<1>3. ASSUME NEW k \in Buckets, Unlock(k) PROVE IInv'
  <2>1. bucket[k] \in Row
    BY <1>3 DEF Unlock
  <2>2. bucket[k].over \in BOOLEAN /\ 0 \in 0 .. MaxCount
    BY <2>1 DEF Row
  <2>3. [n |-> 0, over |-> bucket[k].over, locked |-> FALSE] \in Row
    BY <2>2, Zenon DEF Row
  <2>. QED  BY <1>3, <2>3 DEF Unlock
<1>4. ASSUME NEW k \in Buckets, WindowEnds(k) PROVE IInv'
  <2>1. /\ [bucket[k] EXCEPT !.over = TRUE] \in Row
        /\ [bucket[k] EXCEPT !.over = TRUE].n = bucket[k].n
        /\ [bucket[k] EXCEPT !.over = TRUE].locked = bucket[k].locked
    BY <1>4 DEF WindowEnds, Row
  <2>. QED  BY <1>4, <2>1 DEF WindowEnds
<1>5. ASSUME NEW k \in Buckets, LockoutEnds(k) PROVE IInv'
  <2>1. [bucket[k] EXCEPT !.locked = FALSE] \in Row
    <3>1. bucket[k] \in Row
      BY <1>5 DEF LockoutEnds
    <3>. QED  BY <3>1 DEF Row
  <2>. QED  BY <1>5, <2>1 DEF LockoutEnds, Row
<1>. QED  BY <1>1, <1>2, <1>3, <1>4, <1>5 DEF Admin

\* Requests that count, forgive and sign up, and the administrator who unlocks and
\* clears meanwhile, keep every row in its bounds, and no row is locked that has not
\* counted the failures some policy demands (_increment_bucket, admin_unlock_bucket).
THEOREM IInvHolds == Spec => []IInv
<1>1. IInv /\ [Next]_vars => IInv'
  <2>1. IInv /\ UNCHANGED vars => IInv'
    BY DEF IInv, TypeOK, AtWork, LockJustified, DraftJustified, Locked, vars
  <2>. QED  BY <2>1, SubmitIInv, StepIInv, OthersIInv DEF Next
<1>. QED  BY <1>1, InitIInv, PTL DEF Spec

\* Rows, queues and drafts keep their types and bounds.
THEOREM TypesHold == Spec => []TypeOK
<1>1. IInv => TypeOK  BY DEF IInv
<1>. QED  BY <1>1, IInvHolds, PTL

\* A row is locked only while its count justifies it, for any number of requests
\* between the SELECT and the UPDATE of _increment_bucket.
THEOREM LocksAreJustified == Spec => []LockJustified
<1>1. IInv => LockJustified  BY DEF IInv
<1>. QED  BY <1>1, IInvHolds, PTL
=============================================================================
