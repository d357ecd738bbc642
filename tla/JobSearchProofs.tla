--------------------------- MODULE JobSearchProofs ---------------------------
(***************************************************************************)
(* Proofs about searching, for any jobs, filters, requests and ingestions. *)
(***************************************************************************)
EXTENDS JobSearch, FiniteSetTheorems, TLAPS

-----------------------------------------------------------------------------
(* The cache. *)

\* The counters that the cache relies on.
Counters ==
    /\ cycle \in [n : 0 .. MaxCycles, at : {"idle", "load", "rebuild", "total", "bump"}]
    /\ loaded \in 0 .. MaxCycles /\ version \in Versions /\ since \in 0 .. MaxCycles
    /\ entry \in [Asked -> 0 .. MaxCycles \cup {NoRow}]
    /\ request \in [Requests -> [at : {"idle", "select", "store"}, f : Asked \cup {NoRow},
                                 ver : Versions, of : 0 .. MaxCycles]]
    \* A version is raised at most once by an ingestion, and after its rows are loaded.
    /\ version <= cycle.n /\ (cycle.at # "idle" => version < cycle.n)
    /\ since <= loaded /\ loaded <= cycle.n
    /\ \A r \in Requests : request[r].at # "idle" => request[r].f \in Asked

\* An answer that is still to be stored under the version of the moment has been read
\* since it was raised.
AnswersAreCurrent ==
    \A r \in Requests : /\ request[r].ver <= version
                        /\ request[r].at = "store" /\ request[r].ver = version
                              => request[r].of >= since

CacheInv == Counters /\ AnswersAreCurrent /\ HitsAreCurrent

LEMMA InitCacheInv == Init => CacheInv
BY SearchAssumption
   DEF Init, CacheInv, Counters, AnswersAreCurrent, HitsAreCurrent, NoEntry, Versions

\* An ingestion: the cache is emptied where the version is raised.
LEMMA IngestCacheInv ==
  ASSUME CacheInv, Ingest
  PROVE  CacheInv'
<1>. USE SearchAssumption
         DEF CacheInv, Counters, AnswersAreCurrent, HitsAreCurrent, Versions, cacheVars, At, Goto
<1>1. CASE Begin
  BY <1>1 DEF Begin
<1>2. ASSUME NEW i \in Ids, Load(i) PROVE CacheInv'
  BY <1>2 DEF Load
<1>3. CASE Fail
  BY <1>3 DEF Fail
<1>4. CASE Prune
  BY <1>4 DEF Prune
<1>5. CASE Rebuild
  BY <1>5 DEF Rebuild
<1>6. CASE RefreshTotal
  BY <1>6 DEF RefreshTotal
<1>7. CASE Bump
  BY <1>7 DEF Bump
<1>. QED  BY <1>1, <1>2, <1>3, <1>4, <1>5, <1>6, <1>7 DEF Ingest

\* Requests, evictions and the rest of the program.
LEMMA OtherCacheInv ==
  ASSUME CacheInv,
         \/ \E i \in Ids : Scrape(i) \/ Mark(i)
         \/ \E r \in Requests : List(r)
         \/ \E f \in Asked : Evict(f)
         \/ Totals \/ Tick
  PROVE  CacheInv'
<1>. USE SearchAssumption
         DEF CacheInv, Counters, AnswersAreCurrent, HitsAreCurrent, Versions, NoEntry
<1>1. CASE (\E i \in Ids : Scrape(i) \/ Mark(i)) \/ Totals \/ Tick
  BY <1>1 DEF Scrape, Mark, Totals, ReadTotal, KeepTotal, TotalLapses, Tick, cacheVars
<1>2. ASSUME NEW r \in Requests, NEW f \in Asked, Ask(r, f) PROVE CacheInv'
  BY <1>2 DEF Ask
<1>3. ASSUME NEW r \in Requests, Select(r) PROVE CacheInv'
  <2>. DEFINE read == [request[r] EXCEPT !.at = "store", !.of = loaded]
  <2>0. request[r].at = "select" /\ request' = [request EXCEPT ![r] = read]
    BY <1>3 DEF Select
  <2>1. /\ request'[r].at = "store" /\ request'[r].of = loaded
        /\ request'[r].f = request[r].f /\ request'[r].ver = request[r].ver
        /\ request[r].at = "select"
        /\ \A q \in Requests : q # r => request'[q] = request[q]
    BY <2>0
  <2>2. request' \in [Requests -> [at : {"idle", "select", "store"}, f : Asked \cup {NoRow},
                                   ver : Versions, of : 0 .. MaxCycles]]
    <3>1. read \in [at : {"idle", "select", "store"}, f : Asked \cup {NoRow},
                    ver : Versions, of : 0 .. MaxCycles]
      OBVIOUS
    <3>. HIDE DEF read
    <3>. QED  BY <2>0, <3>1
  <2>. QED  BY <1>3, <2>1, <2>2 DEF Select
<1>4. ASSUME NEW r \in Requests, Store(r) PROVE CacheInv'
  BY <1>4 DEF Store
<1>5. ASSUME NEW f \in Asked, Evict(f) PROVE CacheInv'
  BY <1>5 DEF Evict
<1>. QED  BY <1>1, <1>2, <1>3, <1>4, <1>5 DEF List

\* An answer found under the current version has been read after the ingestion that
\* raised it had loaded its rows, for any number of requests whose answers come late and
\* though Redis may miss any write (jobs.py reads the version before the table).
THEOREM HitsStayCurrent == Spec => []HitsAreCurrent
<1>1. CacheInv /\ [Next]_vars => CacheInv'
  <2>1. CacheInv /\ UNCHANGED vars => CacheInv'
    BY DEF CacheInv, Counters, AnswersAreCurrent, HitsAreCurrent, vars, cacheVars
  <2>. QED  BY <2>1, IngestCacheInv, OtherCacheInv DEF Next
<1>2. CacheInv => HitsAreCurrent
  BY DEF CacheInv
<1>. QED  BY <1>1, <1>2, InitCacheInv, PTL DEF Spec
-----------------------------------------------------------------------------
(* Types. *)

\* Stamps that are stored or read are stamps.
LEMMA StampTypes ==
  ASSUME NEW published \in Published \cup {NoRow}, now \in Stamps
  PROVE  Stamp(published) \in Stamps
<1>1. ASSUME NEW s \in Stamps PROVE [s EXCEPT !.iso = TRUE] \in Stamps
  BY DEF Stamps
<1>2. Published \subseteq Stamps
  <2>1. ASSUME NEW d \in 0 .. MaxDay, NEW h \in 0 .. Hours - 1
        PROVE  [day |-> d, hour |-> h, iso |-> TRUE] \in Stamps
    BY DEF Stamps
  <2>. QED  BY <2>1 DEF Published
<1>. QED  BY <1>1, <1>2 DEF Stamp

LEMMA UpsertTypes ==
  ASSUME TypeOK, NEW i \in Ids, AnyRow(i)
  PROVE  jobs' \in [Ids -> Rows \cup {NoRow}]
<1>1. PICK col \in [Columns -> Values], word \in Words, published \in Published \cup {NoRow} :
        Upsert(i, col, word, published)
  BY DEF AnyRow
<1>. DEFINE gone == i \in Existing /\ jobs[i].expired
<1>2. Stamp(published) \in Stamps
  BY StampTypes DEF TypeOK
<1>3. gone \in BOOLEAN
  <2>1. i \in Existing => jobs[i] \in Rows
    BY DEF Existing, TypeOK
  <2>. QED  BY <2>1 DEF Rows
<1>4. jobs' = [jobs EXCEPT ![i] = [col |-> col, word |-> word, posted |-> Stamp(published),
                                   expired |-> gone]]
  BY <1>1 DEF Upsert
<1>. HIDE DEF gone
<1>5. [col |-> col, word |-> word, posted |-> Stamp(published), expired |-> gone] \in Rows
  BY <1>2, <1>3 DEF Rows
<1>. QED  BY <1>4, <1>5 DEF TypeOK

LEMMA CountType == TypeOK => Count \in Nat
BY SearchAssumption, FS_Subset, FS_CardinalityType DEF Count, Existing

\* The table, the index, the clock and the total; the rest is in Counters.
Tables ==
    /\ jobs \in [Ids -> Rows \cup {NoRow}]
    /\ index \in [Ids -> Words \cup {NoRow}]
    /\ now \in Stamps /\ ~ now.iso
    /\ total \in [marker : Counts, cache : Counts, held : Counts]

LEMMA TableTypes ==
  ASSUME TypeOK, Next
  PROVE  Tables'
<1>. USE DEF TypeOK, Tables, cacheVars, At, Goto
<1>1. Count \in Counts /\ NoRow \in Counts
  BY CountType DEF Counts
<1>2. ASSUME NEW i \in Ids, Scrape(i) \/ Load(i) PROVE Tables'
  BY <1>2, UpsertTypes DEF Scrape, Load
<1>3. ASSUME NEW i \in Ids, Mark(i) PROVE Tables'
  <2>1. jobs[i] \in Rows
    BY <1>3 DEF Mark, Existing
  <2>2. [jobs[i] EXCEPT !.expired = ~ @] \in Rows
    BY <2>1 DEF Rows
  <2>. QED  BY <1>3, <2>2 DEF Mark
<1>4. CASE Prune
  BY <1>4 DEF Prune
<1>5. CASE Rebuild
  <2>1. \A i \in Existing : jobs[i].word \in Words
    BY DEF Existing, Rows
  <2>. QED  BY <1>5, <2>1 DEF Rebuild
<1>6. CASE RefreshTotal \/ Totals
  <2>1. total' \in [marker : Counts, cache : Counts, held : Counts]
    <3>1. total.marker \in Counts /\ total.held \in Counts
      OBVIOUS
    <3>. QED  BY <1>1, <1>6, <3>1 DEF RefreshTotal, Totals, ReadTotal, KeepTotal, TotalLapses
  <2>. QED  BY <1>6, <2>1 DEF RefreshTotal, Totals, ReadTotal, KeepTotal, TotalLapses
<1>7. CASE Tick
  <2>1. /\ now.day \in 0 .. MaxDay /\ now.hour \in 0 .. Hours - 1
        /\ now.hour < Hours - 1 \/ now.day < MaxDay
    BY <1>7 DEF Tick, Stamps
  <2>2. /\ (IF now.hour = Hours - 1 THEN 0 ELSE now.hour + 1) \in 0 .. Hours - 1
        /\ (IF now.hour = Hours - 1 THEN now.day + 1 ELSE now.day) \in 0 .. MaxDay
    BY <2>1, QueryAssumption
  <2>3. now' \in Stamps /\ now'.iso = now.iso
    BY <1>7, <2>2 DEF Tick, Stamps
  <2>. QED  BY <1>7, <2>3 DEF Tick
<1>8. CASE Begin \/ Fail \/ Bump
  BY <1>8 DEF Begin, Fail, Bump
<1>9. ASSUME NEW r \in Requests, List(r) PROVE Tables'
  BY <1>9 DEF List, Ask, Select, Store
<1>10. ASSUME NEW f \in Asked, Evict(f) PROVE Tables'
  BY <1>10 DEF Evict
<1>. QED
  BY <1>2, <1>3, <1>4, <1>5, <1>6, <1>7, <1>8, <1>9, <1>10 DEF Next, Ingest

\* Table, index, cache, requests and total keep their types.
THEOREM TypesHold == Spec => []TypeOK
<1>1. Tables /\ CacheInv => TypeOK
  BY DEF Tables, CacheInv, Counters, TypeOK
<1>2. Init => Tables
  BY QueryAssumption DEF Init, Tables, Stamps, Counts
<1>3. Tables /\ CacheInv /\ [Next]_vars => Tables' /\ CacheInv'
  <2>1. Tables /\ CacheInv /\ UNCHANGED vars => Tables' /\ CacheInv'
    BY DEF Tables, CacheInv, Counters, AnswersAreCurrent, HitsAreCurrent, vars, cacheVars
  <2>. QED  BY <1>1, <2>1, IngestCacheInv, OtherCacheInv, TableTypes DEF Next
<1>. QED  BY <1>1, <1>2, <1>3, InitCacheInv, PTL DEF Spec
-----------------------------------------------------------------------------
(* Facets. *)

\* To want one value of a column is what the facet of the column counts of it.
LEMMA WantedOne ==
  ASSUME NEW f \in Filters, NEW row \in Rows, NEW c \in Columns, NEW v \in Values
  PROVE  Wanted([f EXCEPT !.want[c] = {v}], row, {})
           <=> Wanted(f, row, {c}) /\ row.col[c] = v
<1>. DEFINE g == [f EXCEPT !.want[c] = {v}]
<1>1. g.want = [f.want EXCEPT ![c] = {v}] /\ f.want \in [Columns -> SUBSET Values]
  BY DEF Filters
<1>2. g.want[c] = {v} /\ \A d \in Columns \ {c} : g.want[d] = f.want[d]
  BY <1>1
<1>. HIDE DEF g
<1>. QED  BY <1>2 DEF Wanted, g

\* The counts of a facet are those of the lists it leads to, whatever is searched for.
THEOREM FacetsAlwaysForetell == Spec => []FacetsForetell
<1>1. ASSUME TypeOK PROVE FacetsForetell
  <2>1. ASSUME NEW f \in Asked, f.expired = "hide", NEW c \in Columns, NEW v \in Values
        PROVE  FacetCount(Table, Index, f, now, c, v)
                 = Cardinality(Found([f EXCEPT !.want[c] = {v}]))
    <3>. DEFINE g == [f EXCEPT !.want[c] = {v}]
    <3>1. f \in Filters /\ f.want \in [Columns -> SUBSET Values]
      BY <2>1, SearchAssumption DEF Filters
    <3>2. [f EXCEPT !.expired = "hide"] = f
      BY <2>1, <3>1 DEF Filters
    <3>3. g.q = f.q /\ g.hours = f.hours /\ g.expired = f.expired
      BY <3>1 DEF Filters
    <3>4. \A i \in DOMAIN Table : Table[i] \in Rows
      BY <1>1 DEF TypeOK, Table, Existing
    <3>5. \A i \in DOMAIN Table : Wanted(g, Table[i], {}) <=> Wanted(f, Table[i], {c}) /\ Table[i].col[c] = v
      BY <3>1, <3>4, WantedOne
    <3>. HIDE DEF g
    <3>6. \A row : InTime(g, row, now) = InTime(f, row, now) /\ Shown(g, row) = Shown(f, row)
      BY <3>3 DEF InTime, Shown
    <3>7. {i \in Selected(Table, Index, f, now, {c}) : Table[i].col[c] = v}
            = Selected(Table, Index, g, now, {})
      BY <3>3, <3>5, <3>6 DEF Selected
    <3>. QED  BY <3>2, <3>7 DEF FacetCount, FacetFilter, Found, Listed, g
  <2>. QED  BY <2>1 DEF FacetsForetell
<1>. QED  BY <1>1, TypesHold, PTL
-----------------------------------------------------------------------------
(* The window of a search. *)

\* Where a window begins is a time of SQLite's.
LEMMA BackType ==
  ASSUME now \in Stamps, NEW h \in Nat
  PROVE  /\ Back(now, h).day \in Nat /\ Back(now, h).hour \in 0 .. Hours - 1
         /\ Back(now, h).iso = FALSE
<1>1. now.day \in Nat /\ now.hour \in Nat /\ Hours \in Nat \ {0}
  BY QueryAssumption DEF Stamps
<1>2. now.day * Hours + now.hour - h \in Int
  BY <1>1
<1>3. ASSUME NEW at \in Nat PROVE at \div Hours \in Nat /\ at % Hours \in 0 .. Hours - 1
  BY <1>1
<1>. DEFINE at == now.day * Hours + now.hour - h
<1>. HIDE DEF at
<1>4. CASE at < 0
  <2>1. Back(now, h) = [day |-> 0, hour |-> 0, iso |-> FALSE]
    BY <1>4 DEF Back, at
  <2>. QED  BY <1>1, <2>1
<1>5. CASE ~ (at < 0)
  <2>1. Back(now, h) = [day |-> at \div Hours, hour |-> at % Hours, iso |-> FALSE]
    BY <1>5 DEF Back, at
  <2>2. at \in Nat
    BY <1>2, <1>5 DEF at
  <2>. QED  BY <1>3, <2>1, <2>2
<1>. QED  BY <1>4, <1>5

\* The earlier of two times is of the earlier day, or of the same day and an hour no later.
LEMMA TimeOrder ==
  ASSUME NEW d \in Nat, NEW e \in Nat, NEW h \in 0 .. Hours - 1, NEW k \in 0 .. Hours - 1,
         d * Hours + h <= e * Hours + k
  PROVE  d < e \/ (d = e /\ h <= k)
<1>1. Hours \in Nat \ {0} /\ h \in Nat /\ k \in Nat /\ k < Hours
  BY QueryAssumption
<1>2. CASE e < d
  <2>1. PICK n \in Nat : d = e + 1 + n
    <3>1. d - e - 1 \in Nat
      BY <1>2
    <3>. QED  BY <3>1
  <2>2. \A x, y, z \in Int : (x + 1 + y) * z = x * z + z + y * z
    OBVIOUS
  <2>3. d * Hours = e * Hours + Hours + n * Hours
    BY <1>1, <2>1, <2>2
  <2>4. n * Hours \in Nat /\ e * Hours \in Nat
    BY <1>1
  <2>. QED  BY <1>1, <2>3, <2>4
<1>3. CASE d = e
  <2>1. e * Hours \in Nat
    BY <1>1
  <2>. QED  BY <1>1, <1>3, <2>1
<1>. QED  BY <1>2, <1>3

\* Whatever the table, the filters and the length of the window: the comparison of texts
\* cuts to the day.  Nothing of an earlier or a later day is listed, and nothing of a past
\* day that was posted within the window is missed (_build_where).
THEOREM WindowIsToTheDay == Spec => []WindowToTheDay
<1>1. ASSUME TypeOK PROVE WindowToTheDay
  <2>. SUFFICES ASSUME NEW f \in Asked, f.hours > 0
                PROVE  LET start == Back(now, f.hours) IN
                       /\ \A i \in Found(f) : jobs[i].posted.day \in start.day .. now.day
                       /\ \A i \in Existing :
                             /\ f.q = NoQuery \/ i \in Prefiltered(Index, f.q)
                             /\ TimeLeq(start, jobs[i].posted) /\ jobs[i].posted.day < now.day
                             /\ Wanted(f, jobs[i], {}) /\ Shown(f, jobs[i])
                             => i \in Found(f)
    BY DEF WindowToTheDay
  <2>1. f \in Filters /\ f.hours \in Nat
    BY SearchAssumption DEF Filters
  <2>2. now \in Stamps /\ now.day \in Nat /\ now.hour \in Nat
    BY <1>1, QueryAssumption DEF TypeOK, Stamps
  <2>3. PICK start : start = Back(now, f.hours)
    OBVIOUS
  <2>4. start.day \in Nat /\ start.hour \in 0 .. Hours - 1 /\ start.iso = FALSE
    BY <2>1, <2>2, <2>3, BackType
  <2>5. ASSUME NEW i \in Existing
        PROVE  /\ jobs[i].posted.day \in Nat /\ jobs[i].posted.hour \in 0 .. Hours - 1
               /\ jobs[i].posted.iso \in BOOLEAN /\ Table[i] = jobs[i]
    <3>1. jobs[i] \in Rows
      BY <1>1 DEF Existing, TypeOK
    <3>2. jobs[i].posted \in Stamps
      BY <3>1 DEF Rows
    <3>. QED  BY <3>2 DEF Stamps, Table
  <2>6. Found(f) = {i \in Existing :
                      /\ f.q = NoQuery \/ i \in Prefiltered(Index, f.q)
                      /\ Wanted(f, jobs[i], {}) /\ TextLeq(start, jobs[i].posted)
                      /\ TextLeq(jobs[i].posted, now) /\ Shown(f, jobs[i])}
    <3>1. DOMAIN Table = Existing
      BY DEF Table
    <3>2. \A row : InTime(f, row, now) <=> TextLeq(start, row.posted) /\ TextLeq(row.posted, now)
      BY <2>3 DEF InTime
    <3>. QED  BY <2>5, <3>1, <3>2 DEF Found, Listed, Selected
  <2>7. ASSUME NEW i \in Found(f) PROVE jobs[i].posted.day \in start.day .. now.day
    <3>1. i \in Existing /\ TextLeq(start, jobs[i].posted) /\ TextLeq(jobs[i].posted, now)
      BY <2>6
    <3>2. start.day <= jobs[i].posted.day /\ jobs[i].posted.day <= now.day
      BY <2>2, <2>4, <2>5, <3>1 DEF TextLeq
    <3>. QED  BY <2>2, <2>4, <2>5, <3>1, <3>2
  <2>8. ASSUME NEW i \in Existing, TimeLeq(start, jobs[i].posted), jobs[i].posted.day < now.day
        PROVE  TextLeq(start, jobs[i].posted) /\ TextLeq(jobs[i].posted, now)
    <3>. DEFINE p == jobs[i].posted
    <3>1. p.day \in Nat /\ p.hour \in 0 .. Hours - 1 /\ p.iso \in BOOLEAN
      BY <2>5
    <3>2. start.day * Hours + start.hour <= p.day * Hours + p.hour
      BY <2>8 DEF TimeLeq
    <3>. HIDE DEF p
    <3>3. start.day < p.day \/ (start.day = p.day /\ start.hour <= p.hour)
      BY <2>4, <3>1, <3>2, TimeOrder
    <3>4. p.iso = TRUE \/ p.iso = FALSE
      BY <3>1
    <3>5. TextLeq(start, p)
      <4>1. CASE p.iso = TRUE
        BY <2>4, <3>3, <4>1 DEF TextLeq
      <4>2. CASE p.iso = FALSE
        BY <2>4, <3>3, <4>2 DEF TextLeq
      <4>. QED  BY <3>4, <4>1, <4>2
    <3>6. TextLeq(p, now)
      BY <2>8 DEF TextLeq, p
    <3>. QED  BY <3>5, <3>6 DEF p
  <2>. QED  BY <2>3, <2>6, <2>7, <2>8
<1>. QED  BY <1>1, TypesHold, PTL
=============================================================================
