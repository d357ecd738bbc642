------------------------------- MODULE JobQuery -------------------------------
(***************************************************************************)
(* services/query.py: which jobs a filter selects, what a list counts and  *)
(* what a facet counts.                                                    *)
(*                                                                         *)
(* A time is a text.  SQLite's own stamps separate date and hour by a      *)
(* space, the ones ingestion stores by a T, and texts are compared: of two *)
(* stamps of one day the one with the T is the later, whatever the hour.   *)
(***************************************************************************)
EXTENDS Integers, FiniteSets

CONSTANTS
    Columns,   \* the facet columns (FACET_COLUMNS)
    Values,    \* what they hold
    Words,     \* what a title or description may be searched for
    MaxDay,    \* bound: days
    Hours,     \* the hours of a day, 0 .. Hours - 1
    NoQuery,   \* no q parameter
    Cap        \* FTS_PREFILTER_CAP

ASSUME QueryAssumption ==
    /\ MaxDay \in Nat /\ Hours \in Nat \ {0} /\ Cap \in Nat
    /\ NoQuery \notin Words

Stamps == [day : 0 .. MaxDay, hour : 0 .. Hours - 1, iso : BOOLEAN]

\* The columns of jobs that a search reads.  Ingestion leaves no posted_at NULL, so
\* COALESCE(posted_at, first_seen_at) is posted_at.
Rows == [col : [Columns -> Values], word : Words, posted : Stamps, expired : BOOLEAN]

\* JobFilters: of each column the values wanted, or none for all; hours = 0 for
\* any time.
Filters == [q : Words \cup {NoQuery}, want : [Columns -> SUBSET Values],
            hours : Nat, expired : {"hide", "include", "only"}]

\* a <= b as texts.
TextLeq(a, b) ==
    \/ a.day < b.day
    \/ a.day = b.day /\ a.iso # b.iso /\ b.iso
    \/ a.day = b.day /\ a.iso = b.iso /\ a.hour <= b.hour

\* a <= b as times.
TimeLeq(a, b) == a.day * Hours + a.hour <= b.day * Hours + b.hour

\* datetime('now', '-h hours'); what lies before the first day is the first hour.
Back(now, h) ==
    LET at == now.day * Hours + now.hour - h
    IN  IF at < 0 THEN [day |-> 0, hour |-> 0, iso |-> FALSE]
        ELSE [day |-> at \div Hours, hour |-> at % Hours, iso |-> FALSE]

\* Slip: a facet keeps its own filter, for FacetsForetell.
SlipWanted(f, row, skip) == \A c \in Columns : f.want[c] = {} \/ row.col[c] \in f.want[c]

\* _build_where: a facet leaves its own filter out.
Wanted(f, row, skip) ==
    \A c \in Columns \ skip : f.want[c] = {} \/ row.col[c] \in f.want[c]

\* Slip: later dates are not cut off, for WindowToTheDay.
SlipInTime(f, row, now) == f.hours > 0 => TextLeq(Back(now, f.hours), row.posted)

InTime(f, row, now) ==
    /\ f.hours > 0 => TextLeq(Back(now, f.hours), row.posted)
    /\ TextLeq(row.posted, now)

Shown(f, row) ==
    CASE f.expired = "hide" -> ~ row.expired
      [] f.expired = "only" -> row.expired
      [] f.expired = "include" -> TRUE

\* The inner query on jobs_fts: of the rows indexed under the word the first Cap by
\* rowid.  (Sorting by relevance takes the first by rank, which is not modelled.)
Prefiltered(index, word) ==
    LET hits == {i \in DOMAIN index : index[i] = word}
    IN  {i \in hits : Cardinality({j \in hits : j < i}) < Cap}

\* What build_jobs_select lists and build_count counts; jobs are the rows there are.
Selected(jobs, index, f, now, skip) ==
    {i \in DOMAIN jobs :
        /\ f.q = NoQuery \/ i \in Prefiltered(index, f.q)
        /\ Wanted(f, jobs[i], skip) /\ InTime(f, jobs[i], now) /\ Shown(f, jobs[i])}

Listed(jobs, index, f, now) == Selected(jobs, index, f, now, {})

\* facets takes no parameter about expired jobs and counts without them.
FacetFilter(f) == [f EXCEPT !.expired = "hide"]

\* build_facet: the count of a value, whatever of the column is wanted.
FacetCount(jobs, index, f, now, c, v) ==
    Cardinality({i \in Selected(jobs, index, FacetFilter(f), now, {c}) : jobs[i].col[c] = v})
=============================================================================
