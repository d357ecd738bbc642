---------------------------- MODULE BackupRestore ----------------------------
(***************************************************************************)
(* Backups, restore and maintenance mode against a database in use.        *)
(*                                                                         *)
(* SQLite keeps what connections commit in a WAL beside the file until the *)
(* last of them closes.  A restore puts another file in the place of the   *)
(* live one and then removes the WAL; connections that are open go on      *)
(* with the file they had.  Only requests of users respect maintenance     *)
(* mode, which is itself a row of the database that is replaced.           *)
(***************************************************************************)
EXTENDS Integers, FiniteSets

CONSTANTS
    Ops,         \* requests of administrators to back up or to restore
    Writers,     \* everything else that holds a connection and writes
    Background,  \* those of them that are scheduler ticks and scrape runs
    Writes,      \* bound: the commits to tell apart
    Names,       \* bound: files in the backup directory
    MaxGen,      \* bound: restores that replace the file
    MaxCrashes,  \* bound: crashes of the server
    Absent       \* no such file, no WAL, no connection

Gens == 0 .. MaxGen

\* What a database file holds: tables at all, the commits, the maintenance flag.
Contents == [tables : BOOLEAN, rows : SUBSET Writes, on : BOOLEAN]
Blank == [tables |-> FALSE, rows |-> {}, on |-> FALSE]

\* A file of the backup directory.
Files == [db : Contents, state : {"inflight", "backup", "snapshot"}]

ASSUME BackupAssumption ==
    /\ Background \subseteq Writers
    /\ MaxGen \in Nat /\ MaxCrashes \in Nat
    /\ Absent \notin Gens \cup Names \cup Files

VARIABLES
    gen,       \* the file at the live path, counted by restores
    main,      \* of each of them, the content of the file ...
    view,      \* ... and with the commits of its WAL
    walAt,     \* the file to which the WAL beside the live path belongs
    mixed,     \* a connection has read the live file with the WAL of another
    conn,      \* the file each writer is connected to
    file,      \* the backup directory: [db: content, state]
    op,        \* where each request stands: [at, name: the file it writes,
               \* from: the file to restore, Absent for a backup, got: what it has read]
    committed, \* ghost: commits that succeeded
    exposed,   \* ghost: those made while a restore was past its snapshot
               \* or on a file that was no longer, or never sound, at the live path
    dropped,   \* ghost: those in backups that were deleted or written over
    crashes

vars == <<gen, main, view, walAt, mixed, conn, file, op, committed, exposed, dropped, crashes>>

NoOp == [at |-> "idle", name |-> Absent, from |-> Absent, got |-> Blank]
TypeOK ==
    /\ gen \in Gens
    /\ main \in [Gens -> Contents] /\ view \in [Gens -> Contents]
    /\ walAt \in Gens \cup {Absent} /\ mixed \in BOOLEAN
    /\ conn \in [Writers -> Gens \cup {Absent}]
    /\ file \in [Names -> Files \cup {Absent}]
    /\ op \in [Ops -> [at : {"idle", "copy", "publish", "stage", "swap", "unlink"},
                       name : Names \cup {Absent}, from : Names \cup {Absent}, got : Contents]]
    /\ \A o \in Ops :
          /\ op[o].at \in {"stage", "swap", "unlink"} => op[o].from # Absent
          /\ op[o].at = "publish" /\ file[op[o].name] # Absent => file[op[o].name].state = "inflight"
    /\ committed \subseteq Writes /\ exposed \subseteq Writes /\ dropped \subseteq Writes
    /\ crashes \in 0 .. MaxCrashes

New == [tables |-> TRUE, rows |-> {}, on |-> FALSE]

Init ==
    /\ gen = 0 /\ main = [g \in Gens |-> New] /\ view = main
    /\ walAt = Absent /\ mixed = FALSE
    /\ conn = [w \in Writers |-> Absent]
    /\ file = [n \in Names |-> Absent]
    /\ op = [o \in Ops |-> NoOp]
    /\ committed = {} /\ exposed = {} /\ dropped = {}
    /\ crashes = 0

dirVars == <<file, op>>
ghosts == <<committed, exposed, dropped>>
-----------------------------------------------------------------------------
(* Connections (get_db; external: SQLite's WAL).                           *)

Live == view[gen]
Sound == ~ mixed /\ Live.tables

\* Opening the live path while another file's WAL lies beside it.
Foreign == walAt \notin {gen, Absent}
Opens == mixed' = (mixed \/ Foreign)

\* A restore has taken its snapshot and has not finished.
Restoring == \E o \in Ops : op[o].from # Absent /\ op[o].at \in {"publish", "stage", "swap", "unlink"}

\* maintenance_middleware turns users away; ticks and runs are not asked.
Open(w) ==
    /\ conn[w] = Absent /\ (w \in Background \/ ~ Live.on)
    /\ conn' = [conn EXCEPT ![w] = gen]
    /\ Opens
    /\ walAt' = IF walAt = Absent THEN gen ELSE walAt
    /\ UNCHANGED <<gen, main, view, dirVars, ghosts, crashes>>

Commit(w, x) ==
    /\ conn[w] # Absent /\ x \notin committed /\ view[conn[w]].tables
    /\ view' = [view EXCEPT ![conn[w]].rows = @ \cup {x}]
    /\ committed' = committed \cup {x}
    /\ exposed' = IF Restoring \/ conn[w] # gen \/ mixed THEN exposed \cup {x} ELSE exposed
    /\ UNCHANGED <<gen, main, walAt, mixed, conn, dirVars, dropped, crashes>>

\* The last connection of the live file moves the WAL into it and removes it;
\* the WAL of a file that has been replaced is left where it is.
Close(w) ==
    /\ conn[w] # Absent
    /\ conn' = [conn EXCEPT ![w] = Absent]
    /\ IF conn[w] = gen /\ walAt = gen /\ \A v \in Writers \ {w} : conn[v] # gen
         THEN /\ main' = [main EXCEPT ![gen] = view[gen]]
              /\ walAt' = Absent
         ELSE UNCHANGED <<main, walAt>>
    /\ UNCHANGED <<gen, view, mixed, dirVars, ghosts, crashes>>

\* enable and disable: a commit of its own, by an administrator.
Toggle ==
    /\ Sound /\ Opens
    /\ view' = [view EXCEPT ![gen].on = ~ @]
    /\ main' = IF walAt = Absent THEN [main EXCEPT ![gen] = view'[gen]] ELSE main
    /\ UNCHANGED <<gen, walAt, conn, dirVars, ghosts, crashes>>
-----------------------------------------------------------------------------
(* create_backup and restore_from.                                         *)

To(o, at) == op' = [op EXCEPT ![o].at = at]
Ends(o) == op' = [op EXCEPT ![o] = NoOp]

\* _atomic_backup: mkstemp leaves an empty file in the directory.
Begin(o, source) ==
    /\ op[o].at = "idle"
    /\ \E n \in Names :
          /\ file[n] = Absent /\ \A p \in Ops : op[p].name # n
          /\ file' = [file EXCEPT ![n] = [db |-> Blank, state |-> "inflight"]]
          /\ op' = [op EXCEPT ![o] = [at |-> "copy", name |-> n, from |-> source, got |-> Blank]]
    /\ UNCHANGED <<gen, main, view, walAt, mixed, conn, ghosts, crashes>>

StartBackup(o) == Begin(o, Absent)

\* restore_backup: maintenance mode is on and the file passes its integrity
\* check, which an empty file does.
StartRestore(o, n) ==
    /\ Sound /\ Live.on /\ file[n] # Absent /\ gen < MaxGen
    /\ Begin(o, n)

\* The temporary file has been deleted meanwhile: what is copied into it is gone.
Filled(n, db) == file' = [file EXCEPT ![n] = IF @ = Absent THEN Absent ELSE [file[n] EXCEPT !.db = db]]

\* Slip: the file is copied without its WAL, for PriorStateKept.
SlipCopy(o) ==
    /\ op[o].at = "copy" /\ Opens
    /\ Filled(op[o].name, IF mixed' THEN Blank ELSE main[gen])
    /\ To(o, "publish")
    /\ UNCHANGED <<gen, main, view, walAt, conn, ghosts, crashes>>

\* Connection.backup: all that is committed, as one transaction; of a mixed
\* database nothing can be said to be in the copy.
Copy(o) ==
    /\ op[o].at = "copy" /\ Opens
    /\ Filled(op[o].name, IF mixed' THEN Blank ELSE Live)
    /\ To(o, "publish")
    /\ UNCHANGED <<gen, main, view, walAt, conn, ghosts, crashes>>

\* An exception while copying removes the temporary file and ends the request.
CopyFails(o) ==
    /\ op[o].at = "copy"
    /\ file' = [file EXCEPT ![op[o].name] = Absent]
    /\ Ends(o)
    /\ UNCHANGED <<gen, main, view, walAt, mixed, conn, ghosts, crashes>>

\* Slip: a backup goes on as a restore does, for TypeOK.
SlipPublish(o) ==
    /\ op[o].at = "publish" /\ file[op[o].name] # Absent
    /\ file' = [file EXCEPT ![op[o].name].state = "backup"]
    /\ To(o, "stage")
    /\ UNCHANGED <<gen, main, view, walAt, mixed, conn, ghosts, crashes>>

\* tmp_path.replace(dst).  Two backups asked for in one second have one name; a
\* temporary file that has been deleted ends the request.
Publish(o) ==
    LET n == op[o].name
        kind == IF op[o].from = Absent THEN "backup" ELSE "snapshot"
        earlier == {m \in Names : file[m] # Absent /\ file[m].state = "backup"}
    IN
    /\ op[o].at = "publish"
    /\ \/ /\ file[n] # Absent
          /\ file' = [file EXCEPT ![n].state = kind]
          /\ IF kind = "backup" THEN Ends(o) ELSE To(o, "stage")
          /\ UNCHANGED dropped
       \/ \E m \in earlier :
             /\ file[n] # Absent /\ kind = "backup"
             /\ file' = [file EXCEPT ![m] = [file[n] EXCEPT !.state = kind], ![n] = Absent]
             /\ Ends(o)
             /\ dropped' = dropped \cup file[m].db.rows
       \/ /\ file[n] = Absent
          /\ Ends(o)
          /\ UNCHANGED <<file, dropped>>
    /\ UNCHANGED <<gen, main, view, walAt, mixed, conn, committed, exposed, crashes>>

\* copy2 of the backup, which may be gone by now, beside the live file.
Stage(o) ==
    LET n == op[o].from IN
    /\ op[o].at = "stage"
    /\ IF file[n] = Absent THEN Ends(o)
       ELSE op' = [op EXCEPT ![o].at = "swap", ![o].got = file[n].db]
    /\ UNCHANGED <<gen, main, view, walAt, mixed, conn, file, ghosts, crashes>>

\* tmp_path.replace(live_path)
Swap(o) ==
    /\ op[o].at = "swap" /\ gen < MaxGen
    /\ gen' = gen + 1
    /\ main' = [main EXCEPT ![gen + 1] = op[o].got]
    /\ view' = [view EXCEPT ![gen + 1] = op[o].got]
    /\ mixed' = FALSE
    /\ To(o, "unlink")
    /\ UNCHANGED <<walAt, conn, file, ghosts, crashes>>

\* The WAL and its index are removed; the audit row that follows is best effort.
Unlink(o) ==
    /\ op[o].at = "unlink"
    /\ walAt' = Absent
    /\ Ends(o)
    /\ UNCHANGED <<gen, main, view, mixed, conn, file, ghosts, crashes>>

\* delete_backup, of any file the list shows.
Delete(n) ==
    /\ file[n] # Absent
    /\ file' = [file EXCEPT ![n] = Absent]
    /\ dropped' = dropped \cup file[n].db.rows
    /\ UNCHANGED <<gen, main, view, walAt, mixed, conn, op, committed, exposed, crashes>>

\* The server stops and starts: requests and connections are gone, the first
\* connection takes over the WAL it finds, init_db creates what tables lack.
Crash ==
    LET now == [view[gen] EXCEPT !.tables = TRUE] IN
    /\ crashes < MaxCrashes
    /\ crashes' = crashes + 1
    /\ op' = [o \in Ops |-> NoOp]
    /\ conn' = [w \in Writers |-> Absent]
    /\ Opens
    /\ walAt' = Absent
    /\ main' = [main EXCEPT ![gen] = now] /\ view' = [view EXCEPT ![gen] = now]
    /\ UNCHANGED <<gen, file, ghosts>>

Request(o) ==
    \/ StartBackup(o) \/ \E n \in Names : StartRestore(o, n)
    \/ Copy(o) \/ CopyFails(o) \/ Publish(o) \/ Stage(o) \/ Swap(o) \/ Unlink(o)

Next ==
    \/ \E w \in Writers : Open(w) \/ Close(w) \/ \E x \in Writes : Commit(w, x)
    \/ Toggle
    \/ \E o \in Ops : Request(o)
    \/ \E n \in Names : Delete(n)
    \/ Crash

Spec == Init /\ [][Next]_vars
-----------------------------------------------------------------------------
Stored == {n \in Names : file[n] # Absent}

\* "The pre-restore live DB is itself snapshotted before the swap, so the prior
\* state is recoverable" (README.md:458): a commit is in the live database or in
\* a file of the backup directory, unless it was made while a restore was past
\* its snapshot, or the file that held it was deleted.
PriorStateKept ==
    committed \subseteq exposed \cup dropped \cup (IF mixed THEN {} ELSE Live.rows)
                        \cup UNION {file[n].db.rows : n \in Stored}

\* "never leave a half-written .db that list_backups() would still pick up"
\* (backups.py:142): glob("*.db") finds the temporary file too.
ListedAreWhole == \A n \in Stored : file[n].state # "inflight"

\* The WAL "belong[s] to the old DB and will confuse SQLite when it reopens the
\* freshly replaced file" (backups.py:281): nobody opens the file before it is gone.
NoForeignWal == ~ mixed
=============================================================================
