------------------------- MODULE BackupRestoreProofs -------------------------
(***************************************************************************)
(* Proofs about backups and restore, for any requests, connections, names  *)
(* and bounds.                                                             *)
(***************************************************************************)
EXTENDS BackupRestore, TLAPS

\* Every commit that counts is outside the live database.
Held == UNION {file[n].db.rows : n \in Stored}
Safe == committed \subseteq exposed \cup dropped \cup Held

\* A temporary file belongs to one request, and is empty until it is copied into.
TempFiles ==
    /\ \A o \in Ops : op[o].at # "idle" => op[o].name \in Names
    /\ \A o, p \in Ops : op[o].name = op[p].name /\ op[o].name # Absent => o = p
    /\ \A o \in Ops : op[o].at = "copy" /\ file[op[o].name] # Absent
                        => file[op[o].name].db = Blank /\ file[op[o].name].state = "inflight"

\* Once a restore has its snapshot, nothing depends on the live file any more.
SnapshotTaken ==
    \A o \in Ops :
        \/ op[o].at \in {"stage", "swap", "unlink"}
        \/ op[o].at = "publish" /\ op[o].from # Absent /\ file[op[o].name] # Absent
        => Safe

\* The WAL of a replaced file lies at the live path only while its restore goes on.
ForeignIsPassing == Foreign => \E o \in Ops : op[o].at = "unlink"

IInv == TypeOK /\ TempFiles /\ SnapshotTaken /\ ForeignIsPassing /\ PriorStateKept

LEMMA InitIInv == Init => IInv
<1>. SUFFICES ASSUME Init PROVE IInv
  OBVIOUS
<1>. USE BackupAssumption DEF Init
<1>1. TypeOK
  <2>1. New \in Contents /\ Blank \in Contents /\ 0 \in Gens
    BY DEF New, Blank, Contents, Gens
  <2>2. NoOp.at = "idle" /\ NoOp.name = Absent
        /\ NoOp \in [at : {"idle", "copy", "publish", "stage", "swap", "unlink"},
                     name : Names \cup {Absent}, from : Names \cup {Absent}, got : Contents]
    BY <2>1 DEF NoOp
  <2>3. /\ gen \in Gens /\ main \in [Gens -> Contents] /\ view \in [Gens -> Contents]
        /\ walAt \in Gens \cup {Absent} /\ mixed \in BOOLEAN
        /\ conn \in [Writers -> Gens \cup {Absent}] /\ file \in [Names -> Files \cup {Absent}]
    BY <2>1
  <2>4. committed \subseteq Writes /\ exposed \subseteq Writes /\ dropped \subseteq Writes
        /\ crashes \in 0 .. MaxCrashes
    OBVIOUS
  <2>5. op = [o \in Ops |-> NoOp]
    OBVIOUS
  <2>. HIDE DEF Init, NoOp
  <2>. QED  BY <2>2, <2>3, <2>4, <2>5 DEF TypeOK
<1>2. TempFiles
  BY DEF TempFiles, NoOp
<1>3. SnapshotTaken /\ ForeignIsPassing
  BY DEF SnapshotTaken, ForeignIsPassing, NoOp, Foreign
<1>4. PriorStateKept
  BY DEF PriorStateKept
<1>. QED  BY <1>1, <1>2, <1>3, <1>4 DEF IInv

-----------------------------------------------------------------------------
(* Types. *)

LEMMA ConnectionTypes ==
  ASSUME TypeOK, NEW w \in Writers, Open(w) \/ Close(w) \/ \E x \in Writes : Commit(w, x)
  PROVE  TypeOK'
<1>1. CASE Open(w)
  BY <1>1 DEF Open, TypeOK, Opens, Foreign, dirVars, ghosts
<1>2. CASE Close(w)
  BY <1>2 DEF Close, TypeOK, dirVars, ghosts
<1>3. ASSUME NEW x \in Writes, Commit(w, x) PROVE TypeOK'
  <2>1. conn[w] \in Gens
    BY <1>3 DEF Commit, TypeOK
  <2>2. view' \in [Gens -> Contents]
    BY <1>3, <2>1 DEF Commit, TypeOK, Contents
  <2>3. committed' \subseteq Writes /\ exposed' \subseteq Writes
    BY <1>3 DEF Commit, TypeOK
  <2>. QED  BY <1>3, <2>2, <2>3 DEF Commit, TypeOK, dirVars
<1>. QED  BY <1>1, <1>2, <1>3


\* The conjuncts of TypeOK, and what an operator may be handed.
Stages == {"idle", "copy", "publish", "stage", "swap", "unlink"}
OpStates == [at : Stages, name : Names \cup {Absent}, from : Names \cup {Absent}, got : Contents]
DbTypes ==
    /\ gen \in Gens /\ main \in [Gens -> Contents] /\ view \in [Gens -> Contents]
    /\ walAt \in Gens \cup {Absent} /\ mixed \in BOOLEAN
    /\ conn \in [Writers -> Gens \cup {Absent}]
FileTypes == file \in [Names -> Files \cup {Absent}]
OpTypes == op \in [Ops -> OpStates]
Pending ==
    \A o \in Ops :
        /\ op[o].at \in {"stage", "swap", "unlink"} => op[o].from # Absent
        /\ op[o].at = "publish" /\ file[op[o].name] # Absent => file[op[o].name].state = "inflight"
GhostTypes ==
    /\ committed \subseteq Writes /\ exposed \subseteq Writes /\ dropped \subseteq Writes
    /\ crashes \in 0 .. MaxCrashes

LEMMA TypeParts == TypeOK <=> DbTypes /\ FileTypes /\ OpTypes /\ Pending /\ GhostTypes
BY DEF TypeOK, DbTypes, FileTypes, OpTypes, OpStates, Stages, Pending, GhostTypes

LEMMA BlankTypes ==
  /\ Blank \in Contents /\ NoOp \in OpStates
  /\ NoOp.at = "idle" /\ NoOp.name = Absent /\ NoOp.from = Absent
  /\ [db |-> Blank, state |-> "inflight"] \in Files
  /\ Absent \notin Gens \cup Names \cup Files
BY BackupAssumption DEF NoOp, Blank, Contents, OpStates, Stages, Files

LEMMA RequestTypes ==
  ASSUME TypeOK, NEW o \in Ops, Request(o), TempFiles
  PROVE  TypeOK'
<1>1. DbTypes /\ FileTypes /\ OpTypes /\ Pending /\ GhostTypes
  BY TypeParts
<1>. USE BlankTypes DEF DbTypes, FileTypes, OpTypes, Pending, GhostTypes, Ends, To, ghosts
<1>. SUFFICES DbTypes' /\ FileTypes' /\ OpTypes' /\ Pending' /\ GhostTypes'
  BY DEF TypeOK, DbTypes, FileTypes, OpTypes, OpStates, Stages, Pending, GhostTypes
<1>2. ASSUME NEW source \in Names \cup {Absent}, Begin(o, source)
      PROVE  DbTypes' /\ FileTypes' /\ OpTypes' /\ Pending' /\ GhostTypes'
  <2>1. PICK n \in Names :
          /\ op' = [op EXCEPT ![o] = [at |-> "copy", name |-> n, from |-> source, got |-> Blank]]
          /\ file' = [file EXCEPT ![n] = [db |-> Blank, state |-> "inflight"]]
          /\ \A p \in Ops : op[p].name # n
    BY <1>2 DEF Begin
  <2>2. [at |-> "copy", name |-> n, from |-> source, got |-> Blank] \in OpStates
    BY DEF OpStates, Stages
  <2>. QED  BY <1>1, <1>2, <2>1, <2>2 DEF Begin
<1>3. CASE Copy(o)
  <2>1. Live \in Contents
    BY <1>1 DEF Live
  <2>2. PICK db \in Contents : Filled(op[o].name, db)
    BY <1>3, <2>1 DEF Copy
  <2>3. file' \in [Names -> Files \cup {Absent}]
    BY <1>1, <2>2 DEF Filled, Files
  <2>4. op'[o] = [op[o] EXCEPT !.at = "publish"] /\ op' \in [Ops -> OpStates]
    BY <1>1, <1>3 DEF Copy, OpStates, Stages
  <2>5. Pending'
    BY <1>1, <1>3, <2>2, <2>4 DEF Copy, Filled, TempFiles, OpStates, Files
  <2>6. mixed' \in BOOLEAN
    BY <1>3 DEF Copy, Opens
  <2>. QED  BY <1>1, <1>3, <2>3, <2>4, <2>5, <2>6 DEF Copy
<1>4. CASE CopyFails(o)
  <2>1. op' \in [Ops -> OpStates] /\ file' \in [Names -> Files \cup {Absent}]
    BY <1>1, <1>4 DEF CopyFails
  <2>. QED  BY <1>1, <1>4, <2>1 DEF CopyFails
<1>5. CASE Stage(o)
  <2>1. op' \in [Ops -> OpStates]
    BY <1>1, <1>5 DEF Stage, Files, OpStates, Stages
  <2>2. op'[o] = NoOp \/ (op'[o].at = "swap" /\ op'[o].from = op[o].from /\ op[o].at = "stage")
    BY <1>1, <1>5 DEF Stage, OpStates
  <2>3. Pending'
    BY <1>1, <1>5, <2>2 DEF Stage
  <2>. QED  BY <1>1, <1>5, <2>1, <2>3 DEF Stage
<1>6. CASE Swap(o)
  <2>1. gen + 1 \in Gens
    BY <1>1, <1>6, BackupAssumption DEF Swap, Gens
  <2>2. op'[o] = [op[o] EXCEPT !.at = "unlink"] /\ op' \in [Ops -> OpStates]
    BY <1>1, <1>6 DEF Swap, OpStates, Stages
  <2>3. op[o].got \in Contents
    BY <1>1 DEF OpStates
  <2>4. DbTypes'
    BY <1>1, <1>6, <2>1, <2>3 DEF Swap
  <2>5. Pending'
    BY <1>1, <1>6, <2>2 DEF Swap, OpStates
  <2>. QED  BY <1>1, <1>6, <2>2, <2>4, <2>5 DEF Swap
<1>7. CASE Unlink(o)
  BY <1>1, <1>7 DEF Unlink
<1>8. CASE Publish(o)
  <2>1. op' \in [Ops -> OpStates]
    BY <1>1, <1>8 DEF Publish, OpStates, Stages
  <2>2. file' \in [Names -> Files \cup {Absent}]
    <3>1. \A n \in Names, kind \in {"backup", "snapshot"} : file[n] # Absent =>
            [file EXCEPT ![n].state = kind] \in [Names -> Files \cup {Absent}]
      BY <1>1 DEF Files
    <3>2. op[o].name \in Names
      BY <1>8 DEF Publish, TempFiles
    <3>. DEFINE n == op[o].name
    <3>3. \/ UNCHANGED file
          \/ /\ file[n] # Absent
             /\ \E kind \in {"backup", "snapshot"} :
                   \/ file' = [file EXCEPT ![n].state = kind]
                   \/ \E m \in Names : file' = [file EXCEPT ![m] = [file[n] EXCEPT !.state = kind],
                                                            ![n] = Absent]
      BY <1>8 DEF Publish
    <3>4. n \in Names
      BY <3>2
    <3>. HIDE DEF n
    <3>5. CASE UNCHANGED file
      BY <1>1, <3>5
    <3>6. ASSUME file[n] # Absent, NEW kind \in {"backup", "snapshot"},
                 file' = [file EXCEPT ![n].state = kind]
          PROVE  file' \in [Names -> Files \cup {Absent}]
      BY <3>1, <3>4, <3>6
    <3>7. ASSUME file[n] # Absent, NEW kind \in {"backup", "snapshot"}, NEW m \in Names,
                 file' = [file EXCEPT ![m] = [file[n] EXCEPT !.state = kind], ![n] = Absent]
          PROVE  file' \in [Names -> Files \cup {Absent}]
      <4>1. [file[n] EXCEPT !.state = kind] \in Files
        BY <1>1, <3>4, <3>7 DEF Files
      <4>. QED  BY <1>1, <3>4, <3>7, <4>1
    <3>. QED  BY <3>3, <3>5, <3>6, <3>7
  <2>3. dropped' \subseteq Writes
    BY <1>1, <1>8 DEF Publish, Files, Contents
  <2>4. Pending'
    BY <1>1, <1>8, <2>1 DEF Publish, TempFiles, OpStates
  <2>. QED  BY <1>1, <1>8, <2>1, <2>2, <2>3, <2>4 DEF Publish
<1>. QED  BY <1>2, <1>3, <1>4, <1>5, <1>6, <1>7, <1>8 DEF Request, StartBackup, StartRestore

LEMMA OtherTypes ==
  ASSUME TypeOK, Toggle \/ Crash \/ \E n \in Names : Delete(n)
  PROVE  TypeOK'
<1>1. DbTypes /\ FileTypes /\ OpTypes /\ Pending /\ GhostTypes
  BY TypeParts
<1>. USE BlankTypes, BackupAssumption
         DEF DbTypes, FileTypes, OpTypes, Pending, GhostTypes, Opens, ghosts, dirVars
<1>. SUFFICES DbTypes' /\ FileTypes' /\ OpTypes' /\ Pending' /\ GhostTypes'
  BY DEF TypeOK, DbTypes, FileTypes, OpTypes, OpStates, Stages, Pending, GhostTypes
<1>2. CASE Toggle
  <2>1. view' \in [Gens -> Contents]
    BY <1>1, <1>2 DEF Toggle, Contents
  <2>2. main' \in [Gens -> Contents]
    BY <1>1, <1>2, <2>1 DEF Toggle
  <2>. QED  BY <1>1, <1>2, <2>1, <2>2 DEF Toggle
<1>3. CASE Crash
  <2>1. [view[gen] EXCEPT !.tables = TRUE] \in Contents
    BY <1>1 DEF Contents
  <2>. QED  BY <1>1, <1>3, <2>1 DEF Crash
<1>4. ASSUME NEW n \in Names, Delete(n)
      PROVE  DbTypes' /\ FileTypes' /\ OpTypes' /\ Pending' /\ GhostTypes'
  <2>1. file[n].db.rows \subseteq Writes
    BY <1>1, <1>4 DEF Delete, Files, Contents
  <2>2. \A o \in Ops : file'[op[o].name] # Absent => file'[op[o].name] = file[op[o].name]
    BY <1>1, <1>4 DEF Delete, OpStates
  <2>. QED  BY <1>1, <1>4, <2>1, <2>2 DEF Delete
<1>. QED  BY <1>2, <1>3, <1>4
-----------------------------------------------------------------------------
(* No commit is lost. *)

\* Connections, and what they commit.
LEMMA ConnectionIInv ==
  ASSUME IInv, NEW w \in Writers, Open(w) \/ Close(w) \/ \E x \in Writes : Commit(w, x)
  PROVE  IInv'
<1>. USE DEF IInv
<1>1. TypeOK' /\ TempFiles'
  <2>1. UNCHANGED <<file, op>>
    BY DEF Open, Close, Commit, dirVars
  <2>. QED  BY <2>1, ConnectionTypes DEF TempFiles
<1>2. CASE Open(w)
  <2>1. UNCHANGED <<gen, view, file, op, committed, exposed, dropped>>
    BY <1>2 DEF Open, dirVars, ghosts
  <2>2. Safe <=> Safe'
    BY <2>1 DEF Safe, Held, Stored
  <2>3. SnapshotTaken'
    BY <2>1, <2>2 DEF SnapshotTaken
  <2>4. ForeignIsPassing'
    BY <1>2, <2>1 DEF Open, ForeignIsPassing, Foreign
  <2>5. Foreign => Safe
    BY DEF ForeignIsPassing, SnapshotTaken
  <2>6. PriorStateKept'
    BY <1>2, <2>1, <2>5 DEF Open, Opens, PriorStateKept, Safe, Held, Stored, Live
  <2>. QED  BY <1>1, <2>3, <2>4, <2>6
<1>3. CASE Close(w)
  <2>1. UNCHANGED <<gen, view, mixed, file, op, committed, exposed, dropped>>
    BY <1>3 DEF Close, dirVars, ghosts
  <2>2. Safe <=> Safe'
    BY <2>1 DEF Safe, Held, Stored
  <2>3. SnapshotTaken'
    BY <2>1, <2>2 DEF SnapshotTaken
  <2>4. ForeignIsPassing'
    BY <1>3, <2>1 DEF Close, ForeignIsPassing, Foreign
  <2>5. PriorStateKept'
    BY <2>1 DEF PriorStateKept, Stored, Live
  <2>. QED  BY <1>1, <2>3, <2>4, <2>5
<1>4. ASSUME NEW x \in Writes, Commit(w, x) PROVE IInv'
  <2>1. UNCHANGED <<gen, walAt, mixed, file, op, dropped>> /\ committed' = committed \cup {x}
    BY <1>4 DEF Commit, dirVars
  <2>2. exposed \subseteq exposed'
    BY <1>4 DEF Commit
  <2>3. Restoring /\ Safe => Safe'
    BY <1>4, <2>1 DEF Commit, Safe, Held, Stored
  <2>4. SnapshotTaken'
    BY <2>1, <2>3 DEF SnapshotTaken, Restoring, TypeOK
  <2>5. ForeignIsPassing'
    BY <2>1 DEF ForeignIsPassing, Foreign
  <2>6. x \in exposed' \/ (conn[w] = gen /\ ~ mixed)
    BY <1>4 DEF Commit
  <2>7. Live.rows \subseteq Live'.rows /\ (conn[w] = gen => x \in Live'.rows)
    BY <1>4, <2>1 DEF Commit, Live, TypeOK, Contents
  <2>8. PriorStateKept'
    BY <2>1, <2>2, <2>6, <2>7 DEF PriorStateKept, Stored
  <2>. QED  BY <1>1, <2>4, <2>5, <2>8
<1>. QED  BY <1>2, <1>3, <1>4

\* A request's temporary file stays its own.
LEMMA TempFilesKept ==
  ASSUME IInv, NEW o \in Ops, Request(o)
  PROVE  TempFiles'
<1>. USE BlankTypes DEF TempFiles, Ends, To
<1>1. DbTypes /\ FileTypes /\ OpTypes /\ TempFiles
  BY TypeParts DEF IInv
<1>2. ASSUME NEW source \in Names \cup {Absent}, Begin(o, source) PROVE TempFiles'
  <2>1. PICK n \in Names :
          /\ op' = [op EXCEPT ![o] = [at |-> "copy", name |-> n, from |-> source, got |-> Blank]]
          /\ file' = [file EXCEPT ![n] = [db |-> Blank, state |-> "inflight"]]
          /\ file[n] = Absent /\ \A p \in Ops : op[p].name # n
    BY <1>2 DEF Begin
  <2>. QED  BY <1>1, <2>1 DEF OpTypes, FileTypes
<1>3. CASE Copy(o)
  <2>1. \A p \in Ops : op'[p].name = op[p].name /\ (p # o => op'[p] = op[p]) /\ op'[o].at = "publish"
    BY <1>1, <1>3 DEF Copy, OpTypes, OpStates
  <2>2. \A n \in Names : n # op[o].name => file'[n] = file[n]
    BY <1>1, <1>3 DEF Copy, Filled, FileTypes
  <2>. QED  BY <1>1, <1>3, <2>1, <2>2 DEF Copy
<1>4. CASE CopyFails(o)
  BY <1>1, <1>4 DEF CopyFails, OpTypes, FileTypes
<1>5. CASE Stage(o)
  BY <1>1, <1>5 DEF Stage, OpTypes, OpStates
<1>6. CASE Swap(o)
  BY <1>1, <1>6 DEF Swap, OpTypes, OpStates
<1>7. CASE Unlink(o)
  BY <1>1, <1>7 DEF Unlink, OpTypes
<1>8. CASE Publish(o)
  <2>1. \A p \in Ops : \/ op'[p].name = op[p].name /\ (p # o => op'[p] = op[p])
                       \/ p = o /\ op'[p] = NoOp
    BY <1>1, <1>8 DEF Publish, OpTypes, OpStates
  <2>2. op'[o].at # "copy"
    BY <1>1, <1>8 DEF Publish, OpTypes, OpStates
  <2>3. \A p \in Ops \ {o} : op[p].at = "copy"
          => file'[op[p].name] \in {file[op[p].name], Absent}
    BY <1>1, <1>8 DEF Publish, FileTypes
  <2>. QED  BY <1>1, <1>8, <2>1, <2>2, <2>3 DEF Publish, OpTypes, OpStates
<1>. QED  BY <1>2, <1>3, <1>4, <1>5, <1>6, <1>7, <1>8 DEF Request, StartBackup, StartRestore

\* The files of the directory and the deletions keep between them what they had.
LEMMA HeldKept ==
  ASSUME IInv, NEW o \in Ops,
         Copy(o) \/ CopyFails(o) \/ Publish(o) \/ \E source \in Names \cup {Absent} : Begin(o, source)
  PROVE  dropped \cup Held \subseteq dropped' \cup Held'
<1>. USE BlankTypes DEF Held, Stored
<1>1. DbTypes /\ FileTypes /\ OpTypes /\ Pending /\ TempFiles
  BY TypeParts DEF IInv
<1>2. ASSUME NEW source \in Names \cup {Absent}, Begin(o, source)
      PROVE  dropped \cup Held \subseteq dropped' \cup Held'
  <2>1. \A n \in Names : file[n] # Absent => file'[n] = file[n]
    BY <1>1, <1>2 DEF Begin, FileTypes
  <2>. QED  BY <1>1, <1>2, <2>1 DEF Begin, ghosts
<1>3. ASSUME Copy(o) \/ CopyFails(o) PROVE dropped \cup Held \subseteq dropped' \cup Held'
  <2>1. \A n \in Names : n # op[o].name => file'[n] = file[n]
    BY <1>1, <1>3 DEF Copy, CopyFails, Filled, FileTypes
  <2>2. file[op[o].name] # Absent => file[op[o].name].db.rows = {}
    BY <1>1, <1>3 DEF Copy, CopyFails, TempFiles, Blank
  <2>. QED  BY <1>3, <2>1, <2>2 DEF Copy, CopyFails, ghosts
<1>4. CASE Publish(o)
  <2>. DEFINE n == op[o].name
  <2>1. n \in Names
    BY <1>1, <1>4 DEF Publish, TempFiles
  <2>2. CASE file[n] = Absent
    BY <1>4, <2>2 DEF Publish
  <2>3. ASSUME file[n] # Absent, NEW kind \in {"backup", "snapshot"},
               file' = [file EXCEPT ![n].state = kind], UNCHANGED dropped
        PROVE  dropped \cup Held \subseteq dropped' \cup Held'
    <3>1. file'[n].db = file[n].db /\ file'[n] # Absent
      BY <1>1, <2>1, <2>3 DEF FileTypes, Files
    <3>2. \A k \in Names : k # n => file'[k] = file[k]
      BY <1>1, <2>3 DEF FileTypes
    <3>. QED  BY <2>3, <3>1, <3>2
  <2>4. ASSUME file[n] # Absent, NEW m \in Names, file[m] # Absent, file[m].state = "backup",
               file' = [file EXCEPT ![m] = [file[n] EXCEPT !.state = "backup"], ![n] = Absent],
               dropped' = dropped \cup file[m].db.rows
        PROVE  dropped \cup Held \subseteq dropped' \cup Held'
    <3>1. m # n
      BY <1>1, <1>4, <2>4 DEF Publish, Pending
    <3>2. file'[m].db = file[n].db /\ file'[m] # Absent
      BY <1>1, <2>1, <2>4, <3>1 DEF FileTypes, Files
    <3>3. \A k \in Names \ {m, n} : file'[k] = file[k]
      BY <1>1, <2>4 DEF FileTypes
    <3>4. ASSUME NEW k \in Stored PROVE file[k].db.rows \subseteq dropped' \cup Held'
      <4>1. CASE k = m
        BY <2>4, <4>1
      <4>2. CASE k = n
        <5>1. m \in Stored' /\ file[k].db.rows = file'[m].db.rows
          BY <3>2, <4>2
        <5>. QED  BY <5>1
      <4>3. CASE k \notin {m, n}
        <5>1. k \in Stored' /\ file[k].db.rows = file'[k].db.rows
          BY <3>3, <4>3
        <5>. QED  BY <5>1
      <4>. QED  BY <4>1, <4>2, <4>3
    <3>5. dropped \subseteq dropped'
      BY <2>4
    <3>. QED  BY <3>4, <3>5
  <2>5. \/ file[n] = Absent
        \/ /\ file[n] # Absent /\ UNCHANGED dropped
           /\ \E kind \in {"backup", "snapshot"} : file' = [file EXCEPT ![n].state = kind]
        \/ /\ file[n] # Absent
           /\ \E m \in Names : /\ file[m] # Absent /\ file[m].state = "backup"
                               /\ file' = [file EXCEPT ![m] = [file[n] EXCEPT !.state = "backup"],
                                                       ![n] = Absent]
                               /\ dropped' = dropped \cup file[m].db.rows
    BY <1>4 DEF Publish
  <2>. HIDE DEF n, Held
  <2>. QED  BY <2>2, <2>3, <2>4, <2>5
<1>. QED  BY <1>2, <1>3, <1>4

\* What a request reads and replaces is in a file by then.
LEMMA RequestIInv ==
  ASSUME IInv, NEW o \in Ops, Request(o)
  PROVE  IInv'
<1>. USE BlankTypes
<1>1. DbTypes /\ FileTypes /\ OpTypes /\ Pending /\ TempFiles
  BY TypeParts DEF IInv
<1>2. TypeOK' /\ TempFiles'
  BY RequestTypes, TempFilesKept DEF IInv
<1>3. Foreign => Safe
  BY DEF IInv, ForeignIsPassing, SnapshotTaken
<1>4. PriorStateKept <=> committed \subseteq exposed \cup dropped \cup Held
                                            \cup (IF mixed THEN {} ELSE Live.rows)
  BY DEF PriorStateKept, Held
<1>5. PriorStateKept' <=> committed' \subseteq exposed' \cup dropped' \cup Held'
                                            \cup (IF mixed' THEN {} ELSE Live'.rows)
  BY DEF PriorStateKept, Held
<1>6. ASSUME NEW source \in Names \cup {Absent}, Begin(o, source) PROVE IInv'
  <2>1. UNCHANGED <<gen, view, walAt, mixed, committed, exposed>>
        /\ dropped \cup Held \subseteq dropped' \cup Held'
    BY <1>6, HeldKept DEF Begin, ghosts
  <2>2. \A p \in Ops : p # o => op'[p] = op[p]
    BY <1>1, <1>6 DEF Begin, OpTypes
  <2>3. op'[o].at = "copy" /\ op[o].at = "idle"
    BY <1>1, <1>6 DEF Begin, OpTypes
  <2>4. \A n \in Names : file[n] # Absent => file'[n] = file[n]
    BY <1>1, <1>6 DEF Begin, FileTypes
  <2>5. \A p \in Ops : p # o /\ op[p].at # "idle" => file'[op[p].name] = file[op[p].name]
    BY <1>1, <1>6 DEF Begin, FileTypes, TempFiles
  <2>6. SnapshotTaken'
    BY <2>1, <2>2, <2>3, <2>5 DEF IInv, SnapshotTaken, Safe
  <2>7. ForeignIsPassing'
    BY <2>1, <2>2, <2>3 DEF IInv, ForeignIsPassing, Foreign
  <2>8. PriorStateKept'
    BY <1>4, <1>5, <2>1 DEF IInv, Live
  <2>. QED  BY <1>2, <2>6, <2>7, <2>8 DEF IInv
\* The copy holds what the live database held; when that cannot be said of it, the
\* files held it already.
<1>7. CASE Copy(o)
  <2>1. UNCHANGED <<gen, view, walAt, committed, exposed, dropped>>
        /\ dropped \cup Held \subseteq dropped' \cup Held'
    BY <1>7, HeldKept DEF Copy, ghosts
  <2>2. \A p \in Ops : p # o => op'[p] = op[p]
    BY <1>1, <1>7 DEF Copy, To, OpTypes
  <2>3. op'[o].at = "publish" /\ op'[o].name = op[o].name /\ op[o].at = "copy"
    BY <1>1, <1>7 DEF Copy, To, OpTypes, OpStates
  <2>4. ASSUME file'[op[o].name] # Absent PROVE Safe'
    <3>1. CASE mixed'
      BY <1>3, <1>4, <1>7, <2>1, <3>1 DEF IInv, Copy, Opens, Safe
    <3>2. CASE ~ mixed'
      <4>1. file'[op[o].name].db = Live /\ op[o].name \in Names
        BY <1>1, <1>7, <2>4, <3>2 DEF Copy, Filled, FileTypes, Files, TempFiles
      <4>2. Live.rows \subseteq Held'
        BY <2>4, <4>1 DEF Held, Stored
      <4>. QED  BY <1>4, <2>1, <4>2 DEF IInv, Safe
    <3>. QED  BY <3>1, <3>2
  <2>5. \A p \in Ops : p # o /\ op[p].at # "idle" => file'[op[p].name] = file[op[p].name]
    BY <1>1, <1>7, <2>3 DEF Copy, Filled, FileTypes, TempFiles
  <2>6. SnapshotTaken'
    BY <2>1, <2>2, <2>3, <2>4, <2>5 DEF IInv, SnapshotTaken, Safe
  <2>7. ForeignIsPassing'
    BY <2>1, <2>2, <2>3 DEF IInv, ForeignIsPassing, Foreign
  <2>8. PriorStateKept'
    <3>1. mixed' = (mixed \/ Foreign)
      BY <1>7 DEF Copy, Opens
    <3>. QED  BY <1>3, <1>4, <1>5, <2>1, <3>1 DEF IInv, Live, Safe
  <2>. QED  BY <1>2, <2>6, <2>7, <2>8 DEF IInv
<1>8. ASSUME CopyFails(o) \/ Publish(o) PROVE IInv'
  <2>1. UNCHANGED <<gen, view, walAt, mixed, committed, exposed>>
        /\ dropped \cup Held \subseteq dropped' \cup Held'
    BY <1>8, HeldKept DEF CopyFails, Publish, ghosts
  <2>2. \A p \in Ops : p # o => op'[p] = op[p]
    BY <1>1, <1>8 DEF CopyFails, Publish, To, Ends, OpTypes
  <2>3. /\ op'[o].at \in {"idle", "stage"} /\ op[o].at \in {"copy", "publish"}
        /\ op'[o].at = "stage" => op[o].at = "publish" /\ op[o].from # Absent
                                  /\ file[op[o].name] # Absent
    BY <1>1, <1>8 DEF CopyFails, Publish, To, Ends, OpTypes, OpStates
  <2>4. \A n \in Names : file'[n] # Absent => file[n] # Absent
    BY <1>1, <1>8 DEF CopyFails, Publish, FileTypes
  <2>5. Safe => Safe'
    BY <2>1 DEF Safe
  <2>6. SnapshotTaken'
    BY <1>1, <2>2, <2>3, <2>4, <2>5 DEF IInv, SnapshotTaken, TempFiles
  <2>7. ForeignIsPassing'
    BY <2>1, <2>2, <2>3 DEF IInv, ForeignIsPassing, Foreign
  <2>8. PriorStateKept'
    BY <1>4, <1>5, <2>1 DEF IInv, Live
  <2>. QED  BY <1>2, <2>6, <2>7, <2>8 DEF IInv
\* The rest of a restore leaves the directory as it is.
<1>9. ASSUME Stage(o) \/ Swap(o) \/ Unlink(o) PROVE IInv'
  <2>1. UNCHANGED <<file, committed, exposed, dropped>>
    BY <1>9 DEF Stage, Swap, Unlink, ghosts
  <2>2. \A p \in Ops : p # o => op'[p] = op[p]
    BY <1>1, <1>9 DEF Stage, Swap, Unlink, To, Ends, OpTypes
  <2>3. op[o].at \in {"stage", "swap", "unlink"} /\ op'[o].at \in {"idle", "swap", "unlink"}
    BY <1>1, <1>9 DEF Stage, Swap, Unlink, To, Ends, OpTypes, OpStates
  <2>4. Safe /\ Safe'
    BY <2>1, <2>3 DEF IInv, SnapshotTaken, Safe, Held, Stored
  <2>5. SnapshotTaken'
    BY <2>4 DEF SnapshotTaken
  <2>6. ForeignIsPassing'
    <3>1. CASE Stage(o)
      BY <1>1, <2>2, <3>1 DEF IInv, ForeignIsPassing, Foreign, Stage
    <3>2. CASE Swap(o)
      BY <1>1, <3>2 DEF ForeignIsPassing, Swap, To, OpTypes, OpStates
    <3>3. CASE Unlink(o)
      BY <3>3 DEF ForeignIsPassing, Foreign, Unlink
    <3>. QED  BY <1>9, <3>1, <3>2, <3>3
  <2>7. PriorStateKept'
    BY <1>5, <2>4 DEF Safe
  <2>. QED  BY <1>2, <2>5, <2>6, <2>7 DEF IInv
<1>. QED  BY <1>6, <1>7, <1>8, <1>9 DEF Request, StartBackup, StartRestore

\* Maintenance mode, deletions and restarts.
LEMMA OtherIInv ==
  ASSUME IInv, Toggle \/ Crash \/ \E n \in Names : Delete(n)
  PROVE  IInv'
<1>. USE BlankTypes
<1>1. DbTypes /\ FileTypes /\ OpTypes /\ Pending /\ TempFiles
  BY TypeParts DEF IInv
<1>2. TypeOK'
  BY OtherTypes DEF IInv
<1>3. Foreign => Safe
  BY DEF IInv, ForeignIsPassing, SnapshotTaken
<1>4. CASE Toggle
  <2>1. UNCHANGED <<gen, walAt, op, file, committed, exposed, dropped>>
    BY <1>4 DEF Toggle, dirVars, ghosts
  <2>2. (Safe <=> Safe') /\ TempFiles' /\ ForeignIsPassing'
    BY <1>1, <2>1 DEF IInv, Safe, Held, Stored, TempFiles, ForeignIsPassing, Foreign
  <2>3. SnapshotTaken'
    BY <2>1, <2>2 DEF IInv, SnapshotTaken
  <2>4. mixed' = (mixed \/ Foreign) /\ Live'.rows = Live.rows
    BY <1>1, <1>4 DEF Toggle, Opens, Live, DbTypes, Contents
  <2>5. PriorStateKept'
    BY <1>3, <2>1, <2>4 DEF IInv, PriorStateKept, Safe, Held, Stored
  <2>. QED  BY <1>2, <2>2, <2>3, <2>5 DEF IInv
<1>5. CASE Crash
  <2>1. UNCHANGED <<gen, file, committed, exposed, dropped>> /\ walAt' = Absent
        /\ op' = [o \in Ops |-> NoOp] /\ mixed' = (mixed \/ Foreign)
    BY <1>5 DEF Crash, Opens, ghosts
  <2>2. TempFiles' /\ SnapshotTaken' /\ ForeignIsPassing'
    BY <2>1 DEF TempFiles, SnapshotTaken, ForeignIsPassing, Foreign
  <2>3. Live'.rows = Live.rows
    BY <1>1, <1>5 DEF Crash, Live, DbTypes, Contents
  <2>4. PriorStateKept'
    BY <1>3, <2>1, <2>3 DEF IInv, PriorStateKept, Safe, Held, Stored
  <2>. QED  BY <1>2, <2>2, <2>4 DEF IInv
<1>6. ASSUME NEW n \in Names, Delete(n) PROVE IInv'
  <2>1. UNCHANGED <<gen, view, walAt, mixed, op, committed, exposed>>
        /\ dropped' = dropped \cup file[n].db.rows
        /\ file[n] # Absent
    BY <1>6 DEF Delete
  <2>2. \A k \in Names : (k # n => file'[k] = file[k]) /\ file'[n] = Absent
    BY <1>1, <1>6 DEF Delete, FileTypes
  <2>3. dropped \cup Held \subseteq dropped' \cup Held'
    <3>1. ASSUME NEW k \in Stored PROVE file[k].db.rows \subseteq dropped' \cup Held'
      BY <2>1, <2>2 DEF Held, Stored
    <3>. QED  BY <2>1, <3>1 DEF Held
  <2>4. Safe => Safe'
    BY <2>1, <2>3 DEF Safe
  <2>5. TempFiles'
    BY <1>1, <2>1, <2>2 DEF TempFiles
  <2>6. SnapshotTaken' /\ ForeignIsPassing'
    <3>1. \A o \in Ops : op[o].at = "publish" /\ file'[op[o].name] # Absent
                            => file[op[o].name] # Absent
      BY <1>1, <2>1, <2>2 DEF TempFiles
    <3>. QED  BY <2>1, <2>4, <3>1 DEF IInv, SnapshotTaken, ForeignIsPassing, Foreign
  <2>7. PriorStateKept'
    BY <2>1, <2>3 DEF IInv, PriorStateKept, Held, Live
  <2>. QED  BY <1>2, <2>5, <2>6, <2>7 DEF IInv
<1>. QED  BY <1>4, <1>5, <1>6

\* Backups, restores, connections, deletions and restarts in any order keep the parts
\* of the argument: files belong to one request, a snapshot is taken before the live
\* file is given up, and a foreign WAL lies only while that restore goes on.
THEOREM BackupInvariant == Spec => []IInv
<1>1. IInv /\ [Next]_vars => IInv'
  <2>1. IInv /\ UNCHANGED vars => IInv'
    BY DEF IInv, TypeOK, TempFiles, SnapshotTaken, ForeignIsPassing, PriorStateKept, Safe, Held,
           Stored, Foreign, Live, vars
  <2>. QED  BY <2>1, ConnectionIInv, RequestIInv, OtherIInv DEF Next
<1>. QED  BY <1>1, InitIInv, PTL DEF Spec

\* The variables keep their types, whatever files and requests there are.
THEOREM TypesHold == Spec => []TypeOK
<1>1. IInv => TypeOK  BY DEF IInv
<1>. QED  BY <1>1, BackupInvariant, PTL

\* No commit is lost by a restore that was made before its snapshot (restore_from
\* snapshots the live database and only then puts the backup in its place), though
\* backups, deletions, connections and restarts run between any two of its steps.
THEOREM PriorStateIsKept == Spec => []PriorStateKept
<1>1. IInv => PriorStateKept  BY DEF IInv
<1>. QED  BY <1>1, BackupInvariant, PTL
=============================================================================
