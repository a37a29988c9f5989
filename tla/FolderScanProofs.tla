-------------------------- MODULE FolderScanProofs --------------------------
(***************************************************************************)
(* Proofs about FolderScan for any number of tasks, scanners, paths and    *)
(* requests: a scan repairs the index, and with one scanner at a time only *)
(* files that were absent become missing.                                  *)
(***************************************************************************)
EXTENDS FolderScan, TLAPS

Walking(t) == task[t].pc \in {"walk", "read", "upsert"}

\* The paths a scan has still to deal with, the one it is at included.
Ahead(t) == task[t].todo \cup (IF task[t].pc \in {"read", "upsert"} THEN {task[t].path} ELSE {})

\* What a scan that nothing disturbed leaves behind at a path.
Behind(p) ==
  IF disk[p] # NoFile THEN files[p] = Available(disk[p]) /\ ~scan_missing[p]
  ELSE files[p] # NoRecord => scan_missing[p]

\* A scan that nothing has disturbed: what the walk has passed is right in the
\* index and what is ahead of it is marked.
ScanExact(t) ==
  /\ Walking(t) => \A p \in Path : IF p \in Ahead(t) THEN files[p] # NoRecord => scan_missing[p]
                                   ELSE Behind(p)
  /\ task[t].pc \in {"read", "upsert"} => task[t].path \notin task[t].todo
  /\ At(t, "upsert") => task[t].body = disk[task[t].path]
  /\ At(t, "export") => Exact

\* The inductive form of UndisturbedScanIsExact.
QuietInv == \A t \in Task : quiet[t] => ScanExact(t)

\* The inductive form of MissingIsTrue.
GoneInv ==
  \A t \in Task : Walking(t) =>
    /\ t \in Scanner
    /\ \A p \in Path : scan_missing[p] => p \in gone[t] \cup Ahead(t)

-----------------------------------------------------------------------------
\* What a step can store in table files: rows, or nothing.
LEMMA RowTypes ==
  /\ \A c \in Content : Available(c) \in FileRecord /\ ~IsMissing(Available(c))
  /\ \A r \in FileRecord \cup {NoRecord} : AsMissing(r) \in FileRecord \cup {NoRecord}
  /\ \A r \in FileRecord : AsMissing(r) # NoRecord /\ IsMissing(AsMissing(r))
  /\ AsMissing(NoRecord) = NoRecord
  BY NoRecordAssumption DEF Available, AsMissing, IsMissing, FileRecord, FileSyncState

\* The statements on table files keep the types of its columns.
LEMMA TableTypes ==
  ASSUME files \in Manifest, scan_missing \in [Path -> BOOLEAN]
  PROVE  /\ mark_scan_started => scan_missing' \in [Path -> BOOLEAN]
         /\ finalize_scan => files' \in Manifest /\ scan_missing' = scan_missing
         /\ \A p \in Path, c \in Content :
              upsert(p, c) => files' \in Manifest /\ scan_missing' \in [Path -> BOOLEAN]
         /\ \A p \in Path : forget_file(files, p) \in Manifest
<1>1. mark_scan_started => scan_missing' \in [Path -> BOOLEAN]
  BY DEF mark_scan_started
<1>2. finalize_scan => files' \in Manifest /\ scan_missing' = scan_missing
  BY RowTypes DEF finalize_scan, Manifest
<1>3. \A p \in Path, c \in Content :
        upsert(p, c) => files' \in Manifest /\ scan_missing' \in [Path -> BOOLEAN]
  BY RowTypes DEF upsert, upsert_file, Manifest
<1>4. \A p \in Path : forget_file(files, p) \in Manifest
  BY DEF forget_file, Manifest
<1> QED BY <1>1, <1>2, <1>3, <1>4

\* The history variables keep their types.
LEMMA ObservedTypes ==
  ASSUME TypeOK, NEW t \in Task, Observed(t)
  PROVE  quiet' \in [Task -> BOOLEAN] /\ gone' \in [Task -> SUBSET Path]
  BY DEF TypeOK, Observed, Absent

\* The local states a task goes to are local states.
LEMMA TaskStates ==
  ASSUME NEW r \in TaskState
  PROVE  /\ Idle \in TaskState
         /\ [Idle EXCEPT !.pc = "walk", !.todo = Path] \in TaskState
         /\ \A p \in Path : [r EXCEPT !.todo = r.todo \ {p}] \in TaskState
         /\ \A p \in Path : [r EXCEPT !.pc = "read", !.todo = r.todo \ {p}, !.path = p] \in TaskState
         /\ \A c \in Content : r.pc = "read" => [r EXCEPT !.pc = "upsert", !.body = c] \in TaskState
         /\ [r EXCEPT !.pc = "walk"] \in TaskState
         /\ [r EXCEPT !.pc = "export"] \in TaskState
         /\ \A p \in Path : [r EXCEPT !.pc = "remove", !.path = p] \in TaskState
         /\ r.pc = "remove" => [r EXCEPT !.pc = "forget"] \in TaskState
         /\ r.pc = "publish" => [r EXCEPT !.pc = "index"] \in TaskState
         /\ \A p \in Path, c \in Content :
              [Idle EXCEPT !.pc = "publish", !.path = p, !.body = c] \in TaskState
         /\ r.pc \in {"read", "upsert", "remove", "forget", "publish", "index"} => r.path \in Path
         /\ r.pc \in {"upsert", "publish", "index"} => r.body \in Content
  BY DEF TaskState, Idle, Pc

\* Every step of a task keeps the types.
LEMMA TypeStep ==
  ASSUME TypeOK, NEW t \in Task, Step(t)
  PROVE  TypeOK'
<1>0. task \in [Task -> TaskState] /\ task[t] \in TaskState
  BY DEF TypeOK
<1>1. CASE ScanStart(t)
  <2>1. task' \in [Task -> TaskState]
    BY <1>0, <1>1, TaskStates DEF ScanStart
  <2>2. quiet' \in [Task -> BOOLEAN] /\ gone' \in [Task -> SUBSET Path]
    BY <1>1 DEF ScanStart, TypeOK, Absent
  <2>3. scan_missing' \in [Path -> BOOLEAN]
    BY <1>1, TableTypes DEF ScanStart, TypeOK
  <2> QED
    BY <1>1, <2>1, <2>2, <2>3, RequestAssumption DEF ScanStart, TypeOK
<1>2. ASSUME NEW p \in Path, List(t, p) PROVE TypeOK'
  <2>1. /\ [task[t] EXCEPT !.todo = task[t].todo \ {p}] \in TaskState
        /\ [task[t] EXCEPT !.pc = "read", !.todo = task[t].todo \ {p}, !.path = p] \in TaskState
    BY <1>0, TaskStates
  <2>2. task' \in [Task -> TaskState]
    BY <1>0, <1>2, <2>1 DEF List
  <2> QED BY <1>2, <2>2, ObservedTypes DEF List, TypeOK
<1>3. CASE Read(t)
  <2>1. task[t].path \in Path
    BY <1>0, <1>3, TaskStates DEF Read, At
  <2>2. disk[task[t].path] # NoFile => disk[task[t].path] \in Content
    BY <2>1 DEF TypeOK
  <2>3. task' \in [Task -> TaskState]
    <3>1. /\ task[t].pc = "read" /\ Idle \in TaskState
          /\ \A c \in Content : [task[t] EXCEPT !.pc = "upsert", !.body = c] \in TaskState
      BY <1>0, <1>3, TaskStates DEF Read, At
    <3>2. \/ task' = [task EXCEPT ![t] = Idle]
          \/ /\ disk[task[t].path] # NoFile
             /\ task' = [task EXCEPT ![t] = [task[t] EXCEPT !.pc = "upsert", !.body = disk[task[t].path]]]
      BY <1>0, <1>3 DEF Read, End
    <3> QED
      BY <1>0, <2>2, <3>1, <3>2
  <2> QED BY <1>3, <2>3, ObservedTypes DEF Read, TypeOK
<1>4. CASE Upsert(t)
  <2>1. task' \in [Task -> TaskState]
    BY <1>0, <1>4, TaskStates DEF Upsert, Goto
  <2>2. task[t].path \in Path /\ task[t].body \in Content
    BY <1>0, <1>4, TaskStates DEF Upsert, At
  <2> QED BY <1>4, <2>1, <2>2, ObservedTypes, TableTypes DEF Upsert, TypeOK
<1>5. CASE Finalize(t)
  <2>1. task' \in [Task -> TaskState]
    BY <1>0, <1>5, TaskStates DEF Finalize, Goto
  <2> QED BY <1>5, <2>1, ObservedTypes, TableTypes DEF Finalize, TypeOK
<1>6. CASE Export(t)
  <2>1. task' \in [Task -> TaskState]
    BY <1>0, <1>6, TaskStates DEF Export, End
  <2> QED BY <1>6, <2>1, ObservedTypes DEF Export, TypeOK
<1>7. CASE Remove(t)
  <2>1. task' \in [Task -> TaskState]
    BY <1>0, <1>7, TaskStates DEF Remove, Goto, End, At
  <2> QED BY <1>7, <2>1, ObservedTypes DEF Remove, TypeOK
<1>8. CASE Forget(t)
  <2>1. task' \in [Task -> TaskState]
    BY <1>0, <1>8, TaskStates DEF Forget, End
  <2>2. task[t].path \in Path
    BY <1>0, <1>8, TaskStates DEF Forget, At
  <2> QED BY <1>8, <2>1, <2>2, ObservedTypes, TableTypes DEF Forget, TypeOK
<1>9. ASSUME NEW p \in Path, NEW content \in Content, Put(t, p, content) PROVE TypeOK'
  <2>1. task' \in [Task -> TaskState]
    BY <1>0, <1>9, TaskStates DEF Put
  <2> QED BY <1>9, <2>1, ObservedTypes, RequestAssumption DEF Put, TypeOK
<1>10. CASE Publish(t)
  <2>1. task' \in [Task -> TaskState]
    BY <1>0, <1>10, TaskStates DEF Publish, Goto, At
  <2>2. task[t].body \in Content
    BY <1>0, <1>10, TaskStates DEF Publish, At
  <2> QED BY <1>10, <2>1, <2>2, ObservedTypes DEF Publish, TypeOK
<1>11. CASE Index(t)
  <2>1. task' \in [Task -> TaskState]
    BY <1>0, <1>11, TaskStates DEF Index, End
  <2>2. task[t].path \in Path /\ task[t].body \in Content
    BY <1>0, <1>11, TaskStates DEF Index, At
  <2> QED BY <1>11, <2>1, <2>2, ObservedTypes, TableTypes DEF Index, TypeOK
<1>12. CASE Abort(t)
  <2>1. task' \in [Task -> TaskState]
    BY <1>0, <1>12, TaskStates DEF Abort, End
  <2> QED BY <1>12, <2>1, ObservedTypes DEF Abort, TypeOK
<1> QED
  BY <1>1, <1>2, <1>3, <1>4, <1>5, <1>6, <1>7, <1>8, <1>9, <1>10, <1>11, <1>12 DEF Step

\* So does every step of the system.
LEMMA TypeNext == TypeOK /\ [Next]_vars => TypeOK'
<1> SUFFICES ASSUME TypeOK, [Next]_vars PROVE TypeOK'
  OBVIOUS
<1>1. ASSUME NEW t \in Task, Step(t) PROVE TypeOK'
  BY <1>1, TypeStep
<1>2. ASSUME NEW p \in Path, NEW version \in Content \cup {NoFile}, Edit(p, version) PROVE TypeOK'
  BY <1>2, RequestAssumption DEF Edit, TypeOK, Absent
<1>3. CASE UNCHANGED vars
  BY <1>3 DEF vars, TypeOK
<1> QED BY <1>1, <1>2, <1>3 DEF Next

\* The initial state is typed.
LEMMA TypeInit == Init => TypeOK
  BY RequestAssumption, FileAssumption DEF Init, TypeOK, TaskState, Idle, Pc, Manifest

\* The tables and the local states of the tasks stay in their types: a task that
\* writes the index or publishes a file has a path and a content for it.
THEOREM TypeCorrect == Spec => []TypeOK
  BY TypeInit, TypeNext, PTL DEF Spec

-----------------------------------------------------------------------------
\* What the local state of the scanning task becomes, field by field.
LEMMA WalkFields ==
  ASSUME TypeOK, NEW t \in Task
  PROVE  /\ ScanStart(t) => At(t, "walk")' /\ task'[t].todo = Path
         /\ \A p \in Path : List(t, p) /\ disk[p] = NoFile
              => At(t, "walk")' /\ task'[t].todo = task[t].todo \ {p}
         /\ \A p \in Path : List(t, p) /\ disk[p] # NoFile
              => At(t, "read")' /\ task'[t].todo = task[t].todo \ {p} /\ task'[t].path = p
         /\ Read(t) => \/ At(t, "idle")'
                       \/ /\ At(t, "upsert")' /\ task'[t].todo = task[t].todo
                          /\ task'[t].path = task[t].path
                          /\ task'[t].body = disk[task[t].path]
         /\ Upsert(t) => At(t, "walk")' /\ task'[t].todo = task[t].todo
         /\ Finalize(t) => At(t, "export")'
         /\ Export(t) \/ Remove(t) \/ Forget(t) \/ Publish(t) \/ Index(t) \/ Abort(t)
              => ~Walking(t)' /\ ~At(t, "export")'
         /\ \A p \in Path, c \in Content : Put(t, p, c) => ~Walking(t)' /\ ~At(t, "export")'
<1>0. task \in [Task -> TaskState] /\ task[t] \in [pc : Pc, todo : SUBSET Path, path : Path \cup {NoPath}, body : Content \cup {NoFile}]
  BY DEF TypeOK, TaskState
<1> USE <1>0 DEF At, Idle
<1>1. ScanStart(t) => At(t, "walk")' /\ task'[t].todo = Path
  BY DEF ScanStart
<1>2. \A p \in Path : List(t, p) /\ disk[p] = NoFile
        => At(t, "walk")' /\ task'[t].todo = task[t].todo \ {p}
  BY DEF List
<1>3. \A p \in Path : List(t, p) /\ disk[p] # NoFile
        => At(t, "read")' /\ task'[t].todo = task[t].todo \ {p} /\ task'[t].path = p
  BY DEF List
<1>4. Read(t) => \/ At(t, "idle")'
                 \/ /\ At(t, "upsert")' /\ task'[t].todo = task[t].todo
                    /\ task'[t].path = task[t].path
                    /\ task'[t].body = disk[task[t].path]
  <2>1. ASSUME End(t) PROVE At(t, "idle")'
    BY <2>1 DEF End
  <2>2. ASSUME task' = [task EXCEPT ![t] = [@ EXCEPT !.pc = "upsert", !.body = disk[task[t].path]]]
        PROVE  /\ At(t, "upsert")' /\ task'[t].todo = task[t].todo
               /\ task'[t].path = task[t].path
               /\ task'[t].body = disk[task[t].path]
    BY <2>2
  <2>3. Read(t) => End(t) \/ task' = [task EXCEPT ![t] = [@ EXCEPT !.pc = "upsert", !.body = disk[task[t].path]]]
    BY DEF Read
  <2> QED BY <2>1, <2>2, <2>3
<1>5. Upsert(t) => At(t, "walk")' /\ task'[t].todo = task[t].todo
  BY DEF Upsert, Goto
<1>6. Finalize(t) => At(t, "export")'
  BY DEF Finalize, Goto
<1>7. Export(t) \/ Remove(t) \/ Forget(t) \/ Publish(t) \/ Index(t) \/ Abort(t)
        => ~Walking(t)' /\ ~At(t, "export")'
  <2>1. Export(t) => ~Walking(t)' /\ ~At(t, "export")'
    <3>1. ASSUME End(t) PROVE ~Walking(t)' /\ ~At(t, "export")'
      BY <3>1 DEF End, Walking
    <3>2. ASSUME NEW p \in Path, task' = [task EXCEPT ![t] = [@ EXCEPT !.pc = "remove", !.path = p]]
          PROVE  ~Walking(t)' /\ ~At(t, "export")'
      BY <3>2 DEF Walking
    <3> QED BY <3>1, <3>2 DEF Export
  <2>2. Remove(t) \/ Publish(t) => ~Walking(t)' /\ ~At(t, "export")'
    BY DEF Remove, Publish, Goto, End, Walking
  <2>3. Forget(t) \/ Index(t) \/ Abort(t) => ~Walking(t)' /\ ~At(t, "export")'
    BY DEF Forget, Index, Abort, End, Walking
  <2> QED BY <2>1, <2>2, <2>3
<1>8. \A p \in Path, c \in Content : Put(t, p, c) => ~Walking(t)' /\ ~At(t, "export")'
  BY DEF Put, Walking
<1> QED BY <1>1, <1>2, <1>3, <1>4, <1>5, <1>6, <1>7, <1>8

\* A step of a scan that nothing has disturbed keeps it so: what the walk has
\* passed is right in the index, what is ahead of it is marked.
LEMMA QuietStep ==
  ASSUME TypeOK, NEW t \in Task, Step(t), ScanStart(t) \/ ScanExact(t)
  PROVE  ScanExact(t)'
<1>1. CASE ScanStart(t)
  <2>1. At(t, "walk")' /\ Ahead(t)' = Path
    BY <1>1, WalkFields DEF Ahead, At
  <2>2. \A p \in Path : files'[p] # NoRecord => scan_missing'[p]
    BY <1>1 DEF ScanStart, mark_scan_started
  <2> QED BY <2>1, <2>2 DEF ScanExact, At
<1>2. ASSUME NEW p \in Path, List(t, p), ScanExact(t) PROVE ScanExact(t)'
  <2>1. At(t, "walk") /\ p \in Ahead(t) /\ Ahead(t) = task[t].todo
    BY <1>2 DEF List, At, Ahead
  <2>2. UNCHANGED <<disk, files, scan_missing>>
    BY <1>2 DEF List
  <2>3. CASE disk[p] = NoFile
    <3>1. At(t, "walk")' /\ Ahead(t)' = Ahead(t) \ {p}
      BY <1>2, <2>1, <2>3, WalkFields DEF Ahead, At
    <3>2. Behind(p)
      BY <1>2, <2>1, <2>3 DEF ScanExact, Behind, Walking, At
    <3> QED BY <1>2, <2>1, <2>2, <3>1, <3>2 DEF ScanExact, Behind, Walking, At
  <2>4. CASE disk[p] # NoFile
    <3>1. /\ At(t, "read")' /\ Ahead(t)' = Ahead(t)
          /\ task'[t].path \notin task'[t].todo
      BY <1>2, <2>1, <2>4, WalkFields DEF Ahead, At
    <3> QED BY <1>2, <2>1, <2>2, <3>1 DEF ScanExact, Behind, Walking, At
  <2> QED BY <2>3, <2>4
<1>3. ASSUME Read(t), ScanExact(t) PROVE ScanExact(t)'
  <2>1. At(t, "read") /\ UNCHANGED <<disk, files, scan_missing>>
    BY <1>3 DEF Read
  <2>2. CASE At(t, "idle")'
    BY <2>2 DEF ScanExact, Walking, At
  <2>3. CASE ~At(t, "idle")'
    <3>1. /\ At(t, "upsert")' /\ Ahead(t)' = Ahead(t) /\ task'[t].body = disk'[task'[t].path]
          /\ task'[t].path \notin task'[t].todo
      BY <1>3, <2>1, <2>3, WalkFields DEF Ahead, At, ScanExact
    <3> QED BY <1>3, <2>1, <3>1 DEF ScanExact, Behind, Walking, At
  <2> QED BY <2>2, <2>3
<1>4. ASSUME Upsert(t), ScanExact(t) PROVE ScanExact(t)'
  <2> DEFINE q == task[t].path
  <2>1. At(t, "upsert") /\ UNCHANGED disk /\ upsert(q, task[t].body)
    BY <1>4 DEF Upsert
  <2>2. q \in Path /\ task[t].body = disk[q] /\ task[t].body \in Content
    BY <1>4, <2>1 DEF ScanExact, TypeOK, TaskState, At
  <2>3. At(t, "walk")' /\ Ahead(t)' = task[t].todo /\ Ahead(t) = task[t].todo \cup {q}
    BY <1>4, <2>1, WalkFields DEF Ahead, At
  <2>4. files'[q] = Available(disk'[q]) /\ ~scan_missing'[q] /\ disk'[q] # NoFile
    BY <2>1, <2>2, FileAssumption DEF upsert, upsert_file, TypeOK, Manifest
  <2>5. \A p \in Path \ {q} : files'[p] = files[p] /\ scan_missing'[p] = scan_missing[p] /\ disk'[p] = disk[p]
    BY <2>1, <2>2 DEF upsert, upsert_file, TypeOK, Manifest
  <2>6. q \notin task[t].todo
    BY <1>4, <2>1 DEF ScanExact, At
  <2> QED
    BY <1>4, <2>1, <2>3, <2>4, <2>5, <2>6 DEF ScanExact, Behind, Walking, At
<1>5. ASSUME Finalize(t), ScanExact(t) PROVE ScanExact(t)'
  <2>1. At(t, "walk") /\ Ahead(t) = {} /\ UNCHANGED disk /\ finalize_scan
    BY <1>5 DEF Finalize, Ahead, At
  <2>2. At(t, "export")'
    BY <1>5, WalkFields
  <2>3. \A p \in Path : Behind(p)
    BY <1>5, <2>1 DEF ScanExact, Walking, At
  <2>4. Exact'
    BY <2>1, <2>3, RowTypes DEF Exact, Behind, finalize_scan, TypeOK, Manifest
  <2> QED BY <2>2, <2>4 DEF ScanExact, Walking, At
<1>6. ASSUME Export(t) \/ Remove(t) \/ Forget(t) \/ Publish(t) \/ Index(t) \/ Abort(t)
      PROVE  ScanExact(t)'
  BY <1>6, WalkFields DEF ScanExact, Walking, At
<1>7. ASSUME NEW p \in Path, NEW content \in Content, Put(t, p, content) PROVE ScanExact(t)'
  BY <1>7, WalkFields DEF ScanExact, Walking, At
<1> QED BY <1>1, <1>2, <1>3, <1>4, <1>5, <1>6, <1>7 DEF Step

\* Whoever takes a step disturbs everyone else's scan.
LEMMA QuietOnlySelf ==
  ASSUME TypeOK, NEW t \in Task, Step(t), NEW u \in Task, quiet'[u]
  PROVE  u = t /\ (ScanStart(t) \/ quiet[t])
<1>1. CASE ScanStart(t)
  BY <1>1 DEF ScanStart
<1>2. CASE ~ScanStart(t)
  <2>1. Observed(t)
    BY <1>2 DEF Step, List, Read, Upsert, Finalize, Export, Remove, Forget, Put, Publish, Index, Abort
  <2> QED BY <2>1 DEF Observed
<1> QED BY <1>1, <1>2

\* QuietInv is inductive.
LEMMA QuietNext == TypeOK /\ QuietInv /\ [Next]_vars => QuietInv'
<1> SUFFICES ASSUME TypeOK, QuietInv, [Next]_vars PROVE QuietInv'
  OBVIOUS
<1>1. ASSUME NEW t \in Task, Step(t) PROVE QuietInv'
  <2> SUFFICES ASSUME NEW u \in Task, quiet'[u] PROVE ScanExact(u)'
    BY DEF QuietInv
  <2>1. u = t /\ (ScanStart(t) \/ ScanExact(t))
    BY <1>1, QuietOnlySelf DEF QuietInv
  <2> QED BY <1>1, <2>1, QuietStep
<1>2. ASSUME NEW p \in Path, NEW version \in Content \cup {NoFile}, Edit(p, version) PROVE QuietInv'
  BY <1>2 DEF Edit, QuietInv
<1>3. CASE UNCHANGED vars
  BY <1>3 DEF vars, QuietInv, ScanExact, Walking, Ahead, Behind, Exact, At
<1> QED BY <1>1, <1>2, <1>3 DEF Next

\* A scan that runs undisturbed exports exactly what is on the disk, whatever
\* the index held before (scan_into, finalize_scan, export_manifest), for any
\* folder and any number of tasks.
THEOREM ScanRepairs == Spec => []UndisturbedScanIsExact
<1>1. Init => QuietInv
  BY DEF Init, QuietInv
<1>2. QuietInv => UndisturbedScanIsExact
  BY DEF QuietInv, ScanExact, UndisturbedScanIsExact
<1> QED BY <1>1, <1>2, TypeInit, TypeNext, QuietNext, PTL DEF Spec

-----------------------------------------------------------------------------
\* Nobody but the task itself changes its local state.
LEMMA OthersKept ==
  ASSUME TypeOK, NEW t \in Task, Step(t), NEW u \in Task, u # t
  PROVE  task'[u] = task[u]
<1>0. task \in [Task -> TaskState]
  BY DEF TypeOK
<1>1. \E r : task' = [task EXCEPT ![t] = r]
  BY DEF Step, ScanStart, List, Read, Upsert, Finalize, Export, Remove, Forget, Put, Publish, Index, Abort, Goto, End
<1> QED BY <1>0, <1>1

\* Only the start of a scan marks rows.
LEMMA MarksOnlyAtStart ==
  ASSUME TypeOK, NEW t \in Task, Step(t), ~ScanStart(t)
  PROVE  \A p \in Path : scan_missing'[p] => scan_missing[p]
<1>1. CASE Upsert(t)
  BY <1>1 DEF Upsert, upsert, TypeOK
<1>2. CASE Index(t)
  BY <1>2 DEF Index, upsert, TypeOK
<1>3. CASE Forget(t)
  BY <1>3 DEF Forget, TypeOK
<1>4. CASE ~(Upsert(t) \/ Index(t) \/ Forget(t))
  <2>1. UNCHANGED scan_missing
    BY <1>4 DEF Step, List, Read, Finalize, finalize_scan, Export, Remove, Put, Publish, Abort
  <2> QED BY <2>1
<1> QED BY <1>1, <1>2, <1>3, <1>4

\* What was seen absent stays seen, and what is absent is seen.
LEMMA GoneGrows ==
  ASSUME TypeOK, NEW t \in Task, Step(t), NEW u \in Task, u # t \/ ~ScanStart(t)
  PROVE  gone[u] \subseteq gone'[u] /\ Absent' \subseteq gone'[u]
<1>1. CASE ScanStart(t)
  BY <1>1 DEF ScanStart, Absent
<1>2. CASE ~ScanStart(t)
  <2>1. Observed(t)
    BY <1>2 DEF Step, List, Read, Upsert, Finalize, Export, Remove, Forget, Put, Publish, Index, Abort
  <2> QED BY <2>1 DEF Observed
<1> QED BY <1>1, <1>2

OneScanner == \A s, t \in Scanner : s = t

\* A step of the scanner keeps GoneInv: a mark it has passed without resetting
\* is that of a path it found absent.
LEMMA GoneSelf ==
  ASSUME TypeOK, GoneInv, NEW t \in Task, Step(t), Walking(t)'
  PROVE  t \in Scanner /\ \A p \in Path : scan_missing'[p] => p \in gone'[t] \cup Ahead(t)'
<1>1. CASE ScanStart(t)
  <2>1. t \in Scanner
    BY <1>1 DEF ScanStart
  <2>2. Ahead(t)' = Path
    BY <1>1, WalkFields DEF Ahead, At
  <2> QED BY <2>1, <2>2
<1>2. CASE ~ScanStart(t)
  <2>0. (\A p \in Path : scan_missing'[p] => scan_missing[p]) /\ gone[t] \subseteq gone'[t] /\ Absent' \subseteq gone'[t]
    BY <1>2, MarksOnlyAtStart, GoneGrows
  <2>1. ASSUME NEW q \in Path, List(t, q)
        PROVE  Walking(t) /\ Ahead(t) \subseteq gone'[t] \cup Ahead(t)'
    <3>1. At(t, "walk") /\ Ahead(t) = task[t].todo /\ disk' = disk
      BY <2>1 DEF List, Ahead, At
    <3>2. CASE disk[q] = NoFile
      <4>1. Ahead(t)' = Ahead(t) \ {q}
        BY <2>1, <3>1, <3>2, WalkFields DEF Ahead, At
      <4>2. q \in gone'[t]
        BY <2>0, <3>1, <3>2 DEF Absent
      <4> QED BY <3>1, <4>1, <4>2 DEF Walking, At
    <3>3. CASE disk[q] # NoFile
      <4>1. Ahead(t)' = (Ahead(t) \ {q}) \cup {q}
        BY <2>1, <3>1, <3>3, WalkFields DEF Ahead, At
      <4> QED BY <3>1, <4>1 DEF Walking, At
    <3> QED BY <3>2, <3>3
  <2>2. ASSUME Read(t) PROVE Walking(t) /\ Ahead(t) \subseteq Ahead(t)'
    <3>1. At(t, "read")
      BY <2>2 DEF Read
    <3>2. ~At(t, "idle")'
      BY DEF Walking, At
    <3> QED BY <2>2, <3>1, <3>2, WalkFields DEF Ahead, Walking, At
  <2>3. ASSUME Upsert(t)
        PROVE  Walking(t) /\ ~scan_missing'[task[t].path] /\ Ahead(t) \subseteq Ahead(t)' \cup {task[t].path}
    <3>1. At(t, "upsert") /\ upsert(task[t].path, task[t].body)
      BY <2>3 DEF Upsert
    <3>2. task[t].path \in Path
      BY <3>1 DEF TypeOK, TaskState, At
    <3>3. ~scan_missing'[task[t].path]
      BY <3>1, <3>2 DEF upsert, TypeOK
    <3> QED BY <2>3, <3>1, <3>3, WalkFields DEF Ahead, Walking, At
  <2>4. (\E q \in Path : List(t, q)) \/ Read(t) \/ Upsert(t)
    BY <1>2, WalkFields DEF Step, Walking, At
  <2> QED BY <2>0, <2>1, <2>2, <2>3, <2>4 DEF GoneInv
<1> QED BY <1>1, <1>2

\* With one scanner GoneInv is inductive.
LEMMA GoneNext ==
  ASSUME OneScanner
  PROVE  TypeOK /\ GoneInv /\ [Next]_vars => GoneInv'
<1> SUFFICES ASSUME TypeOK, GoneInv, [Next]_vars PROVE GoneInv'
  OBVIOUS
<1>1. ASSUME NEW t \in Task, Step(t) PROVE GoneInv'
  <2> SUFFICES ASSUME NEW u \in Task, Walking(u)'
               PROVE  u \in Scanner /\ \A p \in Path : scan_missing'[p] => p \in gone'[u] \cup Ahead(u)'
    BY DEF GoneInv
  <2>1. CASE u = t
    BY <1>1, <2>1, GoneSelf
  <2>2. CASE u # t
    <3>1. task'[u] = task[u]
      BY <1>1, <2>2, OthersKept
    <3>2. Walking(u) /\ Ahead(u)' = Ahead(u)
      BY <3>1 DEF Walking, Ahead
    <3>3. ~ScanStart(t)
      BY <2>2, <3>2 DEF GoneInv, OneScanner, ScanStart
    <3>4. \A p \in Path : scan_missing'[p] => scan_missing[p]
      BY <1>1, <3>3, MarksOnlyAtStart
    <3>5. gone[u] \subseteq gone'[u]
      BY <1>1, <3>3, GoneGrows
    <3> QED BY <3>2, <3>4, <3>5 DEF GoneInv
  <2> QED BY <2>1, <2>2
<1>2. ASSUME NEW p \in Path, NEW version \in Content \cup {NoFile}, Edit(p, version) PROVE GoneInv'
  <2>1. UNCHANGED <<task, scan_missing>> /\ \A u \in Task : gone[u] \subseteq gone'[u]
    BY <1>2 DEF Edit, Absent
  <2> QED BY <2>1 DEF GoneInv, Walking, Ahead
<1>3. CASE UNCHANGED vars
  BY <1>3 DEF vars, GoneInv, Walking, Ahead
<1> QED BY <1>1, <1>2, <1>3 DEF Next

\* The step that ends a walk is finalize_scan.
LEMMA EndOfWalk ==
  ASSUME TypeOK, [Next]_vars, NEW t \in Task, At(t, "walk"), At(t, "export")'
  PROVE  Finalize(t)
<1>1. ASSUME NEW u \in Task, Step(u) PROVE Finalize(t)
  <2>1. u = t
    BY <1>1, OthersKept DEF At
  <2>2. \A p \in Path : ~List(t, p)
    BY WalkFields DEF At
  <2>3. \A p \in Path, c \in Content : ~Put(t, p, c)
    BY WalkFields
  <2> QED BY <1>1, <2>1, <2>2, <2>3, WalkFields DEF Step, At
<1>2. ASSUME NEW p \in Path, NEW version \in Content \cup {NoFile}, Edit(p, version) PROVE FALSE
  BY <1>2 DEF Edit, At
<1>3. CASE UNCHANGED vars
  BY <1>3 DEF vars, At
<1> QED BY <1>1, <1>2, <1>3 DEF Next

\* As long as one task at a time scans the folder, finalize_scan turns only files
\* into missing ones that were absent at some time during the scan, whatever the
\* user and any number of PUT requests do meanwhile.
THEOREM MissingWereAbsent ==
  ASSUME OneScanner
  PROVE  Spec => MissingIsTrue
<1>1. Init => GoneInv
  BY DEF Init, GoneInv, Walking, Idle
<1>2. TypeOK /\ GoneInv /\ [Next]_vars =>
        [\A t \in Task, p \in Path :
           /\ At(t, "walk") /\ At(t, "export")'
           /\ files[p] # NoRecord /\ ~IsMissing(files[p])
           /\ IsMissing(files'[p])
           => p \in gone[t]]_vars
  <2> SUFFICES ASSUME TypeOK, GoneInv, [Next]_vars, NEW t \in Task, NEW p \in Path,
                      At(t, "walk"), At(t, "export")',
                      ~IsMissing(files[p]), IsMissing(files'[p])
               PROVE  p \in gone[t]
    OBVIOUS
  <2>1. Finalize(t)
    BY EndOfWalk
  <2>2. scan_missing[p]
    BY <2>1 DEF Finalize, finalize_scan
  <2>3. Ahead(t) = {}
    BY <2>1 DEF Finalize, Ahead, At
  <2> QED BY <2>2, <2>3 DEF GoneInv, Walking, At
<1> QED
  BY <1>1, <1>2, TypeInit, TypeNext, GoneNext, PTL DEF Spec, MissingIsTrue
=============================================================================
