----------------------------- MODULE FolderScan -----------------------------
(***************************************************************************)
(* The index of one folder and what works on it at the same time: scans    *)
(* (scanner.rs, scan_into), the DELETE and PUT requests of the peer server *)
(* and the user.  SyncCycle takes a scan as one step; here every directory *)
(* entry, file read and SQL statement is a step of its own.                *)
(*                                                                         *)
(* A task is a connection of the server or a command of the agent.  Every  *)
(* request for the manifest, for a file and to delete a file scans the     *)
(* folder, and nothing keeps two tasks from scanning at once; Scanner says *)
(* which tasks may.                                                        *)
(***************************************************************************)
EXTENDS StateDb

CONSTANTS
  Task,         \* tasks that may be under way at once
  Scanner,      \* those that may scan
  NoFile,       \* the path is absent from the disk
  NoPath,       \* a task is at no path
  MaxRequests,  \* bound on the number of requests
  MaxEdits      \* bound on the number of edits by the user

ASSUME ScannerAssumption == Scanner \subseteq Task
ASSUME FileAssumption == NoFile \notin Content /\ NoPath \notin Path
ASSUME RequestAssumption == MaxRequests \in Nat /\ MaxEdits \in Nat

VARIABLES
  disk,          \* disk[p]: the file at p
  files,         \* table files without the column scan_missing
  scan_missing,  \* that column; FALSE where there is no row
  task,          \* task[t]: the local state of t
  requests,      \* number of requests
  edits,         \* number of edits by the user
  quiet,         \* history: quiet[t] nobody else did anything since t's scan began
  gone           \* history: gone[t] paths absent at some time since then

vars == <<disk, files, scan_missing, task, requests, edits, quiet, gone>>

\* todo is the part of the folder the walk has not come to, path and body the
\* file a task is at and the content it holds of it.
Idle == [pc |-> "idle", todo |-> {}, path |-> NoPath, body |-> NoFile]

Absent == {p \in Path : disk[p] = NoFile}

Init ==
  /\ disk \in [Path -> Content \cup {NoFile}]
  /\ files = [p \in Path |-> NoRecord]
  /\ scan_missing = [p \in Path |-> FALSE]
  /\ task = [t \in Task |-> Idle]
  /\ requests = 0
  /\ edits = 0
  /\ quiet = [t \in Task |-> FALSE]
  /\ gone = [t \in Task |-> {}]

-----------------------------------------------------------------------------
At(t, pc) == task[t].pc = pc

Goto(t, pc) == task' = [task EXCEPT ![t] = [@ EXCEPT !.pc = pc]]

End(t) == task' = [task EXCEPT ![t] = Idle]

\* A step of t is noticed by every other task.
Observed(t) ==
  /\ quiet' = [u \in Task |-> u = t /\ quiet[u]]
  /\ gone' = [u \in Task |-> gone[u] \cup Absent']

\* Mutant of upsert: the column scan_missing is not reset.
ScanMissingKept(p, content) ==
  /\ files' = upsert_file(files, p, content)
  /\ UNCHANGED scan_missing

\* upsert_file, with the column that only scans use.
upsert(p, content) ==
  /\ files' = upsert_file(files, p, content)
  /\ scan_missing' = [scan_missing EXCEPT ![p] = FALSE]

-----------------------------------------------------------------------------
(* scan_into *)

\* Mutant of mark_scan_started: the column is left as the last scan left it.
NothingMarked == UNCHANGED scan_missing

\* mark_scan_started: every row.
mark_scan_started == scan_missing' = [p \in Path |-> files[p] # NoRecord]

\* finalize_scan: the rows that are still marked become missing.
finalize_scan ==
  /\ files' = [p \in Path |-> IF scan_missing[p] THEN AsMissing(files[p]) ELSE files[p]]
  /\ UNCHANGED scan_missing

ScanStart(t) ==
  /\ t \in Scanner
  /\ At(t, "idle")
  /\ requests < MaxRequests
  /\ mark_scan_started
  /\ task' = [task EXCEPT ![t] = [Idle EXCEPT !.pc = "walk", !.todo = Path]]
  /\ requests' = requests + 1
  /\ quiet' = [u \in Task |-> u = t]
  /\ gone' = [u \in Task |-> IF u = t THEN Absent ELSE gone[u] \cup Absent]
  /\ UNCHANGED <<disk, files, edits>>

\* next_entry: the directory has the file, or it has not.
List(t, p) ==
  /\ At(t, "walk")
  /\ p \in task[t].todo
  /\ task' = [task EXCEPT ![t] =
       IF disk[p] = NoFile THEN [@ EXCEPT !.todo = task[t].todo \ {p}]
       ELSE [@ EXCEPT !.pc = "read", !.todo = task[t].todo \ {p}, !.path = p]]
  /\ UNCHANGED <<disk, files, scan_missing, requests, edits>>
  /\ Observed(t)

\* Mutant of Read: a file that is gone by now is taken for an empty one.
VanishedFileRead(t) ==
  /\ At(t, "read")
  /\ task' = [task EXCEPT ![t] = [@ EXCEPT !.pc = "upsert", !.body = disk[task[t].path]]]
  /\ UNCHANGED <<disk, files, scan_missing, requests, edits>>
  /\ Observed(t)

\* metadata and fs::read; a file that is gone by now is an error that ends the
\* scan, the marks staying as they are.
Read(t) ==
  /\ At(t, "read")
  /\ \/ disk[task[t].path] = NoFile /\ End(t)
     \/ /\ disk[task[t].path] # NoFile
        /\ task' = [task EXCEPT ![t] = [@ EXCEPT !.pc = "upsert", !.body = disk[task[t].path]]]
  /\ UNCHANGED <<disk, files, scan_missing, requests, edits>>
  /\ Observed(t)

Upsert(t) ==
  /\ At(t, "upsert")
  /\ upsert(task[t].path, task[t].body)
  /\ Goto(t, "walk")
  /\ UNCHANGED <<disk, requests, edits>>
  /\ Observed(t)

Finalize(t) ==
  /\ At(t, "walk")
  /\ task[t].todo = {}
  /\ finalize_scan
  /\ Goto(t, "export")
  /\ UNCHANGED <<disk, requests, edits>>
  /\ Observed(t)

\* export_manifest ends a request for the manifest or for a file; a DELETE of a
\* version that the manifest shows goes on.
Export(t) ==
  /\ At(t, "export")
  /\ \/ End(t)
     \/ \E p \in Path :
          /\ files[p] # NoRecord /\ ~IsMissing(files[p])
          /\ task' = [task EXCEPT ![t] = [@ EXCEPT !.pc = "remove", !.path = p]]
  /\ UNCHANGED <<disk, files, scan_missing, requests, edits>>
  /\ Observed(t)

-----------------------------------------------------------------------------
(* delete_shared_file and write_uploaded_file *)

\* remove_file, an error when the file is gone.
Remove(t) ==
  /\ At(t, "remove")
  /\ disk' = [disk EXCEPT ![task[t].path] = NoFile]
  /\ IF disk[task[t].path] = NoFile THEN End(t) ELSE Goto(t, "forget")
  /\ UNCHANGED <<files, scan_missing, requests, edits>>
  /\ Observed(t)

Forget(t) ==
  /\ At(t, "forget")
  /\ files' = forget_file(files, task[t].path)
  /\ scan_missing' = [scan_missing EXCEPT ![task[t].path] = FALSE]
  /\ End(t)
  /\ UNCHANGED <<disk, requests, edits>>
  /\ Observed(t)

\* A PUT goes on when there is no file at the target.
Put(t, p, content) ==
  /\ At(t, "idle")
  /\ requests < MaxRequests
  /\ disk[p] = NoFile
  /\ task' = [task EXCEPT ![t] = [Idle EXCEPT !.pc = "publish", !.path = p, !.body = content]]
  /\ requests' = requests + 1
  /\ UNCHANGED <<disk, files, scan_missing, edits>>
  /\ Observed(t)

\* The rename, which replaces whatever is at the target by now.
Publish(t) ==
  /\ At(t, "publish")
  /\ disk' = [disk EXCEPT ![task[t].path] = task[t].body]
  /\ Goto(t, "index")
  /\ UNCHANGED <<files, scan_missing, requests, edits>>
  /\ Observed(t)

Index(t) ==
  /\ At(t, "index")
  /\ upsert(task[t].path, task[t].body)
  /\ End(t)
  /\ UNCHANGED <<disk, requests, edits>>
  /\ Observed(t)

\* Any error, or the end of the process, in the middle of a request.
Abort(t) ==
  /\ ~At(t, "idle")
  /\ End(t)
  /\ UNCHANGED <<disk, files, scan_missing, requests, edits>>
  /\ Observed(t)

-----------------------------------------------------------------------------
\* The user writes or removes a file with any other program.
Edit(p, version) ==
  /\ edits < MaxEdits
  /\ disk' = [disk EXCEPT ![p] = version]
  /\ edits' = edits + 1
  /\ quiet' = [u \in Task |-> FALSE]
  /\ gone' = [u \in Task |-> gone[u] \cup Absent']
  /\ UNCHANGED <<files, scan_missing, task, requests>>

Step(t) ==
  \/ ScanStart(t)
  \/ \E p \in Path : List(t, p)
  \/ Read(t) \/ Upsert(t) \/ Finalize(t) \/ Export(t)
  \/ Remove(t) \/ Forget(t)
  \/ \E p \in Path, content \in Content : Put(t, p, content)
  \/ Publish(t) \/ Index(t)
  \/ Abort(t)

Next ==
  \/ \E t \in Task : Step(t)
  \/ \E p \in Path, version \in Content \cup {NoFile} : Edit(p, version)

Spec == Init /\ [][Next]_vars

-----------------------------------------------------------------------------
(* Properties *)

Pc == {"idle", "walk", "read", "upsert", "export", "remove", "forget", "publish", "index"}

\* A task that handles a file knows which, and one that writes has a content.
TaskState ==
  {r \in [pc : Pc, todo : SUBSET Path, path : Path \cup {NoPath}, body : Content \cup {NoFile}] :
     /\ r.pc \in {"read", "upsert", "remove", "forget", "publish", "index"} => r.path \in Path
     /\ r.pc \in {"upsert", "publish", "index"} => r.body \in Content}

\* The tables and the local states of the tasks.
TypeOK ==
  /\ disk \in [Path -> Content \cup {NoFile}]
  /\ files \in Manifest
  /\ scan_missing \in [Path -> BOOLEAN]
  /\ task \in [Task -> TaskState]
  /\ requests \in 0..MaxRequests
  /\ edits \in 0..MaxEdits
  /\ quiet \in [Task -> BOOLEAN]
  /\ gone \in [Task -> SUBSET Path]

\* The index says of every path what the disk says.
Exact ==
  \A p \in Path :
    IF disk[p] # NoFile THEN files[p] = Available(disk[p])
    ELSE files[p] # NoRecord => IsMissing(files[p])

\* scan_into repairs the index: whatever aborted scans, interrupted PUTs and
\* DELETEs and overtaken reads have left there, a scan that nothing disturbs
\* exports exactly what is on the disk.
UndisturbedScanIsExact ==
  \A t \in Task : At(t, "export") /\ quiet[t] => Exact

\* finalize_scan turns only files into missing ones that were absent at some
\* time during the scan.
MissingIsTrue ==
  [][\A t \in Task, p \in Path :
       /\ At(t, "walk") /\ At(t, "export")'
       /\ files[p] # NoRecord /\ ~IsMissing(files[p])
       /\ IsMissing(files'[p])
       => p \in gone[t]]_vars
=============================================================================
