-------------------------- MODULE SyncCycleProofs --------------------------
(***************************************************************************)
(* Proofs about the sync cycle: type correctness, and that whatever        *)
(* replaces or deletes a version has the user's word behind it, for any    *)
(* number of clients and server tasks; that the last copy of a version is  *)
(* kept and the size limits respected, for any number of clients and tasks *)
(* where the user does not edit while they work; that the cycle implements *)
(* SharedFolder where one device runs its agent and the peer's server has  *)
(* one task at a time; and, where the user also waits, that what is marked *)
(* done has been copied.                                                   *)
(***************************************************************************)
EXTENDS SyncCycle, PlanningProofs, FiniteSetTheorems

Pc == {"idle", "plan", "queue", "manifest", "next", "download", "fetch", "remove", "publish",
       "index", "upload", "delete", "delete_wait", "put", "put_wait", "LocalOnly",
       "PropagateToPeers", "erase_wait"}

\* A row of the queue; its id ends in its path.
Row == {o \in SyncOperationRecord : o.id[2] = o.path}

\* The local state of a command.
Process ==
  [pc : Pc, lman : Manifest, rman : Manifest, downloads : SUBSET Row, uploads : SUBSET Row,
   replace : BOOLEAN, body : Content \cup {NoHash}, slot : Slot \cup {0}, erase : Path \cup {0}]

\* Where a command holds a version: one it has fetched, one it is about to
\* send, or the one of the record that is deleted.
HoldsBody == {"remove", "publish", "index", "delete", "delete_wait", "put", "LocalOnly",
              "PropagateToPeers"}

Erases == {"LocalOnly", "PropagateToPeers", "erase_wait"}

\* IsCurrent of the command in state a.
Current(a, o) ==
  LET rows == IF a.downloads # {} THEN a.downloads ELSE a.uploads
  IN o \in rows /\ IsFirst(o.id, {q.id : q \in rows})

\* A command between two of its steps.
Command ==
  {a \in Process :
     /\ a.pc \in HoldsBody => a.body \in Content
     /\ a.pc \in Erases => a.erase \in Path
     /\ a.pc = "fetch" => \A o \in Row : Current(a, o) => a.rman[o.path] # NoRecord}

TaskKind == {"none", "put", "delete"}

Stage == {"free", "received", "checked", "published", "removed", "accepted", "refused"}

Task ==
  [kind : TaskKind, client : Device \cup {NoFile}, server : Device \cup {NoFile},
   path : Path \cup {0}, hash : Content \cup {NoHash}, stage : Stage]

\* A server task between two of its steps, or a free slot.
Job ==
  {t \in Task :
     /\ t.kind # "none" => t.server \in Device /\ t.path \in Path
     /\ t.kind = "put" => t.hash \in Content}

\* A client that waits for an answer waits for a task of its own.
Waits ==
  \A d \in Client : agent[d].slot # 0 =>
    task[agent[d].slot].stage # "free" /\ task[agent[d].slot].client = d

Tables ==
  /\ files \in [Device -> Manifest]
  /\ skipped \in [Device -> SUBSET Path]
  /\ ops \in [Device -> SUBSET Row]
  /\ plans \in [Device -> 0..MaxPlans]

Surroundings ==
  /\ disk \in [Device -> [Path -> Content \cup {NoFile}]]
  /\ approved \subseteq Device \X Path \X (Content \cup {NoHash})
  /\ exposed \subseteq Device \X Path \X Content
  /\ versions \subseteq Path \X Content
  /\ edits \in 0..MaxEdits
  /\ faults \in 0..MaxFaults
  /\ size_limit \in SizeLimits

\* A command that plans has a plan left.
PlansLeft == \A d \in Client : agent[d].pc = "plan" => plans[d] < MaxPlans

Workers ==
  /\ agent \in [Device -> Command]
  /\ task \in [Slot -> Job]
  /\ Waits
  /\ PlansLeft

TypeInv == Tables /\ Surroundings /\ Workers

-----------------------------------------------------------------------------
(* Devices, paths and rows *)

\* The peer is the other device.
LEMMA PeerIs ==
  ASSUME NEW d \in Device
  PROVE  Peer(d) \in Device /\ Peer(d) # d
<1>1. \E e \in Device : e # d
  BY TwoDevices
<1> QED
  BY <1>1 DEF Peer

\* Operations that are both the current one have the same path.
LEMMA CurrentPath ==
  ASSUME NEW a \in Process, NEW o, NEW q, Current(a, o), Current(a, q)
  PROVE  o \in Row /\ q \in Row /\ o.id = q.id /\ o.path = q.path /\ o.path \in Path
<1>1. o \in Row /\ q \in Row
  BY DEF Current, Process
<1>2. /\ o.id[1] \in Nat /\ q.id[1] \in Nat /\ o.id[2] \in Nat /\ q.id[2] \in Nat
      /\ o.id[2] = o.path /\ q.id[2] = q.path /\ o.path \in Path
  BY <1>1, PathAssumption DEF Row, SyncOperationRecord, OperationId
<1> DEFINE ids == {r.id : r \in (IF a.downloads # {} THEN a.downloads ELSE a.uploads)}
<1>3. IsFirst(o.id, ids) /\ IsFirst(q.id, ids)
  BY DEF Current
<1>4. o.id = q.id
  <2> SUFFICES ASSUME o.id # q.id PROVE FALSE
    OBVIOUS
  <2>1. Before(o.id, q.id) /\ Before(q.id, o.id)
    BY <1>3 DEF IsFirst
  <2> QED
    BY <2>1, <1>2 DEF Before
<1> QED
  BY <1>1, <1>2, <1>4

\* The current operation is a queued row.
LEMMA CurrentRow ==
  ASSUME TypeInv, NEW d \in Device, NEW o, IsCurrent(d, o)
  PROVE  /\ Current(agent[d], o) /\ o \in Queued(d)
         /\ o \in SyncOperationRecord /\ o.path \in Path
<1>1. agent[d] \in Process
  BY DEF TypeInv, Workers, Command
<1>2. Current(agent[d], o) /\ o \in Queued(d)
  BY DEF IsCurrent, Current, Queued
<1>3. o \in Row /\ o.path \in Path
  BY <1>1, <1>2, CurrentPath
<1> QED
  BY <1>2, <1>3 DEF Row

-----------------------------------------------------------------------------
(* The index *)

\* A scan leaves a manifest.
LEMMA ScanTyped ==
  ASSUME NEW m \in Manifest, NEW folder \in [Path -> Content \cup {NoFile}]
  PROVE  scan_into(m, folder) \in Manifest
<1>1. \A p \in Path : AsMissing(m[p]) \in FileRecord \cup {NoRecord}
  BY DEF Manifest, AsMissing, FileRecord, FileSyncState
<1>2. \A p \in Path : folder[p] # NoFile => Available(folder[p]) \in FileRecord
  BY AvailableIsRecord
<1> QED
  BY <1>1, <1>2 DEF scan_into, Manifest

\* A scan of d changes the index of d only.
LEMMA ScannedTyped ==
  ASSUME TypeInv, NEW d \in Device
  PROVE  /\ Scanned(d) \in [Device -> Manifest]
         /\ Scanned(d)[d] = scan_into(files[d], disk[d])
         /\ \A e \in Device \ {d} : Scanned(d)[e] = files[e]
<1>1. scan_into(files[d], disk[d]) \in Manifest
  BY ScanTyped DEF TypeInv, Tables, Surroundings
<1> QED
  BY <1>1 DEF Scanned, TypeInv, Tables

\* upsert_file leaves a manifest.
LEMMA UpsertTyped ==
  ASSUME NEW m \in Manifest, NEW p \in Path, NEW c \in Content
  PROVE  upsert_file(m, p, c) \in Manifest
<1>1. Available(c) \in FileRecord
  BY AvailableIsRecord
<1> QED
  BY <1>1 DEF upsert_file, Manifest

\* forget_file and mark_file_deleted_locally leave a manifest.
LEMMA ForgetTyped ==
  ASSUME NEW m \in Manifest, NEW p \in Path
  PROVE  forget_file(m, p) \in Manifest /\ mark_file_deleted_locally(m, p) \in Manifest
<1>1. AsMissing(m[p]) \in FileRecord \cup {NoRecord}
  BY DEF Manifest, AsMissing, FileRecord, FileSyncState
<1>2. forget_file(m, p) \in Manifest
  BY DEF forget_file, Manifest
<1>3. mark_file_deleted_locally(m, p) \in Manifest
  BY <1>1 DEF mark_file_deleted_locally, Manifest
<1> QED
  BY <1>2, <1>3

-----------------------------------------------------------------------------
(* The queue *)

\* A row with the same identity, kind and hashes.
SameRow(o, q) ==
  /\ q.id = o.id /\ q.path = o.path /\ q.kind = o.kind
  /\ q.local_content_hash = o.local_content_hash
  /\ q.remote_content_hash = o.remote_content_hash

\* An UPDATE that keeps those columns.
Updated(rows, new) ==
  \E f \in [rows -> Row] : new = {f[o] : o \in rows} /\ \A o \in rows : SameRow(o, f[o])

\* mark_sync_operation_started is such an UPDATE.
LEMMA StartedUpdates ==
  ASSUME NEW rows \in SUBSET Row, NEW id
  PROVE  Updated(rows, mark_sync_operation_started(rows, id))
<1> DEFINE g(o) == [o EXCEPT !.last_error = FALSE, !.started_at = TRUE, !.finished_at = FALSE]
           f == [o \in rows |-> IF o.id = id THEN g(o) ELSE o]
<1>1. \A o \in rows : g(o) \in SyncOperationRecord /\ SameRow(o, g(o))
  BY StartedRow DEF Row, SameRow, SyncOperationRecord
<1>2. mark_sync_operation_started(rows, id) = {f[o] : o \in rows}
  BY DEF mark_sync_operation_started
<1> HIDE DEF g
<1>3. \A o \in rows : f[o] \in Row /\ SameRow(o, f[o])
  BY <1>1 DEF Row, SameRow
<1>4. f \in [rows -> Row]
  BY <1>3
<1> HIDE DEF f
<1> QED
  BY <1>2, <1>3, <1>4 DEF Updated

\* update_sync_operation_status is such an UPDATE.
LEMMA FinishedUpdates ==
  ASSUME NEW rows \in SUBSET Row, NEW id, NEW s \in {"done", "failed"}, NEW e \in BOOLEAN
  PROVE  Updated(rows, update_sync_operation_status(rows, id, s, e))
<1> DEFINE g(o) == [o EXCEPT !.status = s, !.last_error = e, !.finished_at = TRUE]
           f == [o \in rows |-> IF o.id = id THEN g(o) ELSE o]
<1>1. \A o \in rows : g(o) \in SyncOperationRecord /\ SameRow(o, g(o))
  <2> SUFFICES ASSUME NEW o \in rows
               PROVE  g(o) \in SyncOperationRecord /\ SameRow(o, g(o))
    OBVIOUS
  <2>1. o \in SyncOperationRecord
    BY DEF Row
  <2>2. g(o) \in SyncOperationRecord
    BY <2>1, FinishedRow
  <2> QED
    BY <2>1, <2>2 DEF SameRow, SyncOperationRecord
<1>2. update_sync_operation_status(rows, id, s, e) = {f[o] : o \in rows}
  BY DEF update_sync_operation_status
<1> HIDE DEF g
<1>3. \A o \in rows : f[o] \in Row /\ SameRow(o, f[o])
  BY <1>1 DEF Row, SameRow
<1>4. f \in [rows -> Row]
  BY <1>3
<1> HIDE DEF f
<1> QED
  BY <1>2, <1>3, <1>4 DEF Updated

\* Both outcomes of an operation are such UPDATEs.
LEMMA OutcomeUpdates ==
  ASSUME NEW rows \in SUBSET Row, NEW id
  PROVE  /\ Updated(rows, mark_sync_operation_failed(rows, id))
         /\ Updated(rows, mark_sync_operation_done(rows, id))
<1>1. Updated(rows, update_sync_operation_status(rows, id, "failed", TRUE))
  BY FinishedUpdates
<1>2. Updated(rows, update_sync_operation_status(rows, id, "done", FALSE))
  BY FinishedUpdates
<1> QED
  BY <1>1, <1>2 DEF mark_sync_operation_failed, mark_sync_operation_done

\* retry_failed_sync_operations is such an UPDATE.
LEMMA RetryUpdates ==
  ASSUME NEW rows \in SUBSET Row
  PROVE  Updated(rows, retry_failed_sync_operations(rows, Device))
<1> DEFINE again(o) == o.status = "failed" /\ o.kind \in TransferKind /\ o.remote_device_id \in Device
           f == [o \in rows |-> IF again(o) THEN Retried(o) ELSE o]
<1>1. \A o \in rows : Retried(o) \in SyncOperationRecord /\ SameRow(o, Retried(o))
  BY RetriedRow DEF Row, SameRow
<1>2. retry_failed_sync_operations(rows, Device) = {f[o] : o \in rows}
  BY DEF retry_failed_sync_operations
<1>3. \A o \in rows : f[o] \in Row /\ SameRow(o, f[o])
  BY <1>1 DEF Row, SameRow
<1>4. f \in [rows -> Row]
  BY <1>3
<1> HIDE DEF f
<1> QED
  BY <1>2, <1>3, <1>4 DEF Updated

\* After such an UPDATE the table has rows.
LEMMA UpdatedTyped ==
  ASSUME NEW rows \in SUBSET Row, NEW new, Updated(rows, new)
  PROVE  new \in SUBSET Row
  BY DEF Updated

\* resolve_update leaves rows.
LEMMA ResolveTyped ==
  ASSUME NEW rows \in SUBSET Row, NEW id, NEW k \in BlockedOperationResolution
  PROVE  resolve_update(rows, id, k) \in SUBSET Row
<1> DEFINE g(o) == [o EXCEPT !.kind = k, !.status = "pending", !.reason = "user",
                             !.last_error = FALSE, !.started_at = FALSE, !.finished_at = FALSE]
<1>1. k \in TransferKind
  BY DEF BlockedOperationResolution, TransferKind
<1>2. \A o \in rows : g(o) \in SyncOperationRecord /\ g(o).id = o.id /\ g(o).path = o.path
  <2> SUFFICES ASSUME NEW o \in rows
               PROVE  g(o) \in SyncOperationRecord /\ g(o).id = o.id /\ g(o).path = o.path
    OBVIOUS
  <2>1. o \in SyncOperationRecord
    BY DEF Row
  <2>2. g(o) \in SyncOperationRecord
    BY <1>1, <2>1, ResolvedRow
  <2>3. g(o).id = o.id /\ g(o).path = o.path
    BY <2>1 DEF SyncOperationRecord
  <2> QED
    BY <2>2, <2>3
<1>3. resolve_update(rows, id, k) = {IF o.id = id THEN g(o) ELSE o : o \in rows}
  BY DEF resolve_update
<1> HIDE DEF g
<1> QED
  BY <1>2, <1>3 DEF Row

\* A new plan leaves rows.
LEMMA EnqueueTyped ==
  ASSUME NEW rows \in SUBSET Row, NEW l \in Manifest, NEW r \in Manifest,
         NEW e \in Device, NEW n \in Nat
  PROVE  enqueue_sync_plan(rows, plan_manifest_sync_for_mode(l, r, "Bidirectional"), e, n)
           \in SUBSET Row
<1> DEFINE plan == plan_manifest_sync_for_mode(l, r, "Bidirectional")
<1>1. "Bidirectional" \in FolderMode
  BY DEF FolderMode
<1>2. \A f \in plan : f.action # "InSync" => NewOperation(f, e, n) \in Row
  <2> SUFFICES ASSUME NEW f \in plan, f.action # "InSync"
               PROVE  NewOperation(f, e, n) \in Row
    OBVIOUS
  <2>1. /\ NewOperation(f, e, n) \in SyncOperationRecord
        /\ NewOperation(f, e, n).id = <<n, f.path>> /\ NewOperation(f, e, n).path = f.path
    BY <1>1, NewRows
  <2> QED
    BY <2>1 DEF Row
<1> HIDE DEF plan
<1> QED
  BY <1>2 DEF enqueue_sync_plan, plan

\* What list_pending_operations returns are rows of the table of that kind.
LEMMA ListedRows ==
  ASSUME NEW rows \in SUBSET Row, NEW e, NEW kind, NEW n
  PROVE  /\ list_pending_operations(rows, e, kind, n) \subseteq rows
         /\ \A o \in list_pending_operations(rows, e, kind, n) : o.kind = kind
  BY DEF list_pending_operations, FirstN

-----------------------------------------------------------------------------
(* The local state of a command after a step *)

\* The command is at another step.
SetPc(a, x) ==
  [a EXCEPT !.pc = x]

\* Its fields.
LEMMA SetPcFields ==
  ASSUME NEW a \in Process, NEW x \in Pc
  PROVE  LET r == SetPc(a, x)
         IN /\ r \in Process /\ r.pc = x /\ r.lman = a.lman /\ r.rman = a.rman
            /\ r.downloads = a.downloads /\ r.uploads = a.uploads
            /\ r.replace = a.replace /\ r.body = a.body /\ r.slot = a.slot
            /\ r.erase = a.erase
<1> DEFINE r == SetPc(a, x)
<1>1. r \in Process
  BY DEF SetPc, Process
<1>2. /\ r.pc = x /\ r.lman = a.lman /\ r.rman = a.rman /\ r.downloads = a.downloads
      /\ r.uploads = a.uploads /\ r.replace = a.replace /\ r.body = a.body /\ r.slot = a.slot
      /\ r.erase = a.erase
  BY DEF SetPc, Process
<1> QED
  BY <1>1, <1>2

\* The local manifest for the plan is kept or dropped.
SetPlan(a, x, m) ==
  [a EXCEPT !.pc = x, !.lman = m]

\* Its fields.
LEMMA SetPlanFields ==
  ASSUME NEW a \in Process, NEW x \in Pc, NEW m \in Manifest
  PROVE  LET r == SetPlan(a, x, m)
         IN /\ r \in Process /\ r.pc = x /\ r.lman = m /\ r.rman = a.rman
            /\ r.downloads = a.downloads /\ r.uploads = a.uploads
            /\ r.replace = a.replace /\ r.body = a.body /\ r.slot = a.slot
            /\ r.erase = a.erase
<1> DEFINE r == SetPlan(a, x, m)
<1>1. r \in Process
  BY DEF SetPlan, Process
<1>2. /\ r.pc = x /\ r.lman = m /\ r.rman = a.rman /\ r.downloads = a.downloads
      /\ r.uploads = a.uploads /\ r.replace = a.replace /\ r.body = a.body /\ r.slot = a.slot
      /\ r.erase = a.erase
  BY DEF SetPlan, Process
<1> QED
  BY <1>1, <1>2

\* A batch is listed.
SetBatch(a, m, down, up) ==
  [a EXCEPT !.pc = "next", !.rman = m, !.downloads = down, !.uploads = up]

\* Its fields.
LEMMA SetBatchFields ==
  ASSUME NEW a \in Process, NEW m \in Manifest, NEW down \in SUBSET Row, NEW up \in SUBSET Row
  PROVE  LET r == SetBatch(a, m, down, up)
         IN /\ r \in Process /\ r.pc = "next" /\ r.lman = a.lman /\ r.rman = m
            /\ r.downloads = down /\ r.uploads = up /\ r.replace = a.replace
            /\ r.body = a.body /\ r.slot = a.slot /\ r.erase = a.erase
<1> DEFINE r == SetBatch(a, m, down, up)
<1>0. "next" \in Pc
  BY DEF Pc
<1>1. r \in Process
  BY <1>0 DEF SetBatch, Process
<1>2. /\ r.pc = "next" /\ r.lman = a.lman /\ r.rman = m /\ r.downloads = down
      /\ r.uploads = up /\ r.replace = a.replace /\ r.body = a.body /\ r.slot = a.slot
      /\ r.erase = a.erase
  BY DEF SetBatch, Process
<1> QED
  BY <1>1, <1>2

\* The checks of a download have passed.
SetReplace(a, b) ==
  [a EXCEPT !.pc = "fetch", !.replace = b]

\* Its fields.
LEMMA SetReplaceFields ==
  ASSUME NEW a \in Process, NEW b \in BOOLEAN
  PROVE  LET r == SetReplace(a, b)
         IN /\ r \in Process /\ r.pc = "fetch" /\ r.lman = a.lman /\ r.rman = a.rman
            /\ r.downloads = a.downloads /\ r.uploads = a.uploads /\ r.replace = b
            /\ r.body = a.body /\ r.slot = a.slot /\ r.erase = a.erase
<1> DEFINE r == SetReplace(a, b)
<1>0. "fetch" \in Pc
  BY DEF Pc
<1>1. r \in Process
  BY <1>0 DEF SetReplace, Process
<1>2. /\ r.pc = "fetch" /\ r.lman = a.lman /\ r.rman = a.rman /\ r.downloads = a.downloads
      /\ r.uploads = a.uploads /\ r.replace = b /\ r.body = a.body /\ r.slot = a.slot
      /\ r.erase = a.erase
  BY DEF SetReplace, Process
<1> QED
  BY <1>1, <1>2

\* The command holds a version.
SetBody(a, x, c) ==
  [a EXCEPT !.pc = x, !.body = c]

\* Its fields.
LEMMA SetBodyFields ==
  ASSUME NEW a \in Process, NEW x \in Pc, NEW c \in Content
  PROVE  LET r == SetBody(a, x, c)
         IN /\ r \in Process /\ r.pc = x /\ r.lman = a.lman /\ r.rman = a.rman
            /\ r.downloads = a.downloads /\ r.uploads = a.uploads
            /\ r.replace = a.replace /\ r.body = c /\ r.slot = a.slot
            /\ r.erase = a.erase
<1> DEFINE r == SetBody(a, x, c)
<1>1. r \in Process
  BY DEF SetBody, Process
<1>2. /\ r.pc = x /\ r.lman = a.lman /\ r.rman = a.rman /\ r.downloads = a.downloads
      /\ r.uploads = a.uploads /\ r.replace = a.replace /\ r.body = c /\ r.slot = a.slot
      /\ r.erase = a.erase
  BY DEF SetBody, Process
<1> QED
  BY <1>1, <1>2

\* The command waits for a task, or no longer does.
SetSlot(a, x, s) ==
  [a EXCEPT !.pc = x, !.slot = s]

\* Its fields.
LEMMA SetSlotFields ==
  ASSUME NEW a \in Process, NEW x \in Pc, NEW s \in Slot \cup {0}
  PROVE  LET r == SetSlot(a, x, s)
         IN /\ r \in Process /\ r.pc = x /\ r.lman = a.lman /\ r.rman = a.rman
            /\ r.downloads = a.downloads /\ r.uploads = a.uploads
            /\ r.replace = a.replace /\ r.body = a.body /\ r.slot = s
            /\ r.erase = a.erase
<1> DEFINE r == SetSlot(a, x, s)
<1>1. r \in Process
  BY DEF SetSlot, Process
<1>2. /\ r.pc = x /\ r.lman = a.lman /\ r.rman = a.rman /\ r.downloads = a.downloads
      /\ r.uploads = a.uploads /\ r.replace = a.replace /\ r.body = a.body /\ r.slot = s
      /\ r.erase = a.erase
  BY DEF SetSlot, Process
<1> QED
  BY <1>1, <1>2

\* The local file is deleted.
SetErase(a, x, p, c) ==
  [a EXCEPT !.pc = x, !.erase = p, !.body = c]

\* Its fields.
LEMMA SetEraseFields ==
  ASSUME NEW a \in Process, NEW x \in Pc, NEW p \in Path, NEW c \in Content
  PROVE  LET r == SetErase(a, x, p, c)
         IN /\ r \in Process /\ r.pc = x /\ r.lman = a.lman /\ r.rman = a.rman
            /\ r.downloads = a.downloads /\ r.uploads = a.uploads
            /\ r.replace = a.replace /\ r.body = c /\ r.slot = a.slot /\ r.erase = p
<1> DEFINE r == SetErase(a, x, p, c)
<1>1. r \in Process
  BY DEF SetErase, Process
<1>2. /\ r.pc = x /\ r.lman = a.lman /\ r.rman = a.rman /\ r.downloads = a.downloads
      /\ r.uploads = a.uploads /\ r.replace = a.replace /\ r.body = c /\ r.slot = a.slot
      /\ r.erase = p
  BY DEF SetErase, Process
<1> QED
  BY <1>1, <1>2

\* The operation is finished.
SetNext(a, o) ==
  [a EXCEPT !.pc = "next", !.replace = FALSE, !.body = NoHash, !.slot = 0, !.downloads = @ \ {o}, !.uploads = @ \ {o}]

\* Its fields.
LEMMA SetNextFields ==
  ASSUME NEW a \in Process, NEW o
  PROVE  LET r == SetNext(a, o)
         IN /\ r \in Process /\ r.pc = "next" /\ r.lman = a.lman /\ r.rman = a.rman
            /\ r.downloads = a.downloads \ {o} /\ r.uploads = a.uploads \ {o}
            /\ r.replace = FALSE /\ r.body = NoHash /\ r.slot = 0 /\ r.erase = a.erase
<1> DEFINE r == SetNext(a, o)
<1> DEFINE x == "next"
           no == FALSE
           down == a.downloads \ {o}
           up == a.uploads \ {o}
           slot == 0
<1>0. /\ x \in Pc /\ no \in BOOLEAN /\ slot \in Slot \cup {0}
      /\ down \in SUBSET Row /\ up \in SUBSET Row
  BY DEF Pc, Process
<1>1. r \in Process
  <2>1. r = [a EXCEPT !.pc = x, !.replace = no, !.body = NoHash, !.slot = slot,
                      !.downloads = down, !.uploads = up]
    BY DEF SetNext, Process
  <2> HIDE DEF r, x, no, down, up, slot
  <2> QED
    BY <1>0, <2>1 DEF Process
<1>2. /\ r.pc = "next" /\ r.lman = a.lman /\ r.rman = a.rman /\ r.downloads = a.downloads \ {o}
      /\ r.uploads = a.uploads \ {o} /\ r.replace = FALSE /\ r.body = NoHash /\ r.slot = 0
      /\ r.erase = a.erase
  BY DEF SetNext, Process
<1> QED
  BY <1>1, <1>2

\* A move to a step that fetches nothing.
LEMMA SetPcTyped ==
  ASSUME NEW a \in Command, NEW x \in Pc, x # "fetch",
         x \in HoldsBody => a.body \in Content, x \in Erases => a.erase \in Path
  PROVE  SetPc(a, x) \in Command
<1>1. a \in Process
  BY DEF Command
<1> QED
  BY <1>1, SetPcFields DEF Command

LEMMA SetPlanTyped ==
  ASSUME NEW a \in Command, NEW x \in {"plan", "queue"}, NEW m \in Manifest
  PROVE  SetPlan(a, x, m) \in Command
<1>1. a \in Process /\ x \in Pc /\ x \notin HoldsBody /\ x \notin Erases /\ x # "fetch"
  BY DEF Command, Pc, HoldsBody, Erases
<1> QED
  BY <1>1, SetPlanFields DEF Command

LEMMA SetBatchTyped ==
  ASSUME NEW a \in Command, NEW m \in Manifest, NEW down \in SUBSET Row, NEW up \in SUBSET Row
  PROVE  SetBatch(a, m, down, up) \in Command
<1>1. a \in Process /\ "next" \notin HoldsBody /\ "next" \notin Erases
  BY DEF Command, HoldsBody, Erases
<1> QED
  BY <1>1, SetBatchFields DEF Command

LEMMA SetReplaceTyped ==
  ASSUME NEW a \in Command, NEW b \in BOOLEAN, NEW o, Current(a, o), a.rman[o.path] # NoRecord
  PROVE  SetReplace(a, b) \in Command
<1>1. a \in Process /\ "fetch" \notin HoldsBody /\ "fetch" \notin Erases
  BY DEF Command, HoldsBody, Erases
<1> DEFINE r == SetReplace(a, b)
<1>2. r \in Process /\ r.pc = "fetch" /\ r.rman = a.rman /\ r.downloads = a.downloads /\ r.uploads = a.uploads
  BY <1>1, SetReplaceFields
<1> HIDE DEF r
<1>3. \A q \in Row : Current(r, q) => r.rman[q.path] # NoRecord
  <2> SUFFICES ASSUME NEW q \in Row, Current(r, q)
               PROVE  r.rman[q.path] # NoRecord
    OBVIOUS
  <2>1. Current(a, q)
    BY <1>2 DEF Current
  <2>2. q.path = o.path
    BY <1>1, <2>1, CurrentPath
  <2> QED
    BY <1>2, <2>2
<1>4. r \in Command
  BY <1>1, <1>2, <1>3 DEF Command
<1> QED
  BY <1>4 DEF r

LEMMA SetBodyTyped ==
  ASSUME NEW a \in Command, NEW x \in {"remove", "publish", "delete", "put"}, NEW c \in Content
  PROVE  SetBody(a, x, c) \in Command
<1>1. a \in Process /\ x \in Pc /\ x \notin Erases /\ x # "fetch"
  BY DEF Command, Pc, Erases
<1> QED
  BY <1>1, SetBodyFields DEF Command

LEMMA SetSlotTyped ==
  ASSUME NEW a \in Command, NEW x \in Pc, x # "fetch", NEW s \in Slot \cup {0},
         x \in HoldsBody => a.body \in Content, x \in Erases => a.erase \in Path
  PROVE  SetSlot(a, x, s) \in Command
<1>1. a \in Process
  BY DEF Command
<1> QED
  BY <1>1, SetSlotFields DEF Command

LEMMA SetEraseTyped ==
  ASSUME NEW a \in Command, NEW x \in {"LocalOnly", "PropagateToPeers"},
         NEW p \in Path, NEW c \in Content
  PROVE  SetErase(a, x, p, c) \in Command
<1>1. a \in Process /\ x \in Pc /\ x # "fetch"
  BY DEF Command, Pc
<1> QED
  BY <1>1, SetEraseFields DEF Command

LEMMA SetNextTyped ==
  ASSUME NEW a \in Command, NEW o
  PROVE  SetNext(a, o) \in Command
<1>1. a \in Process /\ "next" \notin HoldsBody /\ "next" \notin Erases
  BY DEF Command, HoldsBody, Erases
<1> QED
  BY <1>1, SetNextFields DEF Command

\* The agent between commands is a command.
LEMMA IdleTyped ==
  /\ Idle \in Command
  /\ Idle.pc = "idle" /\ Idle.slot = 0 /\ Idle.downloads = {} /\ Idle.uploads = {}
<1>1. NoManifest \in Manifest
  BY DEF NoManifest, Manifest
<1> DEFINE x == "idle"
           no == FALSE
           slot == 0
           erase == 0
<1>2. x \in Pc /\ no \in BOOLEAN /\ slot \in Slot \cup {0} /\ erase \in Path \cup {0}
  BY DEF Pc
<1>3. Idle = [pc |-> x, lman |-> NoManifest, rman |-> NoManifest, downloads |-> {}, uploads |-> {},
              replace |-> no, body |-> NoHash, slot |-> slot, erase |-> erase]
  BY DEF Idle
<1>4. Idle.pc = x /\ Idle.slot = slot /\ Idle.downloads = {} /\ Idle.uploads = {}
  BY <1>3
<1>5. Idle \in Process
  <2> HIDE DEF x, no, slot, erase
  <2> QED
    BY <1>1, <1>2, <1>3 DEF Process
<1>6. x \notin HoldsBody /\ x \notin Erases
  BY DEF HoldsBody, Erases
<1> QED
  BY <1>4, <1>5, <1>6 DEF Command

-----------------------------------------------------------------------------
(* A server task after a step *)

SetStage(t, x) == [t EXCEPT !.stage = x]

LEMMA SetStageFields ==
  ASSUME NEW t \in Task, NEW x \in Stage
  PROVE  LET r == SetStage(t, x)
         IN /\ r \in Task /\ r.kind = t.kind /\ r.client = t.client /\ r.server = t.server
            /\ r.path = t.path /\ r.hash = t.hash /\ r.stage = x
<1> DEFINE r == SetStage(t, x)
<1>1. r \in Task
  BY DEF SetStage, Task
<1>2. /\ r.kind = t.kind /\ r.client = t.client /\ r.server = t.server
      /\ r.path = t.path /\ r.hash = t.hash /\ r.stage = x
  BY DEF SetStage, Task
<1> QED
  BY <1>1, <1>2

LEMMA SetStageTyped ==
  ASSUME NEW t \in Job, NEW x \in Stage
  PROVE  SetStage(t, x) \in Job
<1>1. t \in Task
  BY DEF Job
<1> QED
  BY <1>1, SetStageFields DEF Job

\* The task that a request starts.
Received(d, kind, path, hash) ==
  [kind |-> kind, client |-> d, server |-> Peer(d), path |-> path, hash |-> hash,
   stage |-> "received"]

LEMMA ReceivedTyped ==
  ASSUME NEW d \in Device, NEW kind \in {"put", "delete"}, NEW path \in Path,
         NEW hash \in Content \cup {NoHash}, kind = "put" => hash \in Content
  PROVE  LET r == Received(d, kind, path, hash)
         IN /\ r \in Job /\ r.kind = kind /\ r.client = d /\ r.server = Peer(d)
            /\ r.path = path /\ r.hash = hash /\ r.stage = "received"
<1> DEFINE r == Received(d, kind, path, hash)
           x == "received"
<1>1. x \in Stage /\ kind \in TaskKind /\ Peer(d) \in Device
  BY PeerIs DEF Stage, TaskKind
<1>2. /\ r.kind = kind /\ r.client = d /\ r.server = Peer(d)
      /\ r.path = path /\ r.hash = hash /\ r.stage = x
  BY DEF Received
<1>3. r = [kind |-> kind, client |-> d, server |-> Peer(d), path |-> path, hash |-> hash, stage |-> x]
  BY DEF Received
<1>4. r \in Task
  <2> HIDE DEF r, x
  <2> QED
    BY <1>1, <1>3 DEF Task
<1> HIDE DEF r
<1>5. r \in Job
  BY <1>1, <1>2, <1>4 DEF Job
<1> QED
  BY <1>2, <1>5 DEF r

\* A free slot.
LEMMA FreeTyped == FreeSlot \in Job /\ FreeSlot.kind = "none" /\ FreeSlot.stage = "free"
<1>1. "none" \in TaskKind /\ "free" \in Stage
  BY DEF TaskKind, Stage
<1>2. FreeSlot.kind = "none" /\ FreeSlot.stage = "free"
  BY DEF FreeSlot
<1>3. FreeSlot \in Task
  BY <1>1 DEF FreeSlot, Task
<1> QED
  BY <1>2, <1>3 DEF Job

-----------------------------------------------------------------------------
(* Agents and tasks *)

\* One agent takes a step.
LEMMA OneMoves ==
  ASSUME TypeInv, NEW d \in Device, NEW r \in Command, agent' = [agent EXCEPT ![d] = r]
  PROVE  /\ agent' \in [Device -> Command] /\ agent'[d] = r
         /\ \A e \in Device \ {d} : agent'[e] = agent[e]
  BY DEF TypeInv, Workers

\* The slot of an agent is a slot or 0.
LEMMA SlotTyped ==
  ASSUME TypeInv, NEW d \in Device
  PROVE  agent[d] \in Process /\ agent[d] \in Command /\ agent[d].slot \in Slot \cup {0}
<1>1. agent[d] \in Process /\ agent[d] \in Command
  BY DEF TypeInv, Workers, Command
<1> QED
  BY <1>1 DEF Process

\* A step of an agent that has nothing to do with the tasks.
LEMMA WorkersAgent ==
  ASSUME TypeInv, NEW d \in Device, NEW r \in Command, agent' = [agent EXCEPT ![d] = r],
         r.slot \in {0, agent[d].slot}, UNCHANGED task,
         \A e \in Device \ {d} : plans'[e] = plans[e], r.pc = "plan" => plans'[d] < MaxPlans
  PROVE  Workers'
<1>1. /\ agent' \in [Device -> Command] /\ agent'[d] = r
      /\ \A e \in Device \ {d} : agent'[e] = agent[e]
  BY OneMoves
<1>2. Waits'
  BY <1>1, TwoDevices DEF TypeInv, Workers, Waits
<1>3. PlansLeft'
  BY <1>1, TwoDevices DEF TypeInv, Workers, PlansLeft
<1> QED
  BY <1>1, <1>2, <1>3 DEF TypeInv, Workers

\* A request is sent from a free slot.
LEMMA WorkersRequest ==
  ASSUME TypeInv, NEW d \in Client, NEW r \in Command, agent' = [agent EXCEPT ![d] = r],
         NEW s \in Slot, r.slot = s, task[s] = FreeSlot,
         NEW t \in Job, t.client = d, t.stage # "free", task' = [task EXCEPT ![s] = t],
         r.pc # "plan", UNCHANGED plans
  PROVE  Workers'
<1>0. d \in Device
  BY TwoDevices
<1>1. /\ agent' \in [Device -> Command] /\ agent'[d] = r
      /\ \A e \in Device \ {d} : agent'[e] = agent[e]
  BY <1>0, OneMoves
<1>2. task' \in [Slot -> Job] /\ task'[s] = t /\ \A u \in Slot \ {s} : task'[u] = task[u]
  BY DEF TypeInv, Workers
<1>3. Waits'
  <2> SUFFICES ASSUME NEW e \in Client, agent'[e].slot # 0
               PROVE  task'[agent'[e].slot].stage # "free" /\ task'[agent'[e].slot].client = e
    BY DEF Waits
  <2>1. CASE e = d
    BY <2>1, <1>1, <1>2
  <2>2. CASE e # d
    <3>1. e \in Device /\ agent'[e] = agent[e]
      BY <1>1, <2>2, TwoDevices
    <3>2. task[agent[e].slot].stage # "free" /\ task[agent[e].slot].client = e
      BY <3>1 DEF TypeInv, Workers, Waits
    <3>3. agent[e].slot \in Slot \ {s}
      BY <3>1, <3>2, SlotTyped, FreeTyped
    <3> QED
      BY <1>2, <3>1, <3>2, <3>3
  <2> QED
    BY <2>1, <2>2
<1>4. PlansLeft'
  BY <1>1, TwoDevices DEF TypeInv, Workers, PlansLeft
<1> QED
  BY <1>1, <1>2, <1>3, <1>4 DEF Workers

\* A client takes the answer, or stops waiting for a task that has one.
LEMMA WorkersRelease ==
  ASSUME TypeInv, NEW d \in Client, NEW r \in Command, agent' = [agent EXCEPT ![d] = r],
         r.slot = 0, task' = [task EXCEPT ![agent[d].slot] = FreeSlot],
         r.pc # "plan", UNCHANGED plans
  PROVE  Workers'
<1>0. d \in Device
  BY TwoDevices
<1>1. /\ agent' \in [Device -> Command] /\ agent'[d] = r
      /\ \A e \in Device \ {d} : agent'[e] = agent[e]
  BY <1>0, OneMoves
<1>2. task' \in [Slot -> Job] /\ \A u \in Slot \ {agent[d].slot} : task'[u] = task[u]
  BY FreeTyped DEF TypeInv, Workers
<1>3. Waits'
  <2> SUFFICES ASSUME NEW e \in Client, agent'[e].slot # 0
               PROVE  task'[agent'[e].slot].stage # "free" /\ task'[agent'[e].slot].client = e
    BY DEF Waits
  <2>1. e # d
    BY <1>1
  <2>2. e \in Device /\ agent'[e] = agent[e]
    BY <1>1, <2>1, TwoDevices
  <2>3. task[agent[e].slot].stage # "free" /\ task[agent[e].slot].client = e
    BY <2>2 DEF TypeInv, Workers, Waits
  <2>4. agent[e].slot \in Slot /\ agent[e].slot # agent[d].slot
    <3>1. agent[e].slot \in Slot
      BY <2>2, SlotTyped
    <3>2. agent[d].slot # 0 => task[agent[d].slot].client = d
      BY DEF TypeInv, Workers, Waits
    <3> QED
      BY <2>1, <2>2, <2>3, <3>1, <3>2
  <2> QED
    BY <1>2, <2>2, <2>3, <2>4
<1>4. PlansLeft'
  BY <1>1, TwoDevices DEF TypeInv, Workers, PlansLeft
<1> QED
  BY <1>1, <1>2, <1>3, <1>4 DEF Workers

\* A task goes on and still runs or has its answer.
LEMMA WorkersStage ==
  ASSUME TypeInv, NEW s \in Slot, NEW x \in Stage, x # "free",
         UNCHANGED <<agent, plans>>, task' = [task EXCEPT ![s] = SetStage(task[s], x)]
  PROVE  Workers'
<1>1. task[s] \in Job /\ task[s] \in Task
  BY DEF TypeInv, Workers, Job
<1> DEFINE t == SetStage(task[s], x)
<1>2. t \in Job /\ t.stage = x /\ t.client = task[s].client
  BY <1>1, SetStageTyped, SetStageFields
<1> HIDE DEF t
<1>3. task' \in [Slot -> Job] /\ task'[s] = t /\ \A u \in Slot \ {s} : task'[u] = task[u]
  BY <1>2 DEF TypeInv, Workers, t
<1>4. \A e \in Client : agent[e].slot \in Slot \cup {0}
  BY SlotTyped, TwoDevices
<1>5. Waits'
  <2> SUFFICES ASSUME NEW e \in Client, agent[e].slot # 0
               PROVE  task'[agent[e].slot].stage # "free" /\ task'[agent[e].slot].client = e
    BY DEF Waits
  <2>1. /\ agent[e].slot \in Slot
        /\ task[agent[e].slot].stage # "free" /\ task[agent[e].slot].client = e
    BY <1>4 DEF TypeInv, Workers, Waits
  <2> QED
    BY <1>2, <1>3, <2>1
<1>6. PlansLeft'
  BY DEF TypeInv, Workers, PlansLeft
<1> QED
  BY <1>3, <1>5, <1>6 DEF TypeInv, Workers

\* A task nobody waits for ends.
LEMMA WorkersEnd ==
  ASSUME TypeInv, NEW s \in Slot, ~Awaited(s),
         UNCHANGED <<agent, plans>>, task' = [task EXCEPT ![s] = FreeSlot]
  PROVE  Workers'
<1>1. task' \in [Slot -> Job] /\ \A u \in Slot \ {s} : task'[u] = task[u]
  BY FreeTyped DEF TypeInv, Workers
<1>2. Waits'
  <2> SUFFICES ASSUME NEW e \in Client, agent[e].slot # 0
               PROVE  task'[agent[e].slot].stage # "free" /\ task'[agent[e].slot].client = e
    BY DEF Waits
  <2>1. agent[e].slot \in Slot \ {s}
    BY SlotTyped, TwoDevices DEF Awaited
  <2> QED
    BY <1>1, <2>1 DEF TypeInv, Workers, Waits
<1>3. PlansLeft'
  BY DEF TypeInv, Workers, PlansLeft
<1> QED
  BY <1>1, <1>2, <1>3 DEF TypeInv, Workers

\* A task has its answer.
LEMMA WorkersReply ==
  ASSUME TypeInv, NEW s \in Slot, NEW x \in Stage, x # "free", UNCHANGED <<agent, plans>>,
         Reply(s, x)
  PROVE  Workers'
<1>1. CASE Awaited(s)
  <2>1. task' = [task EXCEPT ![s] = SetStage(task[s], x)]
    BY <1>1 DEF Reply, SetStage, TypeInv, Workers
  <2> QED
    BY <2>1, WorkersStage
<1>2. CASE ~Awaited(s)
  <2>1. task' = [task EXCEPT ![s] = FreeSlot]
    BY <1>2 DEF Reply
  <2> QED
    BY <1>2, <2>1, WorkersEnd
<1> QED
  BY <1>1, <1>2

\* A client stops waiting.
LEMMA WorkersAbandon ==
  ASSUME TypeInv, NEW d \in Client, NEW r \in Command, agent' = [agent EXCEPT ![d] = r],
         r.slot = 0, Abandon(d), r.pc # "plan", UNCHANGED plans
  PROVE  Workers'
<1>1. CASE task' = task
  BY <1>1, WorkersAgent, TwoDevices
<1>2. CASE task' = [task EXCEPT ![agent[d].slot] = FreeSlot]
  BY <1>2, WorkersRelease
<1> QED
  BY <1>1, <1>2 DEF Abandon

-----------------------------------------------------------------------------
(* Every action keeps the types *)

\* What an agent's step leaves alone.
LEMMA SurroundingsKept ==
  ASSUME TypeInv, UNCHANGED <<disk, user, edits, faults, size_limit>>
  PROVE  Surroundings'
  BY DEF TypeInv, Surroundings, user

\* An UPDATE of the queue of d.
LEMMA TablesUpdated ==
  ASSUME TypeInv, NEW d \in Device, NEW new, Updated(ops[d], new),
         ops' = [ops EXCEPT ![d] = new], UNCHANGED <<files, skipped, plans>>
  PROVE  Tables'
<1>1. ops[d] \in SUBSET Row
  BY DEF TypeInv, Tables
<1>2. new \in SUBSET Row
  BY <1>1, UpdatedTyped
<1> QED
  BY <1>2 DEF TypeInv, Tables

\* A scan of d.
LEMMA TablesScanned ==
  ASSUME TypeInv, NEW d \in Device, files' = Scanned(d), UNCHANGED <<skipped, ops, plans>>
  PROVE  Tables'
  BY ScannedTyped DEF TypeInv, Tables

\* Fail and Finish.
LEMMA OutcomeStep ==
  ASSUME TypeInv, NEW d \in Client, NEW o, Fail(d, o) \/ Finish(d, o)
  PROVE  /\ agent' = [agent EXCEPT ![d] = SetNext(agent[d], o)]
         /\ SetNext(agent[d], o) \in Command /\ SetNext(agent[d], o).slot = 0
         /\ SetNext(agent[d], o).pc = "next"
         /\ \E new : Updated(ops[d], new) /\ ops' = [ops EXCEPT ![d] = new]
<1>0. d \in Device
  BY TwoDevices
<1>1. agent' = [agent EXCEPT ![d] = SetNext(agent[d], o)]
  <2>1. agent' = Advanced(d, o)
    BY DEF Fail, Finish
  <2>2. Advanced(d, o) = [agent EXCEPT ![d] = SetNext(agent[d], o)]
    BY DEF Advanced, SetNext
  <2> QED
    BY <2>1, <2>2
<1>2. agent[d] \in Process /\ agent[d] \in Command
  BY <1>0, SlotTyped
<1>3. /\ SetNext(agent[d], o) \in Command /\ SetNext(agent[d], o).slot = 0
      /\ SetNext(agent[d], o).pc = "next"
  BY <1>2, SetNextTyped, SetNextFields
<1>4. ops[d] \in SUBSET Row
  BY <1>0 DEF TypeInv, Tables
<1>5. \E new : Updated(ops[d], new) /\ ops' = [ops EXCEPT ![d] = new]
  <2>1. CASE Fail(d, o)
    <3>1. ops' = [ops EXCEPT ![d] = mark_sync_operation_failed(ops[d], o.id)]
      BY <2>1 DEF Fail
    <3> QED
      BY <1>4, <3>1, OutcomeUpdates
  <2>2. CASE Finish(d, o)
    <3>1. ops' = [ops EXCEPT ![d] = mark_sync_operation_done(ops[d], o.id)]
      BY <2>2 DEF Finish
    <3> QED
      BY <1>4, <3>1, OutcomeUpdates
  <2> QED
    BY <2>1, <2>2
<1> QED
  BY <1>1, <1>3, <1>5

\* An operation ends without an answer being taken.
LEMMA OutcomeTypes ==
  ASSUME TypeInv, NEW d \in Client, NEW o, Fail(d, o) \/ Finish(d, o), UNCHANGED <<task, plans>>
  PROVE  ops' \in [Device -> SUBSET Row] /\ Workers'
<1>0. d \in Device
  BY TwoDevices
<1>1. PICK new : Updated(ops[d], new) /\ ops' = [ops EXCEPT ![d] = new]
  BY OutcomeStep
<1>2. new \in SUBSET Row
  BY <1>0, <1>1, UpdatedTyped DEF TypeInv, Tables
<1>3. ops' \in [Device -> SUBSET Row]
  BY <1>1, <1>2 DEF TypeInv, Tables
<1>4. Workers'
  BY <1>0, OutcomeStep, WorkersAgent
<1> QED
  BY <1>3, <1>4

\* An operation ends with the answer, or by giving up waiting.
LEMMA OutcomeReleases ==
  ASSUME TypeInv, NEW d \in Client, NEW o, Fail(d, o) \/ Finish(d, o),
         task' = [task EXCEPT ![agent[d].slot] = FreeSlot] \/ Abandon(d), UNCHANGED plans
  PROVE  ops' \in [Device -> SUBSET Row] /\ Workers'
<1>0. d \in Device
  BY TwoDevices
<1>1. PICK new : Updated(ops[d], new) /\ ops' = [ops EXCEPT ![d] = new]
  BY OutcomeStep
<1>2. new \in SUBSET Row
  BY <1>0, <1>1, UpdatedTyped DEF TypeInv, Tables
<1>3. ops' \in [Device -> SUBSET Row]
  BY <1>1, <1>2 DEF TypeInv, Tables
<1>4. Workers'
  BY OutcomeStep, WorkersRelease, WorkersAbandon
<1> QED
  BY <1>3, <1>4

LEMMA BeginPlanType ==
  ASSUME TypeInv, NEW d \in Client, BeginPlan(d)
  PROVE  TypeInv'
<1>0. d \in Device /\ agent[d] \in Process /\ agent[d] \in Command
  BY TwoDevices, SlotTyped
<1>1. Tables'
  BY <1>0, TablesScanned DEF BeginPlan
<1>2. Surroundings'
  BY SurroundingsKept DEF BeginPlan
<1>3. files'[d] \in Manifest
  BY <1>0, <1>1 DEF Tables
<1> DEFINE r == SetPlan(agent[d], "plan", files'[d])
<1>4. agent' = [agent EXCEPT ![d] = r]
  BY <1>0 DEF BeginPlan, SetPlan, TypeInv, Workers
<1>5. r \in Command /\ r.slot = agent[d].slot
  <2>1. r \in Command
    BY <1>0, <1>3, SetPlanTyped
  <2>2. "plan" \in Pc
    BY DEF Pc
  <2> QED
    BY <1>0, <1>3, <2>1, <2>2, SetPlanFields
<1>6. Workers'
  BY <1>0, <1>4, <1>5, WorkersAgent DEF BeginPlan
<1> QED
  BY <1>1, <1>2, <1>6 DEF TypeInv

LEMMA MakePlanType ==
  ASSUME TypeInv, NEW d \in Client, MakePlan(d)
  PROVE  TypeInv'
<1>0. d \in Device /\ agent[d] \in Process /\ agent[d] \in Command /\ Peer(d) \in Device
  BY TwoDevices, SlotTyped, PeerIs
<1>1. files' \in [Device -> Manifest] /\ files'[Peer(d)] \in Manifest
  BY <1>0, ScannedTyped DEF MakePlan
<1>2. agent[d].lman \in Manifest
  BY <1>0 DEF Process
<1>3. plans' \in [Device -> 0..MaxPlans] /\ plans'[d] \in Nat
  <2>1. plans[d] \in 0..MaxPlans /\ plans[d] < MaxPlans
    BY <1>0 DEF MakePlan, TypeInv, Tables, Workers, PlansLeft
  <2>2. plans[d] + 1 \in 0..MaxPlans /\ plans[d] + 1 \in Nat
    BY <2>1, BoundAssumption
  <2> QED
    BY <1>0, <2>2 DEF MakePlan, TypeInv, Tables
<1>4. ops' \in [Device -> SUBSET Row]
  <2> DEFINE new == enqueue_sync_plan(ops[d],
                      plan_manifest_sync_for_mode(agent[d].lman, files'[Peer(d)], "Bidirectional"),
                      Peer(d), plans'[d])
  <2>1. new \in SUBSET Row
    BY <1>0, <1>1, <1>2, <1>3, EnqueueTyped DEF TypeInv, Tables
  <2>2. ops' = [ops EXCEPT ![d] = new]
    BY DEF MakePlan
  <2> HIDE DEF new
  <2> QED
    BY <2>1, <2>2 DEF TypeInv, Tables
<1>5. Surroundings'
  BY SurroundingsKept DEF MakePlan
<1> DEFINE r == SetPlan(agent[d], "queue", NoManifest)
<1>6. agent' = [agent EXCEPT ![d] = r]
  BY <1>0 DEF MakePlan, SetPlan, TypeInv, Workers
<1>7. NoManifest \in Manifest
  BY DEF NoManifest, Manifest
<1>8. r \in Command /\ r.slot = agent[d].slot /\ r.pc = "queue"
  <2>1. r \in Command
    BY <1>0, <1>7, SetPlanTyped
  <2>2. "queue" \in Pc
    BY DEF Pc
  <2> QED
    BY <1>0, <1>7, <2>1, <2>2, SetPlanFields
<1>9. Workers'
  <2>1. \A e \in Device \ {d} : plans'[e] = plans[e]
    BY DEF MakePlan, TypeInv, Tables
  <2> QED
    BY <1>0, <1>6, <1>8, <2>1, WorkersAgent DEF MakePlan
<1> QED
  BY <1>1, <1>3, <1>4, <1>5, <1>9 DEF TypeInv, Tables, MakePlan

\* Goto within a command.
LEMMA GotoStep ==
  ASSUME TypeInv, NEW d \in Client, NEW x \in Pc, Goto(d, x)
  PROVE  agent' = [agent EXCEPT ![d] = SetPc(agent[d], x)]
<1>1. d \in Device
  BY TwoDevices
<1> QED
  BY <1>1 DEF Goto, SetPc, TypeInv, Workers

LEMMA GotoType ==
  ASSUME TypeInv, NEW d \in Client, NEW x \in Pc, Goto(d, x), x # "fetch", x # "plan",
         x \in HoldsBody => agent[d].body \in Content, x \notin Erases,
         UNCHANGED <<task, plans>>
  PROVE  Workers'
<1>0. d \in Device /\ agent[d] \in Process /\ agent[d] \in Command
  BY TwoDevices, SlotTyped
<1>1. agent' = [agent EXCEPT ![d] = SetPc(agent[d], x)]
  BY GotoStep
<1>2. /\ SetPc(agent[d], x) \in Command
      /\ SetPc(agent[d], x).pc = x /\ SetPc(agent[d], x).slot = agent[d].slot
  BY <1>0, SetPcTyped, SetPcFields
<1> QED
  BY <1>0, <1>1, <1>2, WorkersAgent

\* BeginQueue and ExecuteQueue.
LEMMA QueueStartsType ==
  ASSUME TypeInv, NEW d \in Client, BeginQueue(d) \/ ExecuteQueue(d)
  PROVE  TypeInv'
<1>0. d \in Device
  BY TwoDevices
<1>1. Tables'
  BY <1>0, TablesScanned DEF BeginQueue, ExecuteQueue
<1>2. Surroundings'
  BY SurroundingsKept DEF BeginQueue, ExecuteQueue
<1>3. "manifest" \in Pc /\ "manifest" \notin HoldsBody /\ "manifest" \notin Erases
  BY DEF Pc, HoldsBody, Erases
<1>4. Workers'
  BY <1>3, GotoType DEF BeginQueue, ExecuteQueue
<1> QED
  BY <1>1, <1>2, <1>4 DEF TypeInv

\* The rows that ListBatch lists.
LEMMA BatchRows ==
  ASSUME TypeInv, NEW d \in Client, ListBatch(d)
  PROVE  \E down, up \in SUBSET Row :
           /\ down \subseteq ops[d] /\ \A o \in down : o.kind = "DownloadFromRemote"
           /\ up \subseteq ops[d] /\ \A o \in up : o.kind = "UploadToRemote"
           /\ files'[Peer(d)] \in Manifest
           /\ agent' = [agent EXCEPT ![d] = SetBatch(agent[d], files'[Peer(d)], down, up)]
<1>0. d \in Device /\ Peer(d) \in Device
  BY TwoDevices, PeerIs
<1>1. ops[d] \in SUBSET Row
  BY <1>0 DEF TypeInv, Tables
<1> DEFINE down == list_pending_operations(ops[d], Peer(d), "DownloadFromRemote", Limit)
           up == list_pending_operations(ops[d], Peer(d), "UploadToRemote", Limit - Cardinality(down))
<1>2. /\ down \subseteq ops[d] /\ \A o \in down : o.kind = "DownloadFromRemote"
      /\ up \subseteq ops[d] /\ \A o \in up : o.kind = "UploadToRemote"
  BY <1>1, ListedRows
<1>3. agent' = [agent EXCEPT ![d] = SetBatch(agent[d], files'[Peer(d)], down, up)]
  BY DEF ListBatch, SetBatch
<1>4. files'[Peer(d)] \in Manifest
  BY <1>0, ScannedTyped DEF ListBatch
<1> HIDE DEF down, up
<1> QED
  BY <1>1, <1>2, <1>3, <1>4

LEMMA ListBatchType ==
  ASSUME TypeInv, NEW d \in Client, ListBatch(d)
  PROVE  TypeInv'
<1>0. d \in Device /\ Peer(d) \in Device /\ agent[d] \in Process /\ agent[d] \in Command
  BY TwoDevices, PeerIs, SlotTyped
<1>1. Tables'
  BY <1>0, TablesScanned DEF ListBatch
<1>2. Surroundings'
  BY SurroundingsKept DEF ListBatch
<1>3. PICK down \in SUBSET Row, up \in SUBSET Row :
        /\ files'[Peer(d)] \in Manifest
        /\ agent' = [agent EXCEPT ![d] = SetBatch(agent[d], files'[Peer(d)], down, up)]
  BY BatchRows
<1> DEFINE r == SetBatch(agent[d], files'[Peer(d)], down, up)
<1>4. r \in Command /\ r.slot = agent[d].slot /\ r.pc = "next"
  BY <1>0, <1>3, SetBatchTyped, SetBatchFields
<1>5. Workers'
  BY <1>0, <1>3, <1>4, WorkersAgent DEF ListBatch
<1> QED
  BY <1>1, <1>2, <1>5 DEF TypeInv

LEMMA StartNextType ==
  ASSUME TypeInv, NEW d \in Client, NEW o, StartNext(d, o)
  PROVE  TypeInv'
<1>0. d \in Device /\ ops[d] \in SUBSET Row
  BY TwoDevices DEF TypeInv, Tables
<1>1. Tables'
  <2>1. Updated(ops[d], mark_sync_operation_started(ops[d], o.id))
    BY <1>0, StartedUpdates
  <2> QED
    BY <1>0, <2>1, TablesUpdated DEF StartNext
<1>2. Surroundings'
  BY SurroundingsKept DEF StartNext
<1>3. \A x \in {"download", "upload"} :
        x \in Pc /\ x \notin HoldsBody /\ x \notin Erases /\ x # "fetch" /\ x # "plan"
  BY DEF Pc, HoldsBody, Erases
<1>4. \E x \in {"download", "upload"} : Goto(d, x)
  BY DEF StartNext
<1>5. Workers'
  BY <1>3, <1>4, GotoType DEF StartNext
<1> QED
  BY <1>1, <1>2, <1>5 DEF TypeInv

\* The command ends.
LEMMA EndsType ==
  ASSUME TypeInv, NEW d \in Client, agent' = [agent EXCEPT ![d] = Idle], UNCHANGED <<task, plans>>
  PROVE  Workers'
<1>0. d \in Device
  BY TwoDevices
<1> QED
  BY <1>0, IdleTyped, WorkersAgent

LEMMA EndRunType ==
  ASSUME TypeInv, NEW d \in Client, EndRun(d)
  PROVE  TypeInv'
<1>1. Workers'
  BY EndsType DEF EndRun
<1> QED
  BY <1>1, SurroundingsKept DEF EndRun, TypeInv, Tables

LEMMA CheckDownloadType ==
  ASSUME TypeInv, NEW d \in Client, NEW o, CheckDownload(d, o)
  PROVE  TypeInv'
<1>0. d \in Device /\ agent[d] \in Process /\ agent[d] \in Command
  BY TwoDevices, SlotTyped
<1>1. o.path \in Path /\ Current(agent[d], o)
  BY <1>0, CurrentRow DEF CheckDownload
<1>2. Surroundings'
  BY SurroundingsKept DEF CheckDownload
<1>3. skipped' \in [Device -> SUBSET Path]
  <2>1. \/ skipped' = skipped
        \/ skipped' = [skipped EXCEPT ![d] = record_skipped_folder_limit(skipped[d], o.path)]
    BY DEF CheckDownload
  <2> QED
    BY <1>0, <1>1, <2>1 DEF TypeInv, Tables, record_skipped_folder_limit
<1>4. CASE Fail(d, o)
  <2>1. ops' \in [Device -> SUBSET Row] /\ Workers'
    BY <1>4, OutcomeTypes DEF CheckDownload
  <2> QED
    BY <1>2, <1>3, <2>1 DEF TypeInv, Tables, CheckDownload
<1>5. CASE /\ RemoteUnchanged(d, o)
           /\ agent' = [agent EXCEPT ![d].pc = "fetch", ![d].replace = disk[d][o.path] # NoFile]
           /\ UNCHANGED ops
  <2> DEFINE r == SetReplace(agent[d], disk[d][o.path] # NoFile)
  <2>1. agent' = [agent EXCEPT ![d] = r]
    BY <1>0, <1>5 DEF SetReplace, TypeInv, Workers
  <2>2. agent[d].rman[o.path] # NoRecord
    BY <1>5 DEF RemoteUnchanged
  <2>3. (disk[d][o.path] # NoFile) \in BOOLEAN
    OBVIOUS
  <2>4. r \in Command
    BY <1>0, <1>1, <2>2, <2>3, SetReplaceTyped
  <2>5. r.slot = agent[d].slot /\ r.pc = "fetch"
    BY <1>0, <2>3, SetReplaceFields
  <2> HIDE DEF r
  <2>6. Workers'
    BY <1>0, <2>1, <2>4, <2>5, WorkersAgent DEF CheckDownload
  <2> QED
    BY <1>2, <1>3, <1>5, <2>6 DEF TypeInv, Tables, CheckDownload
<1> QED
  BY <1>4, <1>5 DEF CheckDownload

\* A fetched version is the one that the peer's manifest showed.
LEMMA FetchedVersion ==
  ASSUME TypeInv, NEW d \in Client, NEW o, agent[d].pc = "fetch", IsCurrent(d, o)
  PROVE  agent[d].rman[o.path].hash \in Content
<1>0. d \in Device /\ agent[d] \in Process /\ agent[d] \in Command
  BY TwoDevices, SlotTyped
<1>1. o.path \in Path /\ Current(agent[d], o)
  BY <1>0, CurrentRow
<1>2. o \in Row
  BY <1>0, <1>1, CurrentPath
<1>3. agent[d].rman \in Manifest /\ agent[d].rman[o.path] # NoRecord
  BY <1>0, <1>1, <1>2 DEF Command, Process
<1> QED
  BY <1>1, <1>3 DEF Manifest, FileRecord

\* The step that Fetch takes when the right version has arrived.
LEMMA FetchStep ==
  ASSUME TypeInv, NEW d \in Client, NEW o, Fetch(d, o), ~Fail(d, o)
  PROVE  \E x \in {"remove", "publish"}, c \in Content :
           /\ c = agent[d].rman[o.path].hash /\ c = shared_file(files'[Peer(d)], o.path)
           /\ x = "remove" <=> agent[d].replace
           /\ agent' = [agent EXCEPT ![d] = SetBody(agent[d], x, c)] /\ UNCHANGED ops
<1>0. d \in Device
  BY TwoDevices
<1> DEFINE c == shared_file(files'[Peer(d)], o.path)
           x == IF agent[d].replace THEN "remove" ELSE "publish"
<1>1. /\ c = agent[d].rman[o.path].hash /\ UNCHANGED ops
      /\ agent' = [agent EXCEPT ![d].pc = x, ![d].body = c]
  BY DEF Fetch
<1>2. c \in Content
  BY <1>1, FetchedVersion DEF Fetch
<1>3. agent' = [agent EXCEPT ![d] = SetBody(agent[d], x, c)]
  <2> HIDE DEF c, x
  <2> QED
    BY <1>0, <1>1 DEF SetBody, TypeInv, Workers
<1>4. x \in {"remove", "publish"} /\ (x = "remove" <=> agent[d].replace)
  OBVIOUS
<1> HIDE DEF c, x
<1> QED
  BY <1>1, <1>2, <1>3, <1>4 DEF c

LEMMA FetchType ==
  ASSUME TypeInv, NEW d \in Client, NEW o, Fetch(d, o)
  PROVE  TypeInv'
<1>0. d \in Device /\ agent[d] \in Process /\ agent[d] \in Command /\ Peer(d) \in Device
  BY TwoDevices, SlotTyped, PeerIs
<1>1. files' \in [Device -> Manifest]
  BY <1>0, ScannedTyped DEF Fetch
<1>2. Surroundings'
  BY SurroundingsKept DEF Fetch
<1>3. CASE Fail(d, o)
  <2>1. ops' \in [Device -> SUBSET Row] /\ Workers'
    BY <1>3, OutcomeTypes DEF Fetch
  <2> QED
    BY <1>1, <1>2, <2>1 DEF TypeInv, Tables, Fetch
<1>4. CASE ~Fail(d, o)
  <2>1. PICK x \in {"remove", "publish"}, c \in Content :
          agent' = [agent EXCEPT ![d] = SetBody(agent[d], x, c)] /\ UNCHANGED ops
    BY <1>4, FetchStep
  <2>2. x \in Pc /\ x # "plan"
    BY DEF Pc
  <2> DEFINE r == SetBody(agent[d], x, c)
  <2>3. r \in Command /\ r.slot = agent[d].slot /\ r.pc = x
    BY <1>0, <2>2, SetBodyTyped, SetBodyFields
  <2>4. Workers'
    BY <1>0, <2>1, <2>2, <2>3, WorkersAgent DEF Fetch
  <2> QED
    BY <1>1, <1>2, <2>1, <2>4 DEF TypeInv, Tables, Fetch
<1> QED
  BY <1>3, <1>4

\* One file of a disk changes.
LEMMA DiskTyped ==
  ASSUME TypeInv, NEW d \in Device, NEW p \in Path, NEW v \in Content \cup {NoFile},
         disk' = [disk EXCEPT ![d][p] = v]
  PROVE  /\ disk' \in [Device -> [Path -> Content \cup {NoFile}]]
         /\ disk'[d][p] = v
         /\ \A e \in Device, q \in Path : e # d \/ q # p => disk'[e][q] = disk[e][q]
  BY DEF TypeInv, Surroundings

\* One file of a disk changes, not by the user's hand.
LEMMA SurroundingsChanged ==
  ASSUME TypeInv, NEW d \in Device, NEW p \in Path, NEW v \in Content \cup {NoFile},
         disk' = [disk EXCEPT ![d][p] = v], UNCHANGED <<user, edits, faults, size_limit>>
  PROVE  Surroundings'
<1>1. disk' \in [Device -> [Path -> Content \cup {NoFile}]]
  BY DiskTyped
<1> QED
  BY <1>1 DEF TypeInv, Surroundings, user

LEMMA RemoveReplacedType ==
  ASSUME TypeInv, NEW d \in Client, NEW o, RemoveReplaced(d, o)
  PROVE  TypeInv'
<1>0. d \in Device /\ agent[d] \in Process /\ agent[d] \in Command
  BY TwoDevices, SlotTyped
<1>1. o.path \in Path
  BY <1>0, CurrentRow DEF RemoveReplaced
<1>2. Surroundings'
  BY <1>0, <1>1, SurroundingsChanged DEF RemoveReplaced
<1>3. CASE Fail(d, o)
  <2>1. ops' \in [Device -> SUBSET Row] /\ Workers'
    BY <1>3, OutcomeTypes DEF RemoveReplaced
  <2> QED
    BY <1>2, <2>1 DEF TypeInv, Tables, RemoveReplaced
<1>4. CASE Goto(d, "publish") /\ UNCHANGED ops
  <2>1. agent[d].body \in Content
    BY <1>0 DEF RemoveReplaced, Command, HoldsBody
  <2>2. "publish" \in Pc /\ "publish" \notin Erases
    BY DEF Pc, Erases
  <2>3. Workers'
    BY <1>4, <2>1, <2>2, GotoType DEF RemoveReplaced
  <2> QED
    BY <1>2, <1>4, <2>3 DEF TypeInv, Tables, RemoveReplaced
<1> QED
  BY <1>3, <1>4 DEF RemoveReplaced

LEMMA PublishDownloadType ==
  ASSUME TypeInv, NEW d \in Client, NEW o, PublishDownload(d, o)
  PROVE  TypeInv'
<1>0. d \in Device /\ agent[d] \in Process /\ agent[d] \in Command
  BY TwoDevices, SlotTyped
<1>1. o.path \in Path
  BY <1>0, CurrentRow DEF PublishDownload
<1>2. agent[d].body \in Content
  BY <1>0 DEF PublishDownload, Command, HoldsBody
<1>3. Surroundings'
  BY <1>0, <1>1, <1>2, SurroundingsChanged DEF PublishDownload
<1>4. "index" \in Pc /\ "index" \notin Erases
  BY DEF Pc, Erases
<1>5. Workers'
  BY <1>2, <1>4, GotoType DEF PublishDownload
<1> QED
  BY <1>3, <1>5 DEF TypeInv, Tables, PublishDownload

LEMMA IndexDownloadType ==
  ASSUME TypeInv, NEW d \in Client, NEW o, IndexDownload(d, o)
  PROVE  TypeInv'
<1>0. d \in Device /\ agent[d] \in Process /\ agent[d] \in Command /\ files[d] \in Manifest
  BY TwoDevices, SlotTyped DEF TypeInv, Tables
<1>1. o.path \in Path
  BY <1>0, CurrentRow DEF IndexDownload
<1>2. agent[d].body \in Content
  BY <1>0 DEF IndexDownload, Command, HoldsBody
<1>3. upsert_file(files[d], o.path, agent[d].body) \in Manifest
  BY <1>0, <1>1, <1>2, UpsertTyped
<1>4. files' \in [Device -> Manifest]
  BY <1>3 DEF IndexDownload, TypeInv, Tables
<1>5. ops' \in [Device -> SUBSET Row] /\ Workers'
  BY OutcomeTypes DEF IndexDownload
<1> QED
  BY <1>4, <1>5, SurroundingsKept DEF TypeInv, Tables, IndexDownload

\* The step that CheckUpload takes when nothing is wrong.
LEMMA CheckUploadStep ==
  ASSUME TypeInv, NEW d \in Client, NEW o, CheckUpload(d, o), ~Fail(d, o)
  PROVE  \E x \in {"delete", "put"}, c \in Content :
           /\ x = "delete" => /\ RemoteTarget(d, o) # NoHash
                              /\ o.remote_content_hash = RemoteTarget(d, o)
           /\ agent' = [agent EXCEPT ![d] = SetBody(agent[d], x, c)] /\ UNCHANGED ops
<1>0. d \in Device /\ files[d] \in Manifest
  BY TwoDevices DEF TypeInv, Tables
<1>1. o.path \in Path
  BY <1>0, CurrentRow DEF CheckUpload
<1> DEFINE c == files[d][o.path].hash
           x == IF RemoteTarget(d, o) # NoHash THEN "delete" ELSE "put"
<1>2. /\ agent' = [agent EXCEPT ![d].pc = x, ![d].body = c]
      /\ UNCHANGED ops
      /\ LocalUnchanged(d, o)
      /\ x = "delete" => /\ RemoteTarget(d, o) # NoHash
                         /\ o.remote_content_hash = RemoteTarget(d, o)
  BY DEF CheckUpload
<1>3. c \in Content
  BY <1>0, <1>1, <1>2 DEF LocalUnchanged, Manifest, FileRecord
<1>4. x \in {"delete", "put"}
  OBVIOUS
<1>5. agent' = [agent EXCEPT ![d] = SetBody(agent[d], x, c)]
  <2> HIDE DEF c, x
  <2> QED
    BY <1>0, <1>2 DEF SetBody, TypeInv, Workers
<1> HIDE DEF c, x
<1> QED
  BY <1>2, <1>3, <1>4, <1>5

LEMMA CheckUploadType ==
  ASSUME TypeInv, NEW d \in Client, NEW o, CheckUpload(d, o)
  PROVE  TypeInv'
<1>0. d \in Device /\ agent[d] \in Process /\ agent[d] \in Command
  BY TwoDevices, SlotTyped
<1>1. Surroundings'
  BY SurroundingsKept DEF CheckUpload
<1>2. CASE Fail(d, o)
  <2>1. ops' \in [Device -> SUBSET Row] /\ Workers'
    BY <1>2, OutcomeTypes DEF CheckUpload
  <2> QED
    BY <1>1, <2>1 DEF TypeInv, Tables, CheckUpload
<1>3. CASE ~Fail(d, o)
  <2>1. PICK x \in {"delete", "put"}, c \in Content :
          agent' = [agent EXCEPT ![d] = SetBody(agent[d], x, c)] /\ UNCHANGED ops
    BY <1>3, CheckUploadStep
  <2>2. x \in Pc /\ x # "plan"
    BY DEF Pc
  <2> DEFINE r == SetBody(agent[d], x, c)
  <2>3. r \in Command /\ r.slot = agent[d].slot /\ r.pc = x
    BY <1>0, <2>2, SetBodyTyped, SetBodyFields
  <2>4. Workers'
    BY <1>0, <2>1, <2>2, <2>3, WorkersAgent DEF CheckUpload
  <2> QED
    BY <1>1, <2>1, <2>4 DEF TypeInv, Tables, CheckUpload
<1> QED
  BY <1>2, <1>3

\* A command sends a request and waits for its task.
LEMMA RequestType ==
  ASSUME TypeInv, NEW d \in Client, NEW s \in Slot, NEW kind \in {"put", "delete"},
         NEW path \in Path, NEW hash \in Content \cup {NoHash}, kind = "put" => hash \in Content,
         NEW x \in {"delete_wait", "put_wait", "erase_wait"},
         agent' = [agent EXCEPT ![d] = SetSlot(agent[d], x, s)],
         task[s] = FreeSlot, task' = [task EXCEPT ![s] = Received(d, kind, path, hash)],
         UNCHANGED plans,
         x = "delete_wait" => agent[d].body \in Content,
         x = "erase_wait" => agent[d].erase \in Path
  PROVE  Workers'
<1>0. d \in Device /\ agent[d] \in Process /\ agent[d] \in Command
  BY TwoDevices, SlotTyped
<1>1. /\ x \in Pc /\ x # "fetch" /\ x # "plan"
      /\ (x \in HoldsBody => x = "delete_wait") /\ (x \in Erases => x = "erase_wait")
  BY DEF Pc, HoldsBody, Erases
<1> DEFINE r == SetSlot(agent[d], x, s)
<1>3. s \in Slot \cup {0}
  OBVIOUS
<1>4. r \in Command
  BY <1>0, <1>1, <1>3, SetSlotTyped
<1>5. r.slot = s /\ r.pc = x
  BY <1>0, <1>1, <1>3, SetSlotFields
<1> DEFINE t == Received(d, kind, path, hash)
<1>6. t \in Job /\ t.client = d /\ t.stage = "received"
  BY <1>0, ReceivedTyped
<1> HIDE DEF r, t
<1> QED
  BY <1>1, <1>4, <1>5, <1>6, WorkersRequest DEF r, t

\* The target of an upload has a hash or is not there.
LEMMA TargetTyped ==
  ASSUME TypeInv, NEW d \in Client, NEW o, IsCurrent(d, o)
  PROVE  RemoteTarget(d, o) \in Content \cup {NoHash}
<1>0. d \in Device /\ agent[d] \in Process
  BY TwoDevices, SlotTyped
<1>1. o.path \in Path
  BY <1>0, CurrentRow
<1>2. agent[d].rman \in Manifest
  BY <1>0 DEF Process
<1> QED
  BY <1>1, <1>2 DEF RemoteTarget, Manifest, FileRecord

LEMMA SendDeleteStep ==
  ASSUME TypeInv, NEW d \in Client, NEW o, NEW s \in Slot, SendDelete(d, o, s)
  PROVE  /\ Workers'
         /\ agent' = [agent EXCEPT ![d] = SetSlot(agent[d], "delete_wait", s)]
         /\ task[s] = FreeSlot
         /\ task' = [task EXCEPT ![s] = Received(d, "delete", o.path, RemoteTarget(d, o))]
<1>0. d \in Device /\ agent[d] \in Command
  BY TwoDevices, SlotTyped
<1>1. o.path \in Path /\ RemoteTarget(d, o) \in Content \cup {NoHash}
  BY <1>0, CurrentRow, TargetTyped DEF SendDelete
<1>2. agent[d].body \in Content
  BY <1>0 DEF SendDelete, Command, HoldsBody
<1>3. /\ Request(d, s, "delete", o.path, RemoteTarget(d, o)) /\ UNCHANGED plans
      /\ agent' = [agent EXCEPT ![d].pc = "delete_wait", ![d].slot = s]
  BY DEF SendDelete
<1>4. /\ agent' = [agent EXCEPT ![d] = SetSlot(agent[d], "delete_wait", s)] /\ task[s] = FreeSlot
      /\ task' = [task EXCEPT ![s] = Received(d, "delete", o.path, RemoteTarget(d, o))]
  BY <1>0, <1>3 DEF Request, Received, SetSlot, TypeInv, Workers
<1> QED
  BY <1>1, <1>2, <1>3, <1>4, RequestType

LEMMA SendDeleteType ==
  ASSUME TypeInv, NEW d \in Client, NEW o, NEW s \in Slot, SendDelete(d, o, s)
  PROVE  TypeInv'
  BY SendDeleteStep, SurroundingsKept DEF TypeInv, Tables, SendDelete

LEMMA SendPutStep ==
  ASSUME TypeInv, NEW d \in Client, NEW o, NEW s \in Slot, SendPut(d, o, s), ~Fail(d, o)
  PROVE  /\ Workers' /\ UNCHANGED ops
         /\ agent' = [agent EXCEPT ![d] = SetSlot(agent[d], "put_wait", s)]
         /\ task[s] = FreeSlot
         /\ task' = [task EXCEPT ![s] = Received(d, "put", o.path, agent[d].body)]
         /\ agent[d].body \in Content /\ disk[d][o.path] = agent[d].body
<1>0. d \in Device /\ agent[d] \in Command
  BY TwoDevices, SlotTyped
<1>1. o.path \in Path
  BY <1>0, CurrentRow DEF SendPut
<1>2. agent[d].body \in Content
  BY <1>0 DEF SendPut, Command, HoldsBody
<1>3. /\ Request(d, s, "put", o.path, agent[d].body) /\ UNCHANGED <<plans, ops>>
      /\ agent' = [agent EXCEPT ![d].pc = "put_wait", ![d].slot = s]
      /\ disk[d][o.path] = agent[d].body
  BY DEF SendPut
<1>4. /\ agent' = [agent EXCEPT ![d] = SetSlot(agent[d], "put_wait", s)] /\ task[s] = FreeSlot
      /\ task' = [task EXCEPT ![s] = Received(d, "put", o.path, agent[d].body)]
  BY <1>0, <1>3 DEF Request, Received, SetSlot, TypeInv, Workers
<1> QED
  BY <1>1, <1>2, <1>3, <1>4, RequestType

LEMMA SendPutType ==
  ASSUME TypeInv, NEW d \in Client, NEW o, NEW s \in Slot, SendPut(d, o, s)
  PROVE  TypeInv'
<1>1. Surroundings'
  BY SurroundingsKept DEF SendPut
<1>2. CASE Fail(d, o) /\ UNCHANGED task
  <2>1. ops' \in [Device -> SUBSET Row] /\ Workers'
    BY <1>2, OutcomeTypes DEF SendPut
  <2> QED
    BY <1>1, <2>1 DEF TypeInv, Tables, SendPut
<1>3. CASE ~Fail(d, o)
  BY <1>1, <1>3, SendPutStep DEF TypeInv, Tables, SendPut
<1>4. CASE Fail(d, o) /\ UNCHANGED ops
  <2>1. Fail(d, o) /\ SendPut(d, o, s)
    BY <1>4
  <2>2. ops' = [ops EXCEPT ![d] = mark_sync_operation_failed(ops[d], o.id)]
    BY <1>4 DEF Fail
  <2>3. agent' = [agent EXCEPT ![d] = SetNext(agent[d], o)] /\ SetNext(agent[d], o).pc = "next"
    BY <1>4, OutcomeStep
  <2>4. \/ UNCHANGED task
        \/ agent' = [agent EXCEPT ![d].pc = "put_wait", ![d].slot = s]
    BY DEF SendPut
  <2>5. d \in Device /\ agent \in [Device -> Command] /\ agent[d] \in Process
    BY TwoDevices, SlotTyped DEF TypeInv, Workers
  <2>6. CASE agent' = [agent EXCEPT ![d].pc = "put_wait", ![d].slot = s]
    <3>1. agent' = [agent EXCEPT ![d] = SetSlot(agent[d], "put_wait", s)]
      BY <2>5, <2>6 DEF SetSlot
    <3>2. "put_wait" \in Pc /\ s \in Slot \cup {0}
      BY DEF Pc
    <3>3. SetSlot(agent[d], "put_wait", s).pc = "put_wait"
      BY <2>5, <3>2, SetSlotFields
    <3>4. SetSlot(agent[d], "put_wait", s) = SetNext(agent[d], o)
      BY <2>3, <2>5, <3>1
    <3> QED
      BY <2>3, <3>3, <3>4
  <2> QED
    BY <1>2, <1>4, <2>4, <2>6
<1> QED
  BY <1>2, <1>3, <1>4 DEF SendPut

\* The steps that Answer takes.
LEMMA AnswerStep ==
  ASSUME TypeInv, NEW d \in Client, NEW o, Answer(d, o)
  PROVE  /\ task' = [task EXCEPT ![agent[d].slot] = FreeSlot]
         /\ \/ Fail(d, o) \/ Finish(d, o)
            \/ /\ agent' = [agent EXCEPT ![d] = SetSlot(agent[d], "put", 0)] /\ UNCHANGED ops
               /\ agent[d].pc = "delete_wait"
<1>0. d \in Device
  BY TwoDevices
<1>1. agent' = [agent EXCEPT ![d].pc = "put", ![d].slot = 0] =>
        agent' = [agent EXCEPT ![d] = SetSlot(agent[d], "put", 0)]
  BY <1>0 DEF SetSlot, TypeInv, Workers
<1> QED
  BY <1>1 DEF Answer

LEMMA AnswerType ==
  ASSUME TypeInv, NEW d \in Client, NEW o, Answer(d, o)
  PROVE  TypeInv'
<1>0. d \in Device /\ agent[d] \in Process /\ agent[d] \in Command
  BY TwoDevices, SlotTyped
<1>1. Surroundings' /\ UNCHANGED <<files, skipped, plans>>
  BY SurroundingsKept DEF Answer
<1>2. CASE Fail(d, o) \/ Finish(d, o)
  <2>1. ops' \in [Device -> SUBSET Row] /\ Workers'
    BY <1>1, <1>2, AnswerStep, OutcomeReleases
  <2> QED
    BY <1>1, <2>1 DEF TypeInv, Tables
<1>3. CASE /\ agent' = [agent EXCEPT ![d] = SetSlot(agent[d], "put", 0)] /\ UNCHANGED ops
           /\ agent[d].pc = "delete_wait"
  <2>1. "put" \in Pc /\ "put" \notin Erases /\ 0 \in Slot \cup {0} /\ agent[d].body \in Content
    BY <1>0, <1>3 DEF Pc, Erases, HoldsBody, Command
  <2> DEFINE r == SetSlot(agent[d], "put", 0)
  <2>2. r \in Command
    BY <1>0, <2>1, SetSlotTyped
  <2>3. r.slot = 0 /\ r.pc = "put"
    BY <1>0, <2>1, SetSlotFields
  <2> HIDE DEF r
  <2>4. Workers'
    BY <1>1, <1>3, <2>2, <2>3, AnswerStep, WorkersRelease DEF r
  <2> QED
    BY <1>1, <1>3, <2>4 DEF TypeInv, Tables
<1> QED
  BY <1>2, <1>3, AnswerStep

LEMMA EndDeleteLocalType ==
  ASSUME TypeInv, NEW d \in Client, EndDeleteLocal(d)
  PROVE  TypeInv'
<1>0. d \in Device /\ agent[d] \in Command /\ files[d] \in Manifest
  BY TwoDevices, SlotTyped DEF TypeInv, Tables
<1>1. agent[d].erase \in Path
  BY <1>0 DEF EndDeleteLocal, Command, Erases
<1>2. mark_file_deleted_locally(files[d], agent[d].erase) \in Manifest
  BY <1>0, <1>1, ForgetTyped
<1>3. files' \in [Device -> Manifest]
  BY <1>2 DEF EndDeleteLocal, TypeInv, Tables
<1>4. Workers'
  BY EndsType DEF EndDeleteLocal
<1> QED
  BY <1>3, <1>4, SurroundingsKept DEF TypeInv, Tables, EndDeleteLocal

LEMMA SendEraseStep ==
  ASSUME TypeInv, NEW d \in Client, NEW s \in Slot, SendErase(d, s)
  PROVE  /\ Workers'
         /\ agent' = [agent EXCEPT ![d] = SetSlot(agent[d], "erase_wait", s)]
         /\ task[s] = FreeSlot
         /\ task' = [task EXCEPT ![s] = Received(d, "delete", agent[d].erase, agent[d].body)]
         /\ agent[d].erase \in Path /\ agent[d].body \in Content
<1>0. d \in Device /\ agent[d] \in Command
  BY TwoDevices, SlotTyped
<1>1. agent[d].erase \in Path /\ agent[d].body \in Content
  BY <1>0 DEF SendErase, Command, Erases, HoldsBody
<1>2. /\ Request(d, s, "delete", agent[d].erase, agent[d].body) /\ UNCHANGED plans
      /\ agent' = [agent EXCEPT ![d].pc = "erase_wait", ![d].slot = s]
  BY DEF SendErase
<1>3. /\ agent' = [agent EXCEPT ![d] = SetSlot(agent[d], "erase_wait", s)] /\ task[s] = FreeSlot
      /\ task' = [task EXCEPT ![s] = Received(d, "delete", agent[d].erase, agent[d].body)]
  BY <1>0, <1>2 DEF Request, Received, SetSlot, TypeInv, Workers
<1> QED
  BY <1>1, <1>2, <1>3, RequestType

LEMMA SendEraseType ==
  ASSUME TypeInv, NEW d \in Client, NEW s \in Slot, SendErase(d, s)
  PROVE  TypeInv'
  BY SendEraseStep, SurroundingsKept DEF TypeInv, Tables, SendErase

LEMMA EndDeleteBothType ==
  ASSUME TypeInv, NEW d \in Client, EndDeleteBoth(d)
  PROVE  TypeInv'
<1>0. d \in Device /\ agent[d] \in Command /\ files[d] \in Manifest
  BY TwoDevices, SlotTyped DEF TypeInv, Tables
<1>1. agent[d].erase \in Path
  BY <1>0 DEF EndDeleteBoth, Command, Erases
<1>2. forget_file(files[d], agent[d].erase) \in Manifest
  BY <1>0, <1>1, ForgetTyped
<1>3. files' \in [Device -> Manifest]
  BY <1>2 DEF EndDeleteBoth, TypeInv, Tables
<1>4. Workers'
  BY IdleTyped, WorkersRelease DEF EndDeleteBoth
<1> QED
  BY <1>3, <1>4, SurroundingsKept DEF TypeInv, Tables, EndDeleteBoth

\* A task goes on or has its answer.
LEMMA StepsType ==
  ASSUME TypeInv, NEW s \in Slot, NEW x \in {"checked", "published", "removed"},
         task' = [task EXCEPT ![s].stage = x] \/ Reply(s, "refused") \/ Reply(s, "accepted"),
         UNCHANGED <<agent, plans>>
  PROVE  Workers'
<1>1. /\ x \in Stage /\ x # "free"
      /\ "refused" \in Stage /\ "accepted" \in Stage
  BY DEF Stage
<1>2. CASE task' = [task EXCEPT ![s].stage = x]
  <2>1. task' = [task EXCEPT ![s] = SetStage(task[s], x)]
    BY <1>2 DEF SetStage, TypeInv, Workers
  <2> QED
    BY <1>1, <2>1, WorkersStage
<1>3. CASE Reply(s, "refused") \/ Reply(s, "accepted")
  BY <1>1, <1>3, WorkersReply
<1> QED
  BY <1>2, <1>3

\* A task that runs knows its device, its path and its version.
LEMMA JobFields ==
  ASSUME TypeInv, NEW s \in Slot, task[s].kind \in {"put", "delete"}
  PROVE  /\ task[s] \in Job /\ task[s] \in Task
         /\ task[s].server \in Device /\ task[s].path \in Path
         /\ task[s].hash \in Content \cup {NoHash}
         /\ task[s].kind = "put" => task[s].hash \in Content
<1>1. task[s] \in Job /\ task[s] \in Task
  BY DEF TypeInv, Workers, Job
<1> QED
  BY <1>1 DEF Job, Task

LEMMA CheckPutType ==
  ASSUME TypeInv, NEW s \in Slot, CheckPut(s)
  PROVE  TypeInv'
<1>1. Workers'
  BY StepsType DEF CheckPut
<1> QED
  BY <1>1, SurroundingsKept DEF TypeInv, Tables, CheckPut

LEMMA PublishPutType ==
  ASSUME TypeInv, NEW s \in Slot, PublishPut(s)
  PROVE  TypeInv'
<1>1. Workers'
  BY StepsType DEF PublishPut
<1>2. task[s].server \in Device /\ task[s].path \in Path /\ task[s].hash \in Content
  BY JobFields DEF PublishPut
<1>3. Surroundings'
  BY <1>2, SurroundingsChanged DEF PublishPut
<1> QED
  BY <1>1, <1>3 DEF TypeInv, Tables, PublishPut

LEMMA IndexPutType ==
  ASSUME TypeInv, NEW s \in Slot, IndexPut(s)
  PROVE  TypeInv'
<1>1. Workers'
  BY StepsType DEF IndexPut
<1>2. task[s].server \in Device /\ task[s].path \in Path /\ task[s].hash \in Content
  BY JobFields DEF IndexPut
<1>3. upsert_file(files[task[s].server], task[s].path, task[s].hash) \in Manifest
  BY <1>2, UpsertTyped DEF TypeInv, Tables
<1>4. files' \in [Device -> Manifest]
  BY <1>3 DEF IndexPut, TypeInv, Tables
<1> QED
  BY <1>1, <1>4, SurroundingsKept DEF TypeInv, Tables, IndexPut

LEMMA CheckDeleteType ==
  ASSUME TypeInv, NEW s \in Slot, CheckDelete(s)
  PROVE  TypeInv'
<1>1. Workers'
  BY StepsType DEF CheckDelete
<1>2. task[s].server \in Device
  BY JobFields DEF CheckDelete
<1>3. Tables'
  BY <1>2, TablesScanned DEF CheckDelete
<1> QED
  BY <1>1, <1>3, SurroundingsKept DEF TypeInv, CheckDelete

LEMMA RemoveDeleteType ==
  ASSUME TypeInv, NEW s \in Slot, RemoveDelete(s)
  PROVE  TypeInv'
<1>1. Workers'
  BY StepsType DEF RemoveDelete
<1>2. task[s].server \in Device /\ task[s].path \in Path
  BY JobFields DEF RemoveDelete
<1>3. Surroundings'
  BY <1>2, SurroundingsChanged DEF RemoveDelete
<1> QED
  BY <1>1, <1>3 DEF TypeInv, Tables, RemoveDelete

LEMMA ForgetDeleteType ==
  ASSUME TypeInv, NEW s \in Slot, ForgetDelete(s)
  PROVE  TypeInv'
<1>1. Workers'
  BY StepsType DEF ForgetDelete
<1>2. task[s].server \in Device /\ task[s].path \in Path
  BY JobFields DEF ForgetDelete
<1>3. forget_file(files[task[s].server], task[s].path) \in Manifest
  BY <1>2, ForgetTyped DEF TypeInv, Tables
<1>4. files' \in [Device -> Manifest]
  BY <1>3 DEF ForgetDelete, TypeInv, Tables
<1> QED
  BY <1>1, <1>4, SurroundingsKept DEF TypeInv, Tables, ForgetDelete

\* A fault is counted.
LEMMA FaultCounted ==
  ASSUME TypeInv, faults < MaxFaults, faults' = faults + 1, UNCHANGED <<disk, user, edits, size_limit>>
  PROVE  Surroundings'
<1>1. faults' \in 0..MaxFaults
  BY BoundAssumption DEF TypeInv, Surroundings
<1> QED
  BY <1>1 DEF TypeInv, Surroundings, user

LEMMA TransferTimesOutType ==
  ASSUME TypeInv, NEW d \in Client, NEW o, TransferTimesOut(d, o)
  PROVE  TypeInv'
<1>1. ops' \in [Device -> SUBSET Row] /\ Workers'
  BY OutcomeReleases DEF TransferTimesOut
<1>2. Surroundings'
  BY FaultCounted DEF TransferTimesOut
<1> QED
  BY <1>1, <1>2 DEF TypeInv, Tables, TransferTimesOut

LEMMA AgentStopsType ==
  ASSUME TypeInv, NEW d \in Client, AgentStops(d)
  PROVE  TypeInv'
<1>1. Workers'
  BY IdleTyped, WorkersAbandon DEF AgentStops
<1>2. Surroundings'
  BY FaultCounted DEF AgentStops
<1> QED
  BY <1>1, <1>2 DEF TypeInv, Tables, AgentStops

\* What a stop of a server does to a slot.
LEMMA ServerStopsStep ==
  ASSUME TypeInv, NEW e, ServerStops(e), NEW s \in Slot
  PROVE  \/ task'[s] = task[s]
         \/ task'[s] = SetStage(task[s], "refused") /\ Awaited(s)
         \/ task'[s] = FreeSlot /\ ~Awaited(s)
  BY DEF ServerStops, SetStage

LEMMA ServerStopsType ==
  ASSUME TypeInv, NEW e, ServerStops(e)
  PROVE  TypeInv'
<1>1. \A s \in Slot : task[s] \in Job /\ task[s] \in Task
  BY DEF TypeInv, Workers, Job
<1>2. "refused" \in Stage
  BY DEF Stage
<1>3. \A s \in Slot : /\ SetStage(task[s], "refused") \in Job
                      /\ SetStage(task[s], "refused").stage = "refused"
                      /\ SetStage(task[s], "refused").client = task[s].client
  BY <1>1, <1>2, SetStageTyped, SetStageFields
<1>4. \A s \in Slot : task'[s] \in Job
  BY <1>1, <1>3, FreeTyped, ServerStopsStep
<1>5. task' \in [Slot -> Job]
  <2>1. task' = [s \in Slot |-> task'[s]]
    BY DEF ServerStops
  <2> QED
    BY <1>4, <2>1
<1>6. Waits'
  <2> SUFFICES ASSUME NEW d \in Client, agent[d].slot # 0
               PROVE  task'[agent[d].slot].stage # "free" /\ task'[agent[d].slot].client = d
    BY DEF Waits, ServerStops
  <2>1. agent[d].slot \in Slot /\ Awaited(agent[d].slot)
    BY SlotTyped, TwoDevices DEF Awaited
  <2>2. task[agent[d].slot].stage # "free" /\ task[agent[d].slot].client = d
    BY DEF TypeInv, Workers, Waits
  <2> QED
    BY <1>3, <2>1, <2>2, ServerStopsStep
<1>7. Workers'
  BY <1>5, <1>6 DEF TypeInv, Workers, PlansLeft, ServerStops
<1>8. Surroundings'
  BY FaultCounted DEF ServerStops
<1> QED
  BY <1>7, <1>8 DEF TypeInv, Tables, ServerStops

\* The workers rest.
LEMMA WorkersKept ==
  ASSUME TypeInv, UNCHANGED <<agent, task, plans>>
  PROVE  Workers'
  BY DEF TypeInv, Workers, Waits, PlansLeft

LEMMA EditType ==
  ASSUME TypeInv, NEW d \in Device, NEW p \in Path, NEW v \in Content \cup {NoFile}, Edit(d, p, v)
  PROVE  TypeInv'
<1>1. Workers'
  BY WorkersKept DEF Edit
<1>2. disk' \in [Device -> [Path -> Content \cup {NoFile}]]
  BY DiskTyped DEF Edit
<1>3. exposed' \subseteq Device \X Path \X Content
  <2>1. exposed' = exposed \/ (v \in Content /\ exposed' = exposed \cup {<<d, p, v>>})
    BY DEF Edit
  <2> QED
    BY <2>1 DEF TypeInv, Surroundings
<1>4. versions' \subseteq Path \X Content
  <2>1. versions' = versions \/ (v \in Content /\ versions' = versions \cup {<<p, v>>})
    BY DEF Edit
  <2> QED
    BY <2>1 DEF TypeInv, Surroundings
<1>5. edits' \in 0..MaxEdits
  BY BoundAssumption DEF TypeInv, Surroundings, Edit
<1> QED
  BY <1>1, <1>2, <1>3, <1>4, <1>5 DEF TypeInv, Tables, Surroundings, Edit

LEMMA RetryType ==
  ASSUME TypeInv, NEW d \in Client, Retry(d)
  PROVE  TypeInv'
<1>0. d \in Device /\ ops[d] \in SUBSET Row
  BY TwoDevices DEF TypeInv, Tables
<1>1. Updated(ops[d], retry_failed_sync_operations(ops[d], Device))
  BY <1>0, RetryUpdates
<1>2. Tables'
  BY <1>0, <1>1, TablesUpdated DEF Retry
<1> QED
  BY <1>2, WorkersKept, SurroundingsKept DEF TypeInv, Retry

LEMMA ResolveType ==
  ASSUME TypeInv, NEW d \in Client, NEW o \in ops[d], NEW k \in BlockedOperationResolution,
         Resolve(d, o, k)
  PROVE  TypeInv'
<1>0. d \in Device /\ ops[d] \in SUBSET Row /\ Peer(d) \in Device
  BY TwoDevices, PeerIs DEF TypeInv, Tables
<1>1. resolve_update(ops[d], o.id, k) \in SUBSET Row
  BY <1>0, ResolveTyped
<1>2. ops' \in [Device -> SUBSET Row]
  BY <1>1 DEF Resolve, TypeInv, Tables
<1>3. /\ o.path \in Path /\ o.local_content_hash \in Content \cup {NoHash}
      /\ o.remote_content_hash \in Content \cup {NoHash}
  BY <1>0 DEF Row, SyncOperationRecord
<1>4. approved' \subseteq Device \X Path \X (Content \cup {NoHash})
  <2>1. \/ approved' = approved \cup {<<d, o.path, o.local_content_hash>>}
        \/ approved' = approved \cup {<<Peer(d), o.path, o.remote_content_hash>>}
    BY DEF Resolve
  <2> QED
    BY <1>0, <1>3, <2>1 DEF TypeInv, Surroundings
<1>5. Workers'
  BY WorkersKept DEF Resolve
<1> QED
  BY <1>2, <1>4, <1>5 DEF TypeInv, Tables, Surroundings, Resolve

LEMMA DeleteFileType ==
  ASSUME TypeInv, NEW d \in Client, NEW p \in Path, NEW scope \in {"LocalOnly", "PropagateToPeers"},
         DeleteFile(d, p, scope)
  PROVE  /\ TypeInv' /\ files[d][p].hash \in Content
         /\ agent' = [agent EXCEPT ![d] = SetErase(agent[d], scope, p, files[d][p].hash)]
<1>0. d \in Device /\ agent[d] \in Command /\ agent[d] \in Process /\ Peer(d) \in Device /\ files[d] \in Manifest
  BY TwoDevices, SlotTyped, PeerIs DEF TypeInv, Tables
<1> DEFINE c == files[d][p].hash
<1>1. c \in Content
  BY <1>0 DEF DeleteFile, Manifest, FileRecord
<1> DEFINE r == SetErase(agent[d], scope, p, c)
<1>2. agent' = [agent EXCEPT ![d] = r]
  BY <1>0 DEF DeleteFile, SetErase, TypeInv, Workers
<1>3. scope \in Pc /\ scope # "plan"
  BY DEF Pc
<1>4. r \in Command
  BY <1>0, <1>1, SetEraseTyped
<1>5. r.slot = agent[d].slot /\ r.pc = scope
  <2> HIDE DEF c
  <2> QED
    BY <1>0, <1>1, <1>3, SetEraseFields
<1>6. Workers'
  <2> HIDE DEF r
  <2> QED
    BY <1>0, <1>2, <1>3, <1>4, <1>5, WorkersAgent DEF DeleteFile
<1>7. disk' \in [Device -> [Path -> Content \cup {NoFile}]]
  BY <1>0, DiskTyped DEF DeleteFile
<1>8. approved' \subseteq Device \X Path \X (Content \cup {NoHash})
  <2>1. approved' = approved \/ approved' = approved \cup {<<Peer(d), p, c>>}
    BY DEF DeleteFile
  <2> HIDE DEF c
  <2> QED
    BY <1>0, <1>1, <2>1 DEF TypeInv, Surroundings
<1>9. edits' \in 0..MaxEdits
  BY BoundAssumption DEF TypeInv, Surroundings, DeleteFile
<1>10. TypeInv'
  BY <1>6, <1>7, <1>8, <1>9 DEF TypeInv, Tables, Surroundings, DeleteFile
<1> QED
  BY <1>1, <1>2, <1>10

\* The two folders before the first command.
LEMMA InitType == Init => TypeInv
<1> SUFFICES ASSUME Init PROVE TypeInv
  OBVIOUS
<1>1. NoManifest \in Manifest
  BY DEF NoManifest, Manifest
<1>2. Tables
  BY <1>1, BoundAssumption DEF Init, Tables
<1>3. Surroundings
  BY BoundAssumption DEF Init, Surroundings
<1>4. agent \in [Device -> Command] /\ task \in [Slot -> Job]
  BY IdleTyped, FreeTyped DEF Init
<1>5. \A d \in Client : agent[d] = Idle
  BY TwoDevices DEF Init
<1>6. Workers
  BY <1>4, <1>5, IdleTyped DEF Workers, Waits, PlansLeft
<1> QED
  BY <1>2, <1>3, <1>6 DEF TypeInv

\* Every step of the system keeps the types.
LEMMA NextType == TypeInv /\ [Next]_vars => TypeInv'
<1> SUFFICES ASSUME TypeInv, [Next]_vars PROVE TypeInv'
  OBVIOUS
<1>1. ASSUME NEW d \in Client, Cycle(d) PROVE TypeInv'
  <2>1. CASE Transfer(d)
    <3>1. PICK o : \/ StartNext(d, o)
                   \/ CheckDownload(d, o) \/ Fetch(d, o) \/ RemoveReplaced(d, o)
                   \/ PublishDownload(d, o) \/ IndexDownload(d, o)
                   \/ CheckUpload(d, o) \/ Answer(d, o)
                   \/ \E s \in Slot : SendDelete(d, o, s) \/ SendPut(d, o, s)
      BY <2>1 DEF Transfer
    <3> QED
      BY <3>1, StartNextType, CheckDownloadType, FetchType, RemoveReplacedType,
         PublishDownloadType, IndexDownloadType, CheckUploadType, AnswerType,
         SendDeleteType, SendPutType
  <2>2. CASE \/ BeginPlan(d) \/ MakePlan(d) \/ BeginQueue(d) \/ ListBatch(d) \/ EndRun(d)
             \/ EndDeleteLocal(d) \/ (\E s \in Slot : SendErase(d, s)) \/ EndDeleteBoth(d)
    BY <2>2, BeginPlanType, MakePlanType, QueueStartsType, ListBatchType, EndRunType,
       EndDeleteLocalType, SendEraseType, EndDeleteBothType
  <2> QED
    BY <1>1, <2>1, <2>2 DEF Cycle
<1>2. ASSUME NEW s \in Slot, Serve(s) PROVE TypeInv'
  BY <1>2, CheckPutType, PublishPutType, IndexPutType, CheckDeleteType, RemoveDeleteType,
     ForgetDeleteType DEF Serve
<1>3. CASE User
  <2>1. ASSUME NEW d \in Device, NEW p \in Path, NEW v \in Content \cup {NoFile}, Edit(d, p, v)
        PROVE  TypeInv'
    BY <2>1, EditType
  <2>2. ASSUME NEW d \in Client,
               \/ Retry(d) \/ ExecuteQueue(d)
               \/ \E o \in ops[d], k \in BlockedOperationResolution : Resolve(d, o, k)
               \/ \E p \in Path, scope \in {"LocalOnly", "PropagateToPeers"} : DeleteFile(d, p, scope)
        PROVE  TypeInv'
    BY <2>2, RetryType, QueueStartsType, ResolveType, DeleteFileType
  <2> QED
    BY <1>3, <2>1, <2>2 DEF User
<1>4. CASE Fault
  BY <1>4, AgentStopsType, TransferTimesOutType, ServerStopsType DEF Fault
<1>5. CASE UNCHANGED vars
  BY <1>5, WorkersKept, SurroundingsKept DEF vars, user, TypeInv, Tables
<1> QED
  BY <1>1, <1>2, <1>3, <1>4, <1>5 DEF Next

\* The types hold in every state.
THEOREM TypesKept == Spec => []TypeInv
  BY InitType, NextType, PTL DEF Spec

\* For any number of clients and server tasks, whatever overlaps, fails or is
\* given up: the tables of both devices and the history keep their types, and a
\* client that waits for an answer (delete_file, put_file_from_path) waits for
\* the task that serves its own request.
THEOREM TypeCorrect == Spec => []TypeOK
<1>1. TypeInv => TypeOK
  <2> SUFFICES ASSUME TypeInv PROVE TypeOK
    OBVIOUS
  <2>1. \A d \in Device : ops[d] \subseteq SyncOperationRecord
    BY DEF TypeInv, Tables, Row
  <2>2. \A d \in Client : agent[d].slot # 0 => task[agent[d].slot].client = d
    BY DEF TypeInv, Workers, Waits
  <2> QED
    BY <2>1, <2>2 DEF TypeOK, TypeInv, Tables, Surroundings
<1> QED
  BY <1>1, TypesKept, PTL

-----------------------------------------------------------------------------
(* One agent, one task at a time *)

OneClientOneTask == (\E d \in Device : Client = {d}) /\ (\E s \in Slot : Slot = {s})

\* Versions on the disks are versions that the user made.
Known == \A d \in Device, p \in Path : disk[d][p] # NoFile => <<p, disk[d][p]>> \in versions

\* A version that a transfer replaces is one that the user has given up: the
\* planner leaves the hash of the receiving side empty.
Consented(d, o) ==
  /\ o.kind = "UploadToRemote" /\ o.remote_content_hash # NoHash
       => <<Peer(d), o.path, o.remote_content_hash>> \in approved
  /\ o.kind = "DownloadFromRemote" /\ o.local_content_hash # NoHash
       => <<d, o.path, o.local_content_hash>> \in approved

\* The queue of d.
TableInv(d) ==
  /\ \A o \in ops[d] : Consented(d, o) /\ o.id[1] <= plans[d]
  /\ \A o, q \in ops[d] : o.id = q.id => o = q

\* Where a command has no batch.
Outside == {"idle", "plan", "queue", "manifest", "LocalOnly", "PropagateToPeers", "erase_wait"}

Downloading == {"download", "fetch", "remove", "publish", "index"}

\* The batch of the command on d.
BatchInv(d) ==
  /\ \A o \in agent[d].downloads : o.kind = "DownloadFromRemote" /\ Consented(d, o)
  /\ \A o \in agent[d].uploads : o.kind = "UploadToRemote" /\ Consented(d, o)
  /\ agent[d].pc \in Outside => agent[d].downloads = {} /\ agent[d].uploads = {}
  /\ agent[d].pc \in Downloading => agent[d].downloads # {}
  /\ agent[d].pc = "upload" => agent[d].downloads = {}

\* A version that the command is about to ask the peer to delete is given up.
TargetInv(d) ==
  /\ agent[d].pc = "delete" =>
       \A o \in Queued(d) : IsCurrent(d, o) => <<Peer(d), o.path, RemoteTarget(d, o)>> \in approved
  /\ agent[d].pc = "PropagateToPeers" => <<Peer(d), agent[d].erase, agent[d].body>> \in approved

\* The user wrote what is there into the way of a transfer.
IsExposed(d, p) == <<d, p, disk[d][p]>> \in exposed

\* The place is free, as SharedFolder says.
IsFree(d, p) == disk[d][p] = NoFile \/ <<d, p, disk[d][p]>> \in approved \/ IsExposed(d, p)

\* The index shows what is there, or it was written after the scan.
Seen(d, p) ==
  \/ disk[d][p] = NoFile
  \/ IsExposed(d, p)
  \/ files[d][p] # NoRecord /\ disk[d][p] = files[d][p].hash

\* The run is at an operation on p.
At(d, p) == \E o \in Queued(d) : IsCurrent(d, o) /\ o.path = p

\* What a run relies on between its scan and its last download.
RunInv(d) ==
  /\ agent[d].pc = "manifest" => \A p \in Path : Seen(d, p)
  /\ \A o \in agent[d].downloads : Seen(d, o.path) \/ (agent[d].pc = "index" /\ At(d, o.path))
  /\ \A p \in Path : At(d, p) =>
       /\ agent[d].pc \in {"fetch", "remove", "publish"} => IsFree(d, p)
       /\ agent[d].pc \in {"remove", "publish"} => <<p, agent[d].body>> \in versions
       /\ agent[d].pc = "index" => disk[d][p] \in {NoFile, agent[d].body} \/ IsExposed(d, p)

\* What a task relies on: the client's word, and its own check until it acts.
ServerInv(s) ==
  task[s].kind # "none" =>
    /\ task[s].server \notin Client
    /\ task[s].kind = "put" => <<task[s].path, task[s].hash>> \in versions
    /\ task[s].kind = "delete" => <<task[s].server, task[s].path, task[s].hash>> \in approved
    /\ task[s].stage = "checked" => IsFree(task[s].server, task[s].path)

ClientInv(d) == TableInv(d) /\ BatchInv(d) /\ TargetInv(d) /\ RunInv(d)

IInv ==
  /\ TypeInv
  /\ Known
  /\ \A d \in Client : ClientInv(d)
  /\ \A s \in Slot : ServerInv(s)

-----------------------------------------------------------------------------
(* What keeps the parts of the invariant *)

\* The history only grows.
Grows == approved \subseteq approved' /\ exposed \subseteq exposed' /\ versions \subseteq versions'

\* Consent is not taken back, whatever else an UPDATE changes.
LEMMA ConsentKept ==
  ASSUME NEW d, NEW o, NEW q, Consented(d, o), SameRow(o, q), approved \subseteq approved'
  PROVE  Consented(d, q)'
  BY DEF Consented, SameRow

\* The queue of d rests.
LEMMA TableKept ==
  ASSUME NEW d, TableInv(d), ops'[d] = ops[d], plans'[d] = plans[d], approved \subseteq approved'
  PROVE  TableInv(d)'
<1>1. \A o : SameRow(o, o)
  BY DEF SameRow
<1>2. \A o \in ops[d] : Consented(d, o)'
  BY <1>1, ConsentKept DEF TableInv
<1> QED
  BY <1>2 DEF TableInv

\* An UPDATE of the queue of d.
LEMMA TableUpdates ==
  ASSUME NEW d, TableInv(d), Updated(ops[d], ops'[d]), plans'[d] = plans[d],
         approved \subseteq approved'
  PROVE  TableInv(d)'
<1>1. PICK f \in [ops[d] -> Row] : /\ ops'[d] = {f[o] : o \in ops[d]}
                                   /\ \A o \in ops[d] : SameRow(o, f[o])
  BY DEF Updated
<1>2. \A o \in ops[d] : Consented(d, f[o])'
  BY <1>1, ConsentKept DEF TableInv
<1>3. \A o \in ops[d] : f[o].id = o.id
  BY <1>1 DEF SameRow
<1>4. \A q \in ops'[d] : Consented(d, q)' /\ q.id[1] <= plans'[d]
  BY <1>1, <1>2, <1>3 DEF TableInv
<1>5. \A q, r \in ops'[d] : q.id = r.id => q = r
  BY <1>1, <1>3 DEF TableInv
<1> QED
  BY <1>4, <1>5 DEF TableInv

\* The batch of d shrinks or stays.
LEMMA BatchKept ==
  ASSUME NEW d, BatchInv(d), approved \subseteq approved',
         agent'[d].downloads \subseteq agent[d].downloads,
         agent'[d].uploads \subseteq agent[d].uploads,
         agent'[d].pc \in Outside => agent'[d].downloads = {} /\ agent'[d].uploads = {},
         agent'[d].pc \in Downloading => agent'[d].downloads # {},
         agent'[d].pc = "upload" => agent'[d].downloads = {}
  PROVE  BatchInv(d)'
<1>1. \A o : SameRow(o, o)
  BY DEF SameRow
<1>2. \A o \in agent[d].downloads \cup agent[d].uploads : Consented(d, o)'
  BY <1>1, ConsentKept DEF BatchInv
<1> QED
  BY <1>2 DEF BatchInv

\* The command on d is at the same operation.
LEMMA SameBatch ==
  ASSUME NEW d, agent'[d].downloads = agent[d].downloads, agent'[d].uploads = agent[d].uploads
  PROVE  /\ \A o : IsCurrent(d, o)' <=> IsCurrent(d, o)
         /\ \A p : At(d, p)' <=> At(d, p)
<1>1. \A o : IsCurrent(d, o)' <=> IsCurrent(d, o)
  BY DEF IsCurrent
<1>2. Queued(d)' = Queued(d)
  BY DEF Queued
<1> QED
  BY <1>1, <1>2 DEF At

\* A run is at one path.
LEMMA AtOne ==
  ASSUME TypeInv, NEW d \in Device, NEW o, IsCurrent(d, o)
  PROVE  /\ o.path \in Path /\ At(d, o.path)
         /\ \A p : At(d, p) => p = o.path
<1>0. agent[d] \in Process
  BY SlotTyped
<1>1. Current(agent[d], o) /\ o \in Queued(d) /\ o.path \in Path
  BY CurrentRow
<1>2. \A q : IsCurrent(d, q) => q.path = o.path
  <2> SUFFICES ASSUME NEW q, IsCurrent(d, q) PROVE q.path = o.path
    OBVIOUS
  <2>1. Current(agent[d], q)
    BY CurrentRow
  <2> QED
    BY <1>0, <1>1, <2>1, CurrentPath
<1> QED
  BY <1>1, <1>2 DEF At

\* What the disk and the index show at one place stays.
LEMMA PlaceKept ==
  ASSUME NEW d, NEW p, disk'[d][p] = disk[d][p], Grows
  PROVE  /\ IsExposed(d, p) => IsExposed(d, p)'
         /\ IsFree(d, p) => IsFree(d, p)'
         /\ files'[d][p] = files[d][p] => (Seen(d, p) => Seen(d, p)')
  BY DEF IsExposed, IsFree, Seen, Grows

\* The command, the disk and the index of d rest.
LEMMA ClientKept ==
  ASSUME TypeInv, NEW d \in Client, ClientInv(d), agent'[d] = agent[d], disk'[d] = disk[d],
         files'[d] = files[d], ops'[d] = ops[d], plans'[d] = plans[d], Grows
  PROVE  ClientInv(d)'
<1> USE DEF ClientInv
<1>1. TableInv(d)'
  BY TableKept DEF Grows
<1>2. BatchInv(d)'
  BY BatchKept DEF Grows, BatchInv
<1>3. /\ \A o : IsCurrent(d, o)' <=> IsCurrent(d, o)
      /\ \A p : At(d, p)' <=> At(d, p)
  BY SameBatch
<1>4. TargetInv(d)'
  BY <1>3 DEF TargetInv, Grows, RemoteTarget, Queued
<1>5. \A p : /\ IsExposed(d, p) => IsExposed(d, p)'
             /\ IsFree(d, p) => IsFree(d, p)'
             /\ Seen(d, p) => Seen(d, p)'
  BY PlaceKept
<1>6. RunInv(d)'
  <2>1. agent'[d].pc = "manifest" => \A p \in Path : Seen(d, p)'
    BY <1>5 DEF RunInv
  <2>2. \A o \in agent'[d].downloads : Seen(d, o.path)' \/ (agent'[d].pc = "index" /\ At(d, o.path)')
    BY <1>3, <1>5 DEF RunInv
  <2>3. ASSUME NEW p \in Path, At(d, p)'
        PROVE  /\ agent'[d].pc \in {"fetch", "remove", "publish"} => IsFree(d, p)'
               /\ agent'[d].pc \in {"remove", "publish"} => <<p, agent'[d].body>> \in versions'
               /\ agent'[d].pc = "index" => disk'[d][p] \in {NoFile, agent'[d].body} \/ IsExposed(d, p)'
    BY <2>3, <1>3, <1>5 DEF RunInv, Grows
  <2> QED
    BY <2>1, <2>2, <2>3 DEF RunInv
<1> QED
  BY <1>1, <1>2, <1>4, <1>6

\* A task and the file it is about rest.
LEMMA ServerKept ==
  ASSUME NEW s, ServerInv(s), task'[s] = task[s], Grows,
         task[s].kind # "none" =>
           disk'[task[s].server][task[s].path] = disk[task[s].server][task[s].path]
  PROVE  ServerInv(s)'
<1>1. task[s].kind # "none" =>
        (IsFree(task[s].server, task[s].path) => IsFree(task[s].server, task[s].path)')
  BY PlaceKept
<1> QED
  BY <1>1 DEF ServerInv, Grows

\* The disks rest.
LEMMA KnownKept ==
  ASSUME Known, UNCHANGED disk, Grows
  PROVE  Known'
  BY DEF Known, Grows

\* There is one client, and its peer is not a client.
LEMMA OneClient ==
  ASSUME OneClientOneTask, NEW d \in Client
  PROVE  /\ d \in Device /\ Client = {d} /\ Peer(d) \in Device /\ Peer(d) # d /\ Peer(d) \notin Client
         /\ \A s, u \in Slot : s = u
<1>1. d \in Device /\ Client = {d}
  BY TwoDevices DEF OneClientOneTask
<1> QED
  BY <1>1, PeerIs DEF OneClientOneTask

\* Whatever the client does, the task that runs on the peer is not affected,
\* or it ends.
LEMMA ServersKept ==
  ASSUME IInv, Grows, \A s \in Slot : task'[s] = task[s] \/ task'[s] = FreeSlot,
         \A e \in Device \ Client : disk'[e] = disk[e]
  PROVE  \A s \in Slot : ServerInv(s)'
<1> SUFFICES ASSUME NEW s \in Slot PROVE ServerInv(s)'
  OBVIOUS
<1>1. task[s].kind # "none" => task[s].server \in Device \ Client
  BY DEF IInv, TypeInv, Workers, Job, ServerInv
<1>2. ServerInv(s)
  BY DEF IInv
<1>3. CASE task'[s] = task[s]
  BY <1>1, <1>2, <1>3, ServerKept
<1>4. CASE task'[s] = FreeSlot
  BY <1>4, FreeTyped DEF ServerInv
<1> QED
  BY <1>3, <1>4

\* A step of the client that changes no disk.
LEMMA ClientSteps ==
  ASSUME OneClientOneTask, IInv, TypeInv', NEW d \in Client, ClientInv(d)', Grows,
         UNCHANGED disk, \A s \in Slot : task'[s] = task[s] \/ task'[s] = FreeSlot
  PROVE  IInv'
<1>1. \A s \in Slot : ServerInv(s)'
  BY ServersKept
<1>2. Known'
  BY KnownKept DEF IInv
<1>3. \A e \in Client : ClientInv(e)'
  BY OneClient
<1> QED
  BY <1>1, <1>2, <1>3 DEF IInv

\* A file of a run stays seen.
LEMMA SeenKept ==
  ASSUME IInv, NEW d \in Client, agent[d].pc # "index", disk'[d] = disk[d], files'[d] = files[d], Grows
  PROVE  \A q \in agent[d].downloads : Seen(d, q.path)'
  BY PlaceKept DEF IInv, ClientInv, RunInv

\* The operation ends and what is left to download is seen.
LEMMA OutcomeInv ==
  ASSUME IInv, NEW d \in Client, NEW o, Fail(d, o) \/ Finish(d, o), Grows, UNCHANGED plans,
         \A q \in agent[d].downloads : Seen(d, q.path)'
  PROVE  ClientInv(d)'
<1>0. d \in Device /\ TypeInv /\ ClientInv(d) /\ agent[d] \in Process /\ agent \in [Device -> Command]
  BY TwoDevices, SlotTyped DEF IInv, TypeInv, Workers
<1>1. TableInv(d)'
  <2>1. PICK new : Updated(ops[d], new) /\ ops' = [ops EXCEPT ![d] = new]
    BY <1>0, OutcomeStep
  <2>2. ops'[d] = new
    BY <1>0, <2>1 DEF TypeInv, Tables
  <2> QED
    BY <1>0, <2>1, <2>2, TableUpdates DEF ClientInv, Grows
<1>2. /\ agent'[d].pc = "next" /\ agent'[d].downloads = agent[d].downloads \ {o}
      /\ agent'[d].uploads = agent[d].uploads \ {o}
  <2>1. agent'[d] = SetNext(agent[d], o)
    BY <1>0, OutcomeStep
  <2>2. LET r == SetNext(agent[d], o)
        IN /\ r.pc = "next" /\ r.downloads = agent[d].downloads \ {o}
           /\ r.uploads = agent[d].uploads \ {o}
    BY <1>0, SetNextFields
  <2> QED
    BY <2>1, <2>2
<1>3. "next" \notin Outside /\ "next" \notin Downloading
  BY DEF Outside, Downloading
<1>4. BatchInv(d)'
  BY <1>0, <1>2, <1>3, BatchKept DEF ClientInv, Grows
<1>5. TargetInv(d)' /\ RunInv(d)'
  BY <1>2 DEF TargetInv, RunInv
<1> QED
  BY <1>1, <1>4, <1>5 DEF ClientInv

\* A command outside of a batch goes on; the queue rests.
LEMMA OutsideInv ==
  ASSUME IInv, NEW d \in Client, ops'[d] = ops[d], plans'[d] = plans[d], Grows,
         agent'[d].pc \in Outside, agent'[d].downloads = {}, agent'[d].uploads = {},
         agent'[d].pc = "manifest" => \A p \in Path : Seen(d, p)',
         agent'[d].pc = "PropagateToPeers" =>
           <<Peer(d), agent'[d].erase, agent'[d].body>> \in approved'
  PROVE  ClientInv(d)'
<1>0. ClientInv(d)
  BY DEF IInv
<1>1. TableInv(d)'
  BY <1>0, TableKept DEF ClientInv, Grows
<1>2. /\ agent'[d].pc \notin Downloading
      /\ agent'[d].pc \notin {"upload", "delete", "fetch", "remove", "publish", "index"}
  BY DEF Outside, Downloading
<1>3. BatchInv(d)'
  BY <1>2 DEF BatchInv
<1>4. TargetInv(d)'
  BY <1>2 DEF TargetInv
<1>5. RunInv(d)'
  BY <1>2 DEF RunInv
<1> QED
  BY <1>1, <1>3, <1>4, <1>5 DEF ClientInv

\* build_sync_plan scans: the command has no batch yet.
LEMMA BeginPlanInv ==
  ASSUME OneClientOneTask, IInv, TypeInv', NEW d \in Client, BeginPlan(d)
  PROVE  IInv'
<1>0. d \in Device /\ TypeInv /\ ClientInv(d) /\ agent[d] \in Process /\ agent \in [Device -> Command]
  BY TwoDevices, SlotTyped DEF IInv, TypeInv, Workers
<1>1. files'[d] \in Manifest /\ "plan" \in Pc /\ "plan" \in Outside /\ "idle" \in Outside
  BY <1>0 DEF TypeInv, Tables, Pc, Outside
<1>2. agent'[d] = SetPlan(agent[d], "plan", files'[d])
  BY <1>0 DEF BeginPlan, SetPlan
<1>3. agent'[d].pc = "plan" /\ agent'[d].downloads = {} /\ agent'[d].uploads = {}
  BY <1>0, <1>1, <1>2, SetPlanFields DEF BeginPlan, ClientInv, BatchInv
<1>4. Grows /\ UNCHANGED <<disk, task, ops, plans>>
  BY DEF BeginPlan, Grows, user
<1>5. ClientInv(d)'
  BY <1>1, <1>3, <1>4, OutsideInv
<1> QED
  BY <1>4, <1>5, ClientSteps

\* A new plan asks for no replacement.
LEMMA EnqueueConsents ==
  ASSUME TypeInv, NEW d \in Client, TableInv(d), MakePlan(d)
  PROVE  TableInv(d)'
<1>0. /\ d \in Device /\ agent[d] \in Process /\ Peer(d) \in Device
      /\ agent[d].lman \in Manifest /\ ops[d] \in SUBSET Row
  BY TwoDevices, SlotTyped, PeerIs DEF TypeInv, Tables, Process
<1>1. files'[Peer(d)] \in Manifest
  BY <1>0, ScannedTyped DEF MakePlan
<1>2. plans[d] \in Nat /\ plans'[d] = plans[d] + 1 /\ UNCHANGED approved
  BY <1>0 DEF MakePlan, TypeInv, Tables, user
<1> DEFINE plan == plan_manifest_sync_for_mode(agent[d].lman, files'[Peer(d)], "Bidirectional")
           n == plans'[d]
           queued == {f \in plan : f.action # "InSync"}
           new == {NewOperation(f, Peer(d), n) : f \in queued}
           kept == {o \in ops[d] : ~(o.remote_device_id = Peer(d) /\ o.status \in {"pending", "blocked"})}
<1>3. ops'[d] = kept \cup new
  BY <1>0 DEF MakePlan, enqueue_sync_plan, TypeInv, Tables
<1>4. \A f \in queued :
        LET o == NewOperation(f, Peer(d), n)
        IN /\ o.id = <<n, f.path>> /\ o.path = f.path
           /\ o.kind = "DownloadFromRemote" => o.local_content_hash = NoHash
           /\ o.kind = "UploadToRemote" => o.remote_content_hash = NoHash
  <2>1. "Bidirectional" \in FolderMode /\ n \in Nat
    BY <1>2 DEF FolderMode
  <2> HIDE DEF n
  <2> QED
    BY <1>0, <1>1, <2>1, NewRows
<1>5. \A f, g \in queued : f.path = g.path => f = g
  <2>1. \A f \in queued :
          \E p \in Path : f = entry(p, agent[d].lman[p], files'[Peer(d)][p], "Bidirectional") /\ f.path = p
    BY DEF plan_manifest_sync_for_mode, entry
  <2> QED
    BY <2>1
<1> HIDE DEF plan, n
<1>6. \A o \in new : /\ o.id[1] = n
                     /\ o.kind = "DownloadFromRemote" => o.local_content_hash = NoHash
                     /\ o.kind = "UploadToRemote" => o.remote_content_hash = NoHash
  BY <1>4
<1>7. \A o, q \in new : o.id = q.id => o = q
  BY <1>4, <1>5
<1>8. \A o \in kept : o \in ops[d] /\ o.id[1] \in Nat /\ o.id[1] <= plans[d] /\ Consented(d, o)
  BY <1>0 DEF TableInv, Row, SyncOperationRecord, OperationId
<1> HIDE DEF new, kept
<1>9. \A o \in new : Consented(d, o)'
  BY <1>6 DEF Consented
<1>10. \A o \in kept : Consented(d, o)'
  BY <1>2, <1>8 DEF Consented
<1>11. \A o \in ops'[d] : Consented(d, o)' /\ o.id[1] <= plans'[d]
  BY <1>2, <1>3, <1>6, <1>8, <1>9, <1>10 DEF n
<1>12. \A o, q \in ops'[d] : o.id = q.id => o = q
  BY <1>0, <1>2, <1>3, <1>6, <1>7, <1>8 DEF n, TableInv
<1> QED
  BY <1>11, <1>12 DEF TableInv

\* enqueue_sync_plan: new rows replace nothing, and their ids are new.
LEMMA MakePlanInv ==
  ASSUME OneClientOneTask, IInv, TypeInv', NEW d \in Client, MakePlan(d)
  PROVE  IInv'
<1>0. d \in Device /\ TypeInv /\ ClientInv(d) /\ agent[d] \in Process /\ agent \in [Device -> Command]
  BY TwoDevices, SlotTyped DEF IInv, TypeInv, Workers
<1>1. NoManifest \in Manifest /\ "queue" \in Pc /\ "queue" \in Outside /\ "plan" \in Outside
  BY DEF NoManifest, Manifest, Pc, Outside
<1>2. agent'[d] = SetPlan(agent[d], "queue", NoManifest)
  BY <1>0 DEF MakePlan, SetPlan
<1>3. agent'[d].pc = "queue" /\ agent'[d].downloads = {} /\ agent'[d].uploads = {}
  BY <1>0, <1>1, <1>2, SetPlanFields DEF MakePlan, ClientInv, BatchInv
<1>4. Grows /\ UNCHANGED <<disk, task>>
  BY DEF MakePlan, Grows, user
<1>5. BatchInv(d)' /\ TargetInv(d)' /\ RunInv(d)'
  <2>1. "queue" \notin Downloading
    BY DEF Downloading
  <2> QED
    BY <1>3, <2>1 DEF BatchInv, TargetInv, RunInv, At, Queued
<1>6. ClientInv(d)'
  BY <1>0, <1>5, EnqueueConsents DEF ClientInv
<1> QED
  BY <1>4, <1>6, ClientSteps

\* After a scan of d the index shows what is on its disk.
LEMMA ScanSees ==
  ASSUME TypeInv, NEW d \in Device, files' = Scanned(d), UNCHANGED disk, NEW p \in Path
  PROVE  Seen(d, p)'
<1>1. files'[d] = scan_into(files[d], disk[d])
  BY ScannedTyped
<1>2. disk[d][p] # NoFile => disk[d][p] \in Content /\ files'[d][p] = Available(disk[d][p])
  BY <1>1 DEF scan_into, TypeInv, Surroundings
<1>3. disk[d][p] # NoFile => files'[d][p] # NoRecord /\ files'[d][p].hash = disk[d][p]
  BY <1>2, AvailableIsRecord, NoRecordAssumption DEF Available
<1> QED
  BY <1>3 DEF Seen

\* run_sync_queue scans: from here on the command relies on what it saw.
LEMMA QueueStartsInv ==
  ASSUME OneClientOneTask, IInv, TypeInv', NEW d \in Client, BeginQueue(d) \/ ExecuteQueue(d)
  PROVE  IInv'
<1>0. d \in Device /\ TypeInv /\ ClientInv(d) /\ agent[d] \in Process /\ agent \in [Device -> Command]
  BY TwoDevices, SlotTyped DEF IInv, TypeInv, Workers
<1>1. "manifest" \in Pc /\ {"idle", "queue", "manifest"} \subseteq Outside
  BY DEF Pc, Outside
<1>2. agent'[d] = SetPc(agent[d], "manifest")
  BY <1>0, <1>1, GotoStep DEF BeginQueue, ExecuteQueue
<1>3. agent'[d].pc = "manifest" /\ agent'[d].downloads = {} /\ agent'[d].uploads = {}
  <2>1. agent[d].pc \in {"idle", "queue"}
    BY DEF BeginQueue, ExecuteQueue
  <2>2. agent[d].downloads = {} /\ agent[d].uploads = {}
    BY <1>0, <1>1, <2>1 DEF ClientInv, BatchInv
  <2> QED
    BY <1>0, <1>1, <1>2, <2>2, SetPcFields
<1>4. Grows /\ UNCHANGED <<disk, task, ops, plans>> /\ files' = Scanned(d)
  BY DEF BeginQueue, ExecuteQueue, Grows, user
<1>5. \A p \in Path : Seen(d, p)'
  BY <1>0, <1>4, ScanSees
<1>6. ClientInv(d)'
  BY <1>1, <1>3, <1>4, <1>5, OutsideInv
<1> QED
  BY <1>4, <1>6, ClientSteps

\* list_pending_operations: what is going to be downloaded has been seen.
LEMMA ListBatchInv ==
  ASSUME OneClientOneTask, IInv, TypeInv', NEW d \in Client, ListBatch(d)
  PROVE  IInv'
<1>0. d \in Device /\ TypeInv /\ ClientInv(d) /\ agent[d] \in Process /\ agent \in [Device -> Command]
  BY TwoDevices, SlotTyped DEF IInv, TypeInv, Workers
<1>1. PICK down \in SUBSET Row, up \in SUBSET Row :
        /\ down \subseteq ops[d] /\ \A o \in down : o.kind = "DownloadFromRemote"
        /\ up \subseteq ops[d] /\ \A o \in up : o.kind = "UploadToRemote"
        /\ files'[Peer(d)] \in Manifest
        /\ agent' = [agent EXCEPT ![d] = SetBatch(agent[d], files'[Peer(d)], down, up)]
  BY <1>0, BatchRows
<1>2. agent'[d].pc = "next" /\ agent'[d].downloads = down /\ agent'[d].uploads = up
  <2>1. agent'[d] = SetBatch(agent[d], files'[Peer(d)], down, up)
    BY <1>0, <1>1
  <2> QED
    BY <1>0, <1>1, <2>1, SetBatchFields
<1>3. Grows /\ UNCHANGED <<disk, task, ops, plans, approved>> /\ files'[d] = files[d]
  <2>1. files' = Scanned(Peer(d)) /\ Peer(d) \in Device /\ Peer(d) # d
    BY OneClient DEF ListBatch
  <2>2. files'[d] = files[d]
    BY <1>0, <2>1, ScannedTyped
  <2> QED
    BY <2>2 DEF ListBatch, Grows, user
<1>4. TableInv(d)'
  BY <1>0, <1>3, TableKept DEF ClientInv
<1>5. BatchInv(d)'
  <2>1. "next" \notin Outside /\ "next" \notin Downloading
    BY DEF Outside, Downloading
  <2>2. \A o \in ops[d] : Consented(d, o)'
    BY <1>3, <1>4 DEF TableInv
  <2> QED
    BY <1>1, <1>2, <2>1, <2>2 DEF BatchInv
<1>6. \A o \in down : Seen(d, o.path)'
  <2>1. \A p \in Path : Seen(d, p)
    BY <1>0 DEF ListBatch, ClientInv, RunInv
  <2>2. \A p \in Path : Seen(d, p)'
    BY <1>3, <2>1, PlaceKept
  <2>3. \A o \in down : o.path \in Path
    BY DEF Row, SyncOperationRecord
  <2> QED
    BY <2>2, <2>3
<1>7. TargetInv(d)' /\ RunInv(d)'
  BY <1>2, <1>6 DEF TargetInv, RunInv
<1>8. ClientInv(d)'
  BY <1>4, <1>5, <1>7 DEF ClientInv
<1> QED
  BY <1>3, <1>8, ClientSteps

\* mark_sync_operation_started changes no hash of the row.
LEMMA StartNextInv ==
  ASSUME OneClientOneTask, IInv, TypeInv', NEW d \in Client, NEW o, StartNext(d, o)
  PROVE  IInv'
<1>0. d \in Device /\ TypeInv /\ ClientInv(d) /\ agent[d] \in Process /\ agent \in [Device -> Command]
  BY TwoDevices, SlotTyped DEF IInv, TypeInv, Workers
<1>1. Grows /\ UNCHANGED <<disk, files, task, plans>>
  BY DEF StartNext, Grows, user
<1>2. TableInv(d)'
  <2>1. Updated(ops[d], mark_sync_operation_started(ops[d], o.id))
    BY <1>0, StartedUpdates DEF TypeInv, Tables
  <2>2. ops'[d] = mark_sync_operation_started(ops[d], o.id)
    BY <1>0 DEF StartNext, TypeInv, Tables
  <2> QED
    BY <1>0, <1>1, <2>1, <2>2, TableUpdates DEF ClientInv, Grows
<1>3. PICK x \in {"download", "upload"} :
        Goto(d, x) /\ (x = "download" <=> o \in agent[d].downloads)
  BY DEF StartNext
<1>4. x \in Pc /\ x \notin Outside /\ (x \in Downloading => x = "download")
  BY DEF Pc, Outside, Downloading
<1>5. agent'[d].pc = x /\ agent'[d].downloads = agent[d].downloads /\ agent'[d].uploads = agent[d].uploads
  <2>1. agent'[d] = SetPc(agent[d], x)
    BY <1>0, <1>3, <1>4, GotoStep
  <2> QED
    BY <1>0, <1>4, <2>1, SetPcFields
<1>6. o \in agent[d].downloads <=> agent[d].downloads # {}
  BY DEF StartNext, IsCurrent
<1>7. BatchInv(d)'
  BY <1>0, <1>1, <1>3, <1>4, <1>5, <1>6, BatchKept DEF ClientInv, Grows
<1>8. \A q \in agent[d].downloads : Seen(d, q.path)'
  BY <1>1, SeenKept DEF StartNext
<1>9. TargetInv(d)' /\ RunInv(d)'
  BY <1>5, <1>8 DEF TargetInv, RunInv
<1>10. ClientInv(d)'
  BY <1>2, <1>7, <1>9 DEF ClientInv
<1> QED
  BY <1>1, <1>10, ClientSteps

\* The command ends or dies.
LEMMA EndsInv ==
  ASSUME IInv, NEW d \in Client, agent' = [agent EXCEPT ![d] = Idle], Grows, UNCHANGED <<ops, plans>>
  PROVE  ClientInv(d)'
<1>0. d \in Device /\ agent'[d] = Idle
  BY TwoDevices DEF IInv, TypeInv, Workers
<1>1. "idle" \in Outside
  BY DEF Outside
<1> QED
  BY <1>0, <1>1, IdleTyped, OutsideInv

\* The run has no operation left.
LEMMA EndRunInv ==
  ASSUME OneClientOneTask, IInv, TypeInv', NEW d \in Client, EndRun(d)
  PROVE  IInv'
<1>1. Grows /\ UNCHANGED <<disk, task, ops, plans>>
  BY DEF EndRun, Grows, user
<1>2. ClientInv(d)'
  BY <1>1, EndsInv DEF EndRun
<1> QED
  BY <1>1, <1>2, ClientSteps

\* The checks of download_operation: a version that may be replaced is the one
\* in the index, which the user has given up; otherwise the place is empty.
LEMMA CheckDownloadInv ==
  ASSUME OneClientOneTask, IInv, TypeInv', NEW d \in Client, NEW o, CheckDownload(d, o)
  PROVE  IInv'
<1>0. d \in Device /\ TypeInv /\ ClientInv(d) /\ agent[d] \in Process /\ agent \in [Device -> Command]
  BY TwoDevices, SlotTyped DEF IInv, TypeInv, Workers
<1>1. Grows /\ UNCHANGED <<disk, files, task, plans>>
  BY DEF CheckDownload, Grows, user
<1>2. \A q \in agent[d].downloads : Seen(d, q.path)'
  BY <1>1, SeenKept DEF CheckDownload
<1>3. CASE Fail(d, o)
  <2>1. ClientInv(d)'
    BY <1>1, <1>2, <1>3, OutcomeInv
  <2> QED
    BY <1>1, <2>1, ClientSteps
<1>4. CASE /\ disk[d][o.path] # NoFile => MayReplace(d, o)
           /\ agent' = [agent EXCEPT ![d].pc = "fetch", ![d].replace = disk[d][o.path] # NoFile]
           /\ UNCHANGED ops
  <2> DEFINE exists == disk[d][o.path] # NoFile
  <2>1. agent'[d] = SetReplace(agent[d], exists)
    BY <1>0, <1>4 DEF SetReplace
  <2>2. /\ agent'[d].pc = "fetch" /\ agent'[d].downloads = agent[d].downloads
        /\ agent'[d].uploads = agent[d].uploads
    <3>1. exists \in BOOLEAN
      OBVIOUS
    <3> HIDE DEF exists
    <3>2. LET r == SetReplace(agent[d], exists)
          IN r.pc = "fetch" /\ r.downloads = agent[d].downloads /\ r.uploads = agent[d].uploads
      BY <1>0, <3>1, SetReplaceFields
    <3> QED
      BY <2>1, <3>2
  <2>3. o.path \in Path /\ \A p : At(d, p) => p = o.path
    BY <1>0, AtOne DEF CheckDownload
  <2>4. o \in agent[d].downloads /\ agent[d].downloads # {}
    <3>1. "download" \in Downloading
      BY DEF Downloading
    <3> QED
      BY <1>0, <3>1 DEF CheckDownload, ClientInv, BatchInv, IsCurrent
  <2>5. IsFree(d, o.path)
    <3>1. Seen(d, o.path)
      BY <1>0, <2>4 DEF CheckDownload, ClientInv, RunInv
    <3>2. CASE /\ disk[d][o.path] # NoFile /\ disk[d][o.path] = files[d][o.path].hash
      <4>1. o.local_content_hash = disk[d][o.path]
        BY <1>4, <3>2 DEF MayReplace
      <4>2. disk[d][o.path] \in Content
        BY <1>0, <2>3, <3>2 DEF TypeInv, Surroundings
      <4>3. o.local_content_hash # NoHash
        BY <4>1, <4>2, NoHashAssumption
      <4>4. <<d, o.path, o.local_content_hash>> \in approved
        BY <1>0, <2>4, <4>3 DEF ClientInv, BatchInv, Consented
      <4> QED
        BY <4>1, <4>4 DEF IsFree
    <3> QED
      BY <3>1, <3>2 DEF Seen, IsFree
  <2>6. IsFree(d, o.path)'
    BY <1>1, <2>5, PlaceKept
  <2>7. TableInv(d)'
    BY <1>0, <1>1, <1>4, TableKept DEF ClientInv, Grows
  <2>8. BatchInv(d)'
    <3>1. "fetch" \notin Outside
      BY DEF Outside
    <3> QED
      BY <1>0, <1>1, <2>2, <2>4, <3>1, BatchKept DEF ClientInv, Grows
  <2>9. TargetInv(d)'
    BY <2>2 DEF TargetInv
  <2>10. RunInv(d)'
    <3>1. \A p : At(d, p)' => p = o.path
      BY <2>2, <2>3, SameBatch
    <3> QED
      BY <1>2, <2>2, <2>6, <3>1 DEF RunInv
  <2>11. ClientInv(d)'
    BY <2>7, <2>8, <2>9, <2>10 DEF ClientInv
  <2> QED
    BY <1>1, <2>11, ClientSteps
<1> QED
  BY <1>3, <1>4 DEF CheckDownload

\* What a server finds in its index after a scan and serves is on its disk.
LEMMA ServedIsThere ==
  ASSUME TypeInv, NEW e \in Device, NEW p \in Path, files' = Scanned(e),
         shared_file(files'[e], p) \in Content
  PROVE  disk[e][p] # NoFile /\ shared_file(files'[e], p) = disk[e][p]
<1>1. files'[e] = scan_into(files[e], disk[e])
  BY ScannedTyped
<1>2. files'[e][p] # NoRecord /\ ~IsMissing(files'[e][p]) /\ shared_file(files'[e], p) = files'[e][p].hash
  BY NoFileAssumption DEF shared_file
<1>3. CASE disk[e][p] = NoFile
  <2>1. files'[e][p] = AsMissing(files[e][p])
    BY <1>1, <1>3 DEF scan_into
  <2>2. files[e][p] \in FileRecord
    BY <1>2, <2>1 DEF AsMissing, TypeInv, Tables, Manifest
  <2>3. files'[e][p].state = "UnsynchronizedLocalMissing"
    BY <1>2, <2>1, <2>2 DEF AsMissing, FileRecord
  <2> QED
    BY <1>2, <2>3 DEF IsMissing
<1>4. CASE disk[e][p] # NoFile
  <2>1. files'[e][p] = Available(disk[e][p])
    BY <1>1, <1>4 DEF scan_into
  <2> QED
    BY <1>2, <1>4, <2>1 DEF Available
<1> QED
  BY <1>3, <1>4

\* fetch_file_to_path: what arrives is on the peer's disk, so the user made it.
LEMMA FetchInv ==
  ASSUME OneClientOneTask, IInv, TypeInv', NEW d \in Client, NEW o, Fetch(d, o)
  PROVE  IInv'
<1>0. d \in Device /\ TypeInv /\ ClientInv(d) /\ agent[d] \in Process /\ agent \in [Device -> Command]
  BY TwoDevices, SlotTyped DEF IInv, TypeInv, Workers
<1>1. Peer(d) \in Device /\ Peer(d) # d /\ files' = Scanned(Peer(d))
  BY OneClient DEF Fetch
<1>2. Grows /\ UNCHANGED <<disk, task, plans, versions>> /\ files'[d] = files[d]
  BY <1>0, <1>1, ScannedTyped DEF Fetch, Grows, user
<1>3. \A q \in agent[d].downloads : Seen(d, q.path)'
  BY <1>2, SeenKept DEF Fetch
<1>4. CASE Fail(d, o)
  <2>1. ClientInv(d)'
    BY <1>2, <1>3, <1>4, OutcomeInv
  <2> QED
    BY <1>2, <2>1, ClientSteps
<1>5. CASE ~Fail(d, o)
  <2>1. PICK x \in {"remove", "publish"}, c \in Content :
          /\ c = shared_file(files'[Peer(d)], o.path)
          /\ agent' = [agent EXCEPT ![d] = SetBody(agent[d], x, c)] /\ UNCHANGED ops
    BY <1>0, <1>5, FetchStep
  <2>2. x \in Pc /\ x \notin Outside /\ x \in Downloading
    BY DEF Pc, Outside, Downloading
  <2>3. /\ agent'[d].pc = x /\ agent'[d].downloads = agent[d].downloads
        /\ agent'[d].uploads = agent[d].uploads /\ agent'[d].body = c
    <3>1. agent'[d] = SetBody(agent[d], x, c)
      BY <1>0, <2>1
    <3> QED
      BY <1>0, <2>2, <3>1, SetBodyFields
  <2>4. o.path \in Path /\ At(d, o.path) /\ \A p : At(d, p) => p = o.path
    BY <1>0, AtOne DEF Fetch
  <2>5. <<o.path, c>> \in versions
    BY <1>0, <1>1, <2>1, <2>4, ServedIsThere DEF IInv, Known
  <2>6. IsFree(d, o.path)'
    <3>1. IsFree(d, o.path)
      BY <1>0, <2>4 DEF Fetch, ClientInv, RunInv
    <3> QED
      BY <1>2, <3>1, PlaceKept
  <2>7. TableInv(d)'
    BY <1>0, <1>2, <2>1, TableKept DEF ClientInv, Grows
  <2>8. BatchInv(d)'
    <3>1. agent[d].downloads # {}
      BY <1>0 DEF Fetch, ClientInv, BatchInv, Downloading
    <3> QED
      BY <1>0, <1>2, <2>2, <2>3, <3>1, BatchKept DEF ClientInv, Grows
  <2>9. TargetInv(d)'
    BY <2>3 DEF TargetInv
  <2>10. RunInv(d)'
    <3>1. \A p : At(d, p)' => p = o.path
      BY <2>3, <2>4, SameBatch
    <3> QED
      BY <1>2, <1>3, <2>3, <2>5, <2>6, <3>1 DEF RunInv
  <2>11. ClientInv(d)'
    BY <2>7, <2>8, <2>9, <2>10 DEF ClientInv
  <2> QED
    BY <1>2, <2>11, ClientSteps
<1> QED
  BY <1>4, <1>5

\* A step of the client that changes one of its own files.
LEMMA ClientWrites ==
  ASSUME OneClientOneTask, IInv, TypeInv', NEW d \in Client, ClientInv(d)', Grows,
         NEW p \in Path, NEW v \in Content \cup {NoFile}, disk' = [disk EXCEPT ![d][p] = v],
         v # NoFile => <<p, v>> \in versions',
         \A s \in Slot : task'[s] = task[s] \/ task'[s] = FreeSlot
  PROVE  IInv'
<1>0. d \in Device /\ Client = {d} /\ TypeInv /\ Known
  BY OneClient DEF IInv
<1>1. \A e \in Device \ Client : disk'[e] = disk[e]
  BY <1>0 DEF TypeInv, Surroundings
<1>2. \A s \in Slot : ServerInv(s)'
  BY <1>1, ServersKept
<1>3. Known'
  <2>1. /\ disk'[d][p] = v
        /\ \A e \in Device, q \in Path : e # d \/ q # p => disk'[e][q] = disk[e][q]
    BY <1>0 DEF TypeInv, Surroundings
  <2> QED
    BY <1>0, <2>1 DEF Known, Grows
<1>4. \A e \in Client : ClientInv(e)'
  BY <1>0
<1> QED
  BY <1>2, <1>3, <1>4 DEF IInv

\* remove_file(target) only meets what the checks have seen or what the user
\* has written into its way since.
LEMMA RemoveReplacedInv ==
  ASSUME OneClientOneTask, IInv, TypeInv', NEW d \in Client, NEW o, RemoveReplaced(d, o)
  PROVE  IInv' /\ o.path \in Path /\ IsFree(d, o.path)
<1>0. d \in Device /\ TypeInv /\ ClientInv(d) /\ agent[d] \in Process /\ agent \in [Device -> Command]
  BY TwoDevices, SlotTyped DEF IInv, TypeInv, Workers
<1>1. Grows /\ UNCHANGED <<files, task, plans, versions>> /\ disk' = [disk EXCEPT ![d][o.path] = NoFile]
  BY DEF RemoveReplaced, Grows, user
<1>2. o.path \in Path /\ At(d, o.path) /\ \A p : At(d, p) => p = o.path
  BY <1>0, AtOne DEF RemoveReplaced
<1>3. disk'[d][o.path] = NoFile /\ \A p \in Path \ {o.path} : disk'[d][p] = disk[d][p]
  BY <1>0, <1>1, <1>2 DEF TypeInv, Surroundings
<1>4. \A q \in agent[d].downloads : Seen(d, q.path)'
  <2> SUFFICES ASSUME NEW q \in agent[d].downloads PROVE Seen(d, q.path)'
    OBVIOUS
  <2>1. q.path \in Path
    BY <1>0 DEF Process, Row, SyncOperationRecord
  <2>2. Seen(d, q.path)
    BY <1>0 DEF RemoveReplaced, ClientInv, RunInv
  <2>3. CASE q.path = o.path
    BY <1>3, <2>3 DEF Seen
  <2>4. CASE q.path # o.path
    BY <1>1, <1>3, <2>1, <2>2, <2>4, PlaceKept
  <2> QED
    BY <2>3, <2>4
<1>5. IsFree(d, o.path) /\ <<o.path, agent[d].body>> \in versions
  BY <1>0, <1>2 DEF RemoveReplaced, ClientInv, RunInv
<1>6. ClientInv(d)'
  <2>1. CASE Fail(d, o)
    BY <1>1, <1>4, <2>1, OutcomeInv
  <2>2. CASE Goto(d, "publish") /\ UNCHANGED ops
    <3>1. "publish" \in Pc /\ "publish" \notin Outside
      BY DEF Pc, Outside
    <3>2. /\ agent'[d].pc = "publish" /\ agent'[d].downloads = agent[d].downloads
          /\ agent'[d].uploads = agent[d].uploads /\ agent'[d].body = agent[d].body
      <4>1. agent'[d] = SetPc(agent[d], "publish")
        BY <1>0, <2>2, <3>1, GotoStep
      <4> QED
        BY <1>0, <3>1, <4>1, SetPcFields
    <3>3. TableInv(d)'
      BY <1>0, <1>1, <2>2, TableKept DEF ClientInv, Grows
    <3>4. BatchInv(d)'
      <4>1. agent[d].downloads # {}
        BY <1>0 DEF RemoveReplaced, ClientInv, BatchInv, Downloading
      <4> QED
        BY <1>0, <1>1, <3>1, <3>2, <4>1, BatchKept DEF ClientInv, Grows
    <3>5. TargetInv(d)'
      BY <3>2 DEF TargetInv
    <3>6. RunInv(d)'
      <4>1. \A p : At(d, p)' => p = o.path
        BY <1>2, <3>2, SameBatch
      <4>2. IsFree(d, o.path)'
        BY <1>3 DEF IsFree
      <4> QED
        BY <1>1, <1>4, <1>5, <3>2, <4>1, <4>2 DEF RunInv
    <3> QED
      BY <3>3, <3>4, <3>5, <3>6 DEF ClientInv
  <2> QED
    BY <2>1, <2>2 DEF RemoveReplaced
<1>7. IInv'
  BY <1>1, <1>2, <1>6, ClientWrites
<1> QED
  BY <1>2, <1>5, <1>7

\* publish_download writes a version of the file to a free place.
LEMMA PublishDownloadInv ==
  ASSUME OneClientOneTask, IInv, TypeInv', NEW d \in Client, NEW o, PublishDownload(d, o)
  PROVE  /\ IInv' /\ o.path \in Path /\ IsFree(d, o.path)
         /\ agent[d].body \in Content /\ <<o.path, agent[d].body>> \in versions
<1>0. d \in Device /\ TypeInv /\ ClientInv(d) /\ agent[d] \in Process /\ agent \in [Device -> Command]
  BY TwoDevices, SlotTyped DEF IInv, TypeInv, Workers
<1>1. /\ Grows /\ UNCHANGED <<files, task, plans, ops, versions>>
      /\ disk' = [disk EXCEPT ![d][o.path] = agent[d].body]
  BY DEF PublishDownload, Grows, user
<1>2. o.path \in Path /\ At(d, o.path) /\ \A p : At(d, p) => p = o.path
  BY <1>0, AtOne DEF PublishDownload
<1>3. agent[d].body \in Content
  BY <1>0 DEF PublishDownload, TypeInv, Workers, Command, HoldsBody
<1>4. disk'[d][o.path] = agent[d].body /\ \A p \in Path \ {o.path} : disk'[d][p] = disk[d][p]
  BY <1>0, <1>1, <1>2, <1>3 DEF TypeInv, Surroundings
<1>5. IsFree(d, o.path) /\ <<o.path, agent[d].body>> \in versions
  BY <1>0, <1>2 DEF PublishDownload, ClientInv, RunInv
<1>6. "index" \in Pc /\ "index" \notin Outside
  BY DEF Pc, Outside
<1>7. /\ agent'[d].pc = "index" /\ agent'[d].downloads = agent[d].downloads
      /\ agent'[d].uploads = agent[d].uploads /\ agent'[d].body = agent[d].body
  <2>1. agent'[d] = SetPc(agent[d], "index")
    BY <1>0, <1>6, GotoStep DEF PublishDownload
  <2> QED
    BY <1>0, <1>6, <2>1, SetPcFields
<1>8. TableInv(d)'
  BY <1>0, <1>1, TableKept DEF ClientInv, Grows
<1>9. BatchInv(d)'
  <2>1. agent[d].downloads # {}
    BY <1>0 DEF PublishDownload, ClientInv, BatchInv, Downloading
  <2> QED
    BY <1>0, <1>1, <1>6, <1>7, <2>1, BatchKept DEF ClientInv, Grows
<1>10. TargetInv(d)'
  BY <1>7 DEF TargetInv
<1>11. RunInv(d)'
  <2>1. \A p : At(d, p)' <=> At(d, p)
    BY <1>7, SameBatch
  <2>2. \A q \in agent[d].downloads : Seen(d, q.path)' \/ At(d, q.path)'
    <3> SUFFICES ASSUME NEW q \in agent[d].downloads, q.path # o.path PROVE Seen(d, q.path)'
      BY <1>2, <2>1
    <3>1. q.path \in Path
      BY <1>0 DEF Process, Row, SyncOperationRecord
    <3>2. Seen(d, q.path)
      BY <1>0 DEF PublishDownload, ClientInv, RunInv
    <3> QED
      BY <1>1, <1>4, <3>1, <3>2, PlaceKept
  <2> QED
    BY <1>2, <1>4, <1>7, <2>1, <2>2 DEF RunInv
<1>12. ClientInv(d)'
  BY <1>8, <1>9, <1>10, <1>11 DEF ClientInv
<1>13. IInv'
  BY <1>1, <1>2, <1>3, <1>5, <1>12, ClientWrites
<1> QED
  BY <1>2, <1>3, <1>5, <1>13

\* upsert_file after a download: the index shows what was published, unless
\* the user has changed it again.
LEMMA IndexDownloadInv ==
  ASSUME OneClientOneTask, IInv, TypeInv', NEW d \in Client, NEW o, IndexDownload(d, o)
  PROVE  IInv'
<1>0. d \in Device /\ TypeInv /\ ClientInv(d) /\ agent[d] \in Process /\ agent \in [Device -> Command]
  BY TwoDevices, SlotTyped DEF IInv, TypeInv, Workers
<1>1. Grows /\ UNCHANGED <<disk, task, plans, exposed>>
  BY DEF IndexDownload, Grows, user
<1>2. o.path \in Path /\ At(d, o.path) /\ \A p : At(d, p) => p = o.path
  BY <1>0, AtOne DEF IndexDownload
<1>3. agent[d].body \in Content
  BY <1>0 DEF IndexDownload, TypeInv, Workers, Command, HoldsBody
<1>4. /\ files'[d][o.path] = Available(agent[d].body)
      /\ \A p \in Path \ {o.path} : files'[d][p] = files[d][p]
  BY <1>0, <1>2 DEF IndexDownload, upsert_file, TypeInv, Tables, Manifest
<1>5. files'[d][o.path] # NoRecord /\ files'[d][o.path].hash = agent[d].body
  BY <1>3, <1>4, AvailableIsRecord, NoRecordAssumption DEF Available
<1>6. \A q \in agent[d].downloads : Seen(d, q.path)'
  <2> SUFFICES ASSUME NEW q \in agent[d].downloads PROVE Seen(d, q.path)'
    OBVIOUS
  <2>1. q.path \in Path
    BY <1>0 DEF Process, Row, SyncOperationRecord
  <2>2. CASE q.path = o.path
    <3>1. disk[d][o.path] \in {NoFile, agent[d].body} \/ IsExposed(d, o.path)
      BY <1>0, <1>2 DEF IndexDownload, ClientInv, RunInv
    <3> QED
      BY <1>1, <1>5, <2>2, <3>1 DEF Seen, IsExposed
  <2>3. CASE q.path # o.path
    <3>1. Seen(d, q.path)
      BY <1>0, <1>2, <2>3 DEF ClientInv, RunInv
    <3> QED
      BY <1>1, <1>4, <2>1, <2>3, <3>1, PlaceKept
  <2> QED
    BY <2>2, <2>3
<1>7. ClientInv(d)'
  BY <1>1, <1>6, OutcomeInv DEF IndexDownload
<1> QED
  BY <1>1, <1>7, ClientSteps

\* The steps of an upload.
LEMMA UploadInv ==
  ASSUME IInv, NEW d \in Client, Grows, UNCHANGED <<disk, ops, plans>>, files'[d] = files[d],
         agent[d].pc \in {"upload", "delete", "delete_wait", "put"},
         agent'[d].pc \in {"delete", "delete_wait", "put", "put_wait"},
         agent'[d].downloads = agent[d].downloads, agent'[d].uploads = agent[d].uploads,
         agent'[d].pc = "delete" => TargetInv(d)'
  PROVE  ClientInv(d)'
<1>0. ClientInv(d)
  BY DEF IInv
<1>1. TableInv(d)'
  BY <1>0, TableKept DEF ClientInv, Grows
<1>2. agent'[d].pc \notin Outside /\ agent'[d].pc \notin Downloading
  BY DEF Outside, Downloading
<1>3. BatchInv(d)'
  BY <1>0, <1>2, BatchKept DEF ClientInv, Grows
<1>4. TargetInv(d)'
  BY DEF TargetInv
<1>5. \A q \in agent[d].downloads : Seen(d, q.path)'
  BY SeenKept
<1>6. RunInv(d)'
  BY <1>5 DEF RunInv
<1> QED
  BY <1>1, <1>3, <1>4, <1>6 DEF ClientInv

\* The checks of upload_operation: a version that is going to be deleted on the
\* peer is the one the user has given up.
LEMMA CheckUploadInv ==
  ASSUME OneClientOneTask, IInv, TypeInv', NEW d \in Client, NEW o, CheckUpload(d, o)
  PROVE  IInv'
<1>0. d \in Device /\ TypeInv /\ ClientInv(d) /\ agent[d] \in Process /\ agent \in [Device -> Command]
  BY TwoDevices, SlotTyped DEF IInv, TypeInv, Workers
<1>1. Grows /\ UNCHANGED <<disk, files, task, plans, approved>>
  BY DEF CheckUpload, Grows, user
<1>2. CASE Fail(d, o)
  <2>1. \A q \in agent[d].downloads : Seen(d, q.path)'
    BY <1>1, SeenKept DEF CheckUpload
  <2>2. ClientInv(d)'
    BY <1>1, <1>2, <2>1, OutcomeInv
  <2> QED
    BY <1>1, <2>2, ClientSteps
<1>3. CASE ~Fail(d, o)
  <2>1. PICK x \in {"delete", "put"}, c \in Content :
          /\ x = "delete" => /\ RemoteTarget(d, o) # NoHash
                             /\ o.remote_content_hash = RemoteTarget(d, o)
          /\ agent' = [agent EXCEPT ![d] = SetBody(agent[d], x, c)] /\ UNCHANGED ops
    BY <1>0, <1>3, CheckUploadStep
  <2>2. x \in Pc
    BY DEF Pc
  <2>3. /\ agent'[d].pc = x /\ agent'[d].downloads = agent[d].downloads
        /\ agent'[d].uploads = agent[d].uploads /\ agent'[d].rman = agent[d].rman
    <3>1. agent'[d] = SetBody(agent[d], x, c)
      BY <1>0, <2>1
    <3> QED
      BY <1>0, <2>2, <3>1, SetBodyFields
  <2>4. x = "delete" => TargetInv(d)'
    <3> SUFFICES ASSUME x = "delete" PROVE TargetInv(d)'
      OBVIOUS
    <3>1. o \in agent[d].uploads
      BY <1>0 DEF CheckUpload, ClientInv, BatchInv, IsCurrent
    <3>2. <<Peer(d), o.path, RemoteTarget(d, o)>> \in approved
      BY <1>0, <2>1, <3>1 DEF ClientInv, BatchInv, Consented
    <3>3. \A q : IsCurrent(d, q)' => q.path = o.path
      <4>1. \A q : IsCurrent(d, q) => q.path = o.path
        BY <1>0, AtOne DEF CheckUpload
      <4> QED
        BY <2>3, <4>1, SameBatch
    <3>4. \A q : q.path = o.path => RemoteTarget(d, q)' = RemoteTarget(d, o)
      BY <2>3 DEF RemoteTarget
    <3> QED
      BY <1>1, <2>3, <3>2, <3>3, <3>4 DEF TargetInv
  <2>5. ClientInv(d)'
    BY <1>1, <2>1, <2>3, <2>4, UploadInv DEF CheckUpload
  <2> QED
    BY <1>1, <2>5, ClientSteps
<1> QED
  BY <1>2, <1>3

\* A request of a version that is known or given up starts a task.
LEMMA RequestInv ==
  ASSUME OneClientOneTask, IInv, TypeInv', NEW d \in Client, ClientInv(d)', Grows, UNCHANGED disk,
         NEW s \in Slot, NEW kind \in {"put", "delete"}, NEW path \in Path,
         NEW hash \in Content \cup {NoHash},
         kind = "put" => hash \in Content /\ <<path, hash>> \in versions,
         kind = "delete" => <<Peer(d), path, hash>> \in approved,
         task' = [task EXCEPT ![s] = Received(d, kind, path, hash)]
  PROVE  IInv'
<1>0. /\ d \in Device /\ Client = {d} /\ Peer(d) \notin Client /\ TypeInv
      /\ \A u \in Slot : u = s
  BY OneClient DEF IInv
<1> DEFINE t == Received(d, kind, path, hash)
<1>1. /\ t.kind = kind /\ t.server = Peer(d) /\ t.path = path /\ t.hash = hash
      /\ t.stage = "received"
  BY <1>0, ReceivedTyped
<1>2. task'[s] = t
  BY <1>0 DEF TypeInv, Workers
<1> HIDE DEF t
<1>3. ServerInv(s)'
  BY <1>0, <1>1, <1>2 DEF ServerInv, Grows
<1>4. Known'
  BY KnownKept DEF IInv
<1> QED
  BY <1>0, <1>3, <1>4 DEF IInv

\* delete_file carries the hash that the checks have compared.
LEMMA SendDeleteInv ==
  ASSUME OneClientOneTask, IInv, TypeInv', NEW d \in Client, NEW o, NEW s \in Slot, SendDelete(d, o, s)
  PROVE  IInv'
<1>0. d \in Device /\ TypeInv /\ ClientInv(d) /\ agent[d] \in Process /\ agent \in [Device -> Command]
  BY TwoDevices, SlotTyped DEF IInv, TypeInv, Workers
<1>1. Grows /\ UNCHANGED <<disk, files, ops, plans>>
  BY DEF SendDelete, Grows, user
<1>2. /\ agent' = [agent EXCEPT ![d] = SetSlot(agent[d], "delete_wait", s)]
      /\ task' = [task EXCEPT ![s] = Received(d, "delete", o.path, RemoteTarget(d, o))]
  BY <1>0, SendDeleteStep
<1>3. /\ agent'[d].pc = "delete_wait" /\ agent'[d].downloads = agent[d].downloads
      /\ agent'[d].uploads = agent[d].uploads
  <2>1. "delete_wait" \in Pc /\ s \in Slot \cup {0} /\ agent'[d] = SetSlot(agent[d], "delete_wait", s)
    BY <1>0, <1>2 DEF Pc
  <2> QED
    BY <1>0, <2>1, SetSlotFields
<1>4. ClientInv(d)'
  BY <1>1, <1>3, UploadInv DEF SendDelete
<1>5. /\ o.path \in Path /\ RemoteTarget(d, o) \in Content \cup {NoHash}
      /\ <<Peer(d), o.path, RemoteTarget(d, o)>> \in approved
  BY <1>0, CurrentRow, TargetTyped DEF SendDelete, ClientInv, TargetInv
<1> QED
  BY <1>1, <1>2, <1>4, <1>5, RequestInv

\* put_file_from_path sends what is on the disk, a version that the user made.
LEMMA SendPutInv ==
  ASSUME OneClientOneTask, IInv, TypeInv', NEW d \in Client, NEW o, NEW s \in Slot, SendPut(d, o, s)
  PROVE  IInv'
<1>0. d \in Device /\ TypeInv /\ ClientInv(d) /\ agent[d] \in Process /\ agent \in [Device -> Command]
  BY TwoDevices, SlotTyped DEF IInv, TypeInv, Workers
<1>1. Grows /\ UNCHANGED <<disk, files, plans>>
  BY DEF SendPut, Grows, user
<1>2. CASE Fail(d, o) /\ UNCHANGED task
  <2>1. \A q \in agent[d].downloads : Seen(d, q.path)'
    BY <1>1, SeenKept DEF SendPut
  <2>2. ClientInv(d)'
    BY <1>1, <1>2, <2>1, OutcomeInv
  <2> QED
    BY <1>1, <1>2, <2>2, ClientSteps
<1>3. CASE ~(Fail(d, o) /\ UNCHANGED task)
  <2>1. /\ agent' = [agent EXCEPT ![d] = SetSlot(agent[d], "put_wait", s)] /\ UNCHANGED ops
        /\ task' = [task EXCEPT ![s] = Received(d, "put", o.path, agent[d].body)]
        /\ disk[d][o.path] = agent[d].body
    BY <1>0, <1>3 DEF SendPut, Request, Received, SetSlot
  <2>2. o.path \in Path /\ agent[d].body \in Content /\ agent[d].body # NoFile
    BY <1>0, CurrentRow, NoFileAssumption DEF SendPut, TypeInv, Workers, Command, HoldsBody
  <2>3. /\ agent'[d].pc = "put_wait" /\ agent'[d].downloads = agent[d].downloads
        /\ agent'[d].uploads = agent[d].uploads
    <3>1. "put_wait" \in Pc /\ s \in Slot \cup {0} /\ agent'[d] = SetSlot(agent[d], "put_wait", s)
      BY <1>0, <2>1 DEF Pc
    <3> QED
      BY <1>0, <3>1, SetSlotFields
  <2>4. ClientInv(d)'
    BY <1>1, <2>1, <2>3, UploadInv DEF SendPut
  <2>5. <<o.path, agent[d].body>> \in versions
    BY <1>0, <2>1, <2>2 DEF IInv, Known
  <2> QED
    BY <1>1, <2>1, <2>2, <2>4, <2>5, RequestInv
<1> QED
  BY <1>2, <1>3

\* Taking an answer frees the slot, nothing else.
LEMMA Released ==
  ASSUME TypeInv, NEW s, task' = [task EXCEPT ![s] = FreeSlot]
  PROVE  \A u \in Slot : task'[u] = task[u] \/ task'[u] = FreeSlot
  BY DEF TypeInv, Workers

\* The answer ends the task and moves the command on.
LEMMA AnswerInv ==
  ASSUME OneClientOneTask, IInv, TypeInv', NEW d \in Client, NEW o, Answer(d, o)
  PROVE  IInv'
<1>0. d \in Device /\ TypeInv /\ ClientInv(d) /\ agent[d] \in Process /\ agent \in [Device -> Command]
  BY TwoDevices, SlotTyped DEF IInv, TypeInv, Workers
<1>1. Grows /\ UNCHANGED <<disk, files, plans>>
  BY DEF Answer, Grows, user
<1>2. \A u \in Slot : task'[u] = task[u] \/ task'[u] = FreeSlot
  BY <1>0, AnswerStep, Released
<1>3. CASE Fail(d, o) \/ Finish(d, o)
  <2>1. \A q \in agent[d].downloads : Seen(d, q.path)'
    BY <1>1, SeenKept DEF Answer
  <2>2. ClientInv(d)'
    BY <1>1, <1>3, <2>1, OutcomeInv
  <2> QED
    BY <1>1, <1>2, <2>2, ClientSteps
<1>4. CASE /\ agent' = [agent EXCEPT ![d] = SetSlot(agent[d], "put", 0)] /\ UNCHANGED ops
           /\ agent[d].pc = "delete_wait"
  <2>1. /\ agent'[d].pc = "put" /\ agent'[d].downloads = agent[d].downloads
        /\ agent'[d].uploads = agent[d].uploads
    <3>1. "put" \in Pc /\ 0 \in Slot \cup {0} /\ agent'[d] = SetSlot(agent[d], "put", 0)
      BY <1>0, <1>4 DEF Pc
    <3> QED
      BY <1>0, <3>1, SetSlotFields
  <2>2. ClientInv(d)'
    BY <1>1, <1>4, <2>1, UploadInv
  <2> QED
    BY <1>1, <1>2, <2>2, ClientSteps
<1> QED
  BY <1>0, <1>3, <1>4, AnswerStep

\* mark_file_deleted_locally ends the command.
LEMMA EndDeleteLocalInv ==
  ASSUME OneClientOneTask, IInv, TypeInv', NEW d \in Client, EndDeleteLocal(d)
  PROVE  IInv'
<1>1. Grows /\ UNCHANGED <<disk, task, ops, plans>>
  BY DEF EndDeleteLocal, Grows, user
<1>2. ClientInv(d)'
  BY <1>1, EndsInv DEF EndDeleteLocal
<1> QED
  BY <1>1, <1>2, ClientSteps

\* A delete on both devices names the version that the user has deleted.
LEMMA SendEraseInv ==
  ASSUME OneClientOneTask, IInv, TypeInv', NEW d \in Client, NEW s \in Slot, SendErase(d, s)
  PROVE  IInv'
<1>0. d \in Device /\ TypeInv /\ ClientInv(d) /\ agent[d] \in Process /\ agent \in [Device -> Command]
  BY TwoDevices, SlotTyped DEF IInv, TypeInv, Workers
<1>1. Grows /\ UNCHANGED <<disk, files, ops, plans>>
  BY DEF SendErase, Grows, user
<1>2. /\ agent' = [agent EXCEPT ![d] = SetSlot(agent[d], "erase_wait", s)]
      /\ task' = [task EXCEPT ![s] = Received(d, "delete", agent[d].erase, agent[d].body)]
      /\ agent[d].erase \in Path /\ agent[d].body \in Content \cup {NoHash}
  BY <1>0, SendEraseStep
<1>3. {"erase_wait", "PropagateToPeers"} \subseteq Outside /\ "erase_wait" \in Pc
  BY DEF Outside, Pc
<1>4. agent'[d].pc = "erase_wait" /\ agent'[d].downloads = {} /\ agent'[d].uploads = {}
  <2>1. s \in Slot \cup {0} /\ agent'[d] = SetSlot(agent[d], "erase_wait", s)
    BY <1>0, <1>2
  <2>2. agent[d].downloads = {} /\ agent[d].uploads = {}
    BY <1>0, <1>3 DEF SendErase, ClientInv, BatchInv
  <2> QED
    BY <1>0, <1>3, <2>1, <2>2, SetSlotFields
<1>5. ClientInv(d)'
  BY <1>1, <1>3, <1>4, OutsideInv
<1>6. <<Peer(d), agent[d].erase, agent[d].body>> \in approved
  BY <1>0 DEF SendErase, ClientInv, TargetInv
<1> QED
  BY <1>1, <1>2, <1>5, <1>6, RequestInv

\* The answer to a delete on both devices ends the command.
LEMMA EndDeleteBothInv ==
  ASSUME OneClientOneTask, IInv, TypeInv', NEW d \in Client, EndDeleteBoth(d)
  PROVE  IInv'
<1>1. Grows /\ UNCHANGED <<disk, ops, plans>>
  BY DEF EndDeleteBoth, Grows, user
<1>2. \A u \in Slot : task'[u] = task[u] \/ task'[u] = FreeSlot
  BY Released DEF EndDeleteBoth, IInv
<1>3. ClientInv(d)'
  BY <1>1, EndsInv DEF EndDeleteBoth
<1> QED
  BY <1>1, <1>2, <1>3, ClientSteps

-----------------------------------------------------------------------------
(* The server's steps *)

\* A task goes on to stage x or has its answer x.
LEMMA TaskStage ==
  ASSUME IInv, NEW s \in Slot, task[s].kind \in {"put", "delete"}, NEW x \in Stage, Grows,
         task' = [task EXCEPT ![s].stage = x] \/ Reply(s, x),
         x = "checked" => IsFree(task[s].server, task[s].path)'
  PROVE  ServerInv(s)'
<1>0. task \in [Slot -> Job] /\ task[s] \in Task /\ task[s] \in Job
  BY JobFields DEF IInv, TypeInv, Workers
<1>1. task'[s] = SetStage(task[s], x) \/ task'[s] = FreeSlot
  BY <1>0 DEF Reply, SetStage
<1>2. CASE task'[s] = FreeSlot
  BY <1>2, FreeTyped DEF ServerInv
<1>3. CASE task'[s] = SetStage(task[s], x)
  <2>1. LET t == SetStage(task[s], x)
        IN /\ t.kind = task[s].kind /\ t.server = task[s].server /\ t.path = task[s].path
           /\ t.hash = task[s].hash /\ t.stage = x
    BY <1>0, SetStageFields
  <2>2. ServerInv(s) /\ task[s].kind # "none"
    BY DEF IInv
  <2> QED
    BY <1>3, <2>1, <2>2 DEF ServerInv, Grows
<1> QED
  BY <1>1, <1>2, <1>3

\* A step of the task leaves the client alone.
LEMMA TaskSteps ==
  ASSUME OneClientOneTask, IInv, TypeInv', NEW s \in Slot, UNCHANGED <<agent, ops, plans>>, Grows,
         \A d \in Client : disk'[d] = disk[d] /\ files'[d] = files[d],
         ServerInv(s)', Known'
  PROVE  IInv'
<1>1. \A u \in Slot : u = s
  BY DEF OneClientOneTask
<1>2. \A d \in Client : ClientInv(d)'
  BY ClientKept DEF IInv
<1> QED
  BY <1>1, <1>2 DEF IInv

\* The device on which a task runs is not the client.
LEMMA ServerIsPeer ==
  ASSUME IInv, NEW s \in Slot, task[s].kind \in {"put", "delete"}
  PROVE  /\ task[s].server \in Device /\ task[s].path \in Path
         /\ \A d \in Client : d \in Device /\ d # task[s].server
  BY JobFields, TwoDevices DEF IInv, ServerInv

\* write_uploaded_file goes on only when nothing is at the target.
LEMMA CheckPutInv ==
  ASSUME OneClientOneTask, IInv, TypeInv', NEW s \in Slot, CheckPut(s)
  PROVE  IInv'
<1>1. Grows /\ UNCHANGED <<disk, files, agent, ops, plans>> /\ task[s].kind \in {"put", "delete"}
  BY DEF CheckPut, Grows, user
<1>2. "checked" \in Stage /\ "refused" \in Stage
  BY DEF Stage
<1>3. ServerInv(s)'
  <2>1. CASE Reply(s, "refused")
    BY <1>1, <1>2, <2>1, TaskStage
  <2>2. CASE ~Reply(s, "refused")
    <3>1. disk[task[s].server][task[s].path] = NoFile /\ task' = [task EXCEPT ![s].stage = "checked"]
      BY <2>2 DEF CheckPut
    <3>2. IsFree(task[s].server, task[s].path)
      BY <3>1 DEF IsFree
    <3>3. IsFree(task[s].server, task[s].path)'
      <4>1. task'[s].server = task[s].server /\ task'[s].path = task[s].path
        BY <3>1 DEF IInv, TypeInv, Workers, Job, Task
      <4> QED
        BY <1>1, <3>1, <4>1 DEF IsFree
    <3> QED
      BY <1>1, <1>2, <3>1, <3>3, TaskStage
  <2> QED
    BY <2>1, <2>2
<1>4. Known'
  BY <1>1, KnownKept DEF IInv
<1> QED
  BY <1>1, <1>3, <1>4, TaskSteps

\* publish_uploaded_file writes a version of the file to a free place.
LEMMA PublishPutInv ==
  ASSUME OneClientOneTask, IInv, TypeInv', NEW s \in Slot, PublishPut(s)
  PROVE  /\ IInv' /\ task[s].server \in Device /\ task[s].path \in Path
         /\ IsFree(task[s].server, task[s].path)
         /\ task[s].hash \in Content /\ <<task[s].path, task[s].hash>> \in versions
<1> DEFINE e == task[s].server
           p == task[s].path
           c == task[s].hash
<1>1. /\ Grows /\ UNCHANGED <<files, agent, ops, plans, versions>> /\ task[s].kind \in {"put", "delete"}
      /\ disk' = [disk EXCEPT ![e][p] = c] /\ task' = [task EXCEPT ![s].stage = "published"]
  BY DEF PublishPut, Grows, user
<1>2. "published" \in Stage /\ "published" # "checked"
  BY DEF Stage
<1>3. e \in Device /\ p \in Path /\ \A d \in Client : d \in Device /\ d # e
  BY <1>1, ServerIsPeer
<1>4. IsFree(e, p) /\ c \in Content /\ <<p, c>> \in versions
  BY JobFields DEF IInv, ServerInv, PublishPut
<1>5. ServerInv(s)'
  BY <1>1, <1>2, TaskStage
<1> HIDE DEF e, p, c
<1>6. \A d \in Client : disk'[d] = disk[d]
  BY <1>1, <1>3 DEF IInv, TypeInv, Surroundings
<1>7. Known'
  <2>1. disk'[e][p] = c /\ \A d \in Device, q \in Path : d # e \/ q # p => disk'[d][q] = disk[d][q]
    BY <1>1, <1>3 DEF IInv, TypeInv, Surroundings
  <2> QED
    BY <1>1, <1>4, <2>1 DEF IInv, Known, Grows
<1>8. IInv'
  BY <1>1, <1>5, <1>6, <1>7, TaskSteps
<1> QED
  BY <1>3, <1>4, <1>8 DEF e, p, c

\* upsert_file on the server is of no concern to the client.
LEMMA IndexPutInv ==
  ASSUME OneClientOneTask, IInv, TypeInv', NEW s \in Slot, IndexPut(s)
  PROVE  IInv'
<1>1. Grows /\ UNCHANGED <<disk, agent, ops, plans>> /\ task[s].kind \in {"put", "delete"}
  BY DEF IndexPut, Grows, user
<1>2. "accepted" \in Stage /\ "accepted" # "checked"
  BY DEF Stage
<1>3. ServerInv(s)'
  BY <1>1, <1>2, TaskStage DEF IndexPut
<1>4. \A d \in Client : files'[d] = files[d]
  BY <1>1, ServerIsPeer DEF IndexPut, IInv, TypeInv, Tables
<1>5. Known'
  BY <1>1, KnownKept DEF IInv
<1> QED
  BY <1>1, <1>3, <1>4, <1>5, TaskSteps

\* delete_shared_file goes on only when the version it scans is the one that
\* the request names.
LEMMA CheckDeleteInv ==
  ASSUME OneClientOneTask, IInv, TypeInv', NEW s \in Slot, CheckDelete(s)
  PROVE  IInv'
<1>0. PICK e, p, c : e = task[s].server /\ p = task[s].path /\ c = task[s].hash
  OBVIOUS
<1>1. /\ Grows /\ UNCHANGED <<disk, agent, ops, plans, approved, exposed>>
      /\ task[s].kind \in {"put", "delete"} /\ files' = Scanned(e)
  BY <1>0 DEF CheckDelete, Grows, user
<1>2. "checked" \in Stage /\ "refused" \in Stage
  BY DEF Stage
<1>3. e \in Device /\ p \in Path /\ \A d \in Client : d \in Device /\ d # e
  BY <1>0, <1>1, ServerIsPeer
<1>4. ServerInv(s)'
  <2>1. CASE Reply(s, "refused")
    BY <1>1, <1>2, <2>1, TaskStage
  <2>2. CASE ~Reply(s, "refused")
    <3>1. files'[e][p] = Available(c) /\ task' = [task EXCEPT ![s].stage = "checked"]
      BY <1>0, <2>2 DEF CheckDelete
    <3>2. <<e, p, c>> \in approved
      BY <1>0 DEF IInv, ServerInv, CheckDelete
    <3>3. disk[e][p] = NoFile \/ disk[e][p] = c \/ IsExposed(e, p)'
      <4>1. Seen(e, p)'
        BY <1>1, <1>3, ScanSees DEF IInv
      <4>2. files'[e][p].hash = c
        BY <3>1 DEF Available
      <4> QED
        BY <1>1, <4>1, <4>2 DEF Seen
    <3>4. IsFree(e, p)'
      BY <1>1, <3>2, <3>3 DEF IsFree
    <3>5. task'[s].server = e /\ task'[s].path = p
      BY <1>0, <3>1 DEF IInv, TypeInv, Workers, Job, Task
    <3>6. IsFree(task[s].server, task[s].path)'
      BY <3>4, <3>5
    <3> QED
      BY <1>1, <1>2, <3>1, <3>6, TaskStage
  <2> QED
    BY <2>1, <2>2
<1>5. \A d \in Client : files'[d] = files[d]
  BY <1>1, <1>3 DEF Scanned, IInv, TypeInv, Tables
<1>6. Known'
  BY <1>1, KnownKept DEF IInv
<1> QED
  BY <1>1, <1>4, <1>5, <1>6, TaskSteps

\* remove_file of the server meets that version, or what the user has written
\* into its way since.
LEMMA RemoveDeleteInv ==
  ASSUME OneClientOneTask, IInv, TypeInv', NEW s \in Slot, RemoveDelete(s)
  PROVE  /\ IInv' /\ task[s].server \in Device /\ task[s].path \in Path
         /\ IsFree(task[s].server, task[s].path)
<1> DEFINE e == task[s].server
           p == task[s].path
<1>1. /\ Grows /\ UNCHANGED <<files, agent, ops, plans, versions>> /\ task[s].kind \in {"put", "delete"}
      /\ disk' = [disk EXCEPT ![e][p] = NoFile]
      /\ task' = [task EXCEPT ![s].stage = "removed"] \/ Reply(s, "refused")
  BY DEF RemoveDelete, Grows, user
<1>2. "removed" \in Stage /\ "refused" \in Stage /\ "removed" # "checked" /\ "refused" # "checked"
  BY DEF Stage
<1>3. e \in Device /\ p \in Path /\ \A d \in Client : d \in Device /\ d # e
  BY <1>1, ServerIsPeer
<1>4. IsFree(e, p)
  BY DEF IInv, ServerInv, RemoveDelete
<1>5. ServerInv(s)'
  BY <1>1, <1>2, TaskStage
<1> HIDE DEF e, p
<1>6. \A d \in Client : disk'[d] = disk[d]
  BY <1>1, <1>3 DEF IInv, TypeInv, Surroundings
<1>7. Known'
  <2>1. /\ disk'[e][p] = NoFile
        /\ \A d \in Device, q \in Path : d # e \/ q # p => disk'[d][q] = disk[d][q]
    BY <1>1, <1>3 DEF IInv, TypeInv, Surroundings
  <2> QED
    BY <1>1, <2>1 DEF IInv, Known, Grows
<1>8. IInv'
  BY <1>1, <1>5, <1>6, <1>7, TaskSteps
<1> QED
  BY <1>3, <1>4, <1>8 DEF e, p

\* forget_file on the server is of no concern to the client.
LEMMA ForgetDeleteInv ==
  ASSUME OneClientOneTask, IInv, TypeInv', NEW s \in Slot, ForgetDelete(s)
  PROVE  IInv'
<1>1. Grows /\ UNCHANGED <<disk, agent, ops, plans>> /\ task[s].kind \in {"put", "delete"}
  BY DEF ForgetDelete, Grows, user
<1>2. "accepted" \in Stage /\ "accepted" # "checked"
  BY DEF Stage
<1>3. ServerInv(s)'
  BY <1>1, <1>2, TaskStage DEF ForgetDelete
<1>4. \A d \in Client : files'[d] = files[d]
  BY <1>1, ServerIsPeer DEF ForgetDelete, IInv, TypeInv, Tables
<1>5. Known'
  BY <1>1, KnownKept DEF IInv
<1> QED
  BY <1>1, <1>3, <1>4, <1>5, TaskSteps

-----------------------------------------------------------------------------
(* Faults *)

\* A client that gives up frees at most its slot.
LEMMA Abandoned ==
  ASSUME TypeInv, NEW d, Abandon(d)
  PROVE  \A u \in Slot : task'[u] = task[u] \/ task'[u] = FreeSlot
<1>1. CASE task' = task
  BY <1>1
<1>2. CASE task' = [task EXCEPT ![agent[d].slot] = FreeSlot]
  BY <1>2, Released
<1> QED
  BY <1>1, <1>2 DEF Abandon

\* A lost request or answer fails the operation; the task may go on alone.
LEMMA TransferTimesOutInv ==
  ASSUME OneClientOneTask, IInv, TypeInv', NEW d \in Client, NEW o, TransferTimesOut(d, o)
  PROVE  IInv'
<1>1. Grows /\ UNCHANGED <<disk, files, plans>> /\ agent[d].pc # "index" /\ Fail(d, o) /\ Abandon(d)
  BY DEF TransferTimesOut, Grows, user
<1>2. \A u \in Slot : task'[u] = task[u] \/ task'[u] = FreeSlot
  BY <1>1, Abandoned DEF IInv
<1>3. \A q \in agent[d].downloads : Seen(d, q.path)'
  BY <1>1, SeenKept
<1>4. ClientInv(d)'
  BY <1>1, <1>3, OutcomeInv
<1> QED
  BY <1>1, <1>2, <1>4, ClientSteps

\* A command that dies leaves its rows and its task behind.
LEMMA AgentStopsInv ==
  ASSUME OneClientOneTask, IInv, TypeInv', NEW d \in Client, AgentStops(d)
  PROVE  IInv'
<1>1. Grows /\ UNCHANGED <<disk, ops, plans>>
  BY DEF AgentStops, Grows, user
<1>2. \A u \in Slot : task'[u] = task[u] \/ task'[u] = FreeSlot
  BY Abandoned DEF AgentStops, IInv
<1>3. ClientInv(d)'
  BY <1>1, EndsInv DEF AgentStops
<1> QED
  BY <1>1, <1>2, <1>3, ClientSteps

\* A server that dies takes its task with it.
LEMMA ServerStopsInv ==
  ASSUME OneClientOneTask, IInv, TypeInv', NEW e, ServerStops(e)
  PROVE  IInv'
<1>1. Grows /\ UNCHANGED <<disk, files, agent, ops, plans>>
  BY DEF ServerStops, Grows, user
<1>2. PICK s \in Slot : Slot = {s}
  BY DEF OneClientOneTask
<1>3. Known'
  BY <1>1, KnownKept DEF IInv
<1>4. ServerInv(s)'
  <2>1. ServerInv(s) /\ TypeInv
    BY DEF IInv
  <2>2. CASE task'[s] = task[s]
    BY <1>1, <2>1, <2>2, ServerKept
  <2>3. CASE task'[s] = FreeSlot
    BY <2>3, FreeTyped DEF ServerInv
  <2>4. CASE task'[s] = SetStage(task[s], "refused")
    <3>1. task[s] \in Task /\ "refused" \in Stage
      BY <2>1 DEF TypeInv, Workers, Job, Stage
    <3>2. LET t == SetStage(task[s], "refused")
          IN /\ t.kind = task[s].kind /\ t.server = task[s].server /\ t.path = task[s].path
             /\ t.hash = task[s].hash /\ t.stage = "refused"
      BY <3>1, SetStageFields
    <3> QED
      BY <1>1, <2>1, <2>4, <3>2 DEF ServerInv, Grows
  <2> QED
    BY <2>1, <2>2, <2>3, <2>4, ServerStopsStep
<1> QED
  BY <1>1, <1>3, <1>4, TaskSteps

-----------------------------------------------------------------------------
(* The user's steps *)

\* What the user writes into the way of a transfer is on record.
LEMMA EditExposes ==
  ASSUME TypeInv, NEW d \in Device, NEW p \in Path, NEW v \in Content \cup {NoFile}, Edit(d, p, v)
  PROVE  /\ Grows /\ disk'[d][p] = v /\ (v # NoFile => <<p, v>> \in versions')
         /\ \A e \in Device, q \in Path : e # d \/ q # p => disk'[e][q] = disk[e][q]
         /\ InFlight(d, p) => IsFree(d, p)' /\ Seen(d, p)' /\ (v = NoFile \/ IsExposed(d, p)')
<1>1. Grows /\ (v # NoFile => <<p, v>> \in versions')
  BY DEF Edit, Grows
<1>2. /\ disk'[d][p] = v
      /\ \A e \in Device, q \in Path : e # d \/ q # p => disk'[e][q] = disk[e][q]
  BY DEF Edit, TypeInv, Surroundings
<1>3. InFlight(d, p) => (v = NoFile \/ IsExposed(d, p)')
  BY <1>2 DEF Edit, IsExposed
<1> QED
  BY <1>1, <1>2, <1>3 DEF IsFree, Seen

\* A run does not rely on a place that the user has changed.
LEMMA EditRunInv ==
  ASSUME IInv, NEW d \in Client, NEW p \in Path, NEW v \in Content \cup {NoFile}, Edit(d, p, v)
  PROVE  RunInv(d)'
<1>0. d \in Device /\ TypeInv /\ ClientInv(d) /\ agent[d] \in Process
  BY TwoDevices, SlotTyped DEF IInv
<1>1. /\ Grows /\ disk'[d][p] = v
      /\ \A q \in Path : q # p => disk'[d][q] = disk[d][q]
      /\ InFlight(d, p) => IsFree(d, p)' /\ Seen(d, p)' /\ (v = NoFile \/ IsExposed(d, p)')
  <2>1. /\ Grows /\ disk'[d][p] = v
        /\ \A e \in Device, q \in Path : e # d \/ q # p => disk'[e][q] = disk[e][q]
        /\ InFlight(d, p) => IsFree(d, p)' /\ Seen(d, p)' /\ (v = NoFile \/ IsExposed(d, p)')
    BY <1>0, EditExposes
  <2> QED
    BY <1>0, <2>1
<1>2. UNCHANGED <<agent, files>>
  BY DEF Edit
<1>3. \A q \in Path \ {p} : /\ IsExposed(d, q) => IsExposed(d, q)'
                            /\ IsFree(d, q) => IsFree(d, q)'
                            /\ Seen(d, q) => Seen(d, q)'
  BY <1>1, <1>2, PlaceKept
<1>4. \A q : At(d, q)' <=> At(d, q)
  BY <1>2, SameBatch
<1>5. agent'[d].pc = "manifest" => \A q \in Path : Seen(d, q)'
  BY <1>0, <1>1, <1>2, <1>3 DEF ClientInv, RunInv, InFlight
<1>6. \A o \in agent'[d].downloads : Seen(d, o.path)' \/ (agent'[d].pc = "index" /\ At(d, o.path)')
  <2> SUFFICES ASSUME NEW o \in agent[d].downloads
               PROVE  Seen(d, o.path)' \/ (agent[d].pc = "index" /\ At(d, o.path))
    BY <1>2, <1>4
  <2>1. o.path \in Path
    BY <1>0 DEF Process, Row, SyncOperationRecord
  <2>2. CASE o.path = p
    BY <1>1, <2>2 DEF InFlight
  <2>3. CASE o.path # p
    BY <1>0, <1>3, <2>1, <2>3 DEF ClientInv, RunInv
  <2> QED
    BY <2>2, <2>3
<1>7. ASSUME NEW q \in Path, At(d, q)'
      PROVE  /\ agent'[d].pc \in {"fetch", "remove", "publish"} => IsFree(d, q)'
             /\ agent'[d].pc \in {"remove", "publish"} => <<q, agent'[d].body>> \in versions'
             /\ agent'[d].pc = "index" => disk'[d][q] \in {NoFile, agent'[d].body} \/ IsExposed(d, q)'
  <2>1. At(d, q)
    BY <1>4, <1>7
  <2>2. agent[d].pc \in {"remove", "publish"} => <<q, agent[d].body>> \in versions'
    BY <1>0, <1>1, <2>1 DEF ClientInv, RunInv, Grows
  <2>3. CASE q = p
    <3>1. agent[d].pc \in Downloading => InFlight(d, p)
      <4>1. PICK o : IsCurrent(d, o) /\ o.path = p
        BY <2>1, <2>3 DEF At
      <4> QED
        BY <1>0, <4>1 DEF ClientInv, BatchInv, IsCurrent, InFlight
    <3> QED
      BY <1>1, <1>2, <2>2, <2>3, <3>1 DEF Downloading
  <2>4. CASE q # p
    BY <1>0, <1>1, <1>2, <1>3, <2>1, <2>2, <2>4 DEF ClientInv, RunInv
  <2> QED
    BY <2>3, <2>4
<1> QED
  BY <1>5, <1>6, <1>7 DEF RunInv

\* The user may write anywhere at any time: what is in the way of a transfer
\* counts as exposed.
LEMMA EditInv ==
  ASSUME OneClientOneTask, IInv, TypeInv', NEW d \in Device, NEW p \in Path,
         NEW v \in Content \cup {NoFile}, Edit(d, p, v)
  PROVE  IInv'
<1>1. /\ Grows /\ disk'[d][p] = v /\ (v # NoFile => <<p, v>> \in versions')
      /\ \A e \in Device, q \in Path : e # d \/ q # p => disk'[e][q] = disk[e][q]
      /\ InFlight(d, p) => IsFree(d, p)' /\ Seen(d, p)' /\ (v = NoFile \/ IsExposed(d, p)')
  BY EditExposes DEF IInv
<1>2. UNCHANGED <<agent, files, ops, plans, task, approved>> /\ disk' = [disk EXCEPT ![d][p] = v]
  BY DEF Edit
<1>3. Known'
  BY <1>1 DEF IInv, Known, Grows
<1>4. \A e \in Client : ClientInv(e)'
  <2> SUFFICES ASSUME NEW e \in Client PROVE ClientInv(e)'
    OBVIOUS
  <2>0. e \in Device /\ TypeInv /\ ClientInv(e)
    BY TwoDevices DEF IInv
  <2>1. CASE e = d
    <3>1. TableInv(e)'
      BY <1>2, <2>0, TableKept DEF ClientInv
    <3>2. BatchInv(e)'
      BY <1>2, <2>0, BatchKept DEF ClientInv, BatchInv
    <3>3. \A o : IsCurrent(e, o)' <=> IsCurrent(e, o)
      BY <1>2, SameBatch
    <3>4. TargetInv(e)'
      BY <1>2, <2>0, <3>3 DEF ClientInv, TargetInv, RemoteTarget, Queued
    <3>5. RunInv(e)'
      BY <2>1, EditRunInv
    <3> QED
      BY <3>1, <3>2, <3>4, <3>5 DEF ClientInv
  <2>2. CASE e # d
    <3>1. disk'[e] = disk[e]
      BY <1>2, <2>0, <2>2 DEF TypeInv, Surroundings
    <3> QED
      BY <1>1, <1>2, <2>0, <3>1, ClientKept
  <2> QED
    BY <2>1, <2>2
<1>5. \A s \in Slot : ServerInv(s)'
  <2> SUFFICES ASSUME NEW s \in Slot PROVE ServerInv(s)'
    OBVIOUS
  <2>1. ServerInv(s) /\ (task[s].kind # "none" => task[s].server \in Device /\ task[s].path \in Path)
    BY DEF IInv, TypeInv, Workers, Job
  <2>2. CASE task[s].server = d /\ task[s].path = p
    <3>1. task[s].stage = "checked" => IsFree(d, p)'
      BY <1>1, <2>2 DEF InFlight
    <3> QED
      BY <1>1, <1>2, <2>1, <2>2, <3>1 DEF ServerInv, Grows
  <2>3. CASE ~(task[s].server = d /\ task[s].path = p)
    BY <1>1, <1>2, <2>1, <2>3, ServerKept
  <2> QED
    BY <2>2, <2>3
<1> QED
  BY <1>3, <1>4, <1>5 DEF IInv

\* The queue of an idle client changes.
LEMMA IdleInv ==
  ASSUME IInv, NEW d \in Client, agent[d].pc = "idle", agent'[d] = agent[d], TableInv(d)', Grows
  PROVE  ClientInv(d)'
<1>1. ClientInv(d) /\ "idle" \in Outside /\ "idle" \notin Downloading
  BY DEF IInv, Outside, Downloading
<1>2. BatchInv(d)'
  BY <1>1, BatchKept DEF ClientInv, BatchInv, Grows
<1>3. TargetInv(d)'
  BY DEF TargetInv
<1>4. RunInv(d)'
  BY <1>1 DEF RunInv, ClientInv, BatchInv
<1> QED
  BY <1>2, <1>3, <1>4 DEF ClientInv

\* retry_failed_sync_operations changes no hash of a row.
LEMMA RetryInv ==
  ASSUME OneClientOneTask, IInv, TypeInv', NEW d \in Client, Retry(d)
  PROVE  IInv'
<1>0. d \in Device /\ ops[d] \in SUBSET Row /\ TableInv(d)
  BY TwoDevices DEF IInv, TypeInv, Tables, ClientInv
<1>1. Grows /\ UNCHANGED <<disk, agent, task, plans>>
  BY DEF Retry, Grows, user
<1>2. ops'[d] = retry_failed_sync_operations(ops[d], Device)
  BY <1>0 DEF Retry, IInv, TypeInv, Tables
<1>3. Updated(ops[d], ops'[d])
  BY <1>0, <1>2, RetryUpdates
<1>4. TableInv(d)'
  BY <1>0, <1>1, <1>3, TableUpdates DEF Grows
<1>5. ClientInv(d)'
  BY <1>1, <1>4, IdleInv DEF Retry
<1> QED
  BY <1>1, <1>5, ClientSteps

\* What the user has decided is on record for the row that is resolved.
LEMMA ResolveTable ==
  ASSUME TypeInv, NEW d \in Client, TableInv(d), NEW o \in ops[d], NEW k \in BlockedOperationResolution,
         Resolve(d, o, k)
  PROVE  TableInv(d)'
<1>0. d \in Device /\ ops[d] \in SUBSET Row
  BY TwoDevices DEF TypeInv, Tables
<1> DEFINE g(q) == [q EXCEPT !.kind = k, !.status = "pending", !.reason = "user",
                             !.last_error = FALSE, !.started_at = FALSE, !.finished_at = FALSE]
<1>1. ops'[d] = {IF q.id = o.id THEN g(q) ELSE q : q \in ops[d]}
  BY <1>0 DEF Resolve, resolve_update, TypeInv, Tables
<1>2. \A q \in ops[d] : /\ g(q).id = q.id /\ g(q).path = q.path /\ g(q).kind = k
                        /\ g(q).local_content_hash = q.local_content_hash
                        /\ g(q).remote_content_hash = q.remote_content_hash
  BY <1>0 DEF Row, SyncOperationRecord
<1>3. Grows /\ UNCHANGED plans
  BY DEF Resolve, Grows
<1>4. /\ k = "DownloadFromRemote" => <<d, o.path, o.local_content_hash>> \in approved'
      /\ k = "UploadToRemote" => <<Peer(d), o.path, o.remote_content_hash>> \in approved'
  BY DEF Resolve
<1> HIDE DEF g
<1>5. Consented(d, g(o))'
  BY <1>2, <1>4 DEF Consented
<1>6. \A q \in ops[d] : Consented(d, q)'
  <2>1. \A q : SameRow(q, q)
    BY DEF SameRow
  <2> QED
    BY <1>0, <1>3, <2>1, ConsentKept DEF TableInv, Grows
<1>7. \A q \in ops[d] : q.id = o.id => q = o
  BY <1>0 DEF TableInv
<1>8. \A r \in ops'[d] : \E q \in ops[d] : /\ r.id = q.id /\ Consented(d, r)'
                                           /\ r = IF q.id = o.id THEN g(q) ELSE q
  <2> SUFFICES ASSUME NEW q \in ops[d], NEW r, r = IF q.id = o.id THEN g(q) ELSE q
               PROVE  r.id = q.id /\ Consented(d, r)'
    BY <1>1
  <2>1. CASE q.id = o.id
    BY <1>2, <1>5, <1>7, <2>1
  <2>2. CASE q.id # o.id
    BY <1>6, <2>2
  <2> QED
    BY <2>1, <2>2
<1>9. \A r, t \in ops'[d] : r.id = t.id => r = t
  BY <1>0, <1>8 DEF TableInv
<1>10. \A r \in ops'[d] : Consented(d, r)' /\ r.id[1] <= plans'[d]
  BY <1>0, <1>3, <1>8 DEF TableInv
<1> QED
  BY <1>9, <1>10 DEF TableInv

\* resolve-blocked: the version that is going to be replaced is given up.
LEMMA ResolveInv ==
  ASSUME OneClientOneTask, IInv, TypeInv', NEW d \in Client, NEW o \in ops[d],
         NEW k \in BlockedOperationResolution, Resolve(d, o, k)
  PROVE  IInv'
<1>1. Grows /\ UNCHANGED <<disk, agent, task, plans>>
  BY DEF Resolve, Grows
<1>2. ClientInv(d)'
  BY <1>1, ResolveTable, IdleInv DEF Resolve, IInv, ClientInv
<1> QED
  BY <1>1, <1>2, ClientSteps

\* delete-file: the version that is going to be deleted on the peer is given up.
LEMMA DeleteFileInv ==
  ASSUME OneClientOneTask, IInv, TypeInv', NEW d \in Client, NEW p \in Path,
         NEW scope \in {"LocalOnly", "PropagateToPeers"}, DeleteFile(d, p, scope)
  PROVE  IInv'
<1>0. d \in Device /\ TypeInv /\ ClientInv(d) /\ agent[d] \in Process /\ agent \in [Device -> Command]
  BY TwoDevices, SlotTyped DEF IInv, TypeInv, Workers
<1>1. PICK c : c = files[d][p].hash
  OBVIOUS
<1>2. c \in Content /\ agent'[d] = SetErase(agent[d], scope, p, c)
  <2>1. /\ files[d][p].hash \in Content
        /\ agent' = [agent EXCEPT ![d] = SetErase(agent[d], scope, p, files[d][p].hash)]
    BY <1>0, DeleteFileType
  <2> QED
    BY <1>0, <1>1, <2>1
<1>3. scope \in Pc /\ scope \in Outside /\ scope # "manifest" /\ "idle" \in Outside
  BY DEF Pc, Outside
<1>4. agent[d].downloads = {} /\ agent[d].uploads = {}
  BY <1>0, <1>3 DEF DeleteFile, ClientInv, BatchInv
<1>5. LET r == SetErase(agent[d], scope, p, c)
      IN r.pc = scope /\ r.erase = p /\ r.body = c /\ r.downloads = {} /\ r.uploads = {}
  BY <1>0, <1>2, <1>3, <1>4, SetEraseFields
<1>6. /\ agent'[d].pc = scope /\ agent'[d].erase = p /\ agent'[d].body = c
      /\ agent'[d].downloads = {} /\ agent'[d].uploads = {}
  BY <1>2, <1>5
<1>7. /\ Grows /\ UNCHANGED <<ops, plans, task>> /\ disk' = [disk EXCEPT ![d][p] = NoFile]
      /\ scope = "PropagateToPeers" => <<Peer(d), p, c>> \in approved'
  BY <1>1 DEF DeleteFile, Grows
<1>8. ClientInv(d)'
  BY <1>3, <1>6, <1>7, OutsideInv
<1> QED
  BY <1>7, <1>8, ClientWrites

-----------------------------------------------------------------------------
(* The invariant *)

\* The two folders before the first command.
LEMMA InitIInv == Init => IInv
<1> SUFFICES ASSUME Init PROVE IInv
  OBVIOUS
<1>1. TypeInv
  BY InitType
<1>2. Known
  <2> SUFFICES ASSUME NEW d \in Device, NEW p \in Path, disk[d][p] # NoFile
               PROVE  <<p, disk[d][p]>> \in versions
    BY DEF Known
  <2>1. disk[d][p] \in Content
    BY <1>1 DEF TypeInv, Surroundings
  <2> QED
    BY <2>1 DEF Init
<1>3. \A s \in Slot : ServerInv(s)
  BY FreeTyped DEF Init, ServerInv
<1>4. \A d \in Client : ClientInv(d)
  <2> SUFFICES ASSUME NEW d \in Client PROVE ClientInv(d)
    OBVIOUS
  <2>1. agent[d] = Idle /\ ops[d] = {}
    BY TwoDevices DEF Init
  <2>2. agent[d].pc = "idle" /\ agent[d].downloads = {} /\ agent[d].uploads = {}
    BY <2>1 DEF Idle
  <2>3. TableInv(d)
    BY <2>1 DEF TableInv
  <2>4. BatchInv(d)
    BY <2>2 DEF BatchInv, Downloading
  <2>5. TargetInv(d) /\ RunInv(d)
    BY <2>2 DEF TargetInv, RunInv
  <2> QED
    BY <2>3, <2>4, <2>5 DEF ClientInv
<1> QED
  BY <1>1, <1>2, <1>3, <1>4 DEF IInv

\* Every step keeps the invariant.
LEMMA NextIInv ==
  ASSUME OneClientOneTask, IInv, [Next]_vars
  PROVE  IInv'
<1>0. TypeInv'
  BY NextType DEF IInv
<1>1. ASSUME NEW d \in Client, Cycle(d) PROVE IInv'
  <2>1. CASE Transfer(d)
    <3>1. PICK o : \/ StartNext(d, o)
                   \/ CheckDownload(d, o) \/ Fetch(d, o) \/ RemoveReplaced(d, o)
                   \/ PublishDownload(d, o) \/ IndexDownload(d, o)
                   \/ CheckUpload(d, o) \/ Answer(d, o)
                   \/ \E s \in Slot : SendDelete(d, o, s) \/ SendPut(d, o, s)
      BY <2>1 DEF Transfer
    <3> QED
      BY <1>0, <3>1, StartNextInv, CheckDownloadInv, FetchInv, RemoveReplacedInv,
         PublishDownloadInv, IndexDownloadInv, CheckUploadInv, AnswerInv,
         SendDeleteInv, SendPutInv
  <2>2. CASE \/ BeginPlan(d) \/ MakePlan(d) \/ BeginQueue(d) \/ ListBatch(d) \/ EndRun(d)
             \/ EndDeleteLocal(d) \/ (\E s \in Slot : SendErase(d, s)) \/ EndDeleteBoth(d)
    BY <1>0, <2>2, BeginPlanInv, MakePlanInv, QueueStartsInv, ListBatchInv, EndRunInv,
       EndDeleteLocalInv, SendEraseInv, EndDeleteBothInv
  <2> QED
    BY <1>1, <2>1, <2>2 DEF Cycle
<1>2. ASSUME NEW s \in Slot, Serve(s) PROVE IInv'
  BY <1>0, <1>2, CheckPutInv, PublishPutInv, IndexPutInv, CheckDeleteInv, RemoveDeleteInv,
     ForgetDeleteInv DEF Serve
<1>3. CASE User
  <2>1. ASSUME NEW d \in Device, NEW p \in Path, NEW v \in Content \cup {NoFile}, Edit(d, p, v)
        PROVE  IInv'
    BY <1>0, <2>1, EditInv
  <2>2. ASSUME NEW d \in Client,
               \/ Retry(d) \/ ExecuteQueue(d)
               \/ \E o \in ops[d], k \in BlockedOperationResolution : Resolve(d, o, k)
               \/ \E p \in Path, scope \in {"LocalOnly", "PropagateToPeers"} : DeleteFile(d, p, scope)
        PROVE  IInv'
    BY <1>0, <2>2, RetryInv, QueueStartsInv, ResolveInv, DeleteFileInv
  <2> QED
    BY <1>3, <2>1, <2>2 DEF User
<1>4. CASE Fault
  BY <1>0, <1>4, AgentStopsInv, TransferTimesOutInv, ServerStopsInv DEF Fault
<1>5. CASE UNCHANGED vars
  <2>1. Grows /\ UNCHANGED <<disk, files, agent, ops, plans, task>>
    BY <1>5 DEF vars, user, Grows
  <2>2. PICK d \in Client : Client = {d}
    BY DEF OneClientOneTask
  <2>3. ClientInv(d)'
    BY <2>1, ClientKept DEF IInv
  <2> QED
    BY <1>0, <2>1, <2>3, ClientSteps
<1> QED
  BY <1>1, <1>2, <1>3, <1>4, <1>5 DEF Next

-----------------------------------------------------------------------------
(* The refinement *)

\* The two folders before the first command are an initial state of SharedFolder.
LEMMA FolderInit == Init => Folder!Init
  BY DEF Init, Folder!Init

\* A step of the abstract folder, or none.
FolderStep == [Folder!Next]_(Folder!folderVars)

\* A step that leaves the disks and the user's history alone.
LEMMA FolderRests ==
  ASSUME UNCHANGED <<disk, user, edits>>
  PROVE  FolderStep
  BY DEF FolderStep, Folder!folderVars, user

\* IsFree is what SharedFolder means by a free place.
LEMMA FreeIsFree ==
  ASSUME NEW d, NEW p, IsFree(d, p)
  PROVE  Folder!Free(d, p)
  BY DEF IsFree, IsExposed, Folder!Free

\* A file is removed from a free place.
LEMMA FolderDiscards ==
  ASSUME NEW d \in Device, NEW p \in Path, IsFree(d, p),
         disk' = [disk EXCEPT ![d][p] = NoFile], UNCHANGED <<user, edits>>
  PROVE  FolderStep
<1>1. Folder!Discard(d, p)
  BY FreeIsFree DEF Folder!Discard, user
<1> QED
  BY <1>1 DEF FolderStep, Folder!Next

\* A known version is written to a free place.
LEMMA FolderDelivers ==
  ASSUME NEW d \in Device, NEW p \in Path, NEW c \in Content, IsFree(d, p), <<p, c>> \in versions,
         disk' = [disk EXCEPT ![d][p] = c], UNCHANGED <<user, edits>>
  PROVE  FolderStep
<1>1. Folder!Deliver(d, p)
  BY FreeIsFree DEF Folder!Deliver, user
<1> QED
  BY <1>1 DEF FolderStep, Folder!Next

\* The user writes or removes a file.
LEMMA FolderEdited ==
  ASSUME NEW d \in Device, NEW p \in Path, NEW v \in Content \cup {NoFile},
         Edit(d, p, v) \/ (v = NoFile /\ \E scope : DeleteFile(d, p, scope))
  PROVE  FolderStep
<1>1. /\ edits' = edits + 1 /\ disk' = [disk EXCEPT ![d][p] = v]
      /\ approved \cup exposed \subseteq approved' \cup exposed'
      /\ versions' = IF v = NoFile THEN versions ELSE versions \cup {<<p, v>>}
  BY DEF Edit, DeleteFile
<1>2. Folder!UserEdits(d, p)
  BY <1>1 DEF Folder!UserEdits
<1> QED
  BY <1>2 DEF FolderStep, Folder!Next

\* The user decides about a blocked operation.
LEMMA FolderGivenUp ==
  ASSUME NEW d, NEW o, NEW k, Resolve(d, o, k)
  PROVE  FolderStep
<1>1. Folder!UserGivesUp
  BY DEF Resolve, Folder!UserGivesUp
<1> QED
  BY <1>1 DEF FolderStep, Folder!Next

\* Every step of the cycle is one of SharedFolder, or leaves it alone.
LEMMA NextRefines ==
  ASSUME OneClientOneTask, IInv, [Next]_vars
  PROVE  FolderStep
<1>0. TypeInv'
  BY NextType DEF IInv
<1>1. ASSUME NEW d \in Client, NEW o, RemoveReplaced(d, o) PROVE FolderStep
  <2>1. d \in Device /\ o.path \in Path /\ IsFree(d, o.path)
    BY <1>0, <1>1, RemoveReplacedInv, TwoDevices
  <2> QED
    BY <1>1, <2>1, FolderDiscards DEF RemoveReplaced
<1>2. ASSUME NEW d \in Client, NEW o, PublishDownload(d, o) PROVE FolderStep
  <2>1. /\ d \in Device /\ o.path \in Path /\ IsFree(d, o.path)
        /\ agent[d].body \in Content /\ <<o.path, agent[d].body>> \in versions
    BY <1>0, <1>2, PublishDownloadInv, TwoDevices
  <2> QED
    BY <1>2, <2>1, FolderDelivers DEF PublishDownload
<1>3. ASSUME NEW s \in Slot, PublishPut(s) PROVE FolderStep
  <2>1. /\ task[s].server \in Device /\ task[s].path \in Path
        /\ IsFree(task[s].server, task[s].path)
        /\ task[s].hash \in Content /\ <<task[s].path, task[s].hash>> \in versions
    BY <1>0, <1>3, PublishPutInv
  <2> QED
    BY <1>3, <2>1, FolderDelivers DEF PublishPut
<1>4. ASSUME NEW s \in Slot, RemoveDelete(s) PROVE FolderStep
  <2>1. /\ task[s].server \in Device /\ task[s].path \in Path
        /\ IsFree(task[s].server, task[s].path)
    BY <1>0, <1>4, RemoveDeleteInv
  <2> QED
    BY <1>4, <2>1, FolderDiscards DEF RemoveDelete
<1>5. ASSUME NEW d \in Client, Cycle(d) PROVE FolderStep
  <2>1. CASE Transfer(d)
    <3>1. PICK o : \/ RemoveReplaced(d, o) \/ PublishDownload(d, o)
                   \/ StartNext(d, o) \/ CheckDownload(d, o) \/ Fetch(d, o)
                   \/ IndexDownload(d, o) \/ CheckUpload(d, o) \/ Answer(d, o)
                   \/ \E s \in Slot : SendDelete(d, o, s) \/ SendPut(d, o, s)
      BY <2>1 DEF Transfer
    <3>2. CASE RemoveReplaced(d, o) \/ PublishDownload(d, o)
      BY <1>1, <1>2, <3>2
    <3>3. CASE \/ StartNext(d, o) \/ CheckDownload(d, o) \/ Fetch(d, o)
               \/ IndexDownload(d, o) \/ CheckUpload(d, o) \/ Answer(d, o)
               \/ \E s \in Slot : SendDelete(d, o, s) \/ SendPut(d, o, s)
      <4>1. UNCHANGED <<disk, user, edits>>
        BY <3>3 DEF StartNext, CheckDownload, Fetch, IndexDownload, CheckUpload, Answer,
                    SendDelete, SendPut
      <4> QED
        BY <4>1, FolderRests
    <3> QED
      BY <3>1, <3>2, <3>3
  <2>2. CASE \/ BeginPlan(d) \/ MakePlan(d) \/ BeginQueue(d) \/ ListBatch(d) \/ EndRun(d)
             \/ EndDeleteLocal(d) \/ (\E s \in Slot : SendErase(d, s)) \/ EndDeleteBoth(d)
    <3>1. UNCHANGED <<disk, user, edits>>
      BY <2>2 DEF BeginPlan, MakePlan, BeginQueue, ListBatch, EndRun, EndDeleteLocal, SendErase,
                  EndDeleteBoth
    <3> QED
      BY <3>1, FolderRests
  <2> QED
    BY <1>5, <2>1, <2>2 DEF Cycle
<1>6. ASSUME NEW s \in Slot, Serve(s) PROVE FolderStep
  <2>1. CASE PublishPut(s) \/ RemoveDelete(s)
    BY <1>3, <1>4, <2>1
  <2>2. CASE CheckPut(s) \/ IndexPut(s) \/ CheckDelete(s) \/ ForgetDelete(s)
    <3>1. UNCHANGED <<disk, user, edits>>
      BY <2>2 DEF CheckPut, IndexPut, CheckDelete, ForgetDelete
    <3> QED
      BY <3>1, FolderRests
  <2> QED
    BY <1>6, <2>1, <2>2 DEF Serve
<1>7. CASE User
  <2>1. ASSUME NEW d \in Device, NEW p \in Path, NEW v \in Content \cup {NoFile}, Edit(d, p, v)
        PROVE  FolderStep
    BY <2>1, FolderEdited
  <2>2. ASSUME NEW d \in Client, Retry(d) \/ ExecuteQueue(d)
        PROVE  FolderStep
    BY <2>2, FolderRests DEF Retry, ExecuteQueue
  <2>3. ASSUME NEW d \in Client, NEW o, NEW k, Resolve(d, o, k)
        PROVE  FolderStep
    BY <2>3, FolderGivenUp
  <2>4. ASSUME NEW d \in Client, NEW p \in Path, NEW scope, DeleteFile(d, p, scope)
        PROVE  FolderStep
    <3>1. d \in Device /\ NoFile \in Content \cup {NoFile}
      BY TwoDevices
    <3> QED
      BY <2>4, <3>1, FolderEdited
  <2> QED
    BY <1>7, <2>1, <2>2, <2>3, <2>4 DEF User
<1>8. CASE Fault
  <2>1. UNCHANGED <<disk, user, edits>>
    BY <1>8 DEF Fault, AgentStops, TransferTimesOut, ServerStops
  <2> QED
    BY <2>1, FolderRests
<1>9. CASE UNCHANGED vars
  BY <1>9, FolderRests DEF vars
<1> QED
  BY <1>5, <1>6, <1>7, <1>8, <1>9 DEF Next

\* The invariant behind the refinement holds in every state.
THEOREM CycleInvariant == OneClientOneTask => (Spec => []IInv)
<1> SUFFICES ASSUME OneClientOneTask PROVE Spec => []IInv
  OBVIOUS
<1>1. IInv /\ [Next]_vars => IInv'
  BY NextIInv
<1> QED
  BY <1>1, InitIInv, PTL DEF Spec

\* Where one device runs its agent and the other's server has one task at a time,
\* for any files, any number of plans, edits at any moment, lost answers and
\* crashes: download_operation, upload_operation, write_uploaded_file and
\* delete_shared_file only put a version of the file where nothing is or where
\* the user has given up what is, and only remove what the user has given up.
THEOREM RefinesSharedFolder == OneClientOneTask => (Spec => ImplementsSharedFolder)
<1> SUFFICES ASSUME OneClientOneTask PROVE Spec => ImplementsSharedFolder
  OBVIOUS
<1>1. IInv /\ [Next]_vars => FolderStep
  BY NextRefines
<1>2. IInv /\ [Next]_vars => [Folder!Next]_(Folder!folderVars)
  BY <1>1 DEF FolderStep
<1> QED
  BY <1>2, FolderInit, CycleInvariant, PTL DEF Spec, ImplementsSharedFolder, Folder!Spec

-----------------------------------------------------------------------------
(* A user who does not edit while Syncer works *)

QuietUser == OneClientOneTask /\ ~BusyEdits

\* Where a command holds the version it has fetched, and the one it sends.
Pulls == {"remove", "publish", "index"}
Pushes == {"delete", "delete_wait", "put", "put_wait"}

\* From the scan of run_sync_queue to its end.
Batching == {"next", "download", "fetch", "upload"} \cup Pulls \cup Pushes
Running == {"manifest"} \cup Batching

\* The rows of the batch are still the rows of the queue: nobody else plans.
RowsKept(d) ==
  /\ \A o \in Queued(d), q \in ops[d] : q.id = o.id => SameRow(o, q)
  /\ \A o, q \in Queued(d) : q.id = o.id => q = o

\* The version in hand is the one the row asks for; a published download stays
\* where it is, and the task that is waited for carries the version.
WorkKept(d) ==
  \A o : IsCurrent(d, o) =>
    /\ agent[d].pc = "fetch" => o.remote_content_hash \in {NoHash, agent[d].rman[o.path].hash}
    /\ agent[d].pc \in Pulls => o.remote_content_hash \in {NoHash, agent[d].body}
    /\ agent[d].pc = "index" => disk[d][o.path] = agent[d].body
    /\ agent[d].pc \in Pushes =>
         o \in agent[d].uploads /\ o.local_content_hash \in {NoHash, agent[d].body}
    /\ agent[d].pc = "put_wait" =>
         /\ agent[d].slot \in Slot /\ task[agent[d].slot].kind = "put"
         /\ task[agent[d].slot].path = o.path /\ task[agent[d].slot].hash = agent[d].body

\* Files of a run are in the index, but for the one it has just published; a
\* download that has passed its checks has room.
RunCovered(d) ==
  /\ agent[d].pc \in Running =>
       \A p \in Path : disk[d][p] # NoFile =>
         files[d][p] # NoRecord \/ (agent[d].pc = "index" /\ At(d, p))
  /\ agent[d].pc \in {"fetch", "remove", "publish"} => FitsLimit(d)

\* A task has just written p.
Published(p) == \E s \in Slot : task[s].kind = "put" /\ task[s].stage = "published" /\ task[s].path = p

\* The same of the peer's files, as long as nothing has crashed.
PeerCovered(d) ==
  faults = 0 /\ agent[d].pc \in Batching =>
    \A p \in Path : disk[Peer(d)][p] # NoFile => files[Peer(d)][p] # NoRecord \/ Published(p)

\* What a task has written or removed stays so; without faults a PUT is waited
\* for, and one that has passed its checks has room.
TaskKept(s) ==
  /\ task[s].kind = "put" /\ task[s].stage \in {"published", "accepted"} =>
       disk[task[s].server][task[s].path] = task[s].hash
  /\ task[s].kind = "delete" /\ task[s].stage = "removed" =>
       disk[task[s].server][task[s].path] = NoFile
  /\ faults = 0 /\ task[s].kind = "put" =>
       /\ \A d \in Client : agent[d].pc = "put_wait"
       /\ task[s].stage = "checked" => FitsLimit(task[s].server)

RunKept(d) == RowsKept(d) /\ WorkKept(d) /\ RunCovered(d) /\ PeerCovered(d)

QInv == (\A d \in Client : RunKept(d)) /\ (\A s \in Slot : TaskKept(s))

\* Outside of a run there is nothing to keep.
LEMMA Rested ==
  ASSUME IInv', NEW d \in Client, agent'[d].pc \in Outside \ {"manifest"}
  PROVE  RunKept(d)'
<1>1. agent'[d].downloads = {} /\ agent'[d].uploads = {}
  BY DEF IInv, ClientInv, BatchInv
<1>2. \A o : ~IsCurrent(d, o)'
  BY <1>1 DEF IsCurrent
<1>3. /\ agent'[d].pc \notin Running /\ agent'[d].pc \notin Batching
      /\ agent'[d].pc \notin {"fetch", "remove", "publish"}
  BY DEF Outside, Running, Batching, Pulls, Pushes
<1> QED
  BY <1>1, <1>2, <1>3 DEF RunKept, RowsKept, WorkKept, RunCovered, PeerCovered, Queued

\* A task rests, and the peer's disk with it.
LEMMA TaskRests ==
  ASSUME IInv, NEW s \in Slot, TaskKept(s), task'[s] = task[s] \/ task'[s] = FreeSlot,
         \A e \in Device \ Client : disk'[e] = disk[e],
         faults' = 0 => task'[s] = FreeSlot \/ task[s].kind # "put"
  PROVE  TaskKept(s)'
<1>1. CASE task'[s] = FreeSlot
  BY <1>1, FreeTyped DEF TaskKept
<1>2. CASE task'[s] = task[s]
  <2>1. task[s].kind \in {"put", "delete"} => disk'[task[s].server] = disk[task[s].server]
    BY ServerIsPeer
  <2>2. faults' = 0 => task[s].kind # "put"
    BY <1>2, FreeTyped
  <2> QED
    BY <1>2, <2>1, <2>2 DEF TaskKept
<1> QED
  BY <1>1, <1>2

\* A step of a command that is not waiting for a PUT, and of no other.
LEMMA TasksRest ==
  ASSUME IInv, QInv, NEW d \in Client, agent[d].pc # "put_wait" \/ faults' # 0, faults' = 0 => faults = 0,
         \A s \in Slot : task'[s] = task[s] \/ task'[s] = FreeSlot,
         \A e \in Device \ Client : disk'[e] = disk[e]
  PROVE  \A s \in Slot : TaskKept(s)'
<1> SUFFICES ASSUME NEW s \in Slot PROVE TaskKept(s)'
  OBVIOUS
<1>1. TaskKept(s)
  BY DEF QInv
<1>2. faults' = 0 => task[s].kind # "put"
  BY <1>1 DEF TaskKept
<1> QED
  BY <1>1, <1>2, TaskRests

\* The batch shrinks or stays while its rows are updated.
LEMMA RowsUpdated ==
  ASSUME NEW d, RowsKept(d), Updated(ops[d], ops'[d]) \/ ops'[d] = ops[d],
         agent'[d].downloads \subseteq agent[d].downloads, agent'[d].uploads \subseteq agent[d].uploads
  PROVE  RowsKept(d)'
<1>1. Queued(d)' \subseteq Queued(d)
  BY DEF Queued
<1>2. CASE ops'[d] = ops[d]
  BY <1>1, <1>2 DEF RowsKept
<1>3. CASE Updated(ops[d], ops'[d])
  <2>1. PICK f \in [ops[d] -> Row] : /\ ops'[d] = {f[o] : o \in ops[d]}
                                     /\ \A o \in ops[d] : SameRow(o, f[o])
    BY <1>3 DEF Updated
  <2>2. ASSUME NEW o \in Queued(d)', NEW q \in ops'[d], q.id = o.id PROVE SameRow(o, q)
    <3>1. PICK r \in ops[d] : q = f[r]
      BY <2>1
    <3>2. SameRow(r, q)
      BY <2>1, <3>1
    <3>3. SameRow(o, r)
      BY <1>1, <2>2, <3>2 DEF RowsKept, SameRow
    <3> QED
      BY <3>2, <3>3 DEF SameRow
  <2> QED
    BY <1>1, <2>2 DEF RowsKept
<1> QED
  BY <1>2, <1>3

\* A scan finds every file and forgets no row.
LEMMA ScanCovers ==
  ASSUME TypeInv, NEW e \in Device, files' = Scanned(e), NEW p \in Path
  PROVE  /\ disk[e][p] # NoFile => files'[e][p] # NoRecord
         /\ files[e][p] # NoRecord => files'[e][p] # NoRecord
<1>1. files'[e] = scan_into(files[e], disk[e]) /\ files[e] \in Manifest
      /\ disk[e] \in [Path -> Content \cup {NoFile}]
  BY ScannedTyped DEF TypeInv, Tables, Surroundings
<1>2. disk[e][p] # NoFile => files'[e][p] \in FileRecord
  BY <1>1, AvailableIsRecord DEF scan_into
<1>3. disk[e][p] = NoFile => files'[e][p] = AsMissing(files[e][p])
  BY <1>1 DEF scan_into
<1>4. files[e][p] # NoRecord => AsMissing(files[e][p]) \in FileRecord
  BY <1>1 DEF AsMissing, Manifest, FileRecord, FileSyncState
<1> QED
  BY <1>2, <1>3, <1>4, NoRecordAssumption

\* The peer's files stay in its index.
LEMMA PeerKept ==
  ASSUME TypeInv, NEW d \in Device, PeerCovered(d),
         disk'[Peer(d)] = disk[Peer(d)], files'[Peer(d)] = files[Peer(d)] \/ files' = Scanned(Peer(d)),
         faults' = 0 => faults = 0, agent'[d].pc \in Batching => agent[d].pc \in Batching,
         \A p : Published(p) => Published(p)'
  PROVE  PeerCovered(d)'
<1>1. Peer(d) \in Device
  BY PeerIs
<1>2. \A p \in Path : files[Peer(d)][p] # NoRecord => files'[Peer(d)][p] # NoRecord
  BY <1>1, ScanCovers
<1> QED
  BY <1>2 DEF PeerCovered

\* A step within the run: neither the folder nor its index changes.
LEMMA CoverKept ==
  ASSUME NEW d, RunCovered(d), disk'[d] = disk[d], files'[d] = files[d], size_limit' = size_limit,
         agent'[d].pc \in Running => agent[d].pc \in Running \ {"index"},
         agent'[d].pc \in {"fetch", "remove", "publish"} =>
           FitsLimit(d) \/ agent[d].pc \in {"fetch", "remove", "publish"}
  PROVE  RunCovered(d)'
<1>1. FitsLimit(d)' <=> FitsLimit(d)
  BY DEF FitsLimit
<1> QED
  BY <1>1 DEF RunCovered

\* A run is at one operation.
LEMMA CurrentOne ==
  ASSUME TypeInv, NEW d \in Device, RowsKept(d), NEW o, NEW q, IsCurrent(d, o), IsCurrent(d, q)
  PROVE  q = o
<1>1. /\ Current(agent[d], o) /\ o \in Queued(d) /\ Current(agent[d], q) /\ q \in Queued(d)
      /\ agent[d] \in Process
  BY CurrentRow, SlotTyped
<1>2. o.id = q.id
  BY <1>1, CurrentPath
<1> QED
  BY <1>1, <1>2 DEF RowsKept

\* There is one client.
LEMMA QuietStep ==
  ASSUME QuietUser, NEW d \in Client, RunKept(d)', \A s \in Slot : TaskKept(s)'
  PROVE  QInv'
  BY OneClient DEF QuietUser, QInv

\* The command ends, or has not begun a run.
LEMMA RestedStep ==
  ASSUME QuietUser, IInv, IInv', QInv, NEW d \in Client,
         agent'[d].pc \in Outside \ {"manifest"}, \A s \in Slot : TaskKept(s)'
  PROVE  QInv'
<1>1. RunKept(d)'
  BY Rested
<1> QED
  BY <1>1, QuietStep

\* An operation ends; the folder and its index rest, or the file is indexed.
LEMMA OutcomeKept ==
  ASSUME QuietUser, IInv, QInv, NEW d \in Client, NEW o, Fail(d, o) \/ Finish(d, o),
         PeerCovered(d)', agent[d].pc \in Running,
         \A p \in Path : disk'[d][p] # NoFile => files'[d][p] # NoRecord
  PROVE  RunKept(d)'
<1>0. d \in Device /\ TypeInv /\ agent[d] \in Process /\ agent \in [Device -> Command] /\ RunKept(d)
  BY TwoDevices, SlotTyped DEF IInv, TypeInv, Workers, QInv
<1>1. /\ agent'[d].pc = "next" /\ agent'[d].downloads = agent[d].downloads \ {o}
      /\ agent'[d].uploads = agent[d].uploads \ {o}
  <2>1. agent'[d] = SetNext(agent[d], o)
    BY <1>0, OutcomeStep
  <2>2. LET r == SetNext(agent[d], o)
        IN /\ r.pc = "next" /\ r.downloads = agent[d].downloads \ {o}
           /\ r.uploads = agent[d].uploads \ {o}
    BY <1>0, SetNextFields
  <2> QED
    BY <2>1, <2>2
<1>2. Updated(ops[d], ops'[d])
  <2>1. PICK new : Updated(ops[d], new) /\ ops' = [ops EXCEPT ![d] = new]
    BY <1>0, OutcomeStep
  <2> QED
    BY <1>0, <2>1 DEF TypeInv, Tables
<1>3. RowsKept(d)'
  BY <1>0, <1>1, <1>2, RowsUpdated DEF RunKept
<1>4. WorkKept(d)'
  BY <1>1 DEF WorkKept, Pulls, Pushes
<1>5. RunCovered(d)'
  BY <1>1 DEF RunCovered
<1> QED
  BY <1>3, <1>4, <1>5 DEF RunKept

\* An operation ends and the folder, its index, the peer's and the tasks rest.
LEMMA FailureKept ==
  ASSUME QuietUser, IInv, QInv, NEW d \in Client, NEW o, Fail(d, o) \/ Finish(d, o),
         agent[d].pc \in Batching \ {"index"}, disk' = disk, files'[d] = files[d],
         files'[Peer(d)] = files[Peer(d)] \/ files' = Scanned(Peer(d)),
         faults' = 0 => faults = 0, \A p : Published(p) => Published(p)'
  PROVE  RunKept(d)'
<1>0. d \in Device /\ TypeInv /\ RunKept(d)
  BY TwoDevices DEF IInv, QInv
<1>1. PeerCovered(d)'
  BY <1>0, PeerKept DEF RunKept
<1>2. agent[d].pc \in Running
  BY DEF Running
<1>3. \A p \in Path : disk'[d][p] # NoFile => files'[d][p] # NoRecord
  BY <1>0, <1>2 DEF RunKept, RunCovered
<1> QED
  BY <1>1, <1>2, <1>3, OutcomeKept

\* build_sync_plan and the ends of commands.
LEMMA BetweenRunsKept ==
  ASSUME QuietUser, IInv, IInv', QInv, NEW d \in Client,
         \/ BeginPlan(d) \/ MakePlan(d) \/ EndRun(d) \/ EndDeleteLocal(d) \/ EndDeleteBoth(d)
         \/ AgentStops(d)
  PROVE  QInv'
<1>0. d \in Device /\ TypeInv /\ agent \in [Device -> Command] /\ agent[d] \in Process
  BY TwoDevices, SlotTyped DEF IInv, TypeInv, Workers
<1>1. agent'[d].pc \in {"plan", "queue", "idle"}
  <2>1. "idle" = Idle.pc
    BY IdleTyped
  <2> QED
    BY <1>0, <2>1 DEF BeginPlan, MakePlan, EndRun, EndDeleteLocal, EndDeleteBoth, AgentStops, Command, Process
<1>2. /\ agent'[d].pc \in Outside \ {"manifest"}
  BY <1>1 DEF Outside
<1>3. /\ disk' = disk /\ (faults' = 0 => faults = 0) /\ (agent[d].pc # "put_wait" \/ faults' # 0)
  <2>1. faults \in Nat
    BY <1>0 DEF TypeInv, Surroundings
  <2> QED
    BY <2>1 DEF BeginPlan, MakePlan, EndRun, EndDeleteLocal, EndDeleteBoth, AgentStops
<1>4. \A s \in Slot : task'[s] = task[s] \/ task'[s] = FreeSlot
  BY <1>0, Released, Abandoned DEF BeginPlan, MakePlan, EndRun, EndDeleteLocal, EndDeleteBoth, AgentStops
<1>5. \A s \in Slot : TaskKept(s)'
  BY <1>3, <1>4, TasksRest
<1> QED
  BY <1>2, <1>5, RestedStep

\* run_sync_queue scans.
LEMMA QueueStartsKept ==
  ASSUME QuietUser, IInv, IInv', QInv, NEW d \in Client, BeginQueue(d) \/ ExecuteQueue(d)
  PROVE  QInv'
<1>0. d \in Device /\ TypeInv /\ agent[d] \in Process /\ agent \in [Device -> Command]
  BY TwoDevices, SlotTyped DEF IInv, TypeInv, Workers
<1>1. "manifest" \in Pc /\ "manifest" \in Outside
  BY DEF Pc, Outside
<1>2. agent'[d] = SetPc(agent[d], "manifest")
  BY <1>0, <1>1, GotoStep DEF BeginQueue, ExecuteQueue
<1>3. agent'[d].pc = "manifest"
  BY <1>0, <1>1, <1>2, SetPcFields
<1>4. agent'[d].downloads = {} /\ agent'[d].uploads = {}
  BY <1>1, <1>3 DEF IInv, ClientInv, BatchInv
<1>5. /\ UNCHANGED <<disk, task, faults>> /\ files' = Scanned(d) /\ agent[d].pc # "put_wait"
  BY DEF BeginQueue, ExecuteQueue
<1>6. \A s \in Slot : TaskKept(s)'
  BY <1>5, TasksRest
<1>7. RowsKept(d)' /\ WorkKept(d)'
  BY <1>4 DEF RowsKept, WorkKept, Queued, IsCurrent
<1>8. RunCovered(d)'
  BY <1>0, <1>3, <1>5, ScanCovers DEF RunCovered
<1>9. PeerCovered(d)'
  BY <1>3 DEF PeerCovered, Batching, Pulls, Pushes
<1> QED
  BY <1>6, <1>7, <1>8, <1>9, QuietStep DEF RunKept

\* The batch is listed from the queue, and the peer has scanned.
LEMMA ListBatchKept ==
  ASSUME QuietUser, IInv, IInv', QInv, NEW d \in Client, ListBatch(d)
  PROVE  QInv'
<1>0. /\ d \in Device /\ TypeInv /\ ClientInv(d) /\ agent[d] \in Process
      /\ agent \in [Device -> Command] /\ RunKept(d)
  BY TwoDevices, SlotTyped DEF IInv, TypeInv, Workers, QInv
<1>1. PICK down \in SUBSET Row, up \in SUBSET Row :
        /\ down \subseteq ops[d] /\ up \subseteq ops[d] /\ files'[Peer(d)] \in Manifest
        /\ agent' = [agent EXCEPT ![d] = SetBatch(agent[d], files'[Peer(d)], down, up)]
  BY <1>0, BatchRows
<1>2. agent'[d].pc = "next" /\ agent'[d].downloads = down /\ agent'[d].uploads = up
  <2>1. agent'[d] = SetBatch(agent[d], files'[Peer(d)], down, up)
    BY <1>0, <1>1
  <2> QED
    BY <1>0, <1>1, <2>1, SetBatchFields
<1>3. /\ UNCHANGED <<disk, task, faults, ops, size_limit>> /\ files' = Scanned(Peer(d))
      /\ agent[d].pc = "manifest"
  BY DEF ListBatch
<1>4. Peer(d) \in Device /\ files'[d] = files[d]
  BY <1>0, <1>3, PeerIs, ScannedTyped
<1>5. \A s \in Slot : TaskKept(s)'
  BY <1>3, TasksRest
<1>6. RowsKept(d)'
  BY <1>0, <1>1, <1>2, <1>3 DEF RowsKept, Queued, SameRow, ClientInv, TableInv
<1>7. WorkKept(d)'
  BY <1>2 DEF WorkKept, Pulls, Pushes
<1>8. RunCovered(d)'
  BY <1>0, <1>2, <1>3, <1>4, CoverKept DEF RunKept, Running
<1>9. PeerCovered(d)'
  BY <1>0, <1>3, <1>4, ScanCovers DEF PeerCovered
<1> QED
  BY <1>5, <1>6, <1>7, <1>8, <1>9, QuietStep DEF RunKept

\* The command goes on with its operation; the folder and its index rest.
LEMMA GoesOn ==
  ASSUME QuietUser, IInv, QInv, NEW d \in Client,
         agent'[d].downloads = agent[d].downloads, agent'[d].uploads = agent[d].uploads,
         UNCHANGED <<disk, size_limit>>, ops'[d] = ops[d] \/ Updated(ops[d], ops'[d]),
         files'[d] = files[d], files'[Peer(d)] = files[Peer(d)] \/ files' = Scanned(Peer(d)),
         faults' = 0 => faults = 0, \A p : Published(p) => Published(p)',
         agent[d].pc \in Batching \ {"index"},
         agent'[d].pc \in {"fetch", "remove", "publish"} =>
           FitsLimit(d) \/ agent[d].pc \in {"fetch", "remove", "publish"},
         WorkKept(d)'
  PROVE  RunKept(d)'
<1>0. d \in Device /\ TypeInv /\ RunKept(d)
  BY TwoDevices DEF IInv, QInv
<1>1. RowsKept(d)'
  BY <1>0, RowsUpdated DEF RunKept
<1>2. RunCovered(d)'
  BY <1>0, CoverKept DEF RunKept, Running
<1>3. PeerCovered(d)'
  BY <1>0, PeerKept DEF RunKept
<1> QED
  BY <1>1, <1>2, <1>3 DEF RunKept

\* Tasks that rest stay published.
LEMMA PublishedKept ==
  ASSUME UNCHANGED task
  PROVE  \A p : Published(p) => Published(p)'
  BY DEF Published

\* mark_sync_operation_started.
LEMMA StartNextKept ==
  ASSUME QuietUser, IInv, IInv', QInv, NEW d \in Client, NEW o, StartNext(d, o)
  PROVE  QInv'
<1>0. /\ d \in Device /\ TypeInv /\ agent[d] \in Process /\ agent \in [Device -> Command]
      /\ ops \in [Device -> SUBSET Row]
  BY TwoDevices, SlotTyped DEF IInv, TypeInv, Workers, Tables
<1>1. UNCHANGED <<disk, files, task, faults, size_limit>> /\ agent[d].pc = "next"
  BY DEF StartNext
<1>2. PICK x \in {"download", "upload"} : Goto(d, x)
  BY DEF StartNext
<1>3. x \in Pc
  BY DEF Pc
<1>4. agent'[d].pc = x /\ agent'[d].downloads = agent[d].downloads /\ agent'[d].uploads = agent[d].uploads
  <2>1. agent'[d] = SetPc(agent[d], x)
    BY <1>0, <1>2, <1>3, GotoStep
  <2> QED
    BY <1>0, <1>3, <2>1, SetPcFields
<1>5. Updated(ops[d], ops'[d])
  <2>1. ops'[d] = mark_sync_operation_started(ops[d], o.id)
    BY <1>0 DEF StartNext
  <2> QED
    BY <1>0, <2>1, StartedUpdates
<1>6. \A s \in Slot : TaskKept(s)'
  BY <1>1, TasksRest
<1>7. WorkKept(d)'
  BY <1>4 DEF WorkKept, Pulls, Pushes
<1>8. RunKept(d)'
  BY <1>1, <1>4, <1>5, <1>7, GoesOn, PublishedKept DEF Batching
<1> QED
  BY <1>6, <1>8, QuietStep

\* What passes the checks of a download is what the row asks for, and fits.
LEMMA CheckDownloadKept ==
  ASSUME QuietUser, IInv, IInv', QInv, NEW d \in Client, NEW o, CheckDownload(d, o)
  PROVE  QInv'
<1>0. /\ d \in Device /\ TypeInv /\ agent[d] \in Process /\ agent \in [Device -> Command]
      /\ RowsKept(d)
  BY TwoDevices, SlotTyped DEF IInv, TypeInv, Workers, QInv, RunKept
<1>1. /\ UNCHANGED <<disk, files, task, faults, size_limit>> /\ agent[d].pc = "download"
      /\ IsCurrent(d, o)
  BY DEF CheckDownload
<1>2. agent[d].pc \in Batching \ {"index"} /\ \A p : Published(p) => Published(p)'
  BY <1>1, PublishedKept DEF Batching
<1>3. \A s \in Slot : TaskKept(s)'
  BY <1>1, TasksRest
<1>4. CASE Fail(d, o)
  <2>1. RunKept(d)'
    BY <1>1, <1>2, <1>4, FailureKept
  <2> QED
    BY <1>3, <2>1, QuietStep
<1>5. CASE /\ RemoteUnchanged(d, o) /\ FitsLimit(d) /\ UNCHANGED ops
           /\ agent' = [agent EXCEPT ![d].pc = "fetch", ![d].replace = disk[d][o.path] # NoFile]
  <2> DEFINE exists == disk[d][o.path] # NoFile
  <2>1. agent'[d] = SetReplace(agent[d], exists)
    BY <1>0, <1>5 DEF SetReplace
  <2>2. /\ agent'[d].pc = "fetch" /\ agent'[d].downloads = agent[d].downloads
        /\ agent'[d].uploads = agent[d].uploads /\ agent'[d].rman = agent[d].rman
    <3>1. exists \in BOOLEAN
      OBVIOUS
    <3> HIDE DEF exists
    <3>2. LET r == SetReplace(agent[d], exists)
          IN /\ r.pc = "fetch" /\ r.downloads = agent[d].downloads /\ r.uploads = agent[d].uploads
             /\ r.rman = agent[d].rman
      BY <1>0, <3>1, SetReplaceFields
    <3> QED
      BY <2>1, <3>2
  <2>3. o.remote_content_hash \in {NoHash, agent[d].rman[o.path].hash}
    BY <1>5 DEF RemoteUnchanged, HashOr
  <2>4. \A q : IsCurrent(d, q)' => q = o
    BY <1>0, <1>1, <2>2, SameBatch, CurrentOne
  <2>5. WorkKept(d)'
    BY <2>2, <2>3, <2>4 DEF WorkKept, Pulls, Pushes
  <2>6. RunKept(d)'
    BY <1>1, <1>2, <1>5, <2>2, <2>5, GoesOn
  <2> QED
    BY <1>3, <2>6, QuietStep
<1> QED
  BY <1>4, <1>5 DEF CheckDownload

\* What arrives is what the peer's manifest showed.
LEMMA FetchKept ==
  ASSUME QuietUser, IInv, IInv', QInv, NEW d \in Client, NEW o, Fetch(d, o)
  PROVE  QInv'
<1>0. /\ d \in Device /\ TypeInv /\ agent[d] \in Process /\ agent \in [Device -> Command]
      /\ RunKept(d) /\ RowsKept(d)
  BY TwoDevices, SlotTyped DEF IInv, TypeInv, Workers, QInv, RunKept
<1>1. /\ UNCHANGED <<disk, task, faults, size_limit>> /\ agent[d].pc = "fetch"
      /\ IsCurrent(d, o) /\ files' = Scanned(Peer(d))
  BY DEF Fetch
<1>2. agent[d].pc \in Batching \ {"index"} /\ \A p : Published(p) => Published(p)'
  BY <1>1, PublishedKept DEF Batching
<1>3. \A s \in Slot : TaskKept(s)'
  BY <1>1, TasksRest
<1>4. files'[d] = files[d]
  BY <1>0, <1>1, PeerIs, ScannedTyped
<1>5. CASE Fail(d, o)
  <2>1. RunKept(d)'
    BY <1>1, <1>2, <1>4, <1>5, FailureKept
  <2> QED
    BY <1>3, <2>1, QuietStep
<1>6. CASE ~Fail(d, o)
  <2>1. PICK x \in {"remove", "publish"}, c \in Content :
          /\ c = shared_file(files'[Peer(d)], o.path)
          /\ agent' = [agent EXCEPT ![d] = SetBody(agent[d], x, c)] /\ UNCHANGED ops
    BY <1>0, <1>6, FetchStep
  <2>2. x \in Pc
    BY DEF Pc
  <2>3. /\ agent'[d].pc = x /\ agent'[d].downloads = agent[d].downloads
        /\ agent'[d].uploads = agent[d].uploads /\ agent'[d].body = c
    <3>1. agent'[d] = SetBody(agent[d], x, c)
      BY <1>0, <2>1
    <3> QED
      BY <1>0, <2>2, <3>1, SetBodyFields
  <2>4. c = agent[d].rman[o.path].hash
    BY <1>6, <2>1 DEF Fetch
  <2>5. o.remote_content_hash \in {NoHash, c}
    BY <1>0, <1>1, <2>4 DEF RunKept, WorkKept
  <2>6. \A q : IsCurrent(d, q)' => q = o
    BY <1>0, <1>1, <2>3, SameBatch, CurrentOne
  <2>7. WorkKept(d)'
    BY <2>3, <2>5, <2>6 DEF WorkKept, Pushes
  <2>8. RunKept(d)'
    BY <1>1, <1>2, <1>4, <2>1, <2>3, <2>7, GoesOn
  <2> QED
    BY <1>3, <2>8, QuietStep
<1> QED
  BY <1>5, <1>6

\* remove_file of the version that is replaced.
LEMMA RemoveReplacedKept ==
  ASSUME QuietUser, IInv, IInv', QInv, NEW d \in Client, NEW o, RemoveReplaced(d, o)
  PROVE  QInv'
<1>0. /\ d \in Device /\ TypeInv /\ agent[d] \in Process /\ agent \in [Device -> Command]
      /\ RunKept(d) /\ RowsKept(d) /\ Peer(d) \in Device /\ Peer(d) # d
  BY TwoDevices, SlotTyped, PeerIs DEF IInv, TypeInv, Workers, QInv, RunKept
<1>1. /\ UNCHANGED <<files, task, faults, size_limit>> /\ agent[d].pc = "remove"
      /\ IsCurrent(d, o) /\ disk' = [disk EXCEPT ![d][o.path] = NoFile]
  BY DEF RemoveReplaced
<1>2. o.path \in Path
  BY <1>0, <1>1, CurrentRow
<1>3. /\ \A p \in Path : disk'[d][p] # NoFile => disk'[d][p] = disk[d][p]
      /\ \A e \in Device \ {d} : disk'[e] = disk[e]
  BY <1>0, <1>1, <1>2 DEF TypeInv, Surroundings
<1>4. \A s \in Slot : TaskKept(s)'
  BY <1>1, <1>3, TasksRest
<1>5. /\ agent[d].pc \in Batching /\ agent[d].pc \in Running
      /\ \A p : Published(p) => Published(p)'
  BY <1>1, PublishedKept DEF Batching, Running, Pulls
<1>6. PeerCovered(d)'
  BY <1>0, <1>1, <1>3, <1>5, PeerKept DEF RunKept
<1>7. \A p \in Path : disk'[d][p] # NoFile => files'[d][p] # NoRecord
  BY <1>0, <1>1, <1>3, <1>5 DEF RunKept, RunCovered
<1>8. CASE Fail(d, o)
  <2>1. RunKept(d)'
    BY <1>5, <1>6, <1>7, <1>8, OutcomeKept
  <2> QED
    BY <1>4, <2>1, QuietStep
<1>9. CASE Goto(d, "publish") /\ UNCHANGED ops
  <2>1. /\ agent'[d].pc = "publish" /\ agent'[d].downloads = agent[d].downloads
        /\ agent'[d].uploads = agent[d].uploads /\ agent'[d].body = agent[d].body
    <3>1. "publish" \in Pc
      BY DEF Pc
    <3>2. agent'[d] = SetPc(agent[d], "publish")
      BY <1>0, <1>9, <3>1, GotoStep
    <3> QED
      BY <1>0, <3>1, <3>2, SetPcFields
  <2>2. RowsKept(d)'
    BY <1>0, <1>9, <2>1, RowsUpdated
  <2>3. WorkKept(d)'
    <3>1. \A q : IsCurrent(d, q)' => IsCurrent(d, q)
      BY <2>1, SameBatch
    <3>2. "publish" \in Pulls /\ "remove" \in Pulls /\ "publish" \notin Pushes
      BY DEF Pulls, Pushes
    <3> QED
      BY <1>0, <1>1, <2>1, <3>1, <3>2 DEF RunKept, WorkKept
  <2>4. RunCovered(d)'
    BY <1>0, <1>1, <1>7, <2>1 DEF RunKept, RunCovered, FitsLimit
  <2> QED
    BY <1>4, <1>6, <2>2, <2>3, <2>4, QuietStep DEF RunKept
<1> QED
  BY <1>8, <1>9 DEF RemoveReplaced

\* publish_download: the file is there, and the index has every other file.
LEMMA PublishDownloadKept ==
  ASSUME QuietUser, IInv, IInv', QInv, NEW d \in Client, NEW o, PublishDownload(d, o)
  PROVE  QInv'
<1>0. /\ d \in Device /\ TypeInv /\ agent[d] \in Process /\ agent \in [Device -> Command]
      /\ RunKept(d) /\ RowsKept(d) /\ Peer(d) \in Device /\ Peer(d) # d
  BY TwoDevices, SlotTyped, PeerIs DEF IInv, TypeInv, Workers, QInv, RunKept
<1>1. /\ UNCHANGED <<files, task, faults, size_limit, ops>> /\ agent[d].pc = "publish"
      /\ IsCurrent(d, o) /\ disk' = [disk EXCEPT ![d][o.path] = agent[d].body]
  BY DEF PublishDownload
<1>2. o.path \in Path /\ At(d, o.path)
  BY <1>0, <1>1, AtOne
<1>3. /\ disk'[d][o.path] = agent[d].body /\ \A p \in Path \ {o.path} : disk'[d][p] = disk[d][p]
      /\ \A e \in Device \ {d} : disk'[e] = disk[e]
  BY <1>0, <1>1, <1>2 DEF TypeInv, Surroundings
<1>4. \A s \in Slot : TaskKept(s)'
  BY <1>1, <1>3, TasksRest
<1>5. /\ agent[d].pc \in Batching /\ agent[d].pc \in Running
      /\ \A p : Published(p) => Published(p)'
  BY <1>1, PublishedKept DEF Batching, Running, Pulls
<1>6. PeerCovered(d)'
  BY <1>0, <1>1, <1>3, <1>5, PeerKept DEF RunKept
<1>7. /\ agent'[d].pc = "index" /\ agent'[d].downloads = agent[d].downloads
      /\ agent'[d].uploads = agent[d].uploads /\ agent'[d].body = agent[d].body
  <2>1. "index" \in Pc
    BY DEF Pc
  <2>2. agent'[d] = SetPc(agent[d], "index")
    BY <1>0, <2>1, GotoStep DEF PublishDownload
  <2> QED
    BY <1>0, <2>1, <2>2, SetPcFields
<1>8. RowsKept(d)'
  BY <1>0, <1>1, <1>7, RowsUpdated
<1>9. WorkKept(d)'
  <2>1. \A q : IsCurrent(d, q)' => IsCurrent(d, q) /\ q = o
    BY <1>0, <1>1, <1>7, SameBatch, CurrentOne
  <2>2. "publish" \in Pulls /\ "index" \in Pulls /\ "index" \notin Pushes
    BY DEF Pulls, Pushes
  <2> QED
    BY <1>0, <1>1, <1>3, <1>7, <2>1, <2>2 DEF RunKept, WorkKept
<1>10. RunCovered(d)'
  <2>1. At(d, o.path)'
    BY <1>2, <1>7, SameBatch
  <2> QED
    BY <1>0, <1>1, <1>3, <1>5, <1>7, <2>1 DEF RunKept, RunCovered
<1> QED
  BY <1>4, <1>6, <1>8, <1>9, <1>10, QuietStep DEF RunKept

\* upsert_file counts the downloaded file.
LEMMA IndexDownloadKept ==
  ASSUME QuietUser, IInv, IInv', QInv, NEW d \in Client, NEW o, IndexDownload(d, o)
  PROVE  QInv'
<1>0. /\ d \in Device /\ TypeInv /\ agent[d] \in Process /\ agent[d] \in Command
      /\ RunKept(d) /\ Peer(d) \in Device /\ Peer(d) # d
  BY TwoDevices, SlotTyped, PeerIs DEF IInv, TypeInv, Workers, QInv
<1>1. /\ UNCHANGED <<disk, task, faults, size_limit>> /\ agent[d].pc = "index"
      /\ IsCurrent(d, o) /\ Finish(d, o)
  BY DEF IndexDownload
<1>2. o.path \in Path /\ At(d, o.path) /\ \A p : At(d, p) => p = o.path
  BY <1>0, <1>1, AtOne
<1>3. agent[d].body \in Content
  BY <1>0, <1>1 DEF Command, HoldsBody
<1>4. /\ files'[d][o.path] = Available(agent[d].body) /\ files'[Peer(d)] = files[Peer(d)]
      /\ \A p \in Path \ {o.path} : files'[d][p] = files[d][p]
  BY <1>0, <1>2 DEF IndexDownload, upsert_file, TypeInv, Tables, Manifest
<1>5. files'[d][o.path] # NoRecord
  BY <1>3, <1>4, AvailableIsRecord, NoRecordAssumption
<1>6. \A s \in Slot : TaskKept(s)'
  BY <1>1, TasksRest
<1>7. /\ agent[d].pc \in Batching /\ agent[d].pc \in Running
      /\ \A p : Published(p) => Published(p)'
  BY <1>1, PublishedKept DEF Batching, Running, Pulls
<1>8. PeerCovered(d)'
  BY <1>0, <1>1, <1>4, <1>7, PeerKept DEF RunKept
<1>9. \A p \in Path : disk'[d][p] # NoFile => files'[d][p] # NoRecord
  BY <1>0, <1>1, <1>2, <1>4, <1>5, <1>7 DEF RunKept, RunCovered
<1>10. RunKept(d)'
  BY <1>1, <1>7, <1>8, <1>9, OutcomeKept
<1> QED
  BY <1>6, <1>10, QuietStep

\* The command sends the version that the row asks for.
LEMMA CheckUploadKept ==
  ASSUME QuietUser, IInv, IInv', QInv, NEW d \in Client, NEW o, CheckUpload(d, o)
  PROVE  QInv'
<1>0. /\ d \in Device /\ TypeInv /\ agent[d] \in Process /\ agent \in [Device -> Command]
      /\ RowsKept(d) /\ ClientInv(d)
  BY TwoDevices, SlotTyped DEF IInv, TypeInv, Workers, QInv, RunKept
<1>1. /\ UNCHANGED <<disk, files, task, faults, size_limit>> /\ agent[d].pc = "upload"
      /\ IsCurrent(d, o)
  BY DEF CheckUpload
<1>2. agent[d].pc \in Batching \ {"index"} /\ \A p : Published(p) => Published(p)'
  BY <1>1, PublishedKept DEF Batching
<1>3. \A s \in Slot : TaskKept(s)'
  BY <1>1, TasksRest
<1>4. CASE Fail(d, o)
  <2>1. RunKept(d)'
    BY <1>1, <1>2, <1>4, FailureKept
  <2> QED
    BY <1>3, <2>1, QuietStep
<1>5. CASE ~Fail(d, o)
  <2>0. /\ LocalUnchanged(d, o) /\ UNCHANGED ops
        /\ agent' = [agent EXCEPT ![d].pc = IF RemoteTarget(d, o) # NoHash THEN "delete" ELSE "put",
                                  ![d].body = files[d][o.path].hash]
    BY <1>5 DEF CheckUpload
  <2>1. PICK c : c = files[d][o.path].hash
    OBVIOUS
  <2>2. PICK x \in {"delete", "put"} : agent'[d] = SetBody(agent[d], x, c)
    BY <1>0, <2>0, <2>1 DEF SetBody
  <2>3. x \in Pc /\ c \in Content
    <3>1. o.path \in Path /\ files[d] \in Manifest
      BY <1>0, <1>1, CurrentRow DEF TypeInv, Tables
    <3> QED
      BY <2>0, <2>1, <3>1 DEF Pc, LocalUnchanged, Manifest, FileRecord
  <2>4. /\ agent'[d].pc = x /\ agent'[d].downloads = agent[d].downloads
        /\ agent'[d].uploads = agent[d].uploads /\ agent'[d].body = c
    BY <1>0, <2>2, <2>3, SetBodyFields
  <2>5. o.local_content_hash \in {NoHash, c}
    BY <2>0, <2>1 DEF LocalUnchanged, HashOr
  <2>6. o \in agent[d].uploads
    BY <1>0, <1>1 DEF ClientInv, BatchInv, IsCurrent
  <2>7. \A q : IsCurrent(d, q)' => q = o
    BY <1>0, <1>1, <2>4, SameBatch, CurrentOne
  <2>8. WorkKept(d)'
    BY <2>4, <2>5, <2>6, <2>7 DEF WorkKept, Pulls
  <2>9. RunKept(d)'
    BY <1>1, <1>2, <2>0, <2>4, <2>8, GoesOn
  <2> QED
    BY <1>3, <2>9, QuietStep
<1> QED
  BY <1>4, <1>5

\* A request starts a task that has done nothing yet.
LEMMA RequestKept ==
  ASSUME QuietUser, IInv, IInv', QInv, NEW d \in Client, NEW s \in Slot, NEW kind \in {"put", "delete"},
         NEW path \in Path, NEW hash \in Content \cup {NoHash}, kind = "put" => hash \in Content,
         task[s] = FreeSlot, task'[s] = Received(d, kind, path, hash),
         kind = "put" => agent'[d].pc = "put_wait"
  PROVE  /\ \A u \in Slot : TaskKept(u)'
         /\ \A p : Published(p) => Published(p)'
         /\ task'[s].kind = kind /\ task'[s].path = path /\ task'[s].hash = hash
<1>0. d \in Device /\ Client = {d} /\ TypeInv /\ \A u \in Slot : u = s
  BY OneClient DEF IInv, QuietUser
<1> DEFINE t == Received(d, kind, path, hash)
<1>1. /\ t.kind = kind /\ t.path = path /\ t.hash = hash /\ t.stage = "received"
  BY <1>0, ReceivedTyped
<1>2. task'[s] = t
  OBVIOUS
<1> HIDE DEF t
<1>3. TaskKept(s)'
  BY <1>0, <1>1, <1>2 DEF TaskKept
<1>4. \A p : ~Published(p)
  BY <1>0, FreeTyped DEF Published
<1> QED
  BY <1>0, <1>1, <1>2, <1>3, <1>4

\* delete_file and put_file_from_path send.
LEMMA SendKept ==
  ASSUME QuietUser, IInv, IInv', QInv, NEW d \in Client, NEW o, NEW s \in Slot,
         SendDelete(d, o, s) \/ SendPut(d, o, s)
  PROVE  QInv'
<1>0. /\ d \in Device /\ TypeInv /\ agent[d] \in Process /\ agent \in [Device -> Command]
      /\ RunKept(d) /\ RowsKept(d)
  BY TwoDevices, SlotTyped DEF IInv, TypeInv, Workers, QInv, RunKept
<1>1. /\ UNCHANGED <<disk, files, faults, size_limit>> /\ agent[d].pc \in {"delete", "put"}
      /\ IsCurrent(d, o)
  BY DEF SendDelete, SendPut
<1>2. agent[d].pc \in Batching \ {"index"} /\ agent[d].pc \in Pushes /\ agent[d].body \in Content
  BY <1>0, <1>1 DEF Batching, Pushes, Command, HoldsBody
<1>3. o.path \in Path /\ RemoteTarget(d, o) \in Content \cup {NoHash}
  BY <1>0, <1>1, CurrentRow, TargetTyped
<1>4. CASE Fail(d, o) /\ UNCHANGED task
  <2>1. \A u \in Slot : TaskKept(u)'
    BY <1>1, <1>4, TasksRest
  <2>2. RunKept(d)'
    BY <1>1, <1>2, <1>4, FailureKept, PublishedKept
  <2> QED
    BY <2>1, <2>2, QuietStep
<1>5. CASE ~(Fail(d, o) /\ UNCHANGED task)
  <2>1. PICK x \in {"put_wait", "delete_wait"}, kind \in {"put", "delete"}, hash \in Content \cup {NoHash} :
          /\ agent' = [agent EXCEPT ![d] = SetSlot(agent[d], x, s)] /\ UNCHANGED ops
          /\ task[s] = FreeSlot /\ task' = [task EXCEPT ![s] = Received(d, kind, o.path, hash)]
          /\ x = "put_wait" <=> kind = "put"
          /\ kind = "put" => hash = agent[d].body
    <3>1. CASE SendDelete(d, o, s)
      <4>1. /\ agent' = [agent EXCEPT ![d] = SetSlot(agent[d], "delete_wait", s)] /\ UNCHANGED ops
            /\ task' = [task EXCEPT ![s] = Received(d, "delete", o.path, RemoteTarget(d, o))]
            /\ task[s] = FreeSlot
        <5>1. UNCHANGED ops /\ task[s] = FreeSlot
          BY <3>1 DEF SendDelete, Request
        <5>2. /\ agent' = [agent EXCEPT ![d] = SetSlot(agent[d], "delete_wait", s)]
              /\ task' = [task EXCEPT ![s] = Received(d, "delete", o.path, RemoteTarget(d, o))]
          BY <1>0, <3>1, SendDeleteStep
        <5> QED
          BY <5>1, <5>2
      <4> QED
        BY <1>3, <4>1
    <3>2. CASE SendPut(d, o, s)
      <4>1. /\ agent' = [agent EXCEPT ![d] = SetSlot(agent[d], "put_wait", s)] /\ UNCHANGED ops
            /\ task' = [task EXCEPT ![s] = Received(d, "put", o.path, agent[d].body)]
            /\ task[s] = FreeSlot
        BY <1>0, <1>5, <3>2 DEF SendPut, Request, Received, SetSlot
      <4> QED
        BY <1>2, <4>1
    <3> QED
      BY <3>1, <3>2
  <2>2. x \in Pc /\ x \in Pushes /\ x \notin Pulls /\ s \in Slot \cup {0}
    BY DEF Pc, Pushes, Pulls
  <2>3. /\ agent'[d].pc = x /\ agent'[d].downloads = agent[d].downloads
        /\ agent'[d].uploads = agent[d].uploads /\ agent'[d].body = agent[d].body
        /\ agent'[d].slot = s
    <3>1. agent'[d] = SetSlot(agent[d], x, s)
      BY <1>0, <2>1
    <3> QED
      BY <1>0, <2>2, <3>1, SetSlotFields
  <2>4. /\ \A u \in Slot : TaskKept(u)'
        /\ \A p : Published(p) => Published(p)'
        /\ task'[s].kind = kind /\ task'[s].path = o.path /\ task'[s].hash = hash
    <3>1. PICK path \in Path : path = o.path
      BY <1>3
    <3>2. (kind = "put" => hash \in Content) /\ (kind = "put" => agent'[d].pc = "put_wait")
      BY <1>2, <2>1, <2>3
    <3>3. task[s] = FreeSlot /\ task'[s] = Received(d, kind, path, hash)
      BY <1>0, <2>1, <3>1 DEF TypeInv, Workers
    <3>4. /\ \A u \in Slot : TaskKept(u)'
          /\ \A p : Published(p) => Published(p)'
          /\ task'[s].kind = kind /\ task'[s].path = path /\ task'[s].hash = hash
      BY <3>2, <3>3, RequestKept
    <3> QED
      BY <3>1, <3>4
  <2>5. \A q : IsCurrent(d, q)' => IsCurrent(d, q) /\ q = o
    BY <1>0, <1>1, <2>3, SameBatch, CurrentOne
  <2>6. WorkKept(d)'
    BY <1>0, <1>1, <1>2, <2>1, <2>2, <2>3, <2>4, <2>5 DEF RunKept, WorkKept
  <2>7. RunKept(d)'
    BY <1>1, <1>2, <2>1, <2>3, <2>4, <2>6, GoesOn
  <2> QED
    BY <2>4, <2>7, QuietStep
<1> QED
  BY <1>4, <1>5

\* A delete on both devices asks the peer.
LEMMA SendEraseKept ==
  ASSUME QuietUser, IInv, IInv', QInv, NEW d \in Client, NEW s \in Slot, SendErase(d, s)
  PROVE  QInv'
<1>0. /\ d \in Device /\ TypeInv /\ agent[d] \in Command /\ agent \in [Device -> Command]
      /\ agent[d] \in Process
  BY TwoDevices, SlotTyped DEF IInv, TypeInv, Workers
<1>1. agent[d].erase \in Path /\ agent[d].body \in Content
  BY <1>0 DEF SendErase, Command, Erases, HoldsBody
<1>2. /\ agent' = [agent EXCEPT ![d] = SetSlot(agent[d], "erase_wait", s)] /\ task[s] = FreeSlot
      /\ task' = [task EXCEPT ![s] = Received(d, "delete", agent[d].erase, agent[d].body)]
  BY <1>0, SendEraseStep DEF SendErase, Request
<1>3. agent'[d].pc = "erase_wait"
  <2>1. "erase_wait" \in Pc /\ s \in Slot \cup {0} /\ agent'[d] = SetSlot(agent[d], "erase_wait", s)
    BY <1>0, <1>2 DEF Pc
  <2> QED
    BY <1>0, <2>1, SetSlotFields
<1>4. task'[s] = Received(d, "delete", agent[d].erase, agent[d].body)
  BY <1>0, <1>2 DEF TypeInv, Workers
<1>5. \A u \in Slot : TaskKept(u)'
  BY <1>1, <1>2, <1>4, RequestKept
<1> QED
  BY <1>3, <1>5, RestedStep DEF Outside

\* The answer ends the operation, or lets its PUT follow its DELETE.
LEMMA AnswerKept ==
  ASSUME QuietUser, IInv, IInv', QInv, NEW d \in Client, NEW o, Answer(d, o)
  PROVE  QInv'
<1>0. /\ d \in Device /\ TypeInv /\ agent[d] \in Process /\ agent \in [Device -> Command]
      /\ task \in [Slot -> Job] /\ RunKept(d) /\ RowsKept(d) /\ \A s \in Slot : TaskKept(s)
  BY TwoDevices, SlotTyped DEF IInv, TypeInv, Workers, QInv, RunKept
<1>1. /\ UNCHANGED <<disk, files, faults, size_limit>> /\ agent[d].pc \in {"delete_wait", "put_wait"}
      /\ IsCurrent(d, o) /\ task[agent[d].slot].stage \in {"accepted", "refused"}
  BY DEF Answer
<1>2. agent[d].pc \in Batching \ {"index"} /\ agent[d].pc \in Pushes /\ "put" \in Pushes
  BY <1>1 DEF Batching, Pushes
<1>3. /\ task'[agent[d].slot] = FreeSlot \/ agent[d].slot \notin Slot
      /\ \A u \in Slot : u # agent[d].slot => task'[u] = task[u]
  BY <1>0, AnswerStep
<1>4. \A u \in Slot : task'[u] = task[u] \/ task'[u] = FreeSlot
  BY <1>3
<1>5. \A p : Published(p) => Published(p)'
  BY <1>1, <1>3 DEF Published
<1>6. \A u \in Slot : TaskKept(u)'
  <2>1. CASE agent[d].pc = "delete_wait"
    BY <1>1, <1>4, <2>1, TasksRest
  <2>2. CASE agent[d].pc = "put_wait"
    <3>1. agent[d].slot \in Slot
      BY <1>0, <1>1, <2>2 DEF RunKept, WorkKept
    <3>2. \A u \in Slot : task'[u] = FreeSlot
      BY <1>3, <3>1, OneClient DEF QuietUser
    <3> QED
      BY <1>0, <1>1, <3>2, TaskRests
  <2> QED
    BY <1>1, <2>1, <2>2
<1>7. CASE Fail(d, o) \/ Finish(d, o)
  <2>1. RunKept(d)'
    BY <1>1, <1>2, <1>5, <1>7, FailureKept
  <2> QED
    BY <1>6, <2>1, QuietStep
<1>8. CASE /\ agent' = [agent EXCEPT ![d] = SetSlot(agent[d], "put", 0)] /\ UNCHANGED ops
           /\ agent[d].pc = "delete_wait"
  <2>1. /\ agent'[d].pc = "put" /\ agent'[d].downloads = agent[d].downloads
        /\ agent'[d].uploads = agent[d].uploads /\ agent'[d].body = agent[d].body
    <3>1. "put" \in Pc /\ 0 \in Slot \cup {0} /\ agent'[d] = SetSlot(agent[d], "put", 0)
      BY <1>0, <1>8 DEF Pc
    <3> QED
      BY <1>0, <3>1, SetSlotFields
  <2>2. \A q : IsCurrent(d, q)' => IsCurrent(d, q)
    BY <2>1, SameBatch
  <2>3. WorkKept(d)'
    BY <1>0, <1>2, <2>1, <2>2 DEF RunKept, WorkKept, Pulls
  <2>4. RunKept(d)'
    BY <1>1, <1>2, <1>5, <1>8, <2>1, <2>3, GoesOn
  <2> QED
    BY <1>6, <2>4, QuietStep
<1> QED
  BY <1>0, <1>7, <1>8, AnswerStep

\* A client that gives up leaves its task behind; the faults are counted.
LEMMA TransferTimesOutKept ==
  ASSUME QuietUser, IInv, IInv', QInv, NEW d \in Client, NEW o, TransferTimesOut(d, o)
  PROVE  QInv'
<1>0. d \in Device /\ TypeInv /\ RunKept(d) /\ faults \in Nat
  BY TwoDevices DEF IInv, TypeInv, Surroundings, QInv
<1>1. /\ UNCHANGED <<disk, files>> /\ Fail(d, o) /\ faults' # 0
      /\ agent[d].pc \in {"fetch", "delete", "delete_wait", "put", "put_wait"}
  BY <1>0 DEF TransferTimesOut
<1>2. agent[d].pc \in Running /\ agent[d].pc # "index"
  BY <1>1 DEF Running, Batching, Pushes
<1>3. \A s \in Slot : TaskKept(s)'
  <2>1. \A s \in Slot : task'[s] = task[s] \/ task'[s] = FreeSlot
    BY <1>0, Abandoned DEF TransferTimesOut
  <2> QED
    BY <1>1, <2>1, TasksRest
<1>4. PeerCovered(d)'
  BY <1>1 DEF PeerCovered
<1>5. \A p \in Path : disk'[d][p] # NoFile => files'[d][p] # NoRecord
  BY <1>0, <1>1, <1>2 DEF RunKept, RunCovered
<1>6. RunKept(d)'
  BY <1>1, <1>2, <1>4, <1>5, OutcomeKept
<1> QED
  BY <1>3, <1>6, QuietStep

\* A task takes a stage, or its slot is free when nobody waits for the answer.
LEMMA Staged ==
  ASSUME TypeInv, NEW s \in Slot, task[s].kind \in {"put", "delete"}, NEW x \in Stage,
         task' = [task EXCEPT ![s].stage = x] \/ Reply(s, x)
  PROVE  \/ /\ task'[s].kind = task[s].kind /\ task'[s].server = task[s].server
            /\ task'[s].path = task[s].path /\ task'[s].hash = task[s].hash /\ task'[s].stage = x
         \/ task'[s] = FreeSlot /\ ~Awaited(s)
<1>0. task[s] \in Task /\ task \in [Slot -> Job]
  BY JobFields DEF TypeInv, Workers
<1>1. task'[s] = SetStage(task[s], x) \/ (task'[s] = FreeSlot /\ ~Awaited(s))
  BY <1>0 DEF Reply, SetStage
<1> QED
  BY <1>0, <1>1, SetStageFields

\* A task leaves the client's folder, queue and command alone.
LEMMA ServeKept ==
  ASSUME QuietUser, IInv, QInv, NEW s \in Slot, UNCHANGED <<agent, ops, size_limit>>,
         \A d \in Client : disk'[d] = disk[d] /\ files'[d] = files[d] /\ PeerCovered(d)',
         \/ task'[s].kind = task[s].kind /\ task'[s].path = task[s].path /\ task'[s].hash = task[s].hash
         \/ ~Awaited(s),
         TaskKept(s)'
  PROVE  QInv'
<1>0. PICK d \in Client : Client = {d}
  BY DEF QuietUser, OneClientOneTask
<1>1. RunKept(d) /\ d \in Device /\ \A u \in Slot : u = s
  BY OneClient DEF QuietUser, QInv
<1>2. /\ \A o : IsCurrent(d, o)' <=> IsCurrent(d, o)
      /\ \A p : At(d, p)' <=> At(d, p)
  BY SameBatch
<1>3. RowsKept(d)'
  BY <1>1 DEF RunKept, RowsKept, Queued
<1>4. WorkKept(d)'
  <2>1. agent[d].slot \in Slot => agent[d].slot = s /\ Awaited(s)
    BY <1>1 DEF Awaited
  <2> QED
    BY <1>1, <1>2, <2>1 DEF RunKept, WorkKept
<1>5. RunCovered(d)'
  BY <1>1, <1>2 DEF RunKept, RunCovered, FitsLimit
<1> QED
  BY <1>1, <1>3, <1>4, <1>5, QuietStep DEF RunKept

\* The server is the peer of the client, and no other task has published.
LEMMA ServesPeer ==
  ASSUME QuietUser, IInv, QInv, NEW s \in Slot, task[s].kind \in {"put", "delete"}, NEW d \in Client
  PROVE  /\ d \in Device /\ Peer(d) = task[s].server /\ d # task[s].server /\ PeerCovered(d)
         /\ \A p : Published(p) <=> /\ task[s].kind = "put" /\ task[s].stage = "published"
                                    /\ task[s].path = p
<1>1. d \in Device /\ d # task[s].server /\ task[s].server \in Device
  BY ServerIsPeer
<1>2. Peer(d) = task[s].server
  BY <1>1, PeerIs, TwoDevices
<1>3. \A u \in Slot : u = s
  BY OneClient DEF QuietUser
<1> QED
  BY <1>1, <1>2, <1>3 DEF QInv, RunKept, Published

\* write_uploaded_file goes on only when the folder has room.
LEMMA CheckPutKept ==
  ASSUME QuietUser, IInv, QInv, NEW s \in Slot, CheckPut(s)
  PROVE  QInv'
<1>0. TypeInv /\ TaskKept(s) /\ task[s].kind = "put" /\ task[s].stage = "received"
  BY DEF CheckPut, IInv, QInv
<1>1. UNCHANGED <<disk, files, agent, ops, faults, size_limit>>
  BY DEF CheckPut
<1>2. PICK x \in {"checked", "refused"} :
        /\ task' = [task EXCEPT ![s].stage = x] \/ Reply(s, x)
        /\ x = "checked" => FitsLimit(task[s].server)
  BY DEF CheckPut
<1>3. \/ /\ task'[s].kind = task[s].kind /\ task'[s].server = task[s].server
         /\ task'[s].path = task[s].path /\ task'[s].hash = task[s].hash /\ task'[s].stage = x
      \/ task'[s] = FreeSlot /\ ~Awaited(s)
  BY <1>0, <1>2, Staged DEF Stage
<1>4. TaskKept(s)'
  BY <1>0, <1>1, <1>2, <1>3, FreeTyped DEF TaskKept, FitsLimit
<1>5. ASSUME NEW d \in Client PROVE PeerCovered(d)'
  BY <1>0, <1>1, ServesPeer DEF PeerCovered
<1> QED
  BY <1>1, <1>3, <1>4, <1>5, ServeKept

\* publish_uploaded_file: the file is there before the index has it.
LEMMA PublishPutKept ==
  ASSUME QuietUser, IInv, QInv, NEW s \in Slot, PublishPut(s)
  PROVE  QInv'
<1>0. TypeInv /\ TaskKept(s) /\ task[s].kind = "put" /\ task[s].stage = "checked"
  BY DEF PublishPut, IInv, QInv
<1>1. UNCHANGED <<files, agent, ops, faults, size_limit>>
  BY DEF PublishPut
<1>2. /\ task'[s].kind = task[s].kind /\ task'[s].server = task[s].server
      /\ task'[s].path = task[s].path /\ task'[s].hash = task[s].hash /\ task'[s].stage = "published"
  <2>1. task'[s] = SetStage(task[s], "published")
    BY <1>0 DEF PublishPut, SetStage, TypeInv, Workers
  <2> QED
    BY <1>0, <2>1, JobFields, SetStageFields DEF Stage
<1>3. /\ task[s].server \in Device /\ task[s].path \in Path /\ task[s].hash \in Content
  BY <1>0, JobFields
<1>4. /\ disk'[task[s].server][task[s].path] = task[s].hash
      /\ \A q \in Path \ {task[s].path} : disk'[task[s].server][q] = disk[task[s].server][q]
      /\ \A e \in Device \ {task[s].server} : disk'[e] = disk[e]
  BY <1>0, <1>3 DEF PublishPut, TypeInv, Surroundings
<1>5. TaskKept(s)'
  BY <1>0, <1>1, <1>2, <1>4 DEF TaskKept
<1>6. ASSUME NEW d \in Client PROVE disk'[d] = disk[d] /\ PeerCovered(d)'
  <2>1. /\ d \in Device /\ Peer(d) = task[s].server /\ d # task[s].server /\ PeerCovered(d)
        /\ \A p : ~Published(p)
    BY <1>0, ServesPeer
  <2>2. PICK p : p = task[s].path
    OBVIOUS
  <2>3. Published(p)'
    BY <1>0, <1>2, <2>2 DEF Published
  <2>4. PeerCovered(d)'
    BY <1>1, <1>4, <2>1, <2>2, <2>3 DEF PeerCovered
  <2> QED
    BY <1>4, <2>1, <2>4
<1> QED
  BY <1>1, <1>2, <1>5, <1>6, ServeKept

\* upsert_file counts the received file.
LEMMA IndexPutKept ==
  ASSUME QuietUser, IInv, QInv, NEW s \in Slot, IndexPut(s)
  PROVE  QInv'
<1>0. TypeInv /\ TaskKept(s) /\ task[s].kind = "put" /\ task[s].stage = "published"
  BY DEF IndexPut, IInv, QInv
<1>1. UNCHANGED <<disk, agent, ops, faults, size_limit>>
  BY DEF IndexPut
<1>2. \/ /\ task'[s].kind = task[s].kind /\ task'[s].server = task[s].server
         /\ task'[s].path = task[s].path /\ task'[s].hash = task[s].hash /\ task'[s].stage = "accepted"
      \/ task'[s] = FreeSlot /\ ~Awaited(s)
  BY <1>0, Staged DEF Stage, IndexPut
<1>3. /\ task[s].server \in Device /\ task[s].path \in Path /\ task[s].hash \in Content
  BY <1>0, JobFields
<1>4. /\ files'[task[s].server][task[s].path] = Available(task[s].hash)
      /\ \A q \in Path \ {task[s].path} : files'[task[s].server][q] = files[task[s].server][q]
      /\ \A e \in Device \ {task[s].server} : files'[e] = files[e]
  BY <1>0, <1>3 DEF IndexPut, upsert_file, TypeInv, Tables, Manifest
<1>5. files'[task[s].server][task[s].path] # NoRecord
  BY <1>3, <1>4, AvailableIsRecord, NoRecordAssumption
<1>6. TaskKept(s)'
  BY <1>0, <1>1, <1>2, FreeTyped DEF TaskKept
<1>7. ASSUME NEW d \in Client PROVE files'[d] = files[d] /\ PeerCovered(d)'
  <2>1. /\ d \in Device /\ Peer(d) = task[s].server /\ d # task[s].server /\ PeerCovered(d)
        /\ \A p : Published(p) => p = task[s].path
    BY <1>0, ServesPeer
  <2>2. PeerCovered(d)'
    BY <1>1, <1>4, <1>5, <2>1 DEF PeerCovered
  <2> QED
    BY <1>4, <2>1, <2>2
<1> QED
  BY <1>1, <1>2, <1>6, <1>7, ServeKept

\* delete_shared_file scans, which leaves no file out of the index.
LEMMA CheckDeleteKept ==
  ASSUME QuietUser, IInv, QInv, NEW s \in Slot, CheckDelete(s)
  PROVE  QInv'
<1>0. TypeInv /\ TaskKept(s) /\ task[s].kind = "delete" /\ task[s].stage = "received"
  BY DEF CheckDelete, IInv, QInv
<1>1. UNCHANGED <<disk, agent, ops, faults, size_limit>> /\ files' = Scanned(task[s].server)
  BY DEF CheckDelete
<1>2. PICK x \in {"checked", "refused"} : task' = [task EXCEPT ![s].stage = x] \/ Reply(s, x)
  BY DEF CheckDelete
<1>3. \/ /\ task'[s].kind = task[s].kind /\ task'[s].server = task[s].server
         /\ task'[s].path = task[s].path /\ task'[s].hash = task[s].hash /\ task'[s].stage = x
      \/ task'[s] = FreeSlot /\ ~Awaited(s)
  BY <1>0, <1>2, Staged DEF Stage
<1>4. TaskKept(s)'
  BY <1>0, <1>2, <1>3, FreeTyped DEF TaskKept
<1>5. ASSUME NEW d \in Client PROVE files'[d] = files[d] /\ PeerCovered(d)'
  <2>1. /\ d \in Device /\ Peer(d) = task[s].server /\ d # task[s].server /\ PeerCovered(d)
        /\ \A p : ~Published(p)
    BY <1>0, ServesPeer
  <2>2. task[s].server \in Device
    BY <1>0, JobFields
  <2>3. files'[d] = files[d]
    BY <1>0, <1>1, <2>1, <2>2, ScannedTyped
  <2>4. PeerCovered(d)'
    BY <1>0, <1>1, <2>1, PeerKept
  <2> QED
    BY <2>3, <2>4
<1> QED
  BY <1>1, <1>3, <1>4, <1>5, ServeKept

\* remove_file.
LEMMA RemoveDeleteKept ==
  ASSUME QuietUser, IInv, QInv, NEW s \in Slot, RemoveDelete(s)
  PROVE  QInv'
<1>0. TypeInv /\ TaskKept(s) /\ task[s].kind = "delete" /\ task[s].stage = "checked"
  BY DEF RemoveDelete, IInv, QInv
<1>1. UNCHANGED <<files, agent, ops, faults, size_limit>>
  BY DEF RemoveDelete
<1>2. PICK x \in {"removed", "refused"} : task' = [task EXCEPT ![s].stage = x] \/ Reply(s, x)
  BY DEF RemoveDelete
<1>3. \/ /\ task'[s].kind = task[s].kind /\ task'[s].server = task[s].server
         /\ task'[s].path = task[s].path /\ task'[s].hash = task[s].hash /\ task'[s].stage = x
      \/ task'[s] = FreeSlot /\ ~Awaited(s)
  BY <1>0, <1>2, Staged DEF Stage
<1>4. task[s].server \in Device /\ task[s].path \in Path
  BY <1>0, JobFields
<1>5. /\ disk'[task[s].server][task[s].path] = NoFile
      /\ \A q \in Path \ {task[s].path} : disk'[task[s].server][q] = disk[task[s].server][q]
      /\ \A e \in Device \ {task[s].server} : disk'[e] = disk[e]
  BY <1>0, <1>4 DEF RemoveDelete, TypeInv, Surroundings
<1>6. TaskKept(s)'
  BY <1>0, <1>3, <1>5, FreeTyped DEF TaskKept
<1>7. ASSUME NEW d \in Client PROVE disk'[d] = disk[d] /\ PeerCovered(d)'
  <2>1. /\ d \in Device /\ Peer(d) = task[s].server /\ d # task[s].server /\ PeerCovered(d)
        /\ \A p : ~Published(p)
    BY <1>0, ServesPeer
  <2>2. PeerCovered(d)'
    BY <1>1, <1>5, <2>1 DEF PeerCovered
  <2> QED
    BY <1>5, <2>1, <2>2
<1> QED
  BY <1>1, <1>3, <1>6, <1>7, ServeKept

\* forget_file of the file that was removed.
LEMMA ForgetDeleteKept ==
  ASSUME QuietUser, IInv, QInv, NEW s \in Slot, ForgetDelete(s)
  PROVE  QInv'
<1>0. TypeInv /\ TaskKept(s) /\ task[s].kind = "delete" /\ task[s].stage = "removed"
  BY DEF ForgetDelete, IInv, QInv
<1>1. UNCHANGED <<disk, agent, ops, faults, size_limit>>
  BY DEF ForgetDelete
<1>2. \/ /\ task'[s].kind = task[s].kind /\ task'[s].server = task[s].server
         /\ task'[s].path = task[s].path /\ task'[s].hash = task[s].hash /\ task'[s].stage = "accepted"
      \/ task'[s] = FreeSlot /\ ~Awaited(s)
  BY <1>0, Staged DEF Stage, ForgetDelete
<1>3. task[s].server \in Device /\ task[s].path \in Path /\ disk[task[s].server][task[s].path] = NoFile
  BY <1>0, JobFields DEF TaskKept
<1>4. /\ \A q \in Path \ {task[s].path} : files'[task[s].server][q] = files[task[s].server][q]
      /\ \A e \in Device \ {task[s].server} : files'[e] = files[e]
  BY <1>0, <1>3 DEF ForgetDelete, forget_file, TypeInv, Tables, Manifest
<1>5. TaskKept(s)'
  BY <1>0, <1>2, FreeTyped DEF TaskKept
<1>6. ASSUME NEW d \in Client PROVE files'[d] = files[d] /\ PeerCovered(d)'
  <2>1. /\ d \in Device /\ Peer(d) = task[s].server /\ d # task[s].server /\ PeerCovered(d)
        /\ \A p : ~Published(p)
    BY <1>0, ServesPeer
  <2>2. PeerCovered(d)'
    BY <1>1, <1>3, <1>4, <2>1 DEF PeerCovered
  <2> QED
    BY <1>4, <2>1, <2>2
<1> QED
  BY <1>1, <1>2, <1>5, <1>6, ServeKept

\* The server dies; whoever waits for a task is told.
LEMMA ServerStopsKept ==
  ASSUME QuietUser, IInv, QInv, NEW e, ServerStops(e)
  PROVE  QInv'
<1>0. TypeInv /\ faults \in Nat /\ task \in [Slot -> Job]
  BY DEF IInv, TypeInv, Surroundings, Workers
<1>1. UNCHANGED <<disk, files, agent, ops, size_limit>> /\ faults' # 0
  BY <1>0 DEF ServerStops
<1>2. PICK s \in Slot : TRUE
  BY DEF QuietUser, OneClientOneTask
<1>3. /\ TaskKept(s) /\ task[s] \in Task /\ "refused" \in Stage
  BY <1>0, <1>2 DEF QInv, Job, Stage
<1>4. \/ task'[s] = task[s]
      \/ /\ task'[s].kind = task[s].kind /\ task'[s].path = task[s].path
         /\ task'[s].hash = task[s].hash /\ task'[s].stage = "refused"
      \/ task'[s] = FreeSlot /\ ~Awaited(s)
  <2>1. \/ task'[s] = task[s] \/ task'[s] = SetStage(task[s], "refused")
        \/ task'[s] = FreeSlot /\ ~Awaited(s)
    BY <1>0, ServerStopsStep
  <2> QED
    BY <1>3, <2>1, SetStageFields
<1>5. TaskKept(s)'
  BY <1>1, <1>3, <1>4, FreeTyped DEF TaskKept
<1>6. \A d \in Client : disk'[d] = disk[d] /\ files'[d] = files[d] /\ PeerCovered(d)'
  BY <1>1 DEF PeerCovered
<1> QED
  BY <1>1, <1>4, <1>5, <1>6, ServeKept

\* The user edits while nothing is under way.
LEMMA EditKept ==
  ASSUME QuietUser, IInv, IInv', QInv, ~Busy,
         NEW d \in Client, agent'[d].pc \in {"idle", "LocalOnly", "PropagateToPeers"}, UNCHANGED task
  PROVE  QInv'
<1>1. \A s \in Slot : task'[s] = FreeSlot
  BY DEF Busy
<1>2. \A s \in Slot : TaskKept(s)'
  BY <1>1, FreeTyped DEF TaskKept
<1> QED
  BY <1>2, RestedStep DEF Outside

\* The user's commands.
LEMMA UserKept ==
  ASSUME QuietUser, IInv, IInv', QInv, User
  PROVE  QInv'
<1>0. agent \in [Device -> Command] /\ \A d \in Device : agent[d] \in Process
  BY SlotTyped DEF IInv, TypeInv, Workers
<1>1. PICK d \in Client : Client = {d} /\ d \in Device
  BY TwoDevices DEF QuietUser, OneClientOneTask
<1>2. ASSUME NEW e \in Device, NEW p \in Path, NEW v \in Content \cup {NoFile}, Edit(e, p, v)
      PROVE  QInv'
  <2>1. ~Busy /\ UNCHANGED <<agent, task>> /\ agent[d].pc = "idle"
    BY <1>2 DEF Edit, QuietUser, Busy
  <2> QED
    BY <2>1, EditKept
<1>3. ASSUME NEW p \in Path, NEW scope \in {"LocalOnly", "PropagateToPeers"}, DeleteFile(d, p, scope)
      PROVE  QInv'
  <2>1. ~Busy /\ UNCHANGED task
    BY <1>3 DEF DeleteFile, QuietUser
  <2>2. agent'[d].pc = scope
    BY <1>0, <1>1, <1>3 DEF DeleteFile, Command, Process
  <2> QED
    BY <2>1, <2>2, EditKept
<1>4. ASSUME Retry(d) \/ \E o \in ops[d], k \in BlockedOperationResolution : Resolve(d, o, k)
      PROVE  QInv'
  <2>1. UNCHANGED <<disk, agent, task, faults>> /\ agent[d].pc = "idle"
    BY <1>4 DEF Retry, Resolve
  <2>2. \A s \in Slot : TaskKept(s)'
    BY <2>1, TasksRest
  <2> QED
    BY <2>1, <2>2, RestedStep DEF Outside
<1>5. ASSUME ExecuteQueue(d) PROVE QInv'
  BY <1>5, QueueStartsKept
<1> QED
  BY <1>1, <1>2, <1>3, <1>4, <1>5 DEF User

\* At the start nothing is under way.
LEMMA InitQInv == Init => QInv
<1> SUFFICES ASSUME Init PROVE QInv
  OBVIOUS
<1>1. ASSUME NEW s \in Slot PROVE TaskKept(s)
  BY FreeTyped DEF Init, TaskKept
<1>2. ASSUME NEW d \in Client PROVE RunKept(d)
  <2>1. agent[d] = Idle
    BY TwoDevices DEF Init
  <2>2. agent[d].pc = "idle" /\ agent[d].downloads = {} /\ agent[d].uploads = {}
    BY <2>1 DEF Idle
  <2>3. RowsKept(d) /\ WorkKept(d)
    BY <2>2 DEF RowsKept, WorkKept, Queued, IsCurrent
  <2>4. RunCovered(d) /\ PeerCovered(d)
    BY <2>2 DEF RunCovered, PeerCovered, Running, Batching, Pulls, Pushes
  <2> QED
    BY <2>3, <2>4 DEF RunKept
<1> QED
  BY <1>1, <1>2 DEF QInv

\* Every step keeps the invariant.
LEMMA NextQInv ==
  ASSUME QuietUser, IInv, IInv', QInv, [Next]_vars
  PROVE  QInv'
<1>1. ASSUME NEW d \in Client, Cycle(d) PROVE QInv'
  <2>1. CASE Transfer(d)
    <3>1. PICK o : \/ StartNext(d, o)
                   \/ CheckDownload(d, o) \/ Fetch(d, o) \/ RemoveReplaced(d, o)
                   \/ PublishDownload(d, o) \/ IndexDownload(d, o)
                   \/ CheckUpload(d, o) \/ Answer(d, o)
                   \/ \E s \in Slot : SendDelete(d, o, s) \/ SendPut(d, o, s)
      BY <2>1 DEF Transfer
    <3> QED
      BY <3>1, StartNextKept, CheckDownloadKept, FetchKept, RemoveReplacedKept,
         PublishDownloadKept, IndexDownloadKept, CheckUploadKept, AnswerKept, SendKept
  <2>2. CASE \/ BeginPlan(d) \/ MakePlan(d) \/ BeginQueue(d) \/ ListBatch(d) \/ EndRun(d)
             \/ EndDeleteLocal(d) \/ (\E s \in Slot : SendErase(d, s)) \/ EndDeleteBoth(d)
    BY <2>2, BetweenRunsKept, QueueStartsKept, ListBatchKept, SendEraseKept
  <2> QED
    BY <1>1, <2>1, <2>2 DEF Cycle
<1>2. ASSUME NEW s \in Slot, Serve(s) PROVE QInv'
  BY <1>2, CheckPutKept, PublishPutKept, IndexPutKept, CheckDeleteKept, RemoveDeleteKept,
     ForgetDeleteKept DEF Serve
<1>3. CASE User
  BY <1>3, UserKept
<1>4. CASE Fault
  BY <1>4, BetweenRunsKept, TransferTimesOutKept, ServerStopsKept DEF Fault
<1>5. CASE UNCHANGED vars
  <2>1. UNCHANGED <<disk, files, agent, ops, task, faults, size_limit>>
    BY <1>5 DEF vars
  <2>2. PICK s \in Slot : TRUE
    BY DEF QuietUser, OneClientOneTask
  <2>3. TaskKept(s)'
    BY <2>1, <2>2 DEF QInv, TaskKept, FitsLimit
  <2>4. \A d \in Client : PeerCovered(d)'
    BY <2>1 DEF QInv, RunKept, PeerCovered, Published
  <2> QED
    BY <2>1, <2>3, <2>4, ServeKept
<1> QED
  BY <1>1, <1>2, <1>3, <1>4, <1>5 DEF Next

\* What a run relies on, while the user leaves the folders alone.
THEOREM QuietInvariant == QuietUser => (Spec => [](IInv /\ QInv))
<1> SUFFICES ASSUME QuietUser PROVE Spec => [](IInv /\ QInv)
  OBVIOUS
<1>1. IInv /\ QInv /\ [Next]_vars => IInv' /\ QInv'
  BY NextIInv, NextQInv DEF QuietUser
<1> QED
  BY <1>1, InitIInv, InitQInv, PTL DEF Spec

-----------------------------------------------------------------------------
(* What is marked done has been copied *)

\* DoneMeansCopied, of the rows of d.
Copied(d) ==
  \A o \in ops[d], q \in ops'[d] :
    o.id = q.id /\ o.status # "done" /\ q.status = "done" =>
      IF q.kind = "DownloadFromRemote"
      THEN Holds(d, q.path, q.remote_content_hash)
      ELSE Holds(Peer(d), q.path, q.local_content_hash)

\* Rows that differ have different ids.
OneRowPerId(rows) == \A o, q \in rows : o.id = q.id => o = q

\* No statement but one makes a row done.
LEMMA NotDone ==
  ASSUME NEW rows \in SUBSET Row, OneRowPerId(rows), NEW o \in rows, o.status # "done", NEW id,
         NEW k \in BlockedOperationResolution, NEW new,
         \/ new = rows
         \/ new = mark_sync_operation_started(rows, id) \/ new = mark_sync_operation_failed(rows, id)
         \/ new = retry_failed_sync_operations(rows, Device) \/ new = resolve_update(rows, id, k),
         NEW q \in new, q.id = o.id
  PROVE  q.status # "done"
<1>0. o \in SyncOperationRecord /\ \A r \in rows : r \in SyncOperationRecord
  BY DEF Row
<1>1. CASE new = rows
  BY <1>1 DEF OneRowPerId
<1>2. CASE new = mark_sync_operation_started(rows, id)
  <2>1. PICK r \in rows : q = IF r.id = id
                              THEN [r EXCEPT !.last_error = FALSE, !.started_at = TRUE, !.finished_at = FALSE]
                              ELSE r
    BY <1>2 DEF mark_sync_operation_started
  <2>2. q.id = r.id /\ q.status = r.status
    BY <1>0, <2>1 DEF SyncOperationRecord
  <2> QED
    BY <2>2 DEF OneRowPerId
<1>3. CASE new = mark_sync_operation_failed(rows, id)
  <2>1. PICK r \in rows : q = IF r.id = id
                              THEN [r EXCEPT !.status = "failed", !.last_error = TRUE, !.finished_at = TRUE]
                              ELSE r
    BY <1>3 DEF mark_sync_operation_failed, update_sync_operation_status
  <2>2. q.id = r.id /\ q.status \in {"failed", r.status}
    BY <1>0, <2>1 DEF SyncOperationRecord
  <2> QED
    BY <2>2 DEF OneRowPerId
<1>4. CASE new = retry_failed_sync_operations(rows, Device)
  <2>1. PICK r \in rows : q = r \/ q = Retried(r)
    BY <1>4 DEF retry_failed_sync_operations
  <2>2. q.id = r.id /\ q.status \in {"pending", r.status}
    BY <1>0, <2>1 DEF Retried, SyncOperationRecord
  <2> QED
    BY <2>2 DEF OneRowPerId
<1>5. CASE new = resolve_update(rows, id, k)
  <2>1. PICK r \in rows : q = IF r.id = id
                              THEN [r EXCEPT !.kind = k, !.status = "pending", !.reason = "user",
                                             !.last_error = FALSE, !.started_at = FALSE,
                                             !.finished_at = FALSE]
                              ELSE r
    BY <1>5 DEF resolve_update
  <2>2. q.id = r.id /\ q.status \in {"pending", r.status}
    BY <1>0, <2>1 DEF SyncOperationRecord
  <2> QED
    BY <2>2 DEF OneRowPerId
<1> QED
  BY <1>1, <1>2, <1>3, <1>4, <1>5

\* mark_sync_operation_done makes one row done, and changes nothing else of it.
LEMMA DoneRow ==
  ASSUME NEW rows \in SUBSET Row, OneRowPerId(rows), NEW o \in rows, o.status # "done", NEW id,
         NEW q \in mark_sync_operation_done(rows, id), q.id = o.id, q.status = "done"
  PROVE  o.id = id /\ SameRow(o, q)
<1>0. o \in SyncOperationRecord /\ \A r \in rows : r \in SyncOperationRecord
  BY DEF Row
<1>1. PICK r \in rows : q = IF r.id = id
                            THEN [r EXCEPT !.status = "done", !.last_error = FALSE, !.finished_at = TRUE]
                            ELSE r
  BY DEF mark_sync_operation_done, update_sync_operation_status
<1>2. SameRow(r, q) /\ (q = r \/ r.id = id)
  BY <1>0, <1>1 DEF SyncOperationRecord, SameRow
<1>3. r = o
  BY <1>2 DEF SameRow, OneRowPerId
<1> QED
  BY <1>2, <1>3

\* The statements of a step, applied to the queue of d.
LEMMA NothingDone ==
  ASSUME IInv, NEW d \in Client, NEW id, NEW k \in BlockedOperationResolution,
         \/ ops'[d] = ops[d]
         \/ ops'[d] = mark_sync_operation_started(ops[d], id)
         \/ ops'[d] = mark_sync_operation_failed(ops[d], id)
         \/ ops'[d] = retry_failed_sync_operations(ops[d], Device)
         \/ ops'[d] = resolve_update(ops[d], id, k)
  PROVE  Copied(d)
<1>1. ops[d] \in SUBSET Row /\ OneRowPerId(ops[d])
  BY TwoDevices DEF IInv, TypeInv, Tables, ClientInv, TableInv, OneRowPerId
<1>2. PICK rows, new : rows = ops[d] /\ new = ops'[d]
  OBVIOUS
<1>3. /\ rows \in SUBSET Row /\ OneRowPerId(rows)
      /\ \/ new = rows
         \/ new = mark_sync_operation_started(rows, id) \/ new = mark_sync_operation_failed(rows, id)
         \/ new = retry_failed_sync_operations(rows, Device) \/ new = resolve_update(rows, id, k)
  BY <1>1, <1>2
<1>4. ASSUME NEW o \in rows, o.status # "done", NEW q \in new, q.id = o.id PROVE q.status # "done"
  BY <1>3, <1>4, NotDone
<1> QED
  BY <1>2, <1>4 DEF Copied

\* A plan adds rows with ids of their own, none of them done.
LEMMA PlanDoesNothing ==
  ASSUME IInv, NEW d \in Client, MakePlan(d)
  PROVE  Copied(d)
<1>0. /\ d \in Device /\ ops \in [Device -> SUBSET Row] /\ plans[d] \in Nat /\ TableInv(d)
      /\ plans'[d] = plans[d] + 1
  BY TwoDevices DEF IInv, TypeInv, Tables, ClientInv, MakePlan
<1>1. ASSUME NEW o \in ops[d], NEW q \in ops'[d], o.id = q.id PROVE q = o
  <2>1. q \in ops[d] \/ \E f : q = NewOperation(f, Peer(d), plans'[d])
    BY <1>0 DEF MakePlan, enqueue_sync_plan
  <2>2. CASE q \in ops[d]
    BY <1>0, <1>1, <2>2 DEF TableInv
  <2>3. CASE \E f : q = NewOperation(f, Peer(d), plans'[d])
    <3>1. q.id[1] = plans'[d]
      BY <2>3 DEF NewOperation
    <3>2. o.id[1] <= plans[d] /\ o.id[1] \in Nat
      BY <1>0 DEF TableInv, Row, SyncOperationRecord, OperationId
    <3> QED
      BY <1>0, <1>1, <3>1, <3>2
  <2> QED
    BY <2>1, <2>2, <2>3
<1> QED
  BY <1>1 DEF Copied

\* A download is done when its file is there.
LEMMA IndexDownloadCopies ==
  ASSUME IInv, QInv, NEW d \in Client, NEW r, IndexDownload(d, r)
  PROVE  Copied(d)
<1>0. /\ d \in Device /\ TypeInv /\ ClientInv(d) /\ RunKept(d) /\ agent[d] \in Command
      /\ ops \in [Device -> SUBSET Row]
  BY TwoDevices, SlotTyped DEF IInv, TypeInv, Tables, QInv
<1>1. /\ agent[d].pc = "index" /\ IsCurrent(d, r)
      /\ ops'[d] = mark_sync_operation_done(ops[d], r.id)
  BY <1>0 DEF IndexDownload, Finish
<1>2. r \in Queued(d) /\ r.kind = "DownloadFromRemote"
  BY <1>0, <1>1 DEF ClientInv, BatchInv, Downloading, IsCurrent, Queued
<1>3. /\ disk[d][r.path] = agent[d].body /\ agent[d].body \in Content
      /\ r.remote_content_hash \in {NoHash, agent[d].body}
  BY <1>0, <1>1 DEF RunKept, WorkKept, Pulls, Command, HoldsBody
<1>4. Holds(d, r.path, r.remote_content_hash)
  BY <1>3, NoFileAssumption DEF Holds, HashOr
<1>5. ASSUME NEW o \in ops[d], NEW q \in ops'[d], o.id = q.id, o.status # "done", q.status = "done"
      PROVE  q.kind = "DownloadFromRemote" /\ Holds(d, q.path, q.remote_content_hash)
  <2>1. ops[d] \in SUBSET Row /\ OneRowPerId(ops[d])
    BY <1>0 DEF ClientInv, TableInv, OneRowPerId
  <2>2. o.id = r.id /\ SameRow(o, q)
    BY <1>1, <1>5, <2>1, DoneRow
  <2>3. SameRow(r, o)
    BY <1>0, <1>2, <2>2 DEF RunKept, RowsKept
  <2> QED
    BY <1>2, <1>4, <2>2, <2>3 DEF SameRow
<1> QED
  BY <1>5 DEF Copied

\* An upload is done when the answer says that the file is there.
LEMMA AnswerCopies ==
  ASSUME QuietUser, IInv, QInv, NEW d \in Client, NEW r, Answer(d, r)
  PROVE  Copied(d)
<1>0. /\ d \in Device /\ TypeInv /\ ClientInv(d) /\ RunKept(d) /\ agent[d] \in Command
      /\ ops \in [Device -> SUBSET Row]
  BY TwoDevices, SlotTyped DEF IInv, TypeInv, Tables, QInv
<1>1. CASE Fail(d, r) \/ UNCHANGED ops
  <2>1. ops'[d] = ops[d] \/ ops'[d] = mark_sync_operation_failed(ops[d], r.id)
    BY <1>0, <1>1 DEF Fail
  <2>2. "UploadToRemote" \in BlockedOperationResolution
    BY DEF BlockedOperationResolution
  <2> QED
    BY <2>1, <2>2, NothingDone
<1>2. CASE Finish(d, r) /\ Accepted(agent[d].slot) /\ agent[d].pc = "put_wait"
  <2>1. /\ IsCurrent(d, r) /\ ops'[d] = mark_sync_operation_done(ops[d], r.id)
    BY <1>0, <1>2 DEF Answer, Finish
  <2>2. PICK s \in Slot : s = agent[d].slot /\ task[s].kind = "put" /\ task[s].path = r.path
                          /\ task[s].hash = agent[d].body
    BY <1>0, <1>2, <2>1 DEF RunKept, WorkKept
  <2>3. r \in Queued(d) /\ r.kind = "UploadToRemote" /\ r.local_content_hash \in {NoHash, agent[d].body}
    BY <1>0, <1>2, <2>1 DEF RunKept, WorkKept, Pushes, ClientInv, BatchInv, Queued
  <2>4. disk[task[s].server][r.path] = agent[d].body
    BY <1>2, <2>2 DEF QInv, TaskKept, Accepted
  <2>5. task[s].server = Peer(d) /\ agent[d].body \in Content
    BY <1>0, <2>2, ServesPeer, JobFields
  <2>6. Holds(Peer(d), r.path, r.local_content_hash)
    BY <2>3, <2>4, <2>5, NoFileAssumption DEF Holds, HashOr
  <2>7. ASSUME NEW o \in ops[d], NEW q \in ops'[d], o.id = q.id, o.status # "done", q.status = "done"
        PROVE  q.kind = "UploadToRemote" /\ Holds(Peer(d), q.path, q.local_content_hash)
    <3>1. ops[d] \in SUBSET Row /\ OneRowPerId(ops[d])
      BY <1>0 DEF ClientInv, TableInv, OneRowPerId
    <3>2. o.id = r.id /\ SameRow(o, q)
      BY <2>1, <2>7, <3>1, DoneRow
    <3>3. SameRow(r, o)
      BY <1>0, <2>3, <3>2 DEF RunKept, RowsKept
    <3> QED
      BY <2>3, <2>6, <3>2, <3>3 DEF SameRow
  <2> QED
    BY <2>7 DEF Copied
<1> QED
  BY <1>1, <1>2 DEF Answer

\* Every step.
LEMMA NextCopies ==
  ASSUME QuietUser, IInv, QInv, [Next]_vars, NEW d \in Client
  PROVE  Copied(d)
<1>0. /\ Client = {d} /\ d \in Device /\ ops \in [Device -> SUBSET Row]
      /\ "UploadToRemote" \in BlockedOperationResolution
  BY OneClient DEF QuietUser, IInv, TypeInv, Tables, BlockedOperationResolution
<1>1. CASE UNCHANGED ops
  BY <1>0, <1>1, NothingDone
<1>2. ASSUME NEW o, Fail(d, o) PROVE Copied(d)
  <2>1. ops'[d] = mark_sync_operation_failed(ops[d], o.id)
    BY <1>0, <1>2 DEF Fail
  <2> QED
    BY <1>0, <2>1, NothingDone
<1>3. CASE Cycle(d)
  <2>1. CASE Transfer(d)
    <3>1. PICK o : \/ StartNext(d, o)
                   \/ CheckDownload(d, o) \/ Fetch(d, o) \/ RemoveReplaced(d, o)
                   \/ PublishDownload(d, o) \/ IndexDownload(d, o)
                   \/ CheckUpload(d, o) \/ Answer(d, o)
                   \/ \E s \in Slot : SendDelete(d, o, s) \/ SendPut(d, o, s)
      BY <2>1 DEF Transfer
    <3>2. CASE StartNext(d, o)
      <4>1. ops'[d] = mark_sync_operation_started(ops[d], o.id)
        BY <1>0, <3>2 DEF StartNext
      <4> QED
        BY <1>0, <4>1, NothingDone
    <3>3. CASE \/ CheckDownload(d, o) \/ Fetch(d, o) \/ RemoveReplaced(d, o)
               \/ PublishDownload(d, o) \/ CheckUpload(d, o)
               \/ \E s \in Slot : SendDelete(d, o, s) \/ SendPut(d, o, s)
      <4>1. Fail(d, o) \/ UNCHANGED ops
        BY <3>3 DEF CheckDownload, Fetch, RemoveReplaced, PublishDownload, CheckUpload, SendDelete, SendPut
      <4> QED
        BY <1>1, <1>2, <4>1
    <3> QED
      BY <3>1, <3>2, <3>3, IndexDownloadCopies, AnswerCopies
  <2>2. CASE \/ BeginPlan(d) \/ BeginQueue(d) \/ ListBatch(d) \/ EndRun(d)
             \/ EndDeleteLocal(d) \/ (\E s \in Slot : SendErase(d, s)) \/ EndDeleteBoth(d)
    <3>1. UNCHANGED ops
      BY <2>2 DEF BeginPlan, BeginQueue, ListBatch, EndRun, EndDeleteLocal, SendErase, EndDeleteBoth
    <3> QED
      BY <1>1, <3>1
  <2> QED
    BY <1>3, <2>1, <2>2, PlanDoesNothing DEF Cycle
<1>4. CASE \E s \in Slot : Serve(s)
  <2>1. UNCHANGED ops
    BY <1>4 DEF Serve, CheckPut, PublishPut, IndexPut, CheckDelete, RemoveDelete, ForgetDelete
  <2> QED
    BY <1>1, <2>1
<1>5. CASE User
  <2>1. \/ UNCHANGED ops
        \/ ops'[d] = retry_failed_sync_operations(ops[d], Device)
        \/ \E id : \E k \in BlockedOperationResolution : ops'[d] = resolve_update(ops[d], id, k)
    <3>1. CASE \E e \in Device, p \in Path, v \in Content \cup {NoFile} : Edit(e, p, v)
      BY <3>1 DEF Edit
    <3>2. CASE Retry(d)
      BY <1>0, <3>2 DEF Retry
    <3>3. CASE ExecuteQueue(d)
      BY <3>3 DEF ExecuteQueue
    <3>4. ASSUME NEW o \in ops[d], NEW k \in BlockedOperationResolution, Resolve(d, o, k)
          PROVE  ops'[d] = resolve_update(ops[d], o.id, k)
      BY <1>0, <3>4 DEF Resolve
    <3>5. CASE \E p \in Path, scope \in {"LocalOnly", "PropagateToPeers"} : DeleteFile(d, p, scope)
      BY <3>5 DEF DeleteFile
    <3> QED
      BY <1>0, <1>5, <3>1, <3>2, <3>3, <3>4, <3>5 DEF User
  <2> QED
    BY <1>0, <1>1, <2>1, NothingDone
<1>6. CASE Fault
  <2>1. UNCHANGED ops \/ \E o : Fail(d, o)
    BY <1>0, <1>6 DEF Fault, AgentStops, TransferTimesOut, ServerStops
  <2> QED
    BY <1>1, <1>2, <2>1
<1>7. CASE UNCHANGED vars
  BY <1>1, <1>7 DEF vars
<1> QED
  BY <1>0, <1>3, <1>4, <1>5, <1>6, <1>7 DEF Next

\* With one agent and one task at a time, and a user who leaves the folders alone
\* while a command or a task is under way: run_sync_queue marks an operation done
\* only when the version it asked for is there, a download in this folder and an
\* upload in the peer's, whatever stale rows, lost answers and crashes came before.
THEOREM DoneIsCopied == QuietUser => (Spec => DoneMeansCopied)
<1> SUFFICES ASSUME QuietUser PROVE Spec => DoneMeansCopied
  OBVIOUS
<1>1. IInv /\ QInv /\ [Next]_vars =>
        [\A d \in Client : \A o \in ops[d], q \in ops'[d] :
           o.id = q.id /\ o.status # "done" /\ q.status = "done" =>
             IF q.kind = "DownloadFromRemote"
             THEN Holds(d, q.path, q.remote_content_hash)
             ELSE Holds(Peer(d), q.path, q.local_content_hash)]_vars
  BY NextCopies DEF Copied
<1> QED
  BY <1>1, QuietInvariant, PTL DEF Spec, DoneMeansCopied

-----------------------------------------------------------------------------
(* Any number of agents and tasks, and a user who waits for them *)

\* Where a download has passed its checks.
Acting == {"fetch", "remove", "publish", "index"}

\* What has the user's word behind it: rows, batches and requests that replace or
\* delete a version; only clients run commands.
Backed(d) ==
  /\ TableInv(d) /\ BatchInv(d) /\ TargetInv(d)
  /\ agent[d].pc \in {"PropagateToPeers", "erase_wait"} => agent[d].erase \in Chosen

\* A DELETE names a version that the user has given up there.
Meant(s) ==
  task[s].kind = "delete" => <<task[s].server, task[s].path, task[s].hash>> \in approved

\* What holds for any number of agents and tasks, whatever the user edits.
GInv ==
  /\ TypeInv
  /\ \A d \in Client : Backed(d)
  /\ \A s \in Slot : Meant(s)
  /\ \A d \in Device \ Client : agent[d] = Idle

\* The download on d has fetched version c of p.
Fetched(d, p, c) == agent[d].pc \in {"remove", "publish"} /\ At(d, p) /\ agent[d].body = c

\* The download on d has put its file at p, and not yet its row.
Indexing(d, p) == agent[d].pc = "index" /\ At(d, p)

\* A task of d is past its checks on p and has not answered.
Handled(d, p) ==
  \E s \in Slot :
    /\ task[s].server = d /\ task[s].path = p
    /\ \/ task[s].kind = "put" /\ task[s].stage \in {"checked", "published"}
       \/ task[s].kind = "delete" /\ task[s].stage \in {"checked", "removed"}

\* A task of d has put its file at p, and not yet its row.
Arrived(d, p) ==
  \E s \in Slot : /\ task[s].kind = "put" /\ task[s].stage = "published"
                  /\ task[s].server = d /\ task[s].path = p

\* A PUT carries version c of p.
Carried(p, c) == \E s \in Slot : task[s].kind = "put" /\ task[s].path = p /\ task[s].hash = c

\* A PUT is for d.
Expected(d) == \E s \in Slot : task[s].kind = "put" /\ task[s].server = d

\* Something is about to change d at p.
InHand(d, p) == Downloads(d, p) \/ Handled(d, p)

\* Version c of p is on a disk or on its way to one.
Present(p, c) ==
  \/ \E d \in Device : disk[d][p] = c \/ Fetched(d, p, c)
  \/ Carried(p, c)

\* The user has given up version c of p nowhere.
Precious(p, c) == \A e \in Device : <<e, p, c>> \notin approved

\* The index of d shows what is at p.
RowMatches(d, p) == files[d][p] # NoRecord /\ files[d][p].hash = disk[d][p]

IsRunning(d) == agent[d].pc \in Running

\* A copy that nothing is about to change, and that a run knows of.
Anchor(d, p, c) ==
  /\ disk[d][p] = c
  /\ ~InHand(d, p)
  /\ IsRunning(d) => RowMatches(d, p)

\* Every version that is left and not given up has such a copy.
Anchored ==
  \A p \in Path, c \in Content :
    Present(p, c) /\ Precious(p, c) => \E d \in Device : Anchor(d, p, c)

\* The index of d has been scanned for a run or a PUT that relies on it.
Fresh(d) == IsRunning(d) \/ agent[Peer(d)].pc \in Batching \/ Expected(d)

\* Files that the index of d does not show, and that nobody is bringing.
Orphans(d) ==
  {p \in Path : /\ disk[d][p] # NoFile /\ files[d][p] = NoRecord /\ p \notin Chosen
                /\ ~Indexing(d, p) /\ ~Arrived(d, p)}

\* Only what crashes cut off is left uncounted.
Covered == \A d \in Device : Fresh(d) => Cardinality(Orphans(d)) <= Cardinality(Slot) * faults

-----------------------------------------------------------------------------
(* What the user has agreed to, with any number of agents and tasks *)

\* The command and the queue of d rest.
LEMMA BackedKept ==
  ASSUME NEW d, Backed(d), agent'[d] = agent[d], ops'[d] = ops[d], plans'[d] = plans[d],
         approved \subseteq approved'
  PROVE  Backed(d)'
<1>1. TableInv(d)' /\ BatchInv(d)'
  BY TableKept, BatchKept DEF Backed, BatchInv
<1>2. \A o : IsCurrent(d, o)' <=> IsCurrent(d, o)
  BY SameBatch
<1>3. TargetInv(d)'
  BY <1>2 DEF Backed, TargetInv, RemoteTarget, Queued
<1>4. Chosen \subseteq Chosen'
  BY DEF Chosen
<1> QED
  BY <1>1, <1>3, <1>4 DEF Backed

\* Tasks that rest or end.
LEMMA MeantKept ==
  ASSUME NEW s, Meant(s), task'[s] = task[s] \/ task'[s] = FreeSlot, approved \subseteq approved'
  PROVE  Meant(s)'
  BY FreeTyped DEF Meant

\* A step of the command on d.
LEMMA CommandStep ==
  ASSUME GInv, TypeInv', NEW d \in Client, Backed(d)', approved \subseteq approved',
         \A e \in Device \ {d} : agent'[e] = agent[e] /\ ops'[e] = ops[e] /\ plans'[e] = plans[e],
         \A s \in Slot : Meant(s)'
  PROVE  GInv'
<1>1. \A e \in Client : Backed(e)'
  BY TwoDevices, BackedKept DEF GInv
<1>2. \A e \in Device \ Client : agent'[e] = Idle
  BY DEF GInv
<1> QED
  BY <1>1, <1>2 DEF GInv

\* A step of the command on d that starts no task.
LEMMA LocalStep ==
  ASSUME GInv, TypeInv', NEW d \in Client, Backed(d)', approved \subseteq approved',
         \A e \in Device \ {d} : agent'[e] = agent[e] /\ ops'[e] = ops[e] /\ plans'[e] = plans[e],
         \A s \in Slot : task'[s] = task[s] \/ task'[s] = FreeSlot
  PROVE  GInv'
<1>1. \A s \in Slot : Meant(s)'
  BY MeantKept DEF GInv
<1> QED
  BY <1>1, CommandStep

\* A step that leaves the commands and the queues alone.
LEMMA RestStep ==
  ASSUME GInv, TypeInv', UNCHANGED <<agent, ops, plans>>, approved \subseteq approved',
         \A s \in Slot : Meant(s)'
  PROVE  GInv'
<1>1. \A e \in Client : Backed(e)'
  BY BackedKept DEF GInv
<1> QED
  BY <1>1 DEF GInv

\* Where the command on d goes: the record r, with the queues of the others.
LEMMA OthersRest ==
  ASSUME TypeInv, NEW d \in Client, NEW r, agent' = [agent EXCEPT ![d] = r],
         UNCHANGED ops \/ \E new : ops' = [ops EXCEPT ![d] = new],
         UNCHANGED plans \/ \E new : plans' = [plans EXCEPT ![d] = new]
  PROVE  /\ d \in Device /\ agent'[d] = r
         /\ \A e \in Device \ {d} : agent'[e] = agent[e] /\ ops'[e] = ops[e] /\ plans'[e] = plans[e]
<1>1. d \in Device /\ agent'[d] = r /\ \A e \in Device \ {d} : agent'[e] = agent[e]
  BY TwoDevices DEF TypeInv, Workers
<1>2. \A e \in Device \ {d} : ops'[e] = ops[e]
  BY DEF TypeInv, Tables
<1>3. \A e \in Device \ {d} : plans'[e] = plans[e]
  BY DEF TypeInv, Tables
<1> QED
  BY <1>1, <1>2, <1>3

\* An operation ends: the batch shrinks, the row gets its outcome.
LEMMA OutcomeBacked ==
  ASSUME GInv, NEW d \in Client, NEW o, Fail(d, o) \/ Finish(d, o), approved \subseteq approved',
         UNCHANGED plans
  PROVE  /\ Backed(d)' /\ agent'[d].pc = "next"
         /\ \A e \in Device \ {d} : agent'[e] = agent[e] /\ ops'[e] = ops[e] /\ plans'[e] = plans[e]
<1>0. d \in Device /\ TypeInv /\ Backed(d) /\ agent[d] \in Process
  BY TwoDevices, SlotTyped DEF GInv
<1>1. PICK new : Updated(ops[d], new) /\ ops' = [ops EXCEPT ![d] = new]
  BY <1>0, OutcomeStep
<1>2. agent' = [agent EXCEPT ![d] = SetNext(agent[d], o)]
  BY <1>0, OutcomeStep
<1>3. /\ agent'[d] = SetNext(agent[d], o)
      /\ \A e \in Device \ {d} : agent'[e] = agent[e] /\ ops'[e] = ops[e] /\ plans'[e] = plans[e]
  BY <1>0, <1>1, <1>2, OthersRest
<1>4. ops'[d] = new
  BY <1>0, <1>1 DEF TypeInv, Tables
<1>5. TableInv(d)'
  BY <1>0, <1>1, <1>4, TableUpdates DEF Backed
<1>6. /\ agent'[d].pc = "next" /\ agent'[d].downloads = agent[d].downloads \ {o}
      /\ agent'[d].uploads = agent[d].uploads \ {o}
  <2>1. LET r == SetNext(agent[d], o)
        IN /\ r.pc = "next" /\ r.downloads = agent[d].downloads \ {o}
           /\ r.uploads = agent[d].uploads \ {o}
    BY <1>0, SetNextFields
  <2> QED
    BY <1>3, <2>1
<1>7. "next" \notin Outside /\ "next" \notin Downloading
  BY DEF Outside, Downloading
<1>8. BatchInv(d)'
  BY <1>0, <1>6, <1>7, BatchKept DEF Backed
<1> QED
  BY <1>3, <1>5, <1>6, <1>8 DEF Backed, TargetInv

\* An operation ends, with a task that ends or without.
LEMMA OutcomeAgreed ==
  ASSUME GInv, TypeInv', NEW d \in Client, NEW o, Fail(d, o) \/ Finish(d, o),
         approved \subseteq approved', UNCHANGED plans,
         \A s \in Slot : task'[s] = task[s] \/ task'[s] = FreeSlot
  PROVE  GInv'
  BY OutcomeBacked, LocalStep

\* A command without a batch goes on; the queue rests.
LEMMA OutsideBacked ==
  ASSUME GInv, NEW d \in Client, TableInv(d)', agent'[d].pc \in Outside,
         agent'[d].downloads = {}, agent'[d].uploads = {},
         agent'[d].pc = "PropagateToPeers" =>
           <<Peer(d), agent'[d].erase, agent'[d].body>> \in approved',
         agent'[d].pc = "erase_wait" => agent'[d].erase \in Chosen'
  PROVE  Backed(d)'
<1>1. agent'[d].pc \notin Downloading /\ agent'[d].pc \notin {"upload", "delete"}
  BY DEF Outside, Downloading
<1>2. BatchInv(d)' /\ TargetInv(d)'
  BY <1>1 DEF BatchInv, TargetInv
<1>3. agent'[d].pc = "PropagateToPeers" => agent'[d].erase \in Chosen'
  <2> SUFFICES ASSUME agent'[d].pc = "PropagateToPeers" PROVE agent'[d].erase \in Chosen'
    OBVIOUS
  <2>1. <<Peer(d), agent'[d].erase, agent'[d].body>>[2] \in {a[2] : a \in approved'}
    OBVIOUS
  <2> QED
    BY <2>1 DEF Chosen
<1> QED
  BY <1>2, <1>3 DEF Backed

\* The batch rests while the command moves within it.
LEMMA InsideBacked ==
  ASSUME GInv, NEW d \in Client, approved \subseteq approved', TableInv(d)',
         agent'[d].pc \in Batching, agent'[d].pc # "delete",
         agent'[d].downloads = agent[d].downloads, agent'[d].uploads = agent[d].uploads,
         agent'[d].pc \in Downloading => agent[d].downloads # {},
         agent'[d].pc = "upload" => agent[d].downloads = {}
  PROVE  Backed(d)'
<1>1. agent'[d].pc \notin Outside /\ agent'[d].pc \notin {"PropagateToPeers", "erase_wait"}
  BY DEF Batching, Pulls, Pushes, Outside
<1>2. BatchInv(d)'
  BY <1>1, BatchKept DEF GInv, Backed
<1>3. TargetInv(d)'
  BY <1>1 DEF TargetInv
<1> QED
  BY <1>1, <1>2, <1>3 DEF Backed

\* build_sync_plan scans and asks for the peer's manifest.
LEMMA BeginPlanAgreed ==
  ASSUME GInv, TypeInv', NEW d \in Client, BeginPlan(d)
  PROVE  GInv'
<1>0. d \in Device /\ TypeInv /\ Backed(d) /\ agent[d] \in Process /\ agent \in [Device -> Command]
  BY TwoDevices, SlotTyped DEF GInv, TypeInv, Workers
<1>1. files'[d] \in Manifest /\ "plan" \in Pc /\ "plan" \in Outside /\ "idle" \in Outside
  BY <1>0 DEF TypeInv, Tables, Pc, Outside
<1>2. agent' = [agent EXCEPT ![d] = SetPlan(agent[d], "plan", files'[d])]
  BY <1>0 DEF BeginPlan, SetPlan
<1>3. UNCHANGED <<task, ops, plans, approved>>
  BY DEF BeginPlan, user
<1>4. /\ agent'[d] = SetPlan(agent[d], "plan", files'[d])
      /\ \A e \in Device \ {d} : agent'[e] = agent[e] /\ ops'[e] = ops[e] /\ plans'[e] = plans[e]
  BY <1>0, <1>2, <1>3, OthersRest
<1>5. agent'[d].pc = "plan" /\ agent'[d].downloads = {} /\ agent'[d].uploads = {}
  BY <1>0, <1>1, <1>4, SetPlanFields DEF BeginPlan, Backed, BatchInv
<1>6. TableInv(d)'
  BY <1>0, <1>3, TableKept DEF Backed
<1>7. Backed(d)'
  BY <1>1, <1>5, <1>6, OutsideBacked
<1> QED
  BY <1>3, <1>4, <1>7, LocalStep

\* enqueue_sync_plan: the new rows replace nothing.
LEMMA MakePlanAgreed ==
  ASSUME GInv, TypeInv', NEW d \in Client, MakePlan(d)
  PROVE  GInv'
<1>0. d \in Device /\ TypeInv /\ Backed(d) /\ agent[d] \in Process /\ agent \in [Device -> Command]
  BY TwoDevices, SlotTyped DEF GInv, TypeInv, Workers
<1>1. NoManifest \in Manifest /\ "queue" \in Pc /\ "queue" \in Outside /\ "plan" \in Outside
  BY DEF NoManifest, Manifest, Pc, Outside
<1>2. agent' = [agent EXCEPT ![d] = SetPlan(agent[d], "queue", NoManifest)]
  BY <1>0 DEF MakePlan, SetPlan
<1>3. /\ UNCHANGED <<task, approved>>
      /\ \E new : ops' = [ops EXCEPT ![d] = new]
      /\ \E new : plans' = [plans EXCEPT ![d] = new]
  BY DEF MakePlan, user
<1>4. /\ agent'[d] = SetPlan(agent[d], "queue", NoManifest)
      /\ \A e \in Device \ {d} : agent'[e] = agent[e] /\ ops'[e] = ops[e] /\ plans'[e] = plans[e]
  BY <1>0, <1>2, <1>3, OthersRest
<1>5. agent'[d].pc = "queue" /\ agent'[d].downloads = {} /\ agent'[d].uploads = {}
  BY <1>0, <1>1, <1>4, SetPlanFields DEF MakePlan, Backed, BatchInv
<1>6. TableInv(d)'
  BY <1>0, EnqueueConsents DEF Backed
<1>7. Backed(d)'
  BY <1>1, <1>5, <1>6, OutsideBacked
<1> QED
  BY <1>3, <1>4, <1>7, LocalStep

\* run_sync_queue starts.
LEMMA QueueStartsAgreed ==
  ASSUME GInv, TypeInv', NEW d \in Client, BeginQueue(d) \/ ExecuteQueue(d)
  PROVE  GInv'
<1>0. d \in Device /\ TypeInv /\ Backed(d) /\ agent[d] \in Process
  BY TwoDevices, SlotTyped DEF GInv
<1>1. "manifest" \in Pc /\ {"idle", "queue", "manifest"} \subseteq Outside
  BY DEF Pc, Outside
<1>2. agent' = [agent EXCEPT ![d] = SetPc(agent[d], "manifest")]
  BY <1>0, <1>1, GotoStep DEF BeginQueue, ExecuteQueue
<1>3. UNCHANGED <<task, ops, plans, approved>> /\ agent[d].pc \in {"idle", "queue"}
  BY DEF BeginQueue, ExecuteQueue, user
<1>4. /\ agent'[d] = SetPc(agent[d], "manifest")
      /\ \A e \in Device \ {d} : agent'[e] = agent[e] /\ ops'[e] = ops[e] /\ plans'[e] = plans[e]
  BY <1>0, <1>2, <1>3, OthersRest
<1>5. agent'[d].pc = "manifest" /\ agent'[d].downloads = {} /\ agent'[d].uploads = {}
  BY <1>0, <1>1, <1>3, <1>4, SetPcFields DEF Backed, BatchInv
<1>6. TableInv(d)'
  BY <1>0, <1>3, TableKept DEF Backed
<1>7. Backed(d)'
  BY <1>1, <1>5, <1>6, OutsideBacked
<1> QED
  BY <1>3, <1>4, <1>7, LocalStep

\* list_pending_operations takes rows of the queue.
LEMMA ListBatchAgreed ==
  ASSUME GInv, TypeInv', NEW d \in Client, ListBatch(d)
  PROVE  GInv' /\ agent'[d].pc = "next"
<1>0. d \in Device /\ TypeInv /\ Backed(d) /\ agent[d] \in Process
  BY TwoDevices, SlotTyped DEF GInv
<1>1. PICK down \in SUBSET Row, up \in SUBSET Row :
        /\ down \subseteq ops[d] /\ \A o \in down : o.kind = "DownloadFromRemote"
        /\ up \subseteq ops[d] /\ \A o \in up : o.kind = "UploadToRemote"
        /\ files'[Peer(d)] \in Manifest
        /\ agent' = [agent EXCEPT ![d] = SetBatch(agent[d], files'[Peer(d)], down, up)]
  BY <1>0, BatchRows
<1>2. UNCHANGED <<task, ops, plans, approved>>
  BY DEF ListBatch, user
<1>3. /\ agent'[d] = SetBatch(agent[d], files'[Peer(d)], down, up)
      /\ \A e \in Device \ {d} : agent'[e] = agent[e] /\ ops'[e] = ops[e] /\ plans'[e] = plans[e]
  BY <1>0, <1>1, <1>2, OthersRest
<1>4. agent'[d].pc = "next" /\ agent'[d].downloads = down /\ agent'[d].uploads = up
  BY <1>0, <1>1, <1>3, SetBatchFields
<1>5. TableInv(d)'
  BY <1>0, <1>2, TableKept DEF Backed
<1>6. BatchInv(d)'
  <2>1. "next" \notin Outside /\ "next" \notin Downloading
    BY DEF Outside, Downloading
  <2>2. \A o \in ops[d] : Consented(d, o)'
    BY <1>2, <1>5 DEF TableInv
  <2> QED
    BY <1>1, <1>4, <2>1, <2>2 DEF BatchInv
<1>7. Backed(d)'
  BY <1>4, <1>5, <1>6 DEF Backed, TargetInv
<1> QED
  BY <1>2, <1>3, <1>4, <1>7, LocalStep

\* mark_sync_operation_started changes no hash of the row.
LEMMA StartNextAgreed ==
  ASSUME GInv, TypeInv', NEW d \in Client, NEW o, StartNext(d, o)
  PROVE  GInv'
<1>0. d \in Device /\ TypeInv /\ Backed(d) /\ agent[d] \in Process
  BY TwoDevices, SlotTyped DEF GInv
<1>1. UNCHANGED <<task, plans, approved>>
  BY DEF StartNext, user
<1>2. ops' = [ops EXCEPT ![d] = mark_sync_operation_started(ops[d], o.id)]
  BY <1>0 DEF StartNext
<1>3. TableInv(d)'
  <2>1. Updated(ops[d], mark_sync_operation_started(ops[d], o.id))
    BY <1>0, StartedUpdates DEF TypeInv, Tables
  <2>2. ops'[d] = mark_sync_operation_started(ops[d], o.id)
    BY <1>0, <1>2 DEF TypeInv, Tables
  <2> QED
    BY <1>0, <1>1, <2>1, <2>2, TableUpdates DEF Backed
<1>4. PICK x \in {"download", "upload"} :
        Goto(d, x) /\ (x = "download" <=> o \in agent[d].downloads)
  BY DEF StartNext
<1>5. x \in Pc /\ x \in Batching
  BY DEF Pc, Batching
<1>6. agent' = [agent EXCEPT ![d] = SetPc(agent[d], x)]
  BY <1>0, <1>4, <1>5, GotoStep
<1>7. /\ agent'[d] = SetPc(agent[d], x)
      /\ \A e \in Device \ {d} : agent'[e] = agent[e] /\ ops'[e] = ops[e] /\ plans'[e] = plans[e]
  BY <1>0, <1>1, <1>2, <1>6, OthersRest
<1>8. agent'[d].pc = x /\ agent'[d].downloads = agent[d].downloads /\ agent'[d].uploads = agent[d].uploads
  BY <1>0, <1>5, <1>7, SetPcFields
<1>9. o \in agent[d].downloads <=> agent[d].downloads # {}
  BY DEF StartNext, IsCurrent
<1>10. x \in Downloading => x = "download"
  BY DEF Downloading
<1>11. Backed(d)'
  BY <1>1, <1>3, <1>4, <1>5, <1>8, <1>9, <1>10, InsideBacked
<1> QED
  BY <1>1, <1>7, <1>11, LocalStep

\* The command ends or dies.
LEMMA EndsAgreed ==
  ASSUME GInv, TypeInv', NEW d \in Client, agent' = [agent EXCEPT ![d] = Idle],
         UNCHANGED <<ops, plans, approved>>,
         \A s \in Slot : task'[s] = task[s] \/ task'[s] = FreeSlot
  PROVE  GInv'
<1>0. TypeInv /\ Backed(d)
  BY DEF GInv
<1>1. /\ agent'[d] = Idle
      /\ \A e \in Device \ {d} : agent'[e] = agent[e] /\ ops'[e] = ops[e] /\ plans'[e] = plans[e]
  BY <1>0, OthersRest
<1>2. agent'[d].pc = "idle" /\ agent'[d].downloads = {} /\ agent'[d].uploads = {} /\ "idle" \in Outside
  BY <1>1, IdleTyped DEF Outside
<1>3. TableInv(d)'
  BY <1>0, TableKept DEF Backed
<1>4. Backed(d)'
  BY <1>2, <1>3, OutsideBacked
<1> QED
  BY <1>1, <1>4, LocalStep

\* The command on d moves to x within its batch.
Moves(d, x) ==
  /\ agent'[d].pc = x
  /\ agent'[d].downloads = agent[d].downloads /\ agent'[d].uploads = agent[d].uploads
  /\ \A e \in Device \ {d} : agent'[e] = agent[e] /\ ops'[e] = ops[e] /\ plans'[e] = plans[e]

\* It is backed when its request is.
LEMMA MovesAgreed ==
  ASSUME GInv, TypeInv', NEW d \in Client, NEW x, Moves(d, x), x \in Batching \ {"delete"},
         approved \subseteq approved', UNCHANGED <<ops, plans>>, \A s \in Slot : Meant(s)',
         x \in Downloading => agent[d].downloads # {}, x # "upload"
  PROVE  GInv'
<1>1. TableInv(d)'
  BY TableKept DEF GInv, Backed
<1>2. Backed(d)'
  BY <1>1, InsideBacked DEF Moves
<1> QED
  BY <1>2, CommandStep DEF Moves

\* The checks of download_operation are passed: there is room, and what is there
\* may be replaced.
LEMMA CheckDownloadMoves ==
  ASSUME GInv, NEW d \in Client, NEW o, CheckDownload(d, o), ~Fail(d, o)
  PROVE  /\ Moves(d, "fetch") /\ UNCHANGED ops
         /\ FitsLimit(d) /\ (disk[d][o.path] # NoFile => MayReplace(d, o))
<1>0. d \in Device /\ TypeInv /\ agent[d] \in Process /\ agent \in [Device -> Command]
  BY TwoDevices, SlotTyped DEF GInv, TypeInv, Workers
<1>1. /\ agent' = [agent EXCEPT ![d].pc = "fetch", ![d].replace = disk[d][o.path] # NoFile]
      /\ UNCHANGED <<ops, plans>>
      /\ FitsLimit(d) /\ (disk[d][o.path] # NoFile => MayReplace(d, o))
  BY DEF CheckDownload
<1> DEFINE r == SetReplace(agent[d], disk[d][o.path] # NoFile)
<1>2. agent' = [agent EXCEPT ![d] = r]
  BY <1>0, <1>1 DEF SetReplace
<1>3. (disk[d][o.path] # NoFile) \in BOOLEAN
  OBVIOUS
<1>4. r.pc = "fetch" /\ r.downloads = agent[d].downloads /\ r.uploads = agent[d].uploads
  BY <1>0, <1>3, SetReplaceFields
<1> HIDE DEF r
<1>5. /\ agent'[d] = r
      /\ \A e \in Device \ {d} : agent'[e] = agent[e] /\ ops'[e] = ops[e] /\ plans'[e] = plans[e]
  BY <1>0, <1>1, <1>2, OthersRest
<1> QED
  BY <1>1, <1>4, <1>5 DEF Moves

\* What has been fetched is on the peer's disk.
LEMMA FetchMoves ==
  ASSUME GInv, NEW d \in Client, NEW o, Fetch(d, o), ~Fail(d, o)
  PROVE  \E x \in {"remove", "publish"}, c \in Content :
           /\ Moves(d, x) /\ UNCHANGED ops /\ agent'[d].body = c /\ disk[Peer(d)][o.path] = c
<1>0. d \in Device /\ TypeInv /\ agent[d] \in Process /\ Peer(d) \in Device
  BY TwoDevices, SlotTyped, PeerIs DEF GInv
<1>1. PICK x \in {"remove", "publish"}, c \in Content :
        /\ c = agent[d].rman[o.path].hash /\ c = shared_file(files'[Peer(d)], o.path)
        /\ x = "remove" <=> agent[d].replace
        /\ agent' = [agent EXCEPT ![d] = SetBody(agent[d], x, c)] /\ UNCHANGED ops
  BY <1>0, FetchStep
<1>2. x \in Pc /\ files' = Scanned(Peer(d)) /\ o.path \in Path /\ UNCHANGED plans
  BY <1>0, CurrentRow DEF Pc, Fetch
<1>3. disk[Peer(d)][o.path] = c
  BY <1>0, <1>1, <1>2, ServedIsThere
<1>4. LET r == SetBody(agent[d], x, c)
      IN r.pc = x /\ r.downloads = agent[d].downloads /\ r.uploads = agent[d].uploads /\ r.body = c
  BY <1>0, <1>2, SetBodyFields
<1>5. /\ agent'[d] = SetBody(agent[d], x, c)
      /\ \A e \in Device \ {d} : agent'[e] = agent[e] /\ ops'[e] = ops[e] /\ plans'[e] = plans[e]
  BY <1>0, <1>1, <1>2, OthersRest
<1>6. Moves(d, x) /\ agent'[d].body = c
  BY <1>4, <1>5 DEF Moves
<1> QED
  BY <1>1, <1>3, <1>6

\* A step to the next position.
LEMMA GotoMoves ==
  ASSUME GInv, NEW d \in Client, NEW x \in Pc, Goto(d, x), UNCHANGED <<ops, plans>>
  PROVE  Moves(d, x) /\ agent'[d].body = agent[d].body
<1>0. d \in Device /\ TypeInv /\ agent[d] \in Process
  BY TwoDevices, SlotTyped DEF GInv
<1>1. agent' = [agent EXCEPT ![d] = SetPc(agent[d], x)]
  BY <1>0, GotoStep
<1>2. LET r == SetPc(agent[d], x)
      IN /\ r.pc = x /\ r.downloads = agent[d].downloads /\ r.uploads = agent[d].uploads
         /\ r.body = agent[d].body
  BY <1>0, SetPcFields
<1>3. /\ agent'[d] = SetPc(agent[d], x)
      /\ \A e \in Device \ {d} : agent'[e] = agent[e] /\ ops'[e] = ops[e] /\ plans'[e] = plans[e]
  BY <1>0, <1>1, OthersRest
<1> QED
  BY <1>2, <1>3 DEF Moves

\* A request is sent, or its slot left.
LEMMA SlotMoves ==
  ASSUME GInv, NEW d \in Client, NEW x \in Pc, NEW s \in Slot \cup {0},
         agent' = [agent EXCEPT ![d] = SetSlot(agent[d], x, s)], UNCHANGED <<ops, plans>>
  PROVE  Moves(d, x) /\ agent'[d].erase = agent[d].erase
<1>0. d \in Device /\ TypeInv /\ agent[d] \in Process
  BY TwoDevices, SlotTyped DEF GInv
<1>1. LET r == SetSlot(agent[d], x, s)
      IN /\ r.pc = x /\ r.downloads = agent[d].downloads /\ r.uploads = agent[d].uploads
         /\ r.erase = agent[d].erase
  BY <1>0, SetSlotFields
<1>2. /\ agent'[d] = SetSlot(agent[d], x, s)
      /\ \A e \in Device \ {d} : agent'[e] = agent[e] /\ ops'[e] = ops[e] /\ plans'[e] = plans[e]
  BY <1>0, OthersRest
<1> QED
  BY <1>1, <1>2 DEF Moves

\* The steps of download_operation.
LEMMA DownloadAgreed ==
  ASSUME GInv, TypeInv', NEW d \in Client, NEW o,
         \/ CheckDownload(d, o) \/ Fetch(d, o) \/ RemoveReplaced(d, o)
         \/ PublishDownload(d, o) \/ IndexDownload(d, o)
  PROVE  GInv'
<1>1. UNCHANGED <<task, plans, approved>>
  BY DEF CheckDownload, Fetch, RemoveReplaced, PublishDownload, IndexDownload, user
<1>2. CASE Fail(d, o) \/ Finish(d, o)
  BY <1>1, <1>2, OutcomeAgreed
<1>3. \A s \in Slot : Meant(s)'
  BY <1>1, MeantKept DEF GInv
<1>4. agent[d].downloads # {}
  BY DEF GInv, Backed, BatchInv, Downloading, CheckDownload, Fetch, RemoveReplaced, PublishDownload,
     IndexDownload
<1>5. {"fetch", "remove", "publish", "index"} \subseteq Batching /\ {"publish", "index"} \subseteq Pc
  BY DEF Batching, Pulls, Pc
<1>6. CASE ~(Fail(d, o) \/ Finish(d, o))
  <2>1. CASE CheckDownload(d, o)
    BY <1>1, <1>3, <1>4, <1>5, <1>6, <2>1, CheckDownloadMoves, MovesAgreed
  <2>2. CASE Fetch(d, o)
    BY <1>1, <1>3, <1>4, <1>5, <1>6, <2>2, FetchMoves, MovesAgreed
  <2>3. CASE RemoveReplaced(d, o)
    <3>1. Goto(d, "publish") /\ UNCHANGED ops
      BY <1>6, <2>3 DEF RemoveReplaced
    <3> QED
      BY <1>1, <1>3, <1>4, <1>5, <3>1, GotoMoves, MovesAgreed
  <2>4. CASE PublishDownload(d, o)
    <3>1. Goto(d, "index") /\ UNCHANGED ops
      BY <2>4 DEF PublishDownload
    <3> QED
      BY <1>1, <1>3, <1>4, <1>5, <3>1, GotoMoves, MovesAgreed
  <2>5. CASE IndexDownload(d, o)
    BY <1>6, <2>5 DEF IndexDownload
  <2> QED
    BY <2>1, <2>2, <2>3, <2>4, <2>5
<1> QED
  BY <1>2, <1>6

\* The checks of upload_operation.
LEMMA CheckUploadMoves ==
  ASSUME GInv, NEW d \in Client, NEW o, CheckUpload(d, o), ~Fail(d, o)
  PROVE  \E x \in {"delete", "put"} :
           /\ Moves(d, x) /\ UNCHANGED ops
           /\ x = "delete" => TargetInv(d)'
<1>0. d \in Device /\ TypeInv /\ Backed(d) /\ agent[d] \in Process
  BY TwoDevices, SlotTyped DEF GInv
<1>1. PICK x \in {"delete", "put"}, c \in Content :
        /\ x = "delete" => /\ RemoteTarget(d, o) # NoHash
                           /\ o.remote_content_hash = RemoteTarget(d, o)
        /\ agent' = [agent EXCEPT ![d] = SetBody(agent[d], x, c)] /\ UNCHANGED ops
  BY <1>0, CheckUploadStep
<1>2. x \in Pc /\ UNCHANGED <<plans, approved>>
  BY DEF Pc, CheckUpload, user
<1>3. LET r == SetBody(agent[d], x, c)
      IN r.pc = x /\ r.downloads = agent[d].downloads /\ r.uploads = agent[d].uploads /\ r.rman = agent[d].rman
  BY <1>0, <1>2, SetBodyFields
<1>4. /\ agent'[d] = SetBody(agent[d], x, c)
      /\ \A e \in Device \ {d} : agent'[e] = agent[e] /\ ops'[e] = ops[e] /\ plans'[e] = plans[e]
  BY <1>0, <1>1, <1>2, OthersRest
<1>5. Moves(d, x) /\ agent'[d].rman = agent[d].rman
  BY <1>3, <1>4 DEF Moves
<1>6. x = "delete" => TargetInv(d)'
  <2> SUFFICES ASSUME x = "delete" PROVE TargetInv(d)'
    OBVIOUS
  <2>1. o \in agent[d].uploads
    BY <1>0 DEF CheckUpload, Backed, BatchInv, IsCurrent
  <2>2. <<Peer(d), o.path, RemoteTarget(d, o)>> \in approved
    BY <1>0, <1>1, <2>1 DEF Backed, BatchInv, Consented
  <2>3. \A q : IsCurrent(d, q)' => q.path = o.path
    <3>1. \A q : IsCurrent(d, q) => q.path = o.path
      BY <1>0, AtOne DEF CheckUpload
    <3> QED
      BY <1>5, <3>1, SameBatch DEF Moves
  <2>4. \A q : q.path = o.path => RemoteTarget(d, q)' = RemoteTarget(d, o)
    BY <1>5 DEF RemoteTarget
  <2> QED
    BY <1>2, <1>5, <2>2, <2>3, <2>4 DEF TargetInv, Moves
<1> QED
  BY <1>1, <1>5, <1>6

\* The checks of upload_operation keep what the user has agreed to.
LEMMA CheckUploadAgreed ==
  ASSUME GInv, TypeInv', NEW d \in Client, NEW o, CheckUpload(d, o)
  PROVE  GInv'
<1>1. UNCHANGED <<task, plans, approved>> /\ Backed(d)
  BY DEF CheckUpload, user, GInv
<1>2. CASE Fail(d, o)
  BY <1>1, <1>2, OutcomeAgreed
<1>3. CASE ~Fail(d, o)
  <2>1. PICK x \in {"delete", "put"} :
          Moves(d, x) /\ UNCHANGED ops /\ (x = "delete" => TargetInv(d)')
    BY <1>3, CheckUploadMoves
  <2>2. TableInv(d)'
    BY <1>1, <2>1, TableKept DEF Backed
  <2>3. x \notin Outside /\ x \notin Downloading
    BY DEF Outside, Downloading
  <2>4. BatchInv(d)'
    BY <1>1, <2>1, <2>3, BatchKept DEF Backed, Moves
  <2>5. Backed(d)'
    BY <2>1, <2>2, <2>4 DEF Backed, TargetInv, Moves
  <2> QED
    BY <1>1, <2>1, <2>5, LocalStep DEF Moves
<1> QED
  BY <1>2, <1>3

\* A request to delete names a version that the user has given up.
LEMMA RequestMeant ==
  ASSUME GInv, NEW d \in Client, NEW s \in Slot, NEW kind \in {"put", "delete"}, NEW path \in Path,
         NEW hash \in Content \cup {NoHash}, kind = "put" => hash \in Content,
         kind = "delete" => <<Peer(d), path, hash>> \in approved,
         task' = [task EXCEPT ![s] = Received(d, kind, path, hash)], UNCHANGED approved
  PROVE  \A u \in Slot : Meant(u)'
<1>0. d \in Device /\ task \in [Slot -> Job]
  BY TwoDevices DEF GInv, TypeInv, Workers
<1> DEFINE t == Received(d, kind, path, hash)
<1>1. t.kind = kind /\ t.server = Peer(d) /\ t.path = path /\ t.hash = hash
  BY <1>0, ReceivedTyped
<1>2. task'[s] = t /\ \A u \in Slot \ {s} : task'[u] = task[u]
  BY <1>0
<1> HIDE DEF t
<1>3. Meant(s)'
  BY <1>1, <1>2 DEF Meant
<1>4. \A u \in Slot \ {s} : Meant(u)'
  BY <1>2, MeantKept DEF GInv
<1> QED
  BY <1>3, <1>4

\* delete_file carries the hash that the checks have compared.
LEMMA SendDeleteAgreed ==
  ASSUME GInv, TypeInv', NEW d \in Client, NEW o, NEW s \in Slot, SendDelete(d, o, s)
  PROVE  GInv'
<1>0. d \in Device /\ TypeInv /\ Backed(d)
  BY TwoDevices DEF GInv
<1>1. UNCHANGED <<ops, plans, approved>>
  BY DEF SendDelete, user
<1>2. /\ agent' = [agent EXCEPT ![d] = SetSlot(agent[d], "delete_wait", s)]
      /\ task' = [task EXCEPT ![s] = Received(d, "delete", o.path, RemoteTarget(d, o))]
  BY <1>0, SendDeleteStep
<1>3. "delete_wait" \in Pc /\ "delete_wait" \in Batching /\ "delete_wait" \notin Downloading
  BY DEF Pc, Batching, Pushes, Downloading
<1>4. Moves(d, "delete_wait")
  BY <1>1, <1>2, <1>3, SlotMoves
<1>5. /\ o.path \in Path /\ RemoteTarget(d, o) \in Content \cup {NoHash}
      /\ <<Peer(d), o.path, RemoteTarget(d, o)>> \in approved
  BY <1>0, CurrentRow, TargetTyped DEF SendDelete, Backed, TargetInv
<1>6. \A u \in Slot : Meant(u)'
  BY <1>1, <1>2, <1>5, RequestMeant
<1> QED
  BY <1>1, <1>3, <1>4, <1>6, MovesAgreed

\* put_file_from_path either finds another file or sends what is on the disk.
LEMMA SendPutMoves ==
  ASSUME GInv, NEW d \in Client, NEW o, NEW s \in Slot, SendPut(d, o, s),
         ~(Fail(d, o) /\ UNCHANGED task)
  PROVE  /\ Moves(d, "put_wait") /\ UNCHANGED ops
         /\ task' = [task EXCEPT ![s] = Received(d, "put", o.path, agent[d].body)]
         /\ agent[d].body \in Content /\ disk[d][o.path] = agent[d].body /\ o.path \in Path
<1>0. d \in Device /\ TypeInv /\ agent \in [Device -> Command]
  BY TwoDevices DEF GInv, TypeInv, Workers
<1>1. /\ agent' = [agent EXCEPT ![d] = SetSlot(agent[d], "put_wait", s)] /\ UNCHANGED <<ops, plans>>
      /\ task' = [task EXCEPT ![s] = Received(d, "put", o.path, agent[d].body)]
      /\ disk[d][o.path] = agent[d].body
  BY <1>0 DEF SendPut, Request, Received, SetSlot
<1>2. o.path \in Path /\ agent[d].body \in Content
  BY <1>0, CurrentRow DEF SendPut, TypeInv, Workers, Command, HoldsBody
<1>3. "put_wait" \in Pc
  BY DEF Pc
<1>4. Moves(d, "put_wait")
  BY <1>1, <1>3, SlotMoves
<1> QED
  BY <1>1, <1>2, <1>4

\* A PUT deletes nothing.
LEMMA SendPutAgreed ==
  ASSUME GInv, TypeInv', NEW d \in Client, NEW o, NEW s \in Slot, SendPut(d, o, s)
  PROVE  GInv'
<1>1. UNCHANGED <<plans, approved>>
  BY DEF SendPut, user
<1>2. CASE Fail(d, o) /\ UNCHANGED task
  BY <1>1, <1>2, OutcomeAgreed
<1>3. CASE ~(Fail(d, o) /\ UNCHANGED task)
  <2>1. /\ Moves(d, "put_wait") /\ UNCHANGED ops
        /\ task' = [task EXCEPT ![s] = Received(d, "put", o.path, agent[d].body)]
        /\ agent[d].body \in Content /\ o.path \in Path
    BY <1>3, SendPutMoves
  <2>2. \A u \in Slot : Meant(u)'
    BY <1>1, <2>1, RequestMeant
  <2>3. "put_wait" \in Batching /\ "put_wait" \notin Downloading
    BY DEF Batching, Pushes, Downloading
  <2> QED
    BY <1>1, <2>1, <2>2, <2>3, MovesAgreed
<1> QED
  BY <1>2, <1>3

\* An answer ends the operation, or the DELETE that comes before the PUT.
LEMMA AnswerAgreed ==
  ASSUME GInv, TypeInv', NEW d \in Client, NEW o, Answer(d, o)
  PROVE  GInv'
<1>0. TypeInv
  BY DEF GInv
<1>1. UNCHANGED <<plans, approved>> /\ \A u \in Slot : task'[u] = task[u] \/ task'[u] = FreeSlot
  BY <1>0, AnswerStep, Released DEF Answer, user
<1>2. CASE Fail(d, o) \/ Finish(d, o)
  BY <1>1, <1>2, OutcomeAgreed
<1>3. CASE agent' = [agent EXCEPT ![d] = SetSlot(agent[d], "put", 0)] /\ UNCHANGED ops
  <2>1. "put" \in Pc /\ "put" \in Batching /\ "put" \notin Downloading /\ 0 \in Slot \cup {0}
    BY DEF Pc, Batching, Pushes, Downloading
  <2>2. Moves(d, "put")
    BY <1>1, <1>3, <2>1, SlotMoves
  <2>3. \A u \in Slot : Meant(u)'
    BY <1>1, MeantKept DEF GInv
  <2> QED
    BY <1>1, <1>3, <2>1, <2>2, <2>3, MovesAgreed
<1> QED
  BY <1>0, <1>2, <1>3, AnswerStep

\* A delete on both devices names the version that the user has deleted.
LEMMA SendEraseAgreed ==
  ASSUME GInv, TypeInv', NEW d \in Client, NEW s \in Slot, SendErase(d, s)
  PROVE  GInv'
<1>0. d \in Device /\ TypeInv /\ Backed(d)
  BY TwoDevices DEF GInv
<1>1. UNCHANGED <<ops, plans, approved>>
  BY DEF SendErase, user
<1>2. /\ agent' = [agent EXCEPT ![d] = SetSlot(agent[d], "erase_wait", s)]
      /\ task' = [task EXCEPT ![s] = Received(d, "delete", agent[d].erase, agent[d].body)]
      /\ agent[d].erase \in Path /\ agent[d].body \in Content \cup {NoHash}
  BY <1>0, SendEraseStep
<1>3. {"erase_wait", "PropagateToPeers"} \subseteq Outside /\ "erase_wait" \in Pc
  BY DEF Outside, Pc
<1>4. Moves(d, "erase_wait") /\ agent'[d].erase = agent[d].erase
  BY <1>1, <1>2, <1>3, SlotMoves
<1>5. /\ <<Peer(d), agent[d].erase, agent[d].body>> \in approved /\ agent[d].erase \in Chosen
      /\ agent[d].downloads = {} /\ agent[d].uploads = {}
  BY <1>0, <1>3 DEF SendErase, Backed, TargetInv, BatchInv
<1>6. \A u \in Slot : Meant(u)'
  BY <1>1, <1>2, <1>5, RequestMeant
<1>7. TableInv(d)'
  BY <1>0, <1>1, TableKept DEF Backed
<1>8. agent'[d].erase \in Chosen'
  BY <1>1, <1>4, <1>5 DEF Chosen
<1>9. Backed(d)'
  BY <1>3, <1>4, <1>5, <1>7, <1>8, OutsideBacked DEF Moves
<1> QED
  BY <1>1, <1>4, <1>6, <1>9, CommandStep DEF Moves

\* A task goes on to stage x or has its answer x.
LEMMA StageMeant ==
  ASSUME GInv, NEW s \in Slot, task[s].kind \in {"put", "delete"}, NEW x \in Stage,
         task' = [task EXCEPT ![s].stage = x] \/ Reply(s, x), UNCHANGED approved
  PROVE  \A u \in Slot : Meant(u)'
<1>0. task \in [Slot -> Job] /\ task[s] \in Task
  BY JobFields DEF GInv, TypeInv, Workers
<1>1. /\ task'[s] = SetStage(task[s], x) \/ task'[s] = FreeSlot
      /\ \A u \in Slot \ {s} : task'[u] = task[u]
  BY <1>0 DEF Reply, SetStage
<1>2. LET t == SetStage(task[s], x)
      IN t.kind = task[s].kind /\ t.server = task[s].server /\ t.path = task[s].path /\ t.hash = task[s].hash
  BY <1>0, SetStageFields
<1>3. Meant(s)'
  BY <1>1, <1>2, FreeTyped DEF GInv, Meant
<1>4. \A u \in Slot \ {s} : Meant(u)'
  BY <1>1, MeantKept DEF GInv
<1> QED
  BY <1>3, <1>4

\* The steps of a task.
LEMMA ServeAgreed ==
  ASSUME GInv, TypeInv', NEW s \in Slot, Serve(s)
  PROVE  GInv'
<1>1. UNCHANGED <<agent, ops, plans, approved>> /\ task[s].kind \in {"put", "delete"}
  BY DEF Serve, CheckPut, PublishPut, IndexPut, CheckDelete, RemoveDelete, ForgetDelete, user
<1>2. PICK x \in {"checked", "published", "removed", "accepted", "refused"} :
        task' = [task EXCEPT ![s].stage = x] \/ Reply(s, x)
  BY DEF Serve, CheckPut, PublishPut, IndexPut, CheckDelete, RemoveDelete, ForgetDelete
<1>3. x \in Stage
  BY DEF Stage
<1>4. \A u \in Slot : Meant(u)'
  BY <1>1, <1>2, <1>3, StageMeant
<1> QED
  BY <1>1, <1>4, RestStep

\* The steps of the user.
LEMMA UserAgreed ==
  ASSUME GInv, TypeInv', User
  PROVE  GInv'
<1>1. ASSUME NEW d, NEW p, NEW v, Edit(d, p, v) PROVE GInv'
  <2>1. UNCHANGED <<agent, ops, plans, task, approved>>
    BY <1>1 DEF Edit
  <2>2. \A s \in Slot : Meant(s)'
    BY <2>1, MeantKept DEF GInv
  <2> QED
    BY <2>1, <2>2, RestStep
<1>2. ASSUME NEW d \in Client, agent[d].pc = "idle", UNCHANGED <<agent, plans, task>>, TableInv(d)',
             approved \subseteq approved', \E new : ops' = [ops EXCEPT ![d] = new]
      PROVE  GInv'
  <2>1. Backed(d) /\ TypeInv /\ "idle" \in Outside /\ "idle" \notin Downloading
    BY DEF GInv, Outside, Downloading
  <2>2. BatchInv(d)'
    BY <1>2, <2>1, BatchKept DEF Backed, BatchInv
  <2>3. Backed(d)'
    BY <1>2, <2>2 DEF Backed, TargetInv
  <2>4. \A e \in Device \ {d} : ops'[e] = ops[e]
    BY <1>2, <2>1 DEF TypeInv, Tables
  <2> QED
    BY <1>2, <2>3, <2>4, LocalStep
<1>3. ASSUME NEW d \in Client, Retry(d) PROVE GInv'
  <2>1. d \in Device /\ TypeInv /\ Backed(d) /\ ops[d] \in SUBSET Row
    BY TwoDevices DEF GInv, TypeInv, Tables
  <2>2. /\ ops' = [ops EXCEPT ![d] = retry_failed_sync_operations(ops[d], Device)]
        /\ UNCHANGED <<agent, plans, task, approved>> /\ agent[d].pc = "idle"
    BY <1>3 DEF Retry, user
  <2>3. ops'[d] = retry_failed_sync_operations(ops[d], Device)
    BY <2>1, <2>2 DEF TypeInv, Tables
  <2>4. TableInv(d)'
    BY <2>1, <2>2, <2>3, RetryUpdates, TableUpdates DEF Backed
  <2> QED
    BY <1>2, <2>2, <2>4
<1>4. ASSUME NEW d \in Client, NEW o \in ops[d], NEW k \in BlockedOperationResolution, Resolve(d, o, k)
      PROVE  GInv'
  <2>1. /\ UNCHANGED <<agent, plans, task>> /\ agent[d].pc = "idle" /\ approved \subseteq approved'
        /\ \E new : ops' = [ops EXCEPT ![d] = new]
    BY <1>4 DEF Resolve
  <2>2. TableInv(d)'
    BY <1>4, ResolveTable DEF GInv, Backed
  <2> QED
    BY <1>2, <2>1, <2>2
<1>5. ASSUME NEW d \in Client, NEW p \in Path, NEW scope \in {"LocalOnly", "PropagateToPeers"},
             DeleteFile(d, p, scope)
      PROVE  GInv'
  <2>0. d \in Device /\ TypeInv /\ Backed(d) /\ agent[d] \in Process
    BY TwoDevices, SlotTyped DEF GInv
  <2>1. PICK c : c = files[d][p].hash
    OBVIOUS
  <2>2. c \in Content /\ agent' = [agent EXCEPT ![d] = SetErase(agent[d], scope, p, c)]
    BY <1>5, <2>0, <2>1, DeleteFileType
  <2>3. /\ UNCHANGED <<ops, plans, task>> /\ approved \subseteq approved' /\ agent[d].pc = "idle"
        /\ scope = "PropagateToPeers" => <<Peer(d), p, c>> \in approved'
    BY <1>5, <2>1 DEF DeleteFile
  <2>4. scope \in Pc /\ scope \in Outside /\ "idle" \in Outside
    BY DEF Pc, Outside
  <2>5. agent[d].downloads = {} /\ agent[d].uploads = {}
    BY <2>0, <2>3, <2>4 DEF Backed, BatchInv
  <2>6. LET r == SetErase(agent[d], scope, p, c)
        IN r.pc = scope /\ r.erase = p /\ r.body = c /\ r.downloads = {} /\ r.uploads = {}
    BY <2>0, <2>2, <2>4, <2>5, SetEraseFields
  <2>7. /\ agent'[d] = SetErase(agent[d], scope, p, c)
        /\ \A e \in Device \ {d} : agent'[e] = agent[e] /\ ops'[e] = ops[e] /\ plans'[e] = plans[e]
    BY <2>0, <2>2, <2>3, OthersRest
  <2>8. TableInv(d)'
    BY <2>0, <2>3, TableKept DEF Backed
  <2>9. Backed(d)'
    BY <2>3, <2>4, <2>6, <2>7, <2>8, OutsideBacked
  <2> QED
    BY <2>3, <2>7, <2>9, LocalStep
<1>6. ASSUME NEW d \in Client, ExecuteQueue(d) PROVE GInv'
  BY <1>6, QueueStartsAgreed
<1> QED
  BY <1>1, <1>3, <1>4, <1>5, <1>6 DEF User

\* Crashes and timeouts.
LEMMA FaultAgreed ==
  ASSUME GInv, TypeInv', Fault
  PROVE  GInv'
<1>0. TypeInv
  BY DEF GInv
<1>1. ASSUME NEW d \in Client, AgentStops(d) PROVE GInv'
  <2>1. /\ agent' = [agent EXCEPT ![d] = Idle] /\ UNCHANGED <<ops, plans, approved>>
        /\ \A s \in Slot : task'[s] = task[s] \/ task'[s] = FreeSlot
    BY <1>0, <1>1, Abandoned DEF AgentStops, user
  <2> QED
    BY <2>1, EndsAgreed
<1>2. ASSUME NEW d \in Client, NEW o, TransferTimesOut(d, o) PROVE GInv'
  <2>1. /\ Fail(d, o) /\ UNCHANGED <<plans, approved>>
        /\ \A s \in Slot : task'[s] = task[s] \/ task'[s] = FreeSlot
    BY <1>0, <1>2, Abandoned DEF TransferTimesOut, user
  <2> QED
    BY <2>1, OutcomeAgreed
<1>3. ASSUME NEW e \in Device, ServerStops(e) PROVE GInv'
  <2>1. UNCHANGED <<agent, ops, plans, approved>>
    BY <1>3 DEF ServerStops, user
  <2>2. ASSUME NEW s \in Slot PROVE Meant(s)'
    <3>1. task[s] \in Task /\ "refused" \in Stage
      BY <1>0 DEF TypeInv, Workers, Job, Stage
    <3>2. LET t == SetStage(task[s], "refused")
          IN t.kind = task[s].kind /\ t.server = task[s].server /\ t.path = task[s].path /\ t.hash = task[s].hash
      BY <3>1, SetStageFields
    <3>3. \/ task'[s] = task[s] \/ task'[s] = SetStage(task[s], "refused") \/ task'[s] = FreeSlot
      BY <1>0, <1>3, ServerStopsStep
    <3> QED
      BY <2>1, <3>2, <3>3, FreeTyped DEF GInv, Meant
  <2> QED
    BY <2>1, <2>2, RestStep
<1> QED
  BY <1>1, <1>2, <1>3 DEF Fault

\* Every step keeps what the user has agreed to.
LEMMA NextAgreed ==
  ASSUME GInv, [Next]_vars
  PROVE  GInv'
<1>0. TypeInv /\ TypeInv'
  BY NextType DEF GInv
<1>1. ASSUME NEW d \in Client, Cycle(d) PROVE GInv'
  <2>1. CASE Transfer(d)
    <3>1. PICK o : \/ StartNext(d, o)
                   \/ CheckDownload(d, o) \/ Fetch(d, o) \/ RemoveReplaced(d, o)
                   \/ PublishDownload(d, o) \/ IndexDownload(d, o)
                   \/ CheckUpload(d, o) \/ Answer(d, o)
                   \/ \E s \in Slot : SendDelete(d, o, s) \/ SendPut(d, o, s)
      BY <2>1 DEF Transfer
    <3> QED
      BY <1>0, <3>1, StartNextAgreed, DownloadAgreed, CheckUploadAgreed, AnswerAgreed,
         SendDeleteAgreed, SendPutAgreed
  <2>2. CASE EndRun(d) \/ EndDeleteLocal(d) \/ EndDeleteBoth(d)
    <3>1. /\ agent' = [agent EXCEPT ![d] = Idle] /\ UNCHANGED <<ops, plans, approved>>
          /\ UNCHANGED task \/ \E s : task' = [task EXCEPT ![s] = FreeSlot]
      BY <2>2 DEF EndRun, EndDeleteLocal, EndDeleteBoth, user
    <3>2. \A s \in Slot : task'[s] = task[s] \/ task'[s] = FreeSlot
      BY <1>0, <3>1, Released
    <3> QED
      BY <1>0, <3>1, <3>2, EndsAgreed
  <2>3. CASE \/ BeginPlan(d) \/ MakePlan(d) \/ BeginQueue(d) \/ ListBatch(d)
             \/ (\E s \in Slot : SendErase(d, s))
    BY <1>0, <2>3, BeginPlanAgreed, MakePlanAgreed, QueueStartsAgreed, ListBatchAgreed, SendEraseAgreed
  <2> QED
    BY <1>1, <2>1, <2>2, <2>3 DEF Cycle
<1>2. ASSUME NEW s \in Slot, Serve(s) PROVE GInv'
  BY <1>0, <1>2, ServeAgreed
<1>3. CASE UNCHANGED vars
  <2>1. UNCHANGED <<agent, ops, plans, task, approved>>
    BY <1>3 DEF vars, user
  <2>2. \A s \in Slot : Meant(s)'
    BY <2>1, MeantKept DEF GInv
  <2> QED
    BY <1>0, <2>1, <2>2, RestStep
<1> QED
  BY <1>0, <1>1, <1>2, <1>3, UserAgreed, FaultAgreed DEF Next

\* Before the first command there is nothing to agree to.
LEMMA InitAgreed == Init => GInv
<1> SUFFICES ASSUME Init PROVE GInv
  OBVIOUS
<1>1. TypeInv
  BY InitType
<1>2. \A s \in Slot : Meant(s)
  BY FreeTyped DEF Init, Meant
<1>3. \A d \in Device : agent[d] = Idle /\ ops[d] = {}
  BY DEF Init
<1>4. ASSUME NEW d \in Client PROVE Backed(d)
  <2>1. /\ agent[d].pc = "idle" /\ agent[d].downloads = {} /\ agent[d].uploads = {} /\ ops[d] = {}
    BY <1>3, TwoDevices, IdleTyped
  <2>2. TableInv(d)
    BY <2>1 DEF TableInv
  <2>3. BatchInv(d)
    BY <2>1 DEF BatchInv, Downloading
  <2> QED
    BY <2>1, <2>2, <2>3 DEF Backed, TargetInv
<1> QED
  BY <1>1, <1>2, <1>3, <1>4 DEF GInv

-----------------------------------------------------------------------------
(* What a step may do to the files, with any number of agents and tasks *)

IsBatching(d) == agent[d].pc \in Batching

\* A file changes only where something is at work.
DiskSteps == \A e \in Device, p \in Path : disk'[e][p] = disk[e][p] \/ InHand(e, p)

\* Work begins at a free place, or on a version that the user has given up there,
\* or on one that the run does not know.
HandSteps ==
  \A e \in Device, p \in Path : InHand(e, p)' /\ ~InHand(e, p) =>
    \/ disk[e][p] = NoFile
    \/ <<e, p, disk[e][p]>> \in approved
    \/ IsRunning(e) /\ ~RowMatches(e, p)

\* A run knows the files that nothing is at work on.
RowSteps ==
  \A e \in Device, p \in Path :
    /\ IsRunning(e)' /\ ~InHand(e, p) /\ disk[e][p] \in Content
    /\ IsRunning(e) => RowMatches(e, p)
    => files'[e][p] # NoRecord /\ files'[e][p].hash = disk[e][p]

\* No version appears from nowhere.
NothingNew == \A p \in Path, c \in Content : Present(p, c)' => Present(p, c)

Careful == DiskSteps /\ HandSteps /\ RowSteps /\ NothingNew

\* A transfer is let in beside what the index counts.
Grants(e) == /\ Fresh(e) /\ FitsLimit(e)
             /\ \E p \in Path : Claimed(e)' \subseteq Claimed(e) \cup {p}

LetIn == \A e \in Device : Claimed(e)' \subseteq Claimed(e) \/ Grants(e)

\* Nothing goes uncounted, and who starts to rely on an index has it scanned.
Counted ==
  \A e \in Device : /\ Orphans(e)' \subseteq Orphans(e)
                    /\ Fresh(e)' => Fresh(e) \/ Orphans(e)' = {}

Steady == Careful /\ LetIn /\ Counted

\* The command on e takes up nothing.
AgentCalm(e) ==
  /\ \A p : Downloads(e, p)' => Downloads(e, p)
  /\ \A p, c : Fetched(e, p, c)' => Fetched(e, p, c)
  /\ IsRunning(e)' => IsRunning(e)
  /\ IsBatching(e)' => IsBatching(e)

\* The tasks take up nothing.
TasksCalm ==
  /\ \A e, p : Handled(e, p)' => Handled(e, p)
  /\ \A e, p : Receives(e, p)' => Receives(e, p)
  /\ \A p, c : Carried(p, c)' => Carried(p, c)
  /\ \A e : Expected(e)' => Expected(e)

\* What has been put in its place still waits for its row.
LandedKept ==
  \A e \in Device : /\ \A p : Indexing(e, p) => Indexing(e, p)'
                    /\ \A p : Arrived(e, p) => Arrived(e, p)'

\* The index of e keeps its rows; a row that changes shows what is there.
RowsCalm(e) ==
  \A p \in Path : files[e][p] # NoRecord =>
    /\ files'[e][p] # NoRecord
    /\ files'[e][p].hash = files[e][p].hash \/ files'[e][p].hash = disk[e][p]

\* Both devices are each other's peer.
LEMMA PeerPeer ==
  ASSUME NEW d \in Device
  PROVE  Peer(d) \in Device /\ Peer(d) # d /\ Peer(Peer(d)) = d /\ \A e \in Device : e = d \/ e = Peer(d)
<1>1. PICK a, b \in Device : a # b /\ Device = {a, b}
  BY TwoDevices
<1>2. Peer(d) \in Device /\ Peer(d) # d
  BY PeerIs
<1>3. Peer(Peer(d)) \in Device /\ Peer(Peer(d)) # Peer(d)
  BY <1>2, PeerIs
<1> QED
  BY <1>1, <1>2, <1>3

\* A command that rests.
LEMMA AgentRests ==
  ASSUME NEW e, agent'[e] = agent[e]
  PROVE  /\ AgentCalm(e)
         /\ \A p : /\ Downloads(e, p)' <=> Downloads(e, p)
                   /\ Indexing(e, p)' <=> Indexing(e, p)
         /\ IsRunning(e)' <=> IsRunning(e)
         /\ IsBatching(e)' <=> IsBatching(e)
<1>1. \A p : At(e, p)' <=> At(e, p)
  BY SameBatch
<1>2. \A p : Downloads(e, p)' <=> Downloads(e, p)
  BY <1>1 DEF Downloads, At
<1>3. \A p : Indexing(e, p)' <=> Indexing(e, p)
  BY <1>1 DEF Indexing
<1>4. \A p, c : Fetched(e, p, c)' => Fetched(e, p, c)
  BY <1>1 DEF Fetched
<1> QED
  BY <1>2, <1>3, <1>4 DEF AgentCalm, IsRunning, IsBatching

\* A command that is not past the checks of a download.
LEMMA AgentQuiet ==
  ASSUME NEW e, agent'[e].pc \notin Acting,
         agent'[e].pc \in Running => agent[e].pc \in Running,
         agent'[e].pc \in Batching => agent[e].pc \in Batching
  PROVE  AgentCalm(e)
<1>1. \A p : ~Downloads(e, p)'
  BY DEF Downloads, Acting
<1>2. \A p, c : ~Fetched(e, p, c)'
  BY DEF Fetched, Acting
<1> QED
  BY <1>1, <1>2 DEF AgentCalm, IsRunning, IsBatching

\* A slot in which no task gets past its checks.
SlotCalm(s) ==
  \/ task'[s] = task[s]
  \/ task'[s].kind # "put" /\ task'[s].stage \notin {"checked", "removed"}
  \/ /\ task'[s].kind = task[s].kind /\ task'[s].server = task[s].server
     /\ task'[s].path = task[s].path /\ task'[s].hash = task[s].hash
     /\ task'[s].stage \in {"accepted", "refused"}

\* Slots in which no task gets past its checks.
LEMMA SlotsCalm ==
  ASSUME \A s \in Slot : SlotCalm(s)
  PROVE  TasksCalm
<1>1. \A e, p : Handled(e, p)' => Handled(e, p)
  BY DEF Handled, SlotCalm
<1>2. \A e, p : Receives(e, p)' => Receives(e, p)
  BY DEF Receives, SlotCalm
<1>3. \A p, c : Carried(p, c)' => Carried(p, c)
  BY DEF Carried, SlotCalm
<1>4. \A e : Expected(e)' => Expected(e)
  BY DEF Expected, SlotCalm
<1> QED
  BY <1>1, <1>2, <1>3, <1>4 DEF TasksCalm

\* No PUT that waits for its row ends.
LEMMA ArrivedKept ==
  ASSUME \A s \in Slot : task'[s] = task[s] \/ task[s].kind # "put" \/ task[s].stage # "published"
  PROVE  \A e, p : Arrived(e, p) => Arrived(e, p)'
  BY DEF Arrived

\* Places of a step that changes no disk.
LEMMA CalmIsCareful ==
  ASSUME TypeInv, UNCHANGED disk, \A e \in Device : AgentCalm(e) /\ RowsCalm(e), TasksCalm
  PROVE  Careful /\ LetIn /\ \A e \in Device : Fresh(e)' => Fresh(e)
<1>1. DiskSteps
  BY DEF DiskSteps
<1>2. HandSteps
  BY DEF HandSteps, InHand, AgentCalm, TasksCalm
<1>3. RowSteps
  BY DEF RowSteps, RowMatches, AgentCalm, RowsCalm
<1>4. NothingNew
  BY DEF NothingNew, Present, AgentCalm, TasksCalm
<1>5. \A e \in Device : Claimed(e)' \subseteq Claimed(e)
  BY DEF Claimed, OnDisk, UnderWay, AgentCalm, TasksCalm
<1>6. \A e \in Device : Fresh(e)' => Fresh(e)
  BY PeerIs DEF Fresh, AgentCalm, TasksCalm, IsBatching
<1> QED
  BY <1>1, <1>2, <1>3, <1>4, <1>5, <1>6 DEF Careful, LetIn

\* Choices are not taken back.
LEMMA ChosenKept ==
  ASSUME approved \subseteq approved'
  PROVE  Chosen \subseteq Chosen'
  BY DEF Chosen

\* The same, when nothing that has landed loses its way to the index.
LEMMA CalmIsSteady ==
  ASSUME TypeInv, UNCHANGED disk, \A e \in Device : AgentCalm(e) /\ RowsCalm(e), TasksCalm,
         LandedKept, approved \subseteq approved'
  PROVE  Steady
<1>1. Careful /\ LetIn /\ \A e \in Device : Fresh(e)' => Fresh(e)
  BY CalmIsCareful
<1>2. \A e \in Device : Orphans(e)' \subseteq Orphans(e)
  BY ChosenKept DEF Orphans, RowsCalm, LandedKept
<1> QED
  BY <1>1, <1>2 DEF Steady, Counted

\* A row whose file is missing keeps its hash.
LEMMA MissingRow ==
  ASSUME NEW r \in FileRecord, r # NoRecord
  PROVE  AsMissing(r) \in FileRecord /\ AsMissing(r).hash = r.hash
<1>1. AsMissing(r) = [r EXCEPT !.state = "UnsynchronizedLocalMissing"]
  BY DEF AsMissing
<1> QED
  BY <1>1 DEF FileRecord, FileSyncState

\* A scan of d.
LEMMA ScanCalm ==
  ASSUME TypeInv, NEW d \in Device, files' = Scanned(d), UNCHANGED disk
  PROVE  /\ \A e \in Device : RowsCalm(e)
         /\ Orphans(d)' = {}
         /\ \A p \in Path : disk[d][p] \in Content =>
              files'[d][p] # NoRecord /\ files'[d][p].hash = disk[d][p]
<1>1. /\ files'[d] = scan_into(files[d], disk[d])
      /\ \A e \in Device \ {d} : files'[e] = files[e]
  BY ScannedTyped DEF TypeInv, Tables
<1>2. ASSUME NEW p \in Path, disk[d][p] # NoFile
      PROVE  files'[d][p] # NoRecord /\ files'[d][p].hash = disk[d][p]
  <2>1. disk[d][p] \in Content /\ files'[d][p] = Available(disk[d][p])
    BY <1>1, <1>2 DEF scan_into, TypeInv, Surroundings
  <2> QED
    BY <2>1, AvailableIsRecord, NoRecordAssumption DEF Available
<1>3. ASSUME NEW p \in Path, disk[d][p] = NoFile, files[d][p] # NoRecord
      PROVE  files'[d][p] # NoRecord /\ files'[d][p].hash = files[d][p].hash
  <2>1. files'[d][p] = AsMissing(files[d][p]) /\ files[d][p] \in FileRecord
    BY <1>1, <1>3 DEF scan_into, TypeInv, Tables, Manifest
  <2>2. AsMissing(files[d][p]) \in FileRecord /\ AsMissing(files[d][p]).hash = files[d][p].hash
    BY <1>3, <2>1, MissingRow
  <2> QED
    BY <2>1, <2>2, NoRecordAssumption
<1>4. RowsCalm(d)
  BY <1>2, <1>3 DEF RowsCalm
<1>5. \A e \in Device : RowsCalm(e)
  BY <1>1, <1>4 DEF RowsCalm
<1>6. Orphans(d)' = {}
  BY <1>2 DEF Orphans
<1> QED
  BY <1>2, <1>5, <1>6, NoFileAssumption

-----------------------------------------------------------------------------
(* Steps that take up nothing *)

\* The pcs of a run, by the steps that leave them.
LEMMA PcKinds ==
  /\ {"next", "download", "fetch", "remove", "publish", "index", "upload", "delete", "delete_wait",
      "put", "put_wait"} \subseteq Batching
  /\ Batching \subseteq Running /\ "manifest" \in Running /\ "manifest" \notin Batching
  /\ \A x \in {"idle", "plan", "queue", "LocalOnly", "PropagateToPeers", "erase_wait"} :
       x \notin Running /\ x \notin Batching /\ x \notin Acting
  /\ \A x \in {"manifest", "next", "download", "upload", "delete", "delete_wait", "put", "put_wait"} :
       x \notin Acting
  BY DEF Batching, Running, Pulls, Pushes, Acting

\* An index that rests.
LEMMA RowsRest ==
  ASSUME NEW e, files'[e] = files[e]
  PROVE  RowsCalm(e)
  BY DEF RowsCalm

\* A slot that rests, ends with its answer, or takes a request to delete.
LEMMA SlotRests ==
  ASSUME TypeInv,
         \/ UNCHANGED task
         \/ \E s : task' = [task EXCEPT ![s] = FreeSlot] /\ task[s].stage \in {"accepted", "refused"}
         \/ \E s \in Slot, d \in Client, path \in Path, hash \in Content \cup {NoHash} :
              task[s] = FreeSlot /\ task' = [task EXCEPT ![s] = Received(d, "delete", path, hash)]
  PROVE  TasksCalm /\ \A e, p : Arrived(e, p) => Arrived(e, p)'
<1>0. task \in [Slot -> Job]
  BY DEF TypeInv, Workers
<1>1. \A u \in Slot :
        /\ SlotCalm(u)
        /\ task'[u] = task[u] \/ task[u].kind # "put" \/ task[u].stage # "published"
  <2>1. CASE UNCHANGED task
    BY <2>1 DEF SlotCalm
  <2>2. ASSUME NEW s, task' = [task EXCEPT ![s] = FreeSlot], task[s].stage \in {"accepted", "refused"},
               NEW u \in Slot
        PROVE  /\ SlotCalm(u)
               /\ task'[u] = task[u] \/ task[u].kind # "put" \/ task[u].stage # "published"
    <3>1. task'[u] = IF u = s THEN FreeSlot ELSE task[u]
      BY <1>0, <2>2
    <3> QED
      BY <2>2, <3>1, FreeTyped DEF SlotCalm
  <2>3. ASSUME NEW s \in Slot, NEW d \in Client, NEW path \in Path, NEW hash \in Content \cup {NoHash},
               task[s] = FreeSlot, task' = [task EXCEPT ![s] = Received(d, "delete", path, hash)],
               NEW u \in Slot
        PROVE  /\ SlotCalm(u)
               /\ task'[u] = task[u] \/ task[u].kind # "put" \/ task[u].stage # "published"
    <3>1. LET r == Received(d, "delete", path, hash) IN r.kind = "delete" /\ r.stage = "received"
      BY TwoDevices, ReceivedTyped
    <3>2. task'[u] = IF u = s THEN Received(d, "delete", path, hash) ELSE task[u]
      BY <1>0, <2>3
    <3> QED
      BY <2>3, <3>1, <3>2, FreeTyped DEF SlotCalm
  <2> QED
    BY <2>1, <2>2, <2>3
<1> QED
  BY <1>1, SlotsCalm, ArrivedKept

\* A step of the command on d that takes up nothing.
LEMMA CommandQuiet ==
  ASSUME TypeInv, NEW d \in Client, UNCHANGED disk, approved \subseteq approved',
         \A e \in Device \ {d} : agent'[e] = agent[e],
         agent[d].pc # "index", agent'[d].pc \notin Acting,
         agent'[d].pc \in Running => agent[d].pc \in Running,
         agent'[d].pc \in Batching => agent[d].pc \in Batching,
         \A e \in Device : RowsCalm(e),
         TasksCalm, \A e, p : Arrived(e, p) => Arrived(e, p)'
  PROVE  Steady
<1>1. \A e \in Device : AgentCalm(e)
  BY AgentQuiet, AgentRests
<1>2. LandedKept
  <2>1. \A p : ~Indexing(d, p)
    BY DEF Indexing
  <2>2. \A e \in Device \ {d} : \A p : Indexing(e, p) => Indexing(e, p)'
    BY AgentRests
  <2> QED
    BY <2>1, <2>2 DEF LandedKept
<1> QED
  BY <1>1, <1>2, CalmIsSteady

\* An operation fails, or an upload is done.
LEMMA OutcomeSteady ==
  ASSUME GInv, NEW d \in Client, NEW o, Fail(d, o) \/ Finish(d, o), UNCHANGED <<disk, plans, approved>>,
         agent[d].pc \in Batching \ {"index"}, \A e \in Device : RowsCalm(e),
         TasksCalm, \A e, p : Arrived(e, p) => Arrived(e, p)'
  PROVE  Steady
<1>1. agent'[d].pc = "next" /\ \A e \in Device \ {d} : agent'[e] = agent[e]
  BY OutcomeBacked
<1> QED
  BY <1>1, PcKinds, CommandQuiet DEF GInv

\* The scans and the list of build_sync_plan, and the end of a command.
LEMMA PlanSteady ==
  ASSUME GInv, NEW d \in Client,
         BeginPlan(d) \/ MakePlan(d) \/ EndRun(d) \/ EndDeleteLocal(d)
  PROVE  Steady
<1>0. d \in Device /\ TypeInv /\ agent[d] \in Process /\ agent \in [Device -> Command] /\ Peer(d) \in Device
  BY TwoDevices, SlotTyped, PeerIs DEF GInv, TypeInv, Workers
<1>1. UNCHANGED <<disk, task, approved>> /\ agent[d].pc \in {"idle", "plan", "next", "LocalOnly"}
  BY DEF BeginPlan, MakePlan, EndRun, EndDeleteLocal, user
<1>2. agent'[d].pc \in {"plan", "queue", "idle"} /\ \A e \in Device \ {d} : agent'[e] = agent[e]
  <2>1. CASE BeginPlan(d)
    BY <1>0, <2>1 DEF BeginPlan, Process
  <2>2. CASE MakePlan(d)
    BY <1>0, <2>2 DEF MakePlan, Process
  <2>3. CASE EndRun(d) \/ EndDeleteLocal(d)
    BY <1>0, <2>3, IdleTyped DEF EndRun, EndDeleteLocal
  <2> QED
    BY <2>1, <2>2, <2>3
<1>3. \A e \in Device : RowsCalm(e)
  <2>1. CASE BeginPlan(d) \/ MakePlan(d)
    BY <1>0, <1>1, <2>1, ScanCalm DEF BeginPlan, MakePlan
  <2>2. CASE EndRun(d)
    BY <2>2, RowsRest DEF EndRun
  <2>3. CASE EndDeleteLocal(d)
    <3>1. files \in [Device -> Manifest] /\ files[d] \in Manifest
      BY <1>0 DEF TypeInv, Tables
    <3>2. /\ files'[d] = mark_file_deleted_locally(files[d], agent[d].erase)
          /\ \A e \in Device \ {d} : files'[e] = files[e]
      BY <1>0, <2>3, <3>1 DEF EndDeleteLocal
    <3>3. ASSUME NEW p \in Path, files[d][p] # NoRecord
          PROVE  files'[d][p] # NoRecord /\ files'[d][p].hash = files[d][p].hash
      <4>1. files[d][p] \in FileRecord
        BY <3>1, <3>3 DEF Manifest
      <4>2. files'[d][p] = AsMissing(files[d][p]) \/ files'[d][p] = files[d][p]
        BY <3>1, <3>2 DEF mark_file_deleted_locally, Manifest
      <4>3. AsMissing(files[d][p]) # NoRecord /\ AsMissing(files[d][p]).hash = files[d][p].hash
        BY <3>3, <4>1, MissingRow, NoRecordAssumption
      <4> QED
        BY <3>3, <4>2, <4>3
    <3>4. RowsCalm(d)
      BY <3>3 DEF RowsCalm
    <3> QED
      BY <3>2, <3>4, RowsRest
  <2> QED
    BY <2>1, <2>2, <2>3
<1>4. TasksCalm /\ \A e, p : Arrived(e, p) => Arrived(e, p)'
  BY <1>0, <1>1, SlotRests
<1> QED
  BY <1>0, <1>1, <1>2, <1>3, <1>4, PcKinds, CommandQuiet

\* mark_sync_operation_started and the checks of upload_operation.
LEMMA StartSteady ==
  ASSUME GInv, NEW d \in Client, NEW o, StartNext(d, o) \/ CheckUpload(d, o)
  PROVE  Steady
<1>0. d \in Device /\ TypeInv
  BY TwoDevices DEF GInv
<1>1. UNCHANGED <<disk, files, task, plans, approved>> /\ agent[d].pc \in {"next", "upload"}
  BY DEF StartNext, CheckUpload, user
<1>2. /\ \A e \in Device : RowsCalm(e)
      /\ TasksCalm /\ \A e, p : Arrived(e, p) => Arrived(e, p)'
  BY <1>0, <1>1, RowsRest, SlotRests
<1>3. CASE StartNext(d, o)
  <2>1. PICK x \in {"download", "upload"} : Goto(d, x)
    BY <1>3 DEF StartNext
  <2>2. agent'[d].pc = x /\ \A e \in Device \ {d} : agent'[e] = agent[e]
    BY <1>0, <2>1 DEF Goto, TypeInv, Workers, Command, Process
  <2> QED
    BY <1>0, <1>1, <1>2, <2>2, PcKinds, CommandQuiet
<1>4. CASE CheckUpload(d, o)
  <2>1. CASE Fail(d, o)
    BY <1>1, <1>2, <2>1, PcKinds, OutcomeSteady
  <2>2. CASE ~Fail(d, o)
    <3>1. PICK x \in {"delete", "put"} : Moves(d, x)
      BY <1>4, <2>2, CheckUploadMoves
    <3> QED
      BY <1>0, <1>1, <1>2, <3>1, PcKinds, CommandQuiet DEF Moves
  <2> QED
    BY <2>1, <2>2
<1> QED
  BY <1>3, <1>4

\* Requests to delete.
LEMMA DeleteSteady ==
  ASSUME GInv, NEW d \in Client, NEW o, NEW s \in Slot, SendDelete(d, o, s) \/ SendErase(d, s)
  PROVE  Steady
<1>0. d \in Device /\ TypeInv
  BY TwoDevices DEF GInv
<1>1. UNCHANGED <<disk, files, ops, plans, approved>>
  BY DEF SendDelete, SendErase, user
<1>2. \A e \in Device : RowsCalm(e)
  BY <1>1, RowsRest
<1>3. CASE SendDelete(d, o, s)
  <2>1. /\ agent' = [agent EXCEPT ![d] = SetSlot(agent[d], "delete_wait", s)] /\ task[s] = FreeSlot
        /\ task' = [task EXCEPT ![s] = Received(d, "delete", o.path, RemoteTarget(d, o))]
    BY <1>0, <1>3, SendDeleteStep
  <2>2. /\ o.path \in Path /\ RemoteTarget(d, o) \in Content \cup {NoHash}
        /\ agent[d].pc = "delete"
    BY <1>0, <1>3, CurrentRow, TargetTyped DEF SendDelete
  <2>3. TasksCalm /\ \A e, p : Arrived(e, p) => Arrived(e, p)'
    BY <1>0, <2>1, <2>2, SlotRests
  <2>4. Moves(d, "delete_wait")
    <3>1. "delete_wait" \in Pc
      BY DEF Pc
    <3> QED
      BY <1>1, <2>1, <3>1, SlotMoves
  <2> QED
    BY <1>0, <1>1, <1>2, <2>2, <2>3, <2>4, PcKinds, CommandQuiet DEF Moves
<1>4. CASE SendErase(d, s)
  <2>1. /\ agent' = [agent EXCEPT ![d] = SetSlot(agent[d], "erase_wait", s)] /\ task[s] = FreeSlot
        /\ task' = [task EXCEPT ![s] = Received(d, "delete", agent[d].erase, agent[d].body)]
        /\ agent[d].erase \in Path /\ agent[d].body \in Content \cup {NoHash}
    BY <1>0, <1>4, SendEraseStep
  <2>2. TasksCalm /\ \A e, p : Arrived(e, p) => Arrived(e, p)'
    BY <1>0, <2>1, SlotRests
  <2>3. Moves(d, "erase_wait") /\ agent[d].pc = "PropagateToPeers"
    <3>1. "erase_wait" \in Pc
      BY DEF Pc
    <3> QED
      BY <1>1, <1>4, <2>1, <3>1, SlotMoves DEF SendErase
  <2> QED
    BY <1>0, <1>1, <1>2, <2>2, <2>3, PcKinds, CommandQuiet DEF Moves
<1> QED
  BY <1>3, <1>4

\* An answer is taken.
LEMMA AnswerSteady ==
  ASSUME GInv, NEW d \in Client, NEW o, Answer(d, o)
  PROVE  Steady
<1>0. d \in Device /\ TypeInv
  BY TwoDevices DEF GInv
<1>1. /\ UNCHANGED <<disk, files, plans, approved>> /\ agent[d].pc \in {"delete_wait", "put_wait"}
      /\ task' = [task EXCEPT ![agent[d].slot] = FreeSlot]
      /\ task[agent[d].slot].stage \in {"accepted", "refused"}
  BY DEF Answer, user
<1>2. /\ \A e \in Device : RowsCalm(e)
      /\ TasksCalm /\ \A e, p : Arrived(e, p) => Arrived(e, p)'
  BY <1>0, <1>1, RowsRest, SlotRests
<1>3. CASE Fail(d, o) \/ Finish(d, o)
  BY <1>1, <1>2, <1>3, PcKinds, OutcomeSteady
<1>4. CASE agent' = [agent EXCEPT ![d] = SetSlot(agent[d], "put", 0)] /\ UNCHANGED ops
  <2>1. "put" \in Pc /\ 0 \in Slot \cup {0}
    BY DEF Pc
  <2>2. Moves(d, "put")
    BY <1>1, <1>4, <2>1, SlotMoves
  <2> QED
    BY <1>0, <1>1, <1>2, <2>2, PcKinds, CommandQuiet DEF Moves
<1> QED
  BY <1>0, <1>3, <1>4, AnswerStep

-----------------------------------------------------------------------------
(* Steps of a run that take up something *)

\* No version is fetched or sent, and no place taken.
LEMMA HandsCalm ==
  ASSUME UNCHANGED disk, TasksCalm,
         \A e \in Device : \A p : Downloads(e, p)' => Downloads(e, p),
         \A e \in Device : \A p, c : Fetched(e, p, c)' => Fetched(e, p, c)
  PROVE  DiskSteps /\ HandSteps /\ NothingNew /\ LetIn
<1>1. DiskSteps
  BY DEF DiskSteps
<1>2. HandSteps
  BY DEF HandSteps, InHand, TasksCalm
<1>3. NothingNew
  BY DEF NothingNew, Present, TasksCalm
<1>4. \A e \in Device : Claimed(e)' \subseteq Claimed(e)
  BY DEF Claimed, OnDisk, UnderWay, TasksCalm
<1> QED
  BY <1>1, <1>2, <1>3, <1>4 DEF LetIn

\* What runs know and no row changes that is in nobody's hand.
LEMMA RowsKnown ==
  ASSUME \A e \in Device : IsRunning(e)' => IsRunning(e),
         \A e \in Device : IsRunning(e)' =>
           \A p \in Path : files'[e][p] = files[e][p] \/ InHand(e, p)
  PROVE  RowSteps
  BY DEF RowSteps, RowMatches

\* What runs know stays known when the rows keep their hashes or show the disk.
LEMMA RowsKnownCalm ==
  ASSUME \A e \in Device : (IsRunning(e)' => IsRunning(e)) /\ RowsCalm(e)
  PROVE  RowSteps
  BY DEF RowSteps, RowMatches, RowsCalm

\* Files that are uncounted after the step were so before.
LEMMA OrphansKept ==
  ASSUME NEW e, approved \subseteq approved',
         \A p \in Path :
           /\ disk'[e][p] # NoFile => disk[e][p] # NoFile \/ Indexing(e, p)' \/ Arrived(e, p)'
           /\ files[e][p] # NoRecord => files'[e][p] # NoRecord \/ p \in Chosen
           /\ Indexing(e, p) \/ Arrived(e, p) =>
                Indexing(e, p)' \/ Arrived(e, p)' \/ files'[e][p] # NoRecord
  PROVE  Orphans(e)' \subseteq Orphans(e)
  BY ChosenKept DEF Orphans

\* run_sync_queue scans its own folder first.
LEMMA QueueStartsSteady ==
  ASSUME GInv, NEW d \in Client, BeginQueue(d) \/ ExecuteQueue(d)
  PROVE  Steady
<1>0. d \in Device /\ TypeInv
  BY TwoDevices DEF GInv
<1>1. /\ UNCHANGED <<disk, task, ops, plans, approved>> /\ files' = Scanned(d) /\ Goto(d, "manifest")
      /\ agent[d].pc \in {"idle", "queue"}
  BY DEF BeginQueue, ExecuteQueue, user
<1>2. agent'[d].pc = "manifest" /\ \A e \in Device \ {d} : agent'[e] = agent[e]
  <2>1. "manifest" \in Pc
    BY DEF Pc
  <2> QED
    BY <1>1, <2>1, GotoMoves DEF Moves
<1>3. /\ \A e \in Device \ {d} : AgentCalm(e) /\ \A p : Indexing(e, p)' <=> Indexing(e, p)
      /\ \A p : ~Downloads(d, p)' /\ ~Indexing(d, p)
      /\ \A p, c : ~Fetched(d, p, c)'
  BY <1>1, <1>2, AgentRests DEF Downloads, Indexing, Fetched
<1>4. TasksCalm /\ \A e, p : Arrived(e, p) => Arrived(e, p)'
  BY <1>0, <1>1, SlotRests
<1>5. /\ \A e \in Device : RowsCalm(e)
      /\ Orphans(d)' = {}
      /\ \A p \in Path : disk[d][p] \in Content =>
           files'[d][p] # NoRecord /\ files'[d][p].hash = disk[d][p]
  BY <1>0, <1>1, ScanCalm
<1>6. DiskSteps /\ HandSteps /\ NothingNew /\ LetIn
  BY <1>1, <1>3, <1>4, HandsCalm DEF AgentCalm
<1>7. RowSteps
  BY <1>3, <1>5 DEF RowSteps, RowMatches, RowsCalm, AgentCalm
<1>8. \A e \in Device : Orphans(e)' \subseteq Orphans(e)
  BY <1>1, <1>3, <1>4, <1>5, OrphansKept DEF RowsCalm
<1>9. ASSUME NEW e \in Device, Fresh(e)' PROVE Fresh(e) \/ Orphans(e)' = {}
  <2>1. CASE e = d
    BY <1>5, <2>1
  <2>2. CASE e # d
    <3>1. Peer(e) = d /\ AgentCalm(e) /\ ~IsBatching(d)'
      BY <1>0, <1>2, <1>3, <2>2, PeerPeer, PcKinds DEF IsBatching
    <3> QED
      BY <1>4, <1>9, <3>1 DEF Fresh, AgentCalm, TasksCalm, IsBatching
  <2> QED
    BY <2>1, <2>2
<1> QED
  BY <1>6, <1>7, <1>8, <1>9 DEF Steady, Careful, Counted

\* The peer scans for the manifest that the run works with.
LEMMA ListBatchSteady ==
  ASSUME GInv, TypeInv', NEW d \in Client, ListBatch(d)
  PROVE  Steady
<1>0. d \in Device /\ TypeInv /\ Peer(d) \in Device
  BY TwoDevices, PeerIs DEF GInv
<1>1. /\ UNCHANGED <<disk, task, approved>> /\ files' = Scanned(Peer(d))
      /\ agent[d].pc = "manifest"
  BY DEF ListBatch, user
<1>2. agent'[d].pc = "next" /\ \A e \in Device \ {d} : agent'[e] = agent[e]
  <2>1. \A e \in Device \ {d} : agent'[e] = agent[e]
    BY <1>0 DEF ListBatch, TypeInv, Workers
  <2> QED
    BY <2>1, ListBatchAgreed
<1>3. /\ \A e \in Device \ {d} : AgentCalm(e) /\ \A p : Indexing(e, p)' <=> Indexing(e, p)
      /\ \A p : ~Downloads(d, p)' /\ ~Indexing(d, p)
      /\ \A p, c : ~Fetched(d, p, c)'
      /\ IsRunning(d)
  BY <1>1, <1>2, AgentRests, PcKinds DEF Downloads, Indexing, Fetched, IsRunning
<1>4. TasksCalm /\ \A e, p : Arrived(e, p) => Arrived(e, p)'
  BY <1>0, <1>1, SlotRests
<1>5. (\A e \in Device : RowsCalm(e)) /\ Orphans(Peer(d))' = {}
  BY <1>0, <1>1, ScanCalm
<1>6. DiskSteps /\ HandSteps /\ NothingNew /\ LetIn
  BY <1>1, <1>3, <1>4, HandsCalm DEF AgentCalm
<1>7. RowSteps
  BY <1>3, <1>5, RowsKnownCalm DEF AgentCalm
<1>8. \A e \in Device : Orphans(e)' \subseteq Orphans(e)
  BY <1>1, <1>3, <1>4, <1>5, OrphansKept DEF RowsCalm
<1>9. \A e \in Device : Fresh(e) \/ Orphans(e)' = {}
  BY <1>0, <1>3, <1>5, PeerPeer DEF Fresh
<1> QED
  BY <1>6, <1>7, <1>8, <1>9 DEF Steady, Careful, Counted

\* The places of a download that moves on from y to x.
LEMMA DownloadPlaces ==
  ASSUME GInv, NEW d \in Client, NEW o, IsCurrent(d, o), NEW x, Moves(d, x)
  PROVE  /\ d \in Device /\ o.path \in Path /\ At(d, o.path)
         /\ \A p : At(d, p) => p = o.path
         /\ \A p : At(d, p)' <=> At(d, p)
         /\ \A p : Downloads(d, p) <=> agent[d].pc \in Acting /\ At(d, p)
         /\ \A p : Downloads(d, p)' <=> x \in Acting /\ At(d, p)
         /\ \A e \in Device \ {d} : /\ AgentCalm(e)
                                    /\ \A p : Indexing(e, p)' <=> Indexing(e, p)
<1>1. d \in Device /\ TypeInv
  BY TwoDevices DEF GInv
<1>2. o.path \in Path /\ At(d, o.path) /\ \A p : At(d, p) => p = o.path
  BY <1>1, AtOne
<1>3. \A p : At(d, p)' <=> At(d, p)
  BY SameBatch DEF Moves
<1>4. \A p : Downloads(d, p) <=> agent[d].pc \in Acting /\ At(d, p)
  BY DEF Downloads, At, Acting
<1>5. \A p : Downloads(d, p)' <=> x \in Acting /\ At(d, p)
  BY <1>3 DEF Downloads, At, Acting, Moves
<1> QED
  BY <1>1, <1>2, <1>3, <1>4, <1>5, AgentRests DEF Moves

\* The checks of download_operation: there is room beside what the index counts,
\* and a version that is there is one that the run does not know or one that the
\* user has given up.
LEMMA CheckDownloadSteady ==
  ASSUME GInv, NEW d \in Client, NEW o, CheckDownload(d, o)
  PROVE  Steady
<1>0. d \in Device /\ TypeInv /\ Backed(d)
  BY TwoDevices DEF GInv
<1>1. /\ UNCHANGED <<disk, files, task, plans, approved>> /\ agent[d].pc = "download"
      /\ IsCurrent(d, o)
  BY DEF CheckDownload, user
<1>2. /\ \A e \in Device : RowsCalm(e)
      /\ TasksCalm /\ \A e, p : Arrived(e, p) => Arrived(e, p)'
  BY <1>0, <1>1, RowsRest, SlotRests
<1>3. CASE Fail(d, o)
  BY <1>1, <1>2, <1>3, PcKinds, OutcomeSteady
<1>4. CASE ~Fail(d, o)
  <2>1. Moves(d, "fetch") /\ FitsLimit(d) /\ (disk[d][o.path] # NoFile => MayReplace(d, o))
    BY <1>4, CheckDownloadMoves
  <2>2. /\ o.path \in Path /\ At(d, o.path) /\ \A p : At(d, p) => p = o.path
        /\ \A p : Downloads(d, p)' => p = o.path
        /\ \A e \in Device \ {d} : AgentCalm(e) /\ \A p : Indexing(e, p)' <=> Indexing(e, p)
    BY <1>1, <2>1, DownloadPlaces
  <2>3. IsRunning(d) /\ IsBatching(d) /\ \A p : ~Indexing(d, p)
    BY <1>1, PcKinds DEF IsRunning, IsBatching, Indexing
  <2>4. \A p, c : ~Fetched(d, p, c)'
    BY <2>1 DEF Fetched, Moves
  <2>5. DiskSteps
    BY <1>1 DEF DiskSteps
  <2>6. HandSteps
    <3> SUFFICES ASSUME NEW e \in Device, NEW p \in Path, InHand(e, p)', ~InHand(e, p)
                 PROVE  \/ disk[e][p] = NoFile
                        \/ <<e, p, disk[e][p]>> \in approved
                        \/ IsRunning(e) /\ ~RowMatches(e, p)
      BY DEF HandSteps
    <3>1. e = d /\ p = o.path
      BY <1>2, <2>2 DEF InHand, AgentCalm, TasksCalm
    <3>2. CASE disk[d][o.path] # NoFile /\ RowMatches(d, o.path)
      <4>1. disk[d][o.path] \in Content /\ o.local_content_hash = disk[d][o.path]
        BY <1>0, <2>1, <2>2, <3>2 DEF MayReplace, RowMatches, TypeInv, Surroundings
      <4>2. o.local_content_hash # NoHash
        BY <4>1, NoHashAssumption
      <4>3. o \in agent[d].downloads
        BY <1>0, <1>1 DEF Backed, BatchInv, Downloading, IsCurrent
      <4>4. <<d, o.path, o.local_content_hash>> \in approved
        BY <1>0, <4>2, <4>3 DEF Backed, BatchInv, Consented
      <4> QED
        BY <3>1, <4>1, <4>4
    <3> QED
      BY <2>3, <3>1, <3>2
  <2>7. RowSteps
    BY <1>2, <2>2, <2>3, RowsKnownCalm DEF AgentCalm
  <2>8. NothingNew
    BY <1>1, <1>2, <2>2, <2>4 DEF NothingNew, Present, AgentCalm, TasksCalm
  <2>9. LetIn
    <3>1. Claimed(d)' \subseteq Claimed(d) \cup {o.path}
      BY <1>1, <1>2, <2>2 DEF Claimed, OnDisk, UnderWay, TasksCalm
    <3>2. \A e \in Device \ {d} : Claimed(e)' \subseteq Claimed(e)
      BY <1>1, <1>2, <2>2 DEF Claimed, OnDisk, UnderWay, TasksCalm, AgentCalm
    <3>3. Grants(d)
      BY <2>1, <2>2, <2>3, <3>1 DEF Grants, Fresh
    <3> QED
      BY <3>2, <3>3 DEF LetIn
  <2>10. \A e \in Device : Orphans(e)' \subseteq Orphans(e)
    BY <1>1, <1>2, <2>2, <2>3, OrphansKept
  <2>11. \A e \in Device : Fresh(e)' => Fresh(e)
    BY <1>0, <1>2, <2>2, <2>3, PeerPeer DEF Fresh, AgentCalm, TasksCalm, IsBatching
  <2> QED
    BY <2>5, <2>6, <2>7, <2>8, <2>9, <2>10, <2>11 DEF Steady, Careful, Counted
<1> QED
  BY <1>3, <1>4

\* A step of a run leaves who relies on an index as it is.
LEMMA FreshKept ==
  ASSUME NEW d \in Client, TasksCalm, IsRunning(d) /\ IsBatching(d),
         \A e \in Device \ {d} : AgentCalm(e)
  PROVE  \A e \in Device : Fresh(e)' => Fresh(e)
  BY TwoDevices, PeerPeer DEF Fresh, AgentCalm, TasksCalm, IsBatching

\* The peer scans and sends what is on its disk.
LEMMA FetchSteady ==
  ASSUME GInv, NEW d \in Client, NEW o, Fetch(d, o)
  PROVE  Steady
<1>0. d \in Device /\ TypeInv /\ Peer(d) \in Device
  BY TwoDevices, PeerIs DEF GInv
<1>1. /\ UNCHANGED <<disk, task, plans, approved>> /\ files' = Scanned(Peer(d)) /\ agent[d].pc = "fetch"
      /\ IsCurrent(d, o)
  BY DEF Fetch, user
<1>2. /\ \A e \in Device : RowsCalm(e)
      /\ TasksCalm /\ \A e, p : Arrived(e, p) => Arrived(e, p)'
  BY <1>0, <1>1, ScanCalm, SlotRests
<1>3. CASE Fail(d, o)
  BY <1>1, <1>2, <1>3, PcKinds, OutcomeSteady
<1>4. CASE ~Fail(d, o)
  <2>1. PICK x \in {"remove", "publish"}, c \in Content :
          Moves(d, x) /\ agent'[d].body = c /\ disk[Peer(d)][o.path] = c
    BY <1>4, FetchMoves
  <2>2. /\ \A p : At(d, p)' => p = o.path
        /\ \A p : Downloads(d, p)' => Downloads(d, p)
        /\ \A e \in Device \ {d} : AgentCalm(e) /\ \A p : Indexing(e, p)' <=> Indexing(e, p)
    BY <1>1, <2>1, DownloadPlaces DEF Acting
  <2>3. IsRunning(d) /\ IsBatching(d) /\ \A p : ~Indexing(d, p)
    BY <1>1, PcKinds DEF IsRunning, IsBatching, Indexing
  <2>4. \A p, v : Fetched(d, p, v)' => p = o.path /\ v = c
    BY <2>1, <2>2 DEF Fetched
  <2>5. DiskSteps
    BY <1>1 DEF DiskSteps
  <2>6. HandSteps
    BY <1>2, <2>2 DEF HandSteps, InHand, AgentCalm, TasksCalm
  <2>7. RowSteps
    BY <1>2, <2>2, <2>3, RowsKnownCalm DEF AgentCalm
  <2>8. NothingNew
    BY <1>0, <1>1, <1>2, <2>1, <2>2, <2>4 DEF NothingNew, Present, AgentCalm, TasksCalm
  <2>9. \A e \in Device : Claimed(e)' \subseteq Claimed(e)
    BY <1>1, <1>2, <2>2 DEF Claimed, OnDisk, UnderWay, TasksCalm, AgentCalm
  <2>10. \A e \in Device : Orphans(e)' \subseteq Orphans(e)
    BY <1>1, <1>2, <2>2, <2>3, OrphansKept DEF RowsCalm
  <2>11. \A e \in Device : Fresh(e)' => Fresh(e)
    BY <1>2, <2>2, <2>3, FreshKept
  <2> QED
    BY <2>5, <2>6, <2>7, <2>8, <2>9, <2>10, <2>11 DEF Steady, Careful, Counted, LetIn
<1> QED
  BY <1>3, <1>4

\* A download changes the disk where it is at work: it frees the place, or puts
\* there what it has fetched.
LEMMA TargetSteady ==
  ASSUME GInv, NEW d \in Client, NEW o, IsCurrent(d, o), NEW x \in {"publish", "index"}, Moves(d, x),
         agent'[d].body = agent[d].body, agent[d].pc \in {"remove", "publish"},
         UNCHANGED <<files, task, approved>>,
         NEW v, v = NoFile \/ (v = agent[d].body /\ x = "index"),
         disk' = [disk EXCEPT ![d][o.path] = v]
  PROVE  Steady
<1>0. d \in Device /\ TypeInv /\ disk \in [Device -> [Path -> Content \cup {NoFile}]]
  BY TwoDevices DEF GInv, TypeInv, Surroundings
<1>1. /\ o.path \in Path /\ At(d, o.path)
      /\ \A p : At(d, p)' <=> At(d, p)
      /\ Downloads(d, o.path)
      /\ \A p : Downloads(d, p)' <=> Downloads(d, p)
      /\ \A e \in Device \ {d} : AgentCalm(e) /\ \A p : Indexing(e, p)' <=> Indexing(e, p)
  BY DownloadPlaces DEF Acting
<1>2. /\ \A e \in Device, p \in Path : disk'[e][p] = disk[e][p] \/ (e = d /\ p = o.path)
      /\ disk'[d][o.path] = v
  BY <1>0, <1>1
<1>3. /\ \A e \in Device : RowsCalm(e)
      /\ TasksCalm /\ \A e, p : Arrived(e, p) => Arrived(e, p)'
  BY <1>0, RowsRest, SlotRests
<1>4. IsRunning(d) /\ IsBatching(d) /\ \A p : ~Indexing(d, p)
  BY PcKinds DEF IsRunning, IsBatching, Indexing
<1>5. \A p, c : Fetched(d, p, c)' => Fetched(d, p, c)
  BY <1>1 DEF Fetched, Moves
<1>6. Fetched(d, o.path, agent[d].body)
  BY <1>1 DEF Fetched
<1>7. v # NoFile => Indexing(d, o.path)'
  BY <1>1 DEF Indexing, Moves
<1>8. DiskSteps
  BY <1>1, <1>2 DEF DiskSteps, InHand
<1>9. HandSteps
  BY <1>1, <1>3 DEF HandSteps, InHand, AgentCalm, TasksCalm
<1>10. RowSteps
  BY <1>1, <1>3, <1>4, RowsKnownCalm DEF AgentCalm
<1>11. NothingNew
  <2> SUFFICES ASSUME NEW p \in Path, NEW c \in Content, Present(p, c)' PROVE Present(p, c)
    BY DEF NothingNew
  <2>1. CASE \E e \in Device : disk'[e][p] = c
    <3>1. PICK e \in Device : disk'[e][p] = c
      BY <2>1
    <3>2. CASE e = d /\ p = o.path /\ v # NoFile
      BY <1>0, <1>2, <1>6, <3>1, <3>2 DEF Present
    <3>3. CASE ~(e = d /\ p = o.path /\ v # NoFile)
      BY <1>2, <3>1, <3>3, NoFileAssumption DEF Present
    <3> QED
      BY <3>2, <3>3
  <2>2. CASE \E e \in Device : Fetched(e, p, c)'
    BY <1>1, <1>5, <2>2 DEF Present, AgentCalm
  <2>3. CASE Carried(p, c)'
    BY <1>3, <2>3 DEF Present, TasksCalm
  <2> QED
    BY <2>1, <2>2, <2>3 DEF Present
<1>12. \A e \in Device : Claimed(e)' \subseteq Claimed(e)
  BY <1>1, <1>2, <1>3 DEF Claimed, OnDisk, UnderWay, TasksCalm, AgentCalm
<1>13. \A e \in Device : Orphans(e)' \subseteq Orphans(e)
  BY <1>1, <1>2, <1>3, <1>4, <1>7, OrphansKept
<1>14. \A e \in Device : Fresh(e)' => Fresh(e)
  BY <1>1, <1>3, <1>4, FreshKept
<1> QED
  BY <1>8, <1>9, <1>10, <1>11, <1>12, <1>13, <1>14 DEF Steady, Careful, Counted, LetIn

\* remove_file(target) and the rename of a download.
LEMMA PublishSteady ==
  ASSUME GInv, NEW d \in Client, NEW o, RemoveReplaced(d, o) \/ PublishDownload(d, o)
  PROVE  Steady
<1>0. d \in Device /\ TypeInv /\ disk \in [Device -> [Path -> Content \cup {NoFile}]]
  BY TwoDevices DEF GInv, TypeInv, Surroundings
<1>1. /\ UNCHANGED <<files, task, plans, approved>> /\ agent[d].pc \in {"remove", "publish"}
      /\ IsCurrent(d, o) /\ {"publish", "index"} \subseteq Pc
  BY DEF RemoveReplaced, PublishDownload, user, Pc
<1>2. CASE RemoveReplaced(d, o) /\ disk[d][o.path] = NoFile
  <2>1. o.path \in Path
    BY <1>0, <1>1, CurrentRow
  <2>2. Fail(d, o) /\ disk' = [disk EXCEPT ![d][o.path] = NoFile]
    BY <1>2 DEF RemoveReplaced
  <2>3. UNCHANGED disk
    BY <1>0, <1>2, <2>1, <2>2
  <2>4. /\ \A e \in Device : RowsCalm(e)
        /\ TasksCalm /\ \A e, p : Arrived(e, p) => Arrived(e, p)'
    BY <1>0, <1>1, RowsRest, SlotRests
  <2> QED
    BY <1>1, <2>2, <2>3, <2>4, PcKinds, OutcomeSteady
<1>3. CASE RemoveReplaced(d, o) /\ disk[d][o.path] # NoFile
  <2>1. Goto(d, "publish") /\ UNCHANGED ops /\ disk' = [disk EXCEPT ![d][o.path] = NoFile]
    BY <1>3 DEF RemoveReplaced
  <2> QED
    BY <1>1, <2>1, GotoMoves, TargetSteady
<1>4. CASE PublishDownload(d, o)
  <2>1. Goto(d, "index") /\ UNCHANGED ops /\ disk' = [disk EXCEPT ![d][o.path] = agent[d].body]
    BY <1>4 DEF PublishDownload
  <2> QED
    BY <1>1, <2>1, GotoMoves, TargetSteady
<1> QED
  BY <1>2, <1>3, <1>4

\* upsert_file of what was transferred.
LEMMA IndexDownloadSteady ==
  ASSUME GInv, NEW d \in Client, NEW o, IndexDownload(d, o)
  PROVE  Steady
<1>0. d \in Device /\ TypeInv /\ agent[d].body \in Content /\ files \in [Device -> Manifest]
  BY TwoDevices DEF GInv, TypeInv, Workers, Tables, Command, HoldsBody, IndexDownload
<1>1. /\ UNCHANGED <<disk, task, plans, approved>> /\ agent[d].pc = "index" /\ IsCurrent(d, o)
      /\ Finish(d, o)
      /\ files' = [files EXCEPT ![d] = upsert_file(files[d], o.path, agent[d].body)]
  BY DEF IndexDownload, user
<1>2. agent'[d].pc = "next" /\ \A e \in Device \ {d} : agent'[e] = agent[e]
  BY <1>1, OutcomeBacked
<1>3. o.path \in Path /\ At(d, o.path) /\ \A p : At(d, p) => p = o.path
  BY <1>0, <1>1, AtOne
<1>4. /\ \A p \in Path : files'[d][p] = files[d][p] \/ (p = o.path /\ files'[d][p] # NoRecord)
      /\ files'[d][o.path] # NoRecord
      /\ \A e \in Device \ {d} : files'[e] = files[e]
  BY <1>0, <1>1, <1>3, AvailableIsRecord, NoRecordAssumption DEF upsert_file, Manifest
<1>5. TasksCalm /\ \A e, p : Arrived(e, p) => Arrived(e, p)'
  BY <1>0, <1>1, SlotRests
<1>6. /\ \A e \in Device \ {d} : AgentCalm(e) /\ \A p : Indexing(e, p)' <=> Indexing(e, p)
      /\ \A p : ~Downloads(d, p)'
      /\ \A p, c : ~Fetched(d, p, c)'
      /\ \A p : Indexing(d, p) => p = o.path
      /\ Downloads(d, o.path) /\ IsRunning(d) /\ IsBatching(d)
  BY <1>1, <1>2, <1>3, AgentRests, PcKinds DEF Downloads, Fetched, Indexing, At, IsRunning, IsBatching
<1>7. DiskSteps /\ HandSteps /\ NothingNew /\ LetIn
  BY <1>1, <1>5, <1>6, HandsCalm DEF AgentCalm
<1>8. RowSteps
  BY <1>4, <1>6, RowsKnown DEF AgentCalm, InHand
<1>9. \A e \in Device : Orphans(e)' \subseteq Orphans(e)
  BY <1>1, <1>4, <1>5, <1>6, OrphansKept
<1>10. \A e \in Device : Fresh(e)' => Fresh(e)
  BY <1>5, <1>6, FreshKept
<1> QED
  BY <1>7, <1>8, <1>9, <1>10 DEF Steady, Careful, Counted

\* put_file_from_path sends what is on the disk, to a peer that has scanned.
LEMMA SendPutSteady ==
  ASSUME GInv, NEW d \in Client, NEW o, NEW s \in Slot, SendPut(d, o, s)
  PROVE  Steady
<1>0. d \in Device /\ TypeInv /\ task \in [Slot -> Job]
  BY TwoDevices DEF GInv, TypeInv, Workers
<1>1. UNCHANGED <<disk, files, plans, approved>> /\ agent[d].pc = "put" /\ IsCurrent(d, o)
  BY DEF SendPut, user
<1>2. \A e \in Device : RowsCalm(e)
  BY <1>1, RowsRest
<1>3. CASE Fail(d, o) /\ UNCHANGED task
  BY <1>0, <1>1, <1>2, <1>3, PcKinds, OutcomeSteady, SlotRests
<1>4. CASE ~(Fail(d, o) /\ UNCHANGED task)
  <2> DEFINE c == agent[d].body
             r == Received(d, "put", o.path, c)
  <2>1. /\ Moves(d, "put_wait") /\ task' = [task EXCEPT ![s] = r] /\ task[s] = FreeSlot
        /\ c \in Content /\ disk[d][o.path] = c /\ o.path \in Path
    BY <1>4, SendPutMoves DEF SendPut, Request
  <2>2. r.kind = "put" /\ r.server = Peer(d) /\ r.path = o.path /\ r.hash = c /\ r.stage = "received"
    BY <1>0, <2>1, ReceivedTyped
  <2> HIDE DEF r
  <2>3. \A u \in Slot : task'[u] = IF u = s THEN r ELSE task[u]
    BY <1>0, <2>1
  <2>4. /\ \A e, p : Handled(e, p)' => Handled(e, p)
        /\ \A e, p : Receives(e, p)' => Receives(e, p)
        /\ \A e, p : Arrived(e, p) => Arrived(e, p)'
    BY <2>1, <2>2, <2>3, FreeTyped DEF Handled, Receives, Arrived
  <2>5. /\ \A p, v : Carried(p, v)' => Carried(p, v) \/ (p = o.path /\ v = c)
        /\ \A e : Expected(e)' => Expected(e) \/ e = Peer(d)
    BY <2>2, <2>3 DEF Carried, Expected
  <2>6. /\ \A e \in Device : AgentCalm(e)
        /\ \A e \in Device \ {d} : \A p : Indexing(e, p)' <=> Indexing(e, p)
        /\ \A p : ~Indexing(d, p)
        /\ IsRunning(d) /\ IsBatching(d)
    BY <1>1, <2>1, PcKinds, AgentQuiet, AgentRests DEF Moves, Indexing, IsRunning, IsBatching
  <2>7. DiskSteps
    BY <1>1 DEF DiskSteps
  <2>8. HandSteps
    BY <2>4, <2>6 DEF HandSteps, InHand, AgentCalm
  <2>9. RowSteps
    BY <1>2, <2>6, RowsKnownCalm DEF AgentCalm
  <2>10. NothingNew
    BY <1>0, <1>1, <2>1, <2>5, <2>6 DEF NothingNew, Present, AgentCalm
  <2>11. \A e \in Device : Claimed(e)' \subseteq Claimed(e)
    BY <1>1, <2>4, <2>6 DEF Claimed, OnDisk, UnderWay, AgentCalm
  <2>12. \A e \in Device : Orphans(e)' \subseteq Orphans(e)
    BY <1>1, <1>2, <2>4, <2>6, OrphansKept
  <2>13. \A e \in Device : Fresh(e)' => Fresh(e)
    BY <1>0, <2>5, <2>6, PeerPeer DEF Fresh, AgentCalm, IsBatching
  <2> QED
    BY <2>7, <2>8, <2>9, <2>10, <2>11, <2>12, <2>13 DEF Steady, Careful, Counted, LetIn
<1> QED
  BY <1>3, <1>4

\* A delete on both devices ends: the row that may go is of a path that the user
\* has deleted.
LEMMA EndDeleteBothSteady ==
  ASSUME GInv, NEW d \in Client, EndDeleteBoth(d)
  PROVE  Steady
<1>0. d \in Device /\ TypeInv /\ Backed(d) /\ agent \in [Device -> Command] /\ files \in [Device -> Manifest]
  BY TwoDevices DEF GInv, TypeInv, Workers, Tables
<1>1. /\ UNCHANGED <<disk, approved>> /\ agent[d].pc = "erase_wait"
      /\ task' = [task EXCEPT ![agent[d].slot] = FreeSlot]
      /\ task[agent[d].slot].stage \in {"accepted", "refused"}
      /\ agent' = [agent EXCEPT ![d] = Idle]
      /\ \/ files' = [files EXCEPT ![d] = forget_file(files[d], agent[d].erase)]
         \/ UNCHANGED files
  BY DEF EndDeleteBoth, user
<1>2. TasksCalm /\ \A e, p : Arrived(e, p) => Arrived(e, p)'
  BY <1>0, <1>1, SlotRests
<1>3. agent'[d].pc = "idle" /\ \A e \in Device \ {d} : agent'[e] = agent[e]
  BY <1>0, <1>1, IdleTyped
<1>4. /\ \A e \in Device : AgentCalm(e)
      /\ \A e \in Device \ {d} : \A p : Indexing(e, p)' <=> Indexing(e, p)
      /\ \A p : ~Indexing(d, p)
      /\ ~IsRunning(d)'
  BY <1>1, <1>3, PcKinds, AgentQuiet, AgentRests DEF Indexing, IsRunning
<1>5. /\ \A p \in Path : files'[d][p] = files[d][p] \/ p \in Chosen
      /\ \A e \in Device \ {d} : files'[e] = files[e]
  BY <1>0, <1>1 DEF Backed, forget_file, Manifest
<1>6. DiskSteps /\ HandSteps /\ NothingNew /\ LetIn
  BY <1>1, <1>2, <1>4, HandsCalm DEF AgentCalm
<1>7. RowSteps
  BY <1>4, <1>5, RowsKnown DEF AgentCalm
<1>8. \A e \in Device : Orphans(e)' \subseteq Orphans(e)
  BY <1>1, <1>2, <1>4, <1>5, OrphansKept
<1>9. \A e \in Device : Fresh(e)' => Fresh(e)
  BY <1>2, <1>4, PeerIs DEF Fresh, AgentCalm, TasksCalm, IsBatching
<1> QED
  BY <1>6, <1>7, <1>8, <1>9 DEF Steady, Careful, Counted

-----------------------------------------------------------------------------
(* Steps of the server, with any number of tasks *)

\* The commands rest while a task takes a step.
LEMMA CommandsRest ==
  ASSUME UNCHANGED agent, \A e : Expected(e)' => Expected(e)
  PROVE  /\ \A e \in Device : AgentCalm(e) /\ \A p : Indexing(e, p)' <=> Indexing(e, p)
         /\ \A e \in Device : Fresh(e)' => Fresh(e)
<1>1. \A e \in Device : AgentCalm(e) /\ \A p : Indexing(e, p)' <=> Indexing(e, p)
  BY AgentRests
<1>2. \A e \in Device : Fresh(e)' => Fresh(e)
  BY DEF Fresh, IsRunning
<1> QED
  BY <1>1, <1>2

\* The task in slot s answers.
LEMMA ReplyCalm ==
  ASSUME TypeInv, NEW s \in Slot, task[s].kind \in {"put", "delete"},
         NEW x \in {"accepted", "refused"}, Reply(s, x)
  PROVE  /\ TasksCalm
         /\ \A e, p : Arrived(e, p) =>
              Arrived(e, p)' \/ (/\ task[s].kind = "put" /\ task[s].stage = "published"
                                 /\ e = task[s].server /\ p = task[s].path)
<1>0. task \in [Slot -> Job] /\ task[s] \in Task /\ x \in Stage
  BY JobFields DEF TypeInv, Workers, Stage
<1>1. \A u \in Slot \ {s} : task'[u] = task[u]
  BY <1>0 DEF Reply
<1>2. task'[s] = SetStage(task[s], x) \/ task'[s] = FreeSlot
  BY <1>0 DEF Reply, SetStage
<1>3. LET t == SetStage(task[s], x)
      IN /\ t.kind = task[s].kind /\ t.server = task[s].server /\ t.path = task[s].path
         /\ t.hash = task[s].hash /\ t.stage = x
  BY <1>0, SetStageFields
<1>4. \A u \in Slot : SlotCalm(u)
  BY <1>1, <1>2, <1>3, FreeTyped DEF SlotCalm
<1>5. TasksCalm
  BY <1>4, SlotsCalm
<1> QED
  BY <1>1, <1>5 DEF Arrived

\* The task in slot s goes on to stage x.
LEMMA StageStep ==
  ASSUME TypeInv, NEW s \in Slot, task[s].kind \in {"put", "delete"}, NEW x \in Stage,
         task' = [task EXCEPT ![s].stage = x]
  PROVE  /\ task'[s].kind = task[s].kind /\ task'[s].server = task[s].server
         /\ task'[s].path = task[s].path /\ task'[s].hash = task[s].hash /\ task'[s].stage = x
         /\ \A u \in Slot \ {s} : task'[u] = task[u]
         /\ \A p, c : Carried(p, c)' => Carried(p, c)
         /\ \A e : Expected(e)' => Expected(e)
         /\ \A e, p : Handled(e, p)' => Handled(e, p) \/ (e = task[s].server /\ p = task[s].path)
         /\ \A e, p : Receives(e, p)' => \/ Receives(e, p)
                                         \/ /\ task[s].kind = "put"
                                            /\ e = task[s].server /\ p = task[s].path
         /\ task[s].stage # "published" => \A e, p : Arrived(e, p) => Arrived(e, p)'
<1>0. task \in [Slot -> Job] /\ task[s] \in Task
  BY JobFields DEF TypeInv, Workers
<1>1. task'[s] = SetStage(task[s], x) /\ \A u \in Slot \ {s} : task'[u] = task[u]
  BY <1>0 DEF SetStage
<1>2. LET t == SetStage(task[s], x)
      IN /\ t.kind = task[s].kind /\ t.server = task[s].server /\ t.path = task[s].path
         /\ t.hash = task[s].hash /\ t.stage = x
  BY <1>0, SetStageFields
<1>3. /\ task'[s].kind = task[s].kind /\ task'[s].server = task[s].server
      /\ task'[s].path = task[s].path /\ task'[s].hash = task[s].hash /\ task'[s].stage = x
  BY <1>1, <1>2
<1>4. \A p, c : Carried(p, c)' => Carried(p, c)
  BY <1>1, <1>3 DEF Carried
<1>5. \A e : Expected(e)' => Expected(e)
  BY <1>1, <1>3 DEF Expected
<1>6. \A e, p : Handled(e, p)' => Handled(e, p) \/ (e = task[s].server /\ p = task[s].path)
  BY <1>1, <1>3 DEF Handled
<1>7. \A e, p : Receives(e, p)' => \/ Receives(e, p)
                                   \/ task[s].kind = "put" /\ e = task[s].server /\ p = task[s].path
  BY <1>1, <1>3 DEF Receives
<1>8. task[s].stage # "published" => \A e, p : Arrived(e, p) => Arrived(e, p)'
  BY <1>1 DEF Arrived
<1> QED
  BY <1>1, <1>3, <1>4, <1>5, <1>6, <1>7, <1>8

\* A task that answers and leaves disks and rows as they are, or scans.
LEMMA RefusalSteady ==
  ASSUME TypeInv, NEW s \in Slot, task[s].kind \in {"put", "delete"}, Reply(s, "refused"),
         task[s].stage # "published", UNCHANGED <<disk, agent, approved>>, \A e \in Device : RowsCalm(e)
  PROVE  Steady
<1>1. TasksCalm /\ \A e, p : Arrived(e, p) => Arrived(e, p)'
  BY ReplyCalm
<1>2. \A e \in Device : AgentCalm(e) /\ \A p : Indexing(e, p)' <=> Indexing(e, p)
  BY <1>1, CommandsRest DEF TasksCalm
<1>3. LandedKept
  BY <1>1, <1>2 DEF LandedKept
<1> QED
  BY <1>1, <1>2, <1>3, CalmIsSteady

\* enforce_folder_limit and try_exists: the PUT is let in beside what the index
\* counts, to a free place.
LEMMA CheckPutSteady ==
  ASSUME GInv, NEW s \in Slot, CheckPut(s)
  PROVE  Steady
<1> PICK d, q : d = task[s].server /\ q = task[s].path
  OBVIOUS
<1>0. TypeInv /\ d \in Device /\ q \in Path /\ "checked" \in Stage
  BY JobFields DEF GInv, CheckPut, Stage
<1>1. /\ UNCHANGED <<disk, files, agent, approved>> /\ task[s].kind = "put" /\ task[s].stage = "received"
  BY DEF CheckPut, user
<1>2. \A e \in Device : RowsCalm(e)
  BY <1>1, RowsRest
<1>3. CASE Reply(s, "refused")
  BY <1>0, <1>1, <1>2, <1>3, RefusalSteady
<1>4. CASE ~Reply(s, "refused")
  <2>1. task' = [task EXCEPT ![s].stage = "checked"] /\ FitsLimit(d) /\ disk[d][q] = NoFile
    BY <1>4 DEF CheckPut
  <2>2. /\ \A p, c : Carried(p, c)' => Carried(p, c)
        /\ \A e : Expected(e)' => Expected(e)
        /\ \A e, p : Handled(e, p)' => Handled(e, p) \/ (e = d /\ p = q)
        /\ \A e, p : Receives(e, p)' => Receives(e, p) \/ (e = d /\ p = q)
        /\ \A e, p : Arrived(e, p) => Arrived(e, p)'
    <3>1. /\ \A p, c : Carried(p, c)' => Carried(p, c)
          /\ \A e : Expected(e)' => Expected(e)
          /\ \A e, p : Handled(e, p)' => Handled(e, p) \/ (e = task[s].server /\ p = task[s].path)
          /\ \A e, p : Arrived(e, p) => Arrived(e, p)'
      BY <1>0, <1>1, <2>1, StageStep
    <3>2. \A e, p : Receives(e, p)' => Receives(e, p) \/ (e = task[s].server /\ p = task[s].path)
      <4>1. /\ task'[s].server = task[s].server /\ task'[s].path = task[s].path
            /\ \A u \in Slot \ {s} : task'[u] = task[u]
        BY <1>0, <1>1, <2>1, StageStep
      <4> QED
        BY <4>1 DEF Receives
    <3> QED
      BY <3>1, <3>2
  <2>3. /\ \A e \in Device : AgentCalm(e) /\ \A p : Indexing(e, p)' <=> Indexing(e, p)
        /\ \A e \in Device : Fresh(e)' => Fresh(e)
    BY <1>1, <2>2, CommandsRest
  <2>4. DiskSteps
    BY <1>1 DEF DiskSteps
  <2>5. HandSteps
    BY <2>1, <2>2, <2>3 DEF HandSteps, InHand, AgentCalm
  <2>6. RowSteps
    BY <1>2, <2>3, RowsKnownCalm DEF AgentCalm
  <2>7. NothingNew
    BY <1>1, <2>2, <2>3 DEF NothingNew, Present, AgentCalm
  <2>8. LetIn
    <3>1. Claimed(d)' \subseteq Claimed(d) \cup {q}
      BY <1>0, <1>1, <2>2, <2>3 DEF Claimed, OnDisk, UnderWay, AgentCalm
    <3>2. \A e \in Device \ {d} : Claimed(e)' \subseteq Claimed(e)
      BY <1>1, <2>2, <2>3 DEF Claimed, OnDisk, UnderWay, AgentCalm
    <3>3. Expected(d)
      BY <1>1 DEF Expected
    <3>4. Grants(d)
      BY <1>0, <2>1, <3>1, <3>3 DEF Grants, Fresh
    <3> QED
      BY <3>2, <3>4 DEF LetIn
  <2>9. \A e \in Device : Orphans(e)' \subseteq Orphans(e)
    BY <1>1, <2>2, <2>3, OrphansKept
  <2> QED
    BY <2>3, <2>4, <2>5, <2>6, <2>7, <2>8, <2>9 DEF Steady, Careful, Counted
<1> QED
  BY <1>3, <1>4

\* A task changes the disk where it is at work: it puts there the version that it
\* carries, or frees the place.
LEMMA ServedSteady ==
  ASSUME TypeInv, NEW s \in Slot, NEW x \in {"published", "removed"},
         task' = [task EXCEPT ![s].stage = x], task[s].stage = "checked",
         UNCHANGED <<files, agent, approved>>, NEW v,
         \/ task[s].kind = "put" /\ x = "published" /\ v = task[s].hash
         \/ task[s].kind = "delete" /\ v = NoFile,
         disk' = [disk EXCEPT ![task[s].server][task[s].path] = v]
  PROVE  Steady
<1> PICK d, q : d = task[s].server /\ q = task[s].path
  OBVIOUS
<1>0. /\ d \in Device /\ q \in Path /\ x \in Stage
      /\ disk \in [Device -> [Path -> Content \cup {NoFile}]]
  BY JobFields DEF TypeInv, Surroundings, Stage
<1>1. /\ \A e \in Device, p \in Path : disk'[e][p] = disk[e][p] \/ (e = d /\ p = q)
      /\ disk'[d][q] = v
  BY <1>0
<1>2. \A e \in Device : RowsCalm(e)
  BY RowsRest
<1>3. Handled(d, q) /\ (v # NoFile => Carried(q, v) /\ Receives(d, q))
  BY DEF Handled, Carried, Receives
<1>4. v # NoFile => Arrived(d, q)'
  <2> SUFFICES ASSUME v # NoFile PROVE Arrived(d, q)'
    OBVIOUS
  <2>1. task'[s].kind = "put" /\ task'[s].stage = "published" /\ task'[s].server = d /\ task'[s].path = q
    BY <1>0, StageStep
  <2> QED
    BY <2>1 DEF Arrived
<1>5. /\ \A p, c : Carried(p, c)' => Carried(p, c)
      /\ \A e : Expected(e)' => Expected(e)
      /\ \A e, p : Handled(e, p)' => Handled(e, p)
      /\ \A e, p : Arrived(e, p) => Arrived(e, p)'
  BY <1>0, <1>3, StageStep
<1>6. \A e, p : Receives(e, p)' => Receives(e, p)
  BY <1>0, StageStep DEF Receives
<1>7. /\ \A e \in Device : AgentCalm(e) /\ \A p : Indexing(e, p)' <=> Indexing(e, p)
      /\ \A e \in Device : Fresh(e)' => Fresh(e)
  BY <1>5, CommandsRest
<1>8. DiskSteps
  BY <1>1, <1>3 DEF DiskSteps, InHand
<1>9. HandSteps
  BY <1>5, <1>7 DEF HandSteps, InHand, AgentCalm
<1>10. RowSteps
  BY <1>2, <1>7, RowsKnownCalm DEF AgentCalm
<1>11. NothingNew
  BY <1>1, <1>3, <1>5, <1>7, NoFileAssumption DEF NothingNew, Present, AgentCalm
<1>12. \A e \in Device : Claimed(e)' \subseteq Claimed(e)
  BY <1>1, <1>3, <1>6, <1>7 DEF Claimed, OnDisk, UnderWay, AgentCalm
<1>13. \A e \in Device : Orphans(e)' \subseteq Orphans(e)
  BY <1>1, <1>4, <1>5, <1>7, OrphansKept
<1> QED
  BY <1>7, <1>8, <1>9, <1>10, <1>11, <1>12, <1>13 DEF Steady, Careful, Counted, LetIn

\* A task answers when it has written a row, or deleted one of a path that the
\* user has chosen for.
LEMMA RowSteady ==
  ASSUME TypeInv, NEW s \in Slot, task[s].kind \in {"put", "delete"}, Reply(s, "accepted"),
         UNCHANGED <<disk, agent, approved>>, NEW r,
         files' = [files EXCEPT ![task[s].server] = [files[task[s].server] EXCEPT ![task[s].path] = r]],
         \/ task[s].kind = "put" /\ task[s].stage = "published" /\ r # NoRecord
         \/ task[s].kind = "delete" /\ task[s].stage = "removed" /\ task[s].path \in Chosen
  PROVE  Steady
<1> PICK d, q : d = task[s].server /\ q = task[s].path
  OBVIOUS
<1>0. d \in Device /\ q \in Path /\ files \in [Device -> Manifest]
  BY JobFields DEF TypeInv, Tables
<1>1. /\ \A e \in Device, p \in Path : files'[e][p] = files[e][p] \/ (e = d /\ p = q)
      /\ files'[d][q] = r
  BY <1>0 DEF Manifest
<1>2. Handled(d, q)
  BY DEF Handled
<1>3. /\ TasksCalm
      /\ \A e, p : Arrived(e, p) => Arrived(e, p)' \/ (e = d /\ p = q /\ r # NoRecord)
  BY ReplyCalm
<1>4. /\ \A e \in Device : AgentCalm(e) /\ \A p : Indexing(e, p)' <=> Indexing(e, p)
      /\ \A e \in Device : Fresh(e)' => Fresh(e)
  BY <1>3, CommandsRest DEF TasksCalm
<1>5. DiskSteps /\ HandSteps /\ NothingNew /\ LetIn
  BY <1>3, <1>4, HandsCalm DEF AgentCalm
<1>6. RowSteps
  BY <1>1, <1>2, <1>4, RowsKnown DEF AgentCalm, InHand
<1>7. r # NoRecord \/ q \in Chosen
  OBVIOUS
<1>8. \A e \in Device : Orphans(e)' \subseteq Orphans(e)
  BY <1>1, <1>3, <1>4, <1>7, OrphansKept
<1> QED
  BY <1>4, <1>5, <1>6, <1>8 DEF Steady, Careful, Counted

\* delete_shared_file scans and compares: what it is going to delete is a version
\* that the user has given up there.
LEMMA CheckDeleteSteady ==
  ASSUME GInv, NEW s \in Slot, CheckDelete(s)
  PROVE  Steady
<1> PICK d, q : d = task[s].server /\ q = task[s].path
  OBVIOUS
<1>0. TypeInv /\ d \in Device /\ q \in Path /\ "checked" \in Stage
  BY JobFields DEF GInv, CheckDelete, Stage
<1>1. /\ UNCHANGED <<disk, agent, approved>> /\ files' = Scanned(d)
      /\ task[s].kind = "delete" /\ task[s].stage = "received"
  BY DEF CheckDelete, user
<1>2. /\ \A e \in Device : RowsCalm(e)
      /\ \A p \in Path : disk[d][p] \in Content => files'[d][p].hash = disk[d][p]
  BY <1>0, <1>1, ScanCalm
<1>3. CASE Reply(s, "refused")
  BY <1>0, <1>1, <1>2, <1>3, RefusalSteady
<1>4. CASE ~Reply(s, "refused")
  <2>1. task' = [task EXCEPT ![s].stage = "checked"] /\ files'[d][q] = Available(task[s].hash)
    BY <1>4 DEF CheckDelete
  <2>2. disk[d][q] = NoFile \/ <<d, q, disk[d][q]>> \in approved
    <3> SUFFICES ASSUME disk[d][q] # NoFile PROVE <<d, q, disk[d][q]>> \in approved
      OBVIOUS
    <3>1. disk[d][q] \in Content
      BY <1>0 DEF TypeInv, Surroundings
    <3>2. task[s].hash = disk[d][q]
      BY <1>0, <1>2, <2>1, <3>1 DEF Available
    <3> QED
      BY <1>1, <3>2 DEF GInv, Meant
  <2>3. /\ \A p, c : Carried(p, c)' => Carried(p, c)
        /\ \A e : Expected(e)' => Expected(e)
        /\ \A e, p : Handled(e, p)' => Handled(e, p) \/ (e = d /\ p = q)
        /\ \A e, p : Receives(e, p)' => Receives(e, p)
        /\ \A e, p : Arrived(e, p) => Arrived(e, p)'
    BY <1>0, <1>1, <2>1, StageStep
  <2>4. /\ \A e \in Device : AgentCalm(e) /\ \A p : Indexing(e, p)' <=> Indexing(e, p)
        /\ \A e \in Device : Fresh(e)' => Fresh(e)
    BY <1>1, <2>3, CommandsRest
  <2>5. DiskSteps
    BY <1>1 DEF DiskSteps
  <2>6. HandSteps
    BY <2>2, <2>3, <2>4 DEF HandSteps, InHand, AgentCalm
  <2>7. RowSteps
    BY <1>2, <2>4, RowsKnownCalm DEF AgentCalm
  <2>8. NothingNew
    BY <1>1, <2>3, <2>4 DEF NothingNew, Present, AgentCalm
  <2>9. \A e \in Device : Claimed(e)' \subseteq Claimed(e)
    BY <1>1, <2>3, <2>4 DEF Claimed, OnDisk, UnderWay, AgentCalm
  <2>10. \A e \in Device : Orphans(e)' \subseteq Orphans(e)
    BY <1>1, <1>2, <2>3, <2>4, OrphansKept DEF RowsCalm
  <2> QED
    BY <2>4, <2>5, <2>6, <2>7, <2>8, <2>9, <2>10 DEF Steady, Careful, Counted, LetIn
<1> QED
  BY <1>3, <1>4

\* The steps of a task.
LEMMA ServeSteady ==
  ASSUME GInv, NEW s \in Slot, Serve(s)
  PROVE  Steady
<1>0. TypeInv
  BY DEF GInv
<1>1. CASE CheckPut(s) \/ CheckDelete(s)
  BY <1>1, CheckPutSteady, CheckDeleteSteady
<1>2. CASE PublishPut(s)
  <2>1. /\ task' = [task EXCEPT ![s].stage = "published"] /\ UNCHANGED <<files, agent, approved>>
        /\ task[s].kind = "put" /\ task[s].stage = "checked"
        /\ disk' = [disk EXCEPT ![task[s].server][task[s].path] = task[s].hash]
    BY <1>2 DEF PublishPut, user
  <2> QED
    BY <1>0, <2>1, ServedSteady
<1>3. CASE IndexPut(s)
  <2>1. task[s].hash \in Content /\ task[s].server \in Device /\ task[s].path \in Path
    BY <1>0, <1>3, JobFields DEF IndexPut
  <2>2. Available(task[s].hash) # NoRecord
    BY <2>1, AvailableIsRecord, NoRecordAssumption
  <2>3. /\ Reply(s, "accepted") /\ UNCHANGED <<disk, agent, approved>>
        /\ task[s].kind = "put" /\ task[s].stage = "published"
        /\ files' = [files EXCEPT ![task[s].server] =
                       [files[task[s].server] EXCEPT ![task[s].path] = Available(task[s].hash)]]
    BY <1>0, <1>3, <2>1 DEF IndexPut, upsert_file, user
  <2> QED
    BY <1>0, <2>2, <2>3, RowSteady
<1>4. CASE RemoveDelete(s)
  <2>1. /\ task[s].kind = "delete" /\ task[s].stage = "checked" /\ UNCHANGED <<files, agent, approved>>
        /\ disk' = [disk EXCEPT ![task[s].server][task[s].path] = NoFile]
    BY <1>4 DEF RemoveDelete, user
  <2>2. CASE task' = [task EXCEPT ![s].stage = "removed"]
    BY <1>0, <2>1, <2>2, ServedSteady
  <2>3. CASE ~(task' = [task EXCEPT ![s].stage = "removed"])
    <3>1. Reply(s, "refused") /\ disk[task[s].server][task[s].path] = NoFile
      BY <1>4, <2>3 DEF RemoveDelete
    <3>2. task[s].server \in Device /\ task[s].path \in Path
      BY <1>0, <2>1, JobFields
    <3>3. UNCHANGED disk
      BY <1>0, <2>1, <3>1, <3>2 DEF TypeInv, Surroundings
    <3>4. \A e \in Device : RowsCalm(e)
      BY <2>1, RowsRest
    <3> QED
      BY <1>0, <2>1, <3>1, <3>3, <3>4, RefusalSteady
  <2> QED
    BY <2>2, <2>3
<1>5. CASE ForgetDelete(s)
  <2>1. task[s].server \in Device /\ task[s].path \in Path
    BY <1>0, <1>5, JobFields DEF ForgetDelete
  <2>2. /\ Reply(s, "accepted") /\ UNCHANGED <<disk, agent, approved>>
        /\ task[s].kind = "delete" /\ task[s].stage = "removed"
        /\ files' = [files EXCEPT ![task[s].server] =
                       [files[task[s].server] EXCEPT ![task[s].path] = NoRecord]]
    BY <1>0, <1>5, <2>1 DEF ForgetDelete, forget_file, user
  <2>3. task[s].path \in Chosen
    <3>1. <<task[s].server, task[s].path, task[s].hash>> \in approved
      BY <2>2 DEF GInv, Meant
    <3>2. <<task[s].server, task[s].path, task[s].hash>>[2] \in {a[2] : a \in approved}
      BY <3>1
    <3> QED
      BY <3>2 DEF Chosen
  <2> QED
    BY <1>0, <2>2, <2>3, RowSteady
<1> QED
  BY <1>1, <1>2, <1>3, <1>4, <1>5 DEF Serve

-----------------------------------------------------------------------------
(* Crashes, the user, and every step *)

\* A crash cuts off transfers between the rename and upsert_file, at most one per
\* task.
Cut ==
  /\ Careful /\ LetIn
  /\ \A e \in Device :
       /\ Fresh(e)' => Fresh(e)
       /\ \E lost : /\ Orphans(e)' \subseteq Orphans(e) \cup lost
                    /\ IsFiniteSet(lost) /\ Cardinality(lost) <= Cardinality(Slot)
  /\ faults' = faults + 1

\* No run and no task is under way.
Still ==
  /\ \A e \in Device : agent[e].pc \in {"idle", "LocalOnly", "PropagateToPeers"}
  /\ \A s \in Slot : task[s] = FreeSlot

\* The user who waits, and a server that can take a request.
WaitingUser == ~BusyEdits /\ IsFiniteSet(Slot) /\ Slot # {}

\* The commands and tasks rest.
LEMMA RestSteady ==
  ASSUME TypeInv, UNCHANGED <<disk, files, agent, task>>, approved \subseteq approved'
  PROVE  Steady
<1>1. \A e \in Device : AgentCalm(e) /\ RowsCalm(e) /\ \A p : Indexing(e, p)' <=> Indexing(e, p)
  BY AgentRests, RowsRest
<1>2. TasksCalm /\ \A e, p : Arrived(e, p) => Arrived(e, p)'
  BY SlotRests
<1>3. LandedKept
  BY <1>1, <1>2 DEF LandedKept
<1> QED
  BY <1>1, <1>2, <1>3, CalmIsSteady

\* The client stops waiting.
LEMMA AbandonCalm ==
  ASSUME TypeInv, NEW d, Abandon(d)
  PROVE  TasksCalm /\ \A e, p : Arrived(e, p) => Arrived(e, p)'
<1>1. \/ UNCHANGED task
      \/ \E s : task' = [task EXCEPT ![s] = FreeSlot] /\ task[s].stage \in {"accepted", "refused"}
  BY DEF Abandon
<1> QED
  BY <1>1, SlotRests

\* A transfer times out.
LEMMA TimeoutSteady ==
  ASSUME GInv, NEW d \in Client, NEW o, TransferTimesOut(d, o)
  PROVE  Steady
<1>0. TypeInv
  BY DEF GInv
<1>1. /\ Fail(d, o) /\ Abandon(d) /\ UNCHANGED <<disk, files, plans, approved>>
      /\ agent[d].pc \in {"fetch", "delete", "delete_wait", "put", "put_wait"}
  BY DEF TransferTimesOut, user
<1>2. \A e \in Device : RowsCalm(e)
  BY <1>1, RowsRest
<1>3. TasksCalm /\ \A e, p : Arrived(e, p) => Arrived(e, p)'
  BY <1>0, <1>1, AbandonCalm
<1> QED
  BY <1>1, <1>2, <1>3, PcKinds, OutcomeSteady

\* A command that dies leaves at most the file that it was going to index.
LEMMA AgentStopsCut ==
  ASSUME GInv, WaitingUser, NEW d \in Client, AgentStops(d)
  PROVE  Cut
<1>0. d \in Device /\ TypeInv /\ agent \in [Device -> Command]
  BY TwoDevices DEF GInv, TypeInv, Workers
<1>1. /\ agent' = [agent EXCEPT ![d] = Idle] /\ Abandon(d) /\ UNCHANGED <<disk, files, approved>>
      /\ faults' = faults + 1
  BY DEF AgentStops, user
<1>2. agent'[d].pc = "idle" /\ \A e \in Device \ {d} : agent'[e] = agent[e]
  BY <1>0, <1>1, IdleTyped
<1>3. /\ \A e \in Device : AgentCalm(e) /\ RowsCalm(e)
      /\ \A e \in Device \ {d} : \A p : Indexing(e, p)' <=> Indexing(e, p)
  BY <1>1, <1>2, PcKinds, AgentQuiet, AgentRests, RowsRest
<1>4. TasksCalm /\ \A e, p : Arrived(e, p) => Arrived(e, p)'
  BY <1>0, <1>1, AbandonCalm
<1>5. Careful /\ LetIn /\ \A e \in Device : Fresh(e)' => Fresh(e)
  BY <1>0, <1>1, <1>3, <1>4, CalmIsCareful
<1>6. /\ IsFiniteSet({}) /\ Cardinality({}) = 0
      /\ \A x : IsFiniteSet({x}) /\ Cardinality({x}) = 1
      /\ Cardinality(Slot) \in Nat /\ Cardinality(Slot) # 0
  BY FS_EmptySet, FS_Singleton, FS_CardinalityType DEF WaitingUser
<1>7. \A e \in Device \ {d} : Orphans(e)' \subseteq Orphans(e) \cup {}
  BY <1>1, <1>3, <1>4, OrphansKept
<1>8. PICK x : \A p : Indexing(d, p) => p = x
  BY <1>0, AtOne DEF Indexing, At
<1>9. Orphans(d)' \subseteq Orphans(d) \cup {x}
  BY <1>1, <1>4, <1>8, ChosenKept DEF Orphans
<1>10. \A e \in Device : \E lost : /\ Orphans(e)' \subseteq Orphans(e) \cup lost
                                   /\ IsFiniteSet(lost) /\ Cardinality(lost) <= Cardinality(Slot)
  <2>1. 0 <= Cardinality(Slot) /\ 1 <= Cardinality(Slot)
    BY <1>6
  <2> QED
    BY <1>6, <1>7, <1>9, <2>1
<1> QED
  BY <1>1, <1>5, <1>10 DEF Cut

\* A server that dies leaves at most one such file per task.
LEMMA ServerStopsCut ==
  ASSUME GInv, WaitingUser, NEW d \in Device, ServerStops(d)
  PROVE  Cut
<1>0. TypeInv /\ task \in [Slot -> Job]
  BY DEF GInv, TypeInv, Workers
<1>1. UNCHANGED <<disk, files, agent, approved>> /\ faults' = faults + 1
  BY DEF ServerStops, user
<1>2. ASSUME NEW s \in Slot PROVE SlotCalm(s)
  <2>1. task[s] \in Task /\ "refused" \in Stage
    BY <1>0 DEF Job, Stage
  <2>2. LET t == SetStage(task[s], "refused")
        IN /\ t.kind = task[s].kind /\ t.server = task[s].server /\ t.path = task[s].path
           /\ t.hash = task[s].hash /\ t.stage = "refused"
    BY <2>1, SetStageFields
  <2>3. task'[s] = task[s] \/ task'[s] = SetStage(task[s], "refused") \/ task'[s] = FreeSlot
    BY <1>0, ServerStopsStep
  <2> QED
    BY <2>2, <2>3, FreeTyped DEF SlotCalm
<1>3. TasksCalm
  BY <1>2, SlotsCalm
<1>4. \A e \in Device : AgentCalm(e) /\ RowsCalm(e) /\ \A p : Indexing(e, p)' <=> Indexing(e, p)
  BY <1>1, AgentRests, RowsRest
<1>5. Careful /\ LetIn /\ \A e \in Device : Fresh(e)' => Fresh(e)
  BY <1>0, <1>1, <1>3, <1>4, CalmIsCareful
<1>6. PICK lost : lost = {task[s].path : s \in Slot}
  OBVIOUS
<1>7. IsFiniteSet(lost) /\ Cardinality(lost) <= Cardinality(Slot)
  <2> DEFINE path == [s \in Slot |-> task[s].path]
  <2>1. path \in Surjection(Slot, lost)
    BY <1>6 DEF Surjection
  <2> HIDE DEF path
  <2> QED
    BY <2>1, FS_Surjection DEF WaitingUser
<1>8. \A e, p : Arrived(e, p) => p \in lost
  BY <1>6 DEF Arrived
<1>9. \A e \in Device : Orphans(e)' \subseteq Orphans(e) \cup lost
  BY <1>1, <1>4, <1>8, ChosenKept DEF Orphans
<1> QED
  BY <1>1, <1>5, <1>7, <1>9 DEF Cut

\* The user who waits edits while nothing is under way.
LEMMA EditStill ==
  ASSUME GInv, WaitingUser,
         \/ \E d \in Device, p \in Path, v \in Content \cup {NoFile} : Edit(d, p, v)
         \/ \E d \in Client, p \in Path, scope \in {"LocalOnly", "PropagateToPeers"} : DeleteFile(d, p, scope)
  PROVE  Still' /\ edits' # edits
<1>0. TypeInv /\ edits \in Nat
  BY BoundAssumption DEF GInv, TypeInv, Surroundings
<1>1. ~Busy /\ UNCHANGED task /\ edits' = edits + 1
  BY DEF Edit, DeleteFile, WaitingUser
<1>2. /\ \A e \in Device : agent[e].pc = "idle"
      /\ \A s \in Slot : task'[s] = FreeSlot
  BY <1>1, IdleTyped DEF Busy, GInv
<1>3. CASE UNCHANGED agent
  BY <1>0, <1>1, <1>2, <1>3 DEF Still
<1>4. ASSUME NEW d \in Client, NEW p \in Path, NEW scope \in {"LocalOnly", "PropagateToPeers"},
             DeleteFile(d, p, scope)
      PROVE  \A e \in Device : agent'[e].pc \in {"idle", "LocalOnly", "PropagateToPeers"}
  <2>1. d \in Device /\ agent[d] \in Process /\ agent \in [Device -> Command] /\ scope \in Pc
    BY <1>0, TwoDevices, SlotTyped DEF TypeInv, Workers, Pc
  <2>2. PICK c \in Content : agent' = [agent EXCEPT ![d] = SetErase(agent[d], scope, p, c)]
    BY <1>0, <1>4, DeleteFileType
  <2>3. LET r == SetErase(agent[d], scope, p, c) IN r.pc = scope
    BY <2>1, SetEraseFields
  <2>4. agent'[d] = SetErase(agent[d], scope, p, c) /\ \A e \in Device \ {d} : agent'[e] = agent[e]
    BY <2>1, <2>2
  <2> QED
    BY <1>2, <2>3, <2>4
<1> QED
  BY <1>0, <1>1, <1>2, <1>3, <1>4 DEF Still, Edit

\* Every step.
LEMMA NextSteps ==
  ASSUME GInv, WaitingUser, [Next]_vars
  PROVE  \/ Steady /\ faults' \in {faults, faults + 1}
         \/ Cut
         \/ Still' /\ edits' # edits
<1>0. TypeInv /\ TypeInv'
  BY NextType DEF GInv
<1>1. ASSUME NEW d \in Client, Cycle(d) PROVE Steady /\ UNCHANGED faults
  <2>1. CASE Transfer(d)
    <3>1. PICK o : \/ StartNext(d, o)
                   \/ CheckDownload(d, o) \/ Fetch(d, o) \/ RemoveReplaced(d, o)
                   \/ PublishDownload(d, o) \/ IndexDownload(d, o)
                   \/ CheckUpload(d, o) \/ Answer(d, o)
                   \/ \E s \in Slot : SendDelete(d, o, s) \/ SendPut(d, o, s)
      BY <2>1 DEF Transfer
    <3>2. UNCHANGED faults
      BY <3>1 DEF StartNext, CheckDownload, Fetch, RemoveReplaced, PublishDownload, IndexDownload,
         CheckUpload, Answer, SendDelete, SendPut
    <3> QED
      BY <3>1, <3>2, StartSteady, CheckDownloadSteady, FetchSteady, PublishSteady, IndexDownloadSteady,
         AnswerSteady, DeleteSteady, SendPutSteady
  <2>2. CASE BeginPlan(d) \/ MakePlan(d) \/ EndRun(d) \/ EndDeleteLocal(d) \/ EndDeleteBoth(d)
    BY <2>2, PlanSteady, EndDeleteBothSteady DEF BeginPlan, MakePlan, EndRun, EndDeleteLocal, EndDeleteBoth
  <2>3. CASE BeginQueue(d) \/ ListBatch(d) \/ (\E s \in Slot : SendErase(d, s))
    BY <1>0, <2>3, QueueStartsSteady, ListBatchSteady, DeleteSteady DEF BeginQueue, ListBatch, SendErase
  <2> QED
    BY <1>1, <2>1, <2>2, <2>3 DEF Cycle
<1>2. ASSUME NEW s \in Slot, Serve(s) PROVE Steady /\ UNCHANGED faults
  BY <1>2, ServeSteady DEF Serve, CheckPut, PublishPut, IndexPut, CheckDelete, RemoveDelete, ForgetDelete
<1>3. CASE User
  <2>1. ASSUME NEW d \in Client, NEW o, NEW k, Retry(d) \/ Resolve(d, o, k) PROVE Steady /\ UNCHANGED faults
    <3>1. UNCHANGED <<disk, files, agent, task, faults>> /\ approved \subseteq approved'
      BY <2>1 DEF Retry, Resolve, user
    <3> QED
      BY <1>0, <3>1, RestSteady
  <2>2. ASSUME NEW d \in Client, ExecuteQueue(d) PROVE Steady /\ UNCHANGED faults
    BY <2>2, QueueStartsSteady DEF ExecuteQueue
  <2> QED
    BY <1>3, <2>1, <2>2, EditStill DEF User
<1>4. CASE Fault
  <2>1. ASSUME NEW d \in Client, NEW o, TransferTimesOut(d, o) PROVE Steady /\ faults' = faults + 1
    BY <2>1, TimeoutSteady DEF TransferTimesOut
  <2> QED
    BY <1>4, <2>1, AgentStopsCut, ServerStopsCut DEF Fault
<1>5. CASE UNCHANGED vars
  <2>1. UNCHANGED <<disk, files, agent, task, approved, faults>>
    BY <1>5 DEF vars, user
  <2> QED
    BY <1>0, <2>1, RestSteady
<1> QED
  BY <1>1, <1>2, <1>3, <1>4, <1>5 DEF Next

-----------------------------------------------------------------------------
(* Every version keeps a copy, and every file is counted *)

\* A copy that nothing is at work on stays one, unless the user gives it up.
LEMMA AnchorStays ==
  ASSUME Careful, approved \subseteq approved', NEW d \in Device, NEW p \in Path, NEW c \in Content,
         Anchor(d, p, c), Precious(p, c)
  PROVE  Anchor(d, p, c)'
<1>1. disk'[d][p] = c /\ disk[d][p] = c /\ ~InHand(d, p)
  BY DEF Careful, DiskSteps, Anchor
<1>2. ~InHand(d, p)'
  <2>1. /\ disk[d][p] # NoFile /\ <<d, p, disk[d][p]>> \notin approved
        /\ IsRunning(d) => RowMatches(d, p)
    BY <1>1, NoFileAssumption DEF Precious, Anchor
  <2> QED
    BY <1>1, <2>1 DEF Careful, HandSteps
<1>3. IsRunning(d)' => RowMatches(d, p)'
  BY <1>1 DEF Careful, RowSteps, Anchor, RowMatches
<1> QED
  BY <1>1, <1>2, <1>3 DEF Anchor

\* No step but an edit takes the last such copy.
LEMMA CarefulAnchored ==
  ASSUME Anchored, Careful, approved \subseteq approved'
  PROVE  Anchored'
<1> SUFFICES ASSUME NEW p \in Path, NEW c \in Content, Present(p, c)', Precious(p, c)'
             PROVE  \E d \in Device : Anchor(d, p, c)'
  BY DEF Anchored
<1>1. Present(p, c) /\ Precious(p, c)
  BY DEF Careful, NothingNew, Precious
<1>2. PICK d \in Device : Anchor(d, p, c)
  BY <1>1 DEF Anchored
<1>3. Anchor(d, p, c)'
  BY <1>1, <1>2, AnchorStays
<1> QED
  BY <1>3

\* While nothing is under way every file is such a copy, and nobody relies on an
\* index.
LEMMA StillAnchored == Still => Anchored /\ \A e \in Device : ~Fresh(e)
<1> SUFFICES ASSUME Still PROVE Anchored /\ \A e \in Device : ~Fresh(e)
  OBVIOUS
<1>1. \A e \in Device : ~IsRunning(e) /\ agent[e].pc \notin Batching /\ agent[e].pc \notin Acting
  BY PcKinds DEF Still, IsRunning
<1>2. \A e \in Device : /\ \A p : ~Downloads(e, p)
                        /\ \A p, c : ~Fetched(e, p, c)
  BY <1>1 DEF Downloads, Fetched, Acting
<1>3. /\ \A e, p : ~Handled(e, p)
      /\ \A p, c : ~Carried(p, c)
      /\ \A e : ~Expected(e)
  BY FreeTyped DEF Still, Handled, Carried, Expected
<1>4. \A e \in Device : ~Fresh(e)
  BY <1>1, <1>3, PeerIs DEF Fresh
<1>5. Anchored
  BY <1>1, <1>2, <1>3 DEF Anchored, Present, Anchor, InHand
<1> QED
  BY <1>4, <1>5

\* The bound on the files that go uncounted grows with the crashes.
LEMMA OrphansBound ==
  ASSUME TypeInv, WaitingUser, NEW e \in Device
  PROVE  /\ IsFiniteSet(Orphans(e)) /\ Cardinality(Orphans(e)) \in Nat
         /\ Cardinality(Slot) \in Nat /\ Cardinality(Slot) * faults \in Nat
<1>1. faults \in Nat
  BY BoundAssumption DEF TypeInv, Surroundings
<1>2. Orphans(e) \subseteq Path
  BY DEF Orphans
<1>3. IsFiniteSet(Orphans(e)) /\ Cardinality(Orphans(e)) \in Nat
  BY <1>2, FolderAssumption, FS_Subset, FS_CardinalityType
<1>4. Cardinality(Slot) \in Nat
  BY FS_CardinalityType DEF WaitingUser
<1>5. \A m, n \in Nat : m * n \in Nat
  OBVIOUS
<1> QED
  BY <1>1, <1>3, <1>4, <1>5

\* Two finite sets together.
LEMMA UnionSize ==
  ASSUME NEW S, NEW T, NEW U, IsFiniteSet(S), IsFiniteSet(T), U \subseteq S \cup T
  PROVE  /\ IsFiniteSet(U) /\ Cardinality(U) \in Nat
         /\ Cardinality(U) <= Cardinality(S) + Cardinality(T)
<1>1. /\ IsFiniteSet(S \cup T)
      /\ Cardinality(S \cup T) = Cardinality(S) + Cardinality(T) - Cardinality(S \cap T)
  BY FS_Union
<1>2. IsFiniteSet(S \cap T)
  BY FS_Intersection
<1>3. Cardinality(S) \in Nat /\ Cardinality(T) \in Nat /\ Cardinality(S \cap T) \in Nat
  BY <1>2, FS_CardinalityType
<1>4. IsFiniteSet(U) /\ Cardinality(U) <= Cardinality(S \cup T)
  BY <1>1, FS_Subset
<1>5. Cardinality(U) \in Nat /\ Cardinality(S \cup T) \in Nat
  BY <1>1, <1>4, FS_CardinalityType
<1> QED
  BY <1>1, <1>3, <1>4, <1>5

\* A product that grows by a factor.
LEMMA GrowsBy ==
  ASSUME NEW n \in Nat, NEW f \in Nat
  PROVE  n * (f + 1) = n * f + n
  OBVIOUS

\* A step without a crash.
LEMMA SteadyCovered ==
  ASSUME TypeInv, WaitingUser, Covered, Counted, faults' \in {faults, faults + 1}
  PROVE  Covered'
<1> SUFFICES ASSUME NEW e \in Device, Fresh(e)'
             PROVE  Cardinality(Orphans(e)') <= Cardinality(Slot) * faults'
  BY DEF Covered
<1>0. /\ IsFiniteSet(Orphans(e)) /\ Cardinality(Orphans(e)) \in Nat /\ faults \in Nat
      /\ Cardinality(Slot) \in Nat /\ Cardinality(Slot) * faults \in Nat
  BY OrphansBound, BoundAssumption DEF TypeInv, Surroundings
<1>1. Cardinality(Slot) * faults <= Cardinality(Slot) * faults' /\ Cardinality(Slot) * faults' \in Nat
  <2>1. CASE faults' = faults
    BY <1>0, <2>1
  <2>2. CASE faults' = faults + 1
    <3>1. Cardinality(Slot) * faults' = Cardinality(Slot) * faults + Cardinality(Slot)
      BY <1>0, <2>2, GrowsBy
    <3> QED
      BY <1>0, <3>1
  <2> QED
    BY <2>1, <2>2
<1>2. CASE Orphans(e)' = {}
  BY <1>1, <1>2, FS_EmptySet
<1>3. CASE Fresh(e)
  <2>1. Orphans(e)' \subseteq Orphans(e)
    BY DEF Counted
  <2>2. Cardinality(Orphans(e)') <= Cardinality(Orphans(e)) /\ Cardinality(Orphans(e)') \in Nat
    BY <1>0, <2>1, FS_Subset, FS_CardinalityType
  <2>3. Cardinality(Orphans(e)) <= Cardinality(Slot) * faults
    BY <1>3 DEF Covered
  <2> QED
    BY <1>0, <1>1, <2>2, <2>3
<1> QED
  BY <1>2, <1>3 DEF Counted

\* A crash.
LEMMA CutCovered ==
  ASSUME TypeInv, WaitingUser, Covered, Cut
  PROVE  Covered'
<1> SUFFICES ASSUME NEW e \in Device, Fresh(e)'
             PROVE  Cardinality(Orphans(e)') <= Cardinality(Slot) * faults'
  BY DEF Covered
<1>0. /\ IsFiniteSet(Orphans(e)) /\ Cardinality(Orphans(e)) \in Nat /\ faults \in Nat
      /\ Cardinality(Slot) \in Nat /\ Cardinality(Slot) * faults \in Nat
  BY OrphansBound, BoundAssumption DEF TypeInv, Surroundings
<1>1. Cardinality(Slot) * faults' = Cardinality(Slot) * faults + Cardinality(Slot)
  BY <1>0, GrowsBy DEF Cut
<1>2. PICK lost : /\ Orphans(e)' \subseteq Orphans(e) \cup lost
                  /\ IsFiniteSet(lost) /\ Cardinality(lost) <= Cardinality(Slot)
  BY DEF Cut
<1>3. Cardinality(lost) \in Nat
  BY <1>2, FS_CardinalityType
<1>4. Cardinality(Orphans(e)) <= Cardinality(Slot) * faults
  BY DEF Cut, Covered
<1>5. Cardinality(Orphans(e)') <= Cardinality(Orphans(e)) + Cardinality(lost) /\ Cardinality(Orphans(e)') \in Nat
  BY <1>0, <1>2, <1>3, UnionSize
<1> QED
  BY <1>0, <1>1, <1>2, <1>3, <1>4, <1>5

\* Choices are only added.
LEMMA ApprovedGrows ==
  ASSUME [Next]_vars
  PROVE  approved \subseteq approved' /\ UNCHANGED size_limit
<1>1. ASSUME NEW d, Cycle(d) PROVE UNCHANGED <<approved, size_limit>>
  BY <1>1 DEF Cycle, Transfer, BeginPlan, MakePlan, BeginQueue, ListBatch, EndRun, StartNext, CheckDownload,
     Fetch, RemoveReplaced, PublishDownload, IndexDownload, CheckUpload, SendDelete, SendPut, Answer,
     EndDeleteLocal, SendErase, EndDeleteBoth, user
<1>2. ASSUME NEW s, Serve(s) PROVE UNCHANGED <<approved, size_limit>>
  BY <1>2 DEF Serve, CheckPut, PublishPut, IndexPut, CheckDelete, RemoveDelete, ForgetDelete, user
<1>3. CASE User
  BY <1>3 DEF User, Edit, Retry, ExecuteQueue, Resolve, DeleteFile, user
<1>4. CASE Fault
  BY <1>4 DEF Fault, AgentStops, TransferTimesOut, ServerStops, user
<1>5. CASE UNCHANGED vars
  BY <1>5 DEF vars, user
<1> QED
  BY <1>1, <1>2, <1>3, <1>4, <1>5 DEF Next

\* The invariant of any number of agents and tasks.
WInv == GInv /\ Anchored /\ Covered

\* Every step keeps it.
LEMMA NextWaiting ==
  ASSUME WaitingUser, WInv, [Next]_vars
  PROVE  WInv'
<1>0. TypeInv /\ GInv' /\ approved \subseteq approved'
  BY NextAgreed, ApprovedGrows DEF WInv, GInv
<1>1. CASE Steady /\ faults' \in {faults, faults + 1}
  BY <1>0, <1>1, CarefulAnchored, SteadyCovered DEF WInv, Steady
<1>2. CASE Cut
  BY <1>0, <1>2, CarefulAnchored, CutCovered DEF WInv, Cut
<1>3. CASE Still'
  <2>1. (Still => Anchored /\ \A e \in Device : ~Fresh(e))'
    BY StillAnchored, PTL
  <2> QED
    BY <1>0, <1>3, <2>1 DEF WInv, Covered
<1> QED
  BY <1>1, <1>2, <1>3, NextSteps DEF WInv

\* It holds before the first command.
LEMMA InitWaiting == Init => WInv
<1> SUFFICES ASSUME Init PROVE WInv
  OBVIOUS
<1>1. Still
  BY IdleTyped DEF Init, Still
<1> QED
  BY <1>1, InitAgreed, StillAnchored DEF WInv, Covered

\* A version disappears only when a copy of it stays on the other device.
LEMMA NextKeepsCopy ==
  ASSUME WaitingUser, WInv, [Next]_vars, NEW d \in Device, NEW p \in Path,
         disk[d][p] # NoFile, disk'[d][p] # disk[d][p], edits' = edits
  PROVE  \/ \E e \in Device : <<e, p, disk[d][p]>> \in approved
         \/ disk[Peer(d)][p] = disk[d][p]
<1> SUFFICES ASSUME \A e \in Device : <<e, p, disk[d][p]>> \notin approved
             PROVE  disk[Peer(d)][p] = disk[d][p]
  OBVIOUS
<1>1. PICK c \in Content : c = disk[d][p]
  BY DEF WInv, GInv, TypeInv, Surroundings
<1>2. Present(p, c) /\ Precious(p, c)
  BY <1>1 DEF Present, Precious
<1>3. PICK e \in Device : Anchor(e, p, c)
  BY <1>2 DEF WInv, Anchored
<1>4. DiskSteps
  BY NextSteps DEF WInv, Steady, Cut, Careful
<1>5. disk'[e][p] = disk[e][p] /\ disk[e][p] = c
  BY <1>3, <1>4 DEF DiskSteps, Anchor
<1>6. e = Peer(d)
  BY <1>5, PeerPeer
<1> QED
  BY <1>1, <1>5, <1>6

\* A transfer that is let in has room beside what is not uncounted or under way.
LEMMA NextFits ==
  ASSUME WaitingUser, WInv, [Next]_vars, NEW d \in Device, edits' = edits,
         Claimed(d)' \ Claimed(d) # {}
  PROVE  Cardinality(Claimed(d)' \ Chosen)
           <= size_limit[d] + Cardinality(UnderWay(d)) + Cardinality(Slot) * faults
<1>0. TypeInv /\ size_limit[d] \in Nat
  BY LimitsAssumption DEF WInv, GInv, TypeInv, Surroundings
<1>1. LetIn
  BY NextSteps DEF WInv, Steady, Cut
<1>2. Fresh(d) /\ FitsLimit(d)
  BY <1>1 DEF LetIn, Grants
<1>3. PICK q \in Path : Claimed(d)' \subseteq Claimed(d) \cup {q}
  BY <1>1 DEF LetIn, Grants
<1> DEFINE indexed == {p \in Path : files[d][p] # NoRecord}
           rest == UnderWay(d) \cup Orphans(d)
           new == Claimed(d)' \ Chosen
<1>4. IsFiniteSet(indexed) /\ Cardinality(indexed) \in Nat /\ Cardinality(indexed) + 1 <= size_limit[d]
  <2>1. indexed \subseteq Path
    OBVIOUS
  <2> QED
    BY <1>2, <2>1, FolderAssumption, FS_Subset, FS_CardinalityType DEF FitsLimit, indexed_bytes
<1>5. new \subseteq (indexed \cup {q}) \cup rest
  <2> SUFFICES ASSUME NEW p \in Claimed(d), p \notin Chosen PROVE p \in indexed \cup rest
    BY <1>3
  <2>1. p \in Path /\ (p \in UnderWay(d) \/ disk[d][p] # NoFile)
    BY DEF Claimed, OnDisk, UnderWay
  <2>2. Indexing(d, p) \/ Arrived(d, p) => p \in UnderWay(d)
    BY <2>1 DEF Indexing, Arrived, UnderWay, Downloads, Receives, At
  <2> QED
    BY <2>1, <2>2 DEF Orphans
<1>6. IsFiniteSet(UnderWay(d)) /\ Cardinality(UnderWay(d)) \in Nat
  <2>1. UnderWay(d) \subseteq Path
    BY DEF UnderWay
  <2> QED
    BY <2>1, FolderAssumption, FS_Subset, FS_CardinalityType
<1>7. /\ IsFiniteSet(Orphans(d)) /\ Cardinality(Orphans(d)) \in Nat
      /\ Cardinality(Slot) * faults \in Nat /\ Cardinality(Orphans(d)) <= Cardinality(Slot) * faults
  BY <1>0, <1>2, OrphansBound DEF WInv, Covered
<1> HIDE DEF indexed
<1>8. /\ IsFiniteSet(rest) /\ Cardinality(rest) \in Nat
      /\ Cardinality(rest) <= Cardinality(UnderWay(d)) + Cardinality(Orphans(d))
  BY <1>6, <1>7, UnionSize
<1> HIDE DEF rest
<1>9. /\ IsFiniteSet(indexed \cup {q}) /\ Cardinality(indexed \cup {q}) \in Nat
      /\ Cardinality(indexed \cup {q}) <= Cardinality(indexed) + 1
  <2>1. IsFiniteSet({q}) /\ Cardinality({q}) = 1
    BY FS_Singleton
  <2> QED
    BY <1>4, <2>1, UnionSize
<1>10. Cardinality(new) \in Nat /\ Cardinality(new) <= Cardinality(indexed \cup {q}) + Cardinality(rest)
  BY <1>5, <1>8, <1>9, UnionSize
<1> HIDE DEF new
<1>11. Cardinality(new) <= size_limit[d] + Cardinality(UnderWay(d)) + Cardinality(Slot) * faults
  BY <1>0, <1>4, <1>6, <1>7, <1>8, <1>9, <1>10
<1> QED
  BY <1>11 DEF new

\* With any number of agents and server tasks, and whatever the user edits
\* meanwhile: a row, a batch or a request that replaces or deletes a version names
\* one that the user has given up on the device it is deleted from.
THEOREM ConsentBehindRequests == Spec => []GInv
<1>1. Init => GInv
  BY InitAgreed
<1>2. GInv /\ [Next]_vars => GInv'
  BY NextAgreed
<1> QED
  BY <1>1, <1>2, PTL DEF Spec

\* Whatever agents and tasks overlap, every version that is left and not given up
\* has a copy that nothing is about to change, and every file of a folder that a
\* run or a PUT relies on is counted but for those that crashes cut off.
THEOREM WaitingInvariant == WaitingUser => (Spec => []WInv)
<1> SUFFICES ASSUME WaitingUser PROVE Spec => []WInv
  OBVIOUS
<1>1. Init => WInv
  BY InitWaiting
<1>2. WInv /\ [Next]_vars => WInv'
  BY NextWaiting
<1> QED
  BY <1>1, <1>2, PTL DEF Spec

\* No download, DELETE or PUT, however late, destroys the last copy of a version
\* that the user has given up nowhere.
THEOREM LastCopySurvives == WaitingUser => (Spec => LastCopyKept)
<1> SUFFICES ASSUME WaitingUser PROVE Spec => LastCopyKept
  OBVIOUS
<1>1. WInv /\ [Next]_vars =>
        [\A d \in Device, p \in Path :
           disk[d][p] # NoFile /\ disk'[d][p] # disk[d][p] /\ edits' = edits
             => \/ \E e \in Device : <<e, p, disk[d][p]>> \in approved
                \/ disk[Peer(d)][p] = disk[d][p]]_vars
  BY NextKeepsCopy
<1> QED
  BY <1>1, WaitingInvariant, PTL DEF Spec, LastCopyKept

\* The limit that download_operation and write_uploaded_file enforce holds up to
\* the transfers under way and the files that crashes cut off.
THEOREM TransfersRespectLimit == WaitingUser => (Spec => LimitRespected)
<1> SUFFICES ASSUME WaitingUser PROVE Spec => LimitRespected
  OBVIOUS
<1>1. WInv /\ [Next]_vars =>
        [\A d \in Device :
           edits' = edits /\ Claimed(d)' \ Claimed(d) # {} =>
             Cardinality(Claimed(d)' \ Chosen)
               <= size_limit[d] + Cardinality(UnderWay(d)) + Cardinality(Slot) * faults]_vars
  BY NextFits
<1> QED
  BY <1>1, WaitingInvariant, PTL DEF Spec, LimitRespected
=============================================================================
