-------------------------- MODULE SyncQueueProofs --------------------------
(***************************************************************************)
(* Proofs about the transfer queue, for any number of agents, resolvers,   *)
(* peers and paths and without any lock between them.                      *)
(***************************************************************************)
EXTENDS SyncQueue, PlanningProofs, FiniteSetTheorems

\* Ids are fresh and unique: a row's id is the number of its plan and its path.
IdsUnique ==
  /\ \A o \in ops : o.id[1] <= plans /\ o.id[2] = o.path
  /\ \A o, q \in ops : o.id = q.id => o = q

\* What an agent listed may be gone by now, but it never becomes a blocked row
\* again and its id is not reused.
ListedAreTransfers ==
  \A a \in Agent : \A id \in downloads[a] \cup uploads[a] :
    /\ id[1] <= plans
    /\ \A o \in ops : o.id = id => o.kind \in TransferKind

\* All blocked rows of a peer come from one plan.
BlockedFromOnePlan ==
  \A o, q \in ops :
    /\ o.status = "blocked" /\ q.status = "blocked"
    /\ o.remote_device_id = q.remote_device_id
    => o.id[1] = q.id[1]

\* The rows of the last plan of a peer are there and belong to that peer.
PlannedOfPeer ==
  \A r \in Device : \A id \in planned[r] :
    \E o \in ops : o.id = id /\ o.remote_device_id = r

TableInv == /\ IdsUnique
            /\ ListedAreTransfers
            /\ KindMatchesStatus
            /\ BlockedFromOnePlan
            /\ PlannedOfPeer
            /\ ReplacementsAreUserChosen

IInv == TypeOK /\ TableInv

-----------------------------------------------------------------------------
(* The table after an UPDATE *)

\* An UPDATE is a function of the rows.  One that keeps the columns that
\* identify a row, makes no row blocked, keeps transfers transfers and lets a
\* replacement arise by the user's choice only, preserves what the table
\* promises.
LEMMA UpdatePreserves ==
  ASSUME IInv,
         NEW f \in [ops -> SyncOperationRecord],
         ops' = {f[o] : o \in ops},
         plans' = plans, planned' = planned,
         \A a \in Agent : (downloads[a] \cup uploads[a])' \subseteq downloads[a] \cup uploads[a],
         \A o \in ops : /\ f[o].id = o.id /\ f[o].path = o.path
                        /\ f[o].remote_device_id = o.remote_device_id
                        /\ f[o].local_content_hash = o.local_content_hash
                        /\ f[o].remote_content_hash = o.remote_content_hash,
         \A o \in ops : /\ f[o].status = "blocked" <=> f[o].kind \in BlockedKind
                        /\ f[o].status = "blocked" => o.status = "blocked"
                        /\ o.kind \in TransferKind => f[o].kind \in TransferKind
                        /\ f[o].kind \in TransferKind => o.kind \in TransferKind \/ f[o].reason = "user"
                        /\ f[o].reason = o.reason \/ f[o].reason = "user"
  PROVE  ops' \subseteq SyncOperationRecord /\ TableInv'
<1> USE DEF IInv, TableInv
<1>1. ops' \subseteq SyncOperationRecord
  OBVIOUS
<1>2. IdsUnique'
  BY DEF IdsUnique
<1>3. ListedAreTransfers'
  BY DEF ListedAreTransfers
<1>4. KindMatchesStatus'
  BY DEF KindMatchesStatus
<1>5. BlockedFromOnePlan'
  BY DEF BlockedFromOnePlan
<1>6. PlannedOfPeer'
  <2> SUFFICES ASSUME NEW r \in Device, NEW id \in planned[r]
               PROVE  \E q \in ops' : q.id = id /\ q.remote_device_id = r
    BY DEF PlannedOfPeer
  <2>1. PICK o \in ops : o.id = id /\ o.remote_device_id = r
    BY DEF PlannedOfPeer
  <2>2. f[o] \in ops' /\ f[o].id = id /\ f[o].remote_device_id = r
    BY <2>1
  <2> QED
    BY <2>2
<1>7. ReplacementsAreUserChosen'
  BY DEF ReplacementsAreUserChosen
<1> QED
  BY <1>1, <1>2, <1>3, <1>4, <1>5, <1>6, <1>7

\* Steps that leave the table and the plans alone and list nothing new.
LEMMA TableUnchanged ==
  ASSUME IInv, UNCHANGED <<ops, plans, planned>>,
         \A a \in Agent : (downloads[a] \cup uploads[a])' \subseteq downloads[a] \cup uploads[a]
  PROVE  TableInv'
<1> USE DEF IInv, TableInv
<1>1. ListedAreTransfers'
  BY DEF ListedAreTransfers
<1> QED
  BY <1>1 DEF IdsUnique, KindMatchesStatus, BlockedFromOnePlan, PlannedOfPeer,
              ReplacementsAreUserChosen, Ids

-----------------------------------------------------------------------------
(* Every action preserves the invariant *)

\* The empty queue satisfies the invariant.
LEMMA InitIInv == Init => IInv
<1> SUFFICES ASSUME Init PROVE IInv
  OBVIOUS
<1>1. TypeOK
  BY DEF Init, TypeOK
<1>2. TableInv
  BY DEF Init, TableInv, IdsUnique, ListedAreTransfers, KindMatchesStatus,
         BlockedFromOnePlan, PlannedOfPeer, ReplacementsAreUserChosen
<1> QED
  BY <1>1, <1>2 DEF IInv

\* A plan replaces the rows waiting for its peer by rows with fresh ids.
LEMMA EnqueueIInv ==
  ASSUME IInv, NEW a \in Agent, NEW local \in Manifests, NEW remote \in Manifests,
         NEW mode \in FolderMode, Enqueue(a, local, remote, mode)
  PROVE  IInv'
<1> USE DEF IInv, TableInv
<1> DEFINE plan == plan_manifest_sync_for_mode(local, remote, mode)
           queued == {f \in plan : f.action # "InSync"}
           n == plans + 1
           r == peer[a]
           kept == {o \in ops : ~(o.remote_device_id = r /\ o.status \in {"pending", "blocked"})}
           new == {NewOperation(e, r, n) : e \in queued}
<1>0. /\ n \in Nat /\ plans \in Nat /\ r \in Device /\ plans' = n
      /\ local \in Manifest /\ remote \in Manifest
  BY ManifestsAssumption DEF TypeOK, Enqueue
<1>1. ops' = kept \cup new
  BY DEF Enqueue, enqueue_sync_plan
<1>2. /\ planned' = [planned EXCEPT ![r] = {<<n, e.path>> : e \in queued}]
      /\ UNCHANGED <<pc, peer, downloads, uploads, resolving>>
  BY DEF Enqueue, agentVars
<1> HIDE DEF plan
<1>3. \A e \in queued :
        LET o == NewOperation(e, r, n)
        IN /\ o \in SyncOperationRecord
           /\ o.id = <<n, e.path>> /\ o.path = e.path /\ o.remote_device_id = r
           /\ o.status = "blocked" <=> o.kind \in BlockedKind
           /\ o.kind \in TransferKind =>
                o.local_content_hash = NoHash \/ o.remote_content_hash = NoHash
  BY <1>0, NewRows DEF plan
<1>4. \A e, f \in queued : e.path = f.path => e = f
  <2>1. \A e \in queued : \E p \in Path : e = entry(p, local[p], remote[p], mode) /\ e.path = p
    BY DEF plan, plan_manifest_sync_for_mode, entry
  <2> QED
    BY <2>1
<1>5. \A o \in new :
        /\ o \in SyncOperationRecord /\ o.id[1] = n /\ o.id[2] = o.path
        /\ o.remote_device_id = r
        /\ o.status = "blocked" <=> o.kind \in BlockedKind
        /\ o.kind \in TransferKind =>
             o.local_content_hash = NoHash \/ o.remote_content_hash = NoHash
  BY <1>3
<1>6. \A o, q \in new : o.id = q.id => o = q
  <2> SUFFICES ASSUME NEW e \in queued, NEW f \in queued,
                      NewOperation(e, r, n).id = NewOperation(f, r, n).id
               PROVE  e = f
    OBVIOUS
  <2>1. e.path = f.path
    BY <1>3
  <2> QED
    BY <2>1, <1>4
<1>7. \A o \in kept : o \in ops /\ o.id[1] \in Nat /\ o.id[1] <= plans /\ o.id[1] # n
  BY <1>0 DEF TypeOK, IdsUnique, SyncOperationRecord, OperationId
<1>8. \A e \in queued : e.path \in Path /\ <<n, e.path>> \in OperationId
  BY <1>0 DEF plan, plan_manifest_sync_for_mode, entry, OperationId
<1>9. TypeOK'
  <2>1. ops' \subseteq SyncOperationRecord
    BY <1>1, <1>5 DEF TypeOK
  <2>2. planned' \in [Device -> SUBSET OperationId]
    BY <1>2, <1>8 DEF TypeOK
  <2> QED
    BY <2>1, <2>2, <1>0, <1>2 DEF TypeOK
<1> HIDE DEF new, kept
<1>10. IdsUnique'
  <2>1. \A o \in ops' : o.id[1] <= plans' /\ o.id[2] = o.path
    BY <1>0, <1>1, <1>5, <1>7 DEF IdsUnique
  <2>2. \A o, q \in ops' : o.id = q.id => o = q
    BY <1>1, <1>5, <1>6, <1>7 DEF IdsUnique
  <2> QED
    BY <2>1, <2>2 DEF IdsUnique
<1>11. ListedAreTransfers'
  <2> SUFFICES ASSUME NEW b \in Agent, NEW id \in downloads[b] \cup uploads[b]
               PROVE  /\ id[1] <= plans'
                      /\ \A o \in ops' : o.id = id => o.kind \in TransferKind
    BY <1>2 DEF ListedAreTransfers
  <2>1. id[1] <= plans /\ id[1] \in Nat
    BY DEF ListedAreTransfers, TypeOK, OperationId
  <2>2. \A o \in new : o.id # id
    BY <1>0, <1>5, <2>1
  <2> QED
    BY <1>0, <1>1, <1>7, <2>1, <2>2 DEF ListedAreTransfers
<1>12. KindMatchesStatus'
  BY <1>1, <1>5, <1>7 DEF KindMatchesStatus
<1>13. BlockedFromOnePlan'
  <2>1. \A o \in kept : o.status = "blocked" => o.remote_device_id # r
    BY DEF kept
  <2> QED
    BY <2>1, <1>1, <1>5, <1>7 DEF BlockedFromOnePlan
<1>14. PlannedOfPeer'
  <2> SUFFICES ASSUME NEW s \in Device, NEW id \in planned'[s]
               PROVE  \E o \in ops' : o.id = id /\ o.remote_device_id = s
    BY DEF PlannedOfPeer
  <2>1. CASE s = r
    <3>1. PICK e \in queued : id = <<n, e.path>>
      BY <2>1, <1>0, <1>2 DEF TypeOK
    <3>2. NewOperation(e, r, n) \in ops'
      BY <1>1 DEF new
    <3> QED
      BY <3>1, <3>2, <1>3, <2>1
  <2>2. CASE s # r
    <3>1. id \in planned[s]
      BY <2>2, <1>2 DEF TypeOK
    <3>2. PICK o \in ops : o.id = id /\ o.remote_device_id = s
      BY <3>1 DEF PlannedOfPeer
    <3>3. o \in kept
      BY <3>2, <2>2 DEF kept
    <3> QED
      BY <3>2, <3>3, <1>1
  <2> QED
    BY <2>1, <2>2
<1>15. ReplacementsAreUserChosen'
  BY <1>1, <1>5, <1>7 DEF ReplacementsAreUserChosen
<1> QED
  BY <1>9, <1>10, <1>11, <1>12, <1>13, <1>14, <1>15

\* The list queries only return pending transfers.
LEMMA ListedRows ==
  ASSUME NEW r, NEW kind \in TransferKind, NEW limit
  PROVE  \A id \in Ids(list_pending_operations(ops, r, kind, limit)) :
           \E o \in ops : o.id = id /\ o.kind = kind
  BY DEF Ids, list_pending_operations, FirstN

\* The two list queries of run_sync_queue hand an agent ids of transfers only.
LEMMA ListIInv ==
  ASSUME IInv, NEW a \in Agent, ListDownloads(a) \/ ListUploads(a)
  PROVE  IInv'
<1> USE DEF IInv, TableInv
<1>1. UNCHANGED <<ops, plans, planned, peer, resolving>>
  BY DEF ListDownloads, ListUploads
<1>2. \A b \in Agent : \A id \in (downloads[b] \cup uploads[b])' :
        id \in downloads[b] \cup uploads[b] \/ \E o \in ops : o.id = id /\ o.kind \in TransferKind
  <2>1. CASE ListDownloads(a)
    <3>1. \A id \in Ids(list_pending_operations(ops, peer[a], "DownloadFromRemote", Limit)) :
            \E o \in ops : o.id = id /\ o.kind \in TransferKind
      BY ListedRows DEF TransferKind
    <3> QED
      BY <2>1, <3>1 DEF ListDownloads, TypeOK
  <2>2. CASE ListUploads(a)
    BY <2>2, ListedRows DEF ListUploads, TypeOK, TransferKind
  <2> QED
    BY <2>1, <2>2
<1>3. TypeOK'
  <2>1. \A kind \in TransferKind : \A limit :
          Ids(list_pending_operations(ops, peer[a], kind, limit)) \subseteq OperationId
    BY ListedRows DEF TypeOK, SyncOperationRecord
  <2>2. downloads' \in [Agent -> SUBSET OperationId] /\ uploads' \in [Agent -> SUBSET OperationId]
    BY <2>1 DEF ListDownloads, ListUploads, TypeOK, TransferKind
  <2>3. pc' \in [Agent -> {"idle", "list_uploads", "run", "transfer"}]
    BY DEF ListDownloads, ListUploads, TypeOK
  <2> QED
    BY <1>1, <2>2, <2>3 DEF TypeOK
<1>4. ListedAreTransfers'
  <2> SUFFICES ASSUME NEW b \in Agent, NEW id \in (downloads[b] \cup uploads[b])'
               PROVE  id[1] <= plans /\ \A o \in ops : o.id = id => o.kind \in TransferKind
    BY <1>1 DEF ListedAreTransfers
  <2>1. CASE id \in downloads[b] \cup uploads[b]
    BY <2>1 DEF ListedAreTransfers
  <2>2. CASE \E o \in ops : o.id = id /\ o.kind \in TransferKind
    BY <2>2 DEF IdsUnique
  <2> QED
    BY <2>1, <2>2, <1>2
<1> QED
  BY <1>1, <1>3, <1>4 DEF IdsUnique, KindMatchesStatus, BlockedFromOnePlan,
                          PlannedOfPeer, ReplacementsAreUserChosen

\* mark_started, mark_done and mark_failed write by id, and an agent only holds
\* ids of transfers.
LEMMA MarkIInv ==
  ASSUME IInv, NEW a \in Agent, NEW id \in downloads[a] \cup uploads[a],
         StartNext(a, id) \/ TransferDone(a, id) \/ TransferFailed(a, id)
  PROVE  IInv'
<1> USE DEF IInv, TableInv
<1>0. \A o \in ops : o.id = id => o.kind \in TransferKind
  BY DEF ListedAreTransfers
<1>1. UNCHANGED <<plans, planned, peer, resolving>>
  BY DEF StartNext, TransferDone, TransferFailed
<1>2. /\ downloads' \in [Agent -> SUBSET OperationId] /\ uploads' \in [Agent -> SUBSET OperationId]
      /\ pc' \in [Agent -> {"idle", "list_uploads", "run", "transfer"}]
  BY DEF StartNext, TransferDone, TransferFailed, Advance, TypeOK
<1>3. \A b \in Agent : (downloads[b] \cup uploads[b])' \subseteq downloads[b] \cup uploads[b]
  BY DEF StartNext, TransferDone, TransferFailed, Advance, TypeOK
<1>4. TransferKind \cap BlockedKind = {}
  BY DEF TransferKind, BlockedKind
<1>5. CASE StartNext(a, id)
  <2> DEFINE f == [o \in ops |->
        IF o.id = id
        THEN [o EXCEPT !.last_error = FALSE, !.started_at = TRUE, !.finished_at = FALSE]
        ELSE o]
  <2>1. ops' = {f[o] : o \in ops}
    BY <1>5 DEF StartNext, mark_sync_operation_started
  <2>2. f \in [ops -> SyncOperationRecord]
    BY StartedRow DEF TypeOK
  <2>3. \A o \in ops :
          /\ f[o].id = o.id /\ f[o].path = o.path
          /\ f[o].remote_device_id = o.remote_device_id
          /\ f[o].local_content_hash = o.local_content_hash
          /\ f[o].remote_content_hash = o.remote_content_hash
          /\ f[o].kind = o.kind /\ f[o].status = o.status /\ f[o].reason = o.reason
    BY DEF TypeOK, SyncOperationRecord
  <2> HIDE DEF f
  <2>4. ops' \subseteq SyncOperationRecord /\ TableInv'
    BY <1>1, <1>3, <2>1, <2>2, <2>3, UpdatePreserves DEF KindMatchesStatus
  <2> QED
    BY <1>1, <1>2, <2>4 DEF TypeOK
<1>6. ASSUME NEW status \in {"done", "failed"}, NEW error \in BOOLEAN,
             ops' = update_sync_operation_status(ops, id, status, error)
      PROVE  IInv'
  <2> DEFINE f == [o \in ops |->
        IF o.id = id
        THEN [o EXCEPT !.status = status, !.last_error = error, !.finished_at = TRUE]
        ELSE o]
  <2>1. ops' = {f[o] : o \in ops}
    BY <1>6 DEF update_sync_operation_status
  <2>2. f \in [ops -> SyncOperationRecord]
    BY <1>6, FinishedRow DEF TypeOK
  <2>3. \A o \in ops :
          /\ f[o].id = o.id /\ f[o].path = o.path
          /\ f[o].remote_device_id = o.remote_device_id
          /\ f[o].local_content_hash = o.local_content_hash
          /\ f[o].remote_content_hash = o.remote_content_hash
          /\ f[o].kind = o.kind /\ f[o].reason = o.reason
          /\ f[o].status = IF o.id = id THEN status ELSE o.status
    BY <1>6 DEF TypeOK, SyncOperationRecord
  <2> HIDE DEF f
  <2>4. \A o \in ops :
          /\ f[o].status = "blocked" <=> f[o].kind \in BlockedKind
          /\ f[o].status = "blocked" => o.status = "blocked"
    BY <1>0, <1>4, <1>6, <2>3 DEF KindMatchesStatus
  <2>5. ops' \subseteq SyncOperationRecord /\ TableInv'
    BY <1>1, <1>3, <2>1, <2>2, <2>3, <2>4, UpdatePreserves
  <2> QED
    BY <1>1, <1>2, <2>5 DEF TypeOK
<1>7. CASE TransferDone(a, id)
  BY <1>6, <1>7 DEF TransferDone, mark_sync_operation_done
<1>8. CASE TransferFailed(a, id)
  BY <1>6, <1>8 DEF TransferFailed, mark_sync_operation_failed
<1> QED
  BY <1>5, <1>7, <1>8

\* retry-failed reopens failed transfers only.
LEMMA RetryIInv ==
  ASSUME IInv, NEW remotes, RetryFailed(remotes)
  PROVE  IInv'
<1> USE DEF IInv, TableInv
<1> DEFINE f == [o \in ops |->
      IF o.status = "failed" /\ o.kind \in TransferKind /\ o.remote_device_id \in remotes
      THEN Retried(o) ELSE o]
<1>1. ops' = {f[o] : o \in ops} /\ UNCHANGED <<plans, planned, pc, peer, downloads, uploads, resolving>>
  BY DEF RetryFailed, retry_failed_sync_operations, agentVars
<1>2. f \in [ops -> SyncOperationRecord]
  BY RetriedRow DEF TypeOK
<1>3. \A o \in ops :
        /\ f[o].id = o.id /\ f[o].path = o.path
        /\ f[o].remote_device_id = o.remote_device_id
        /\ f[o].local_content_hash = o.local_content_hash
        /\ f[o].remote_content_hash = o.remote_content_hash
        /\ f[o].kind = o.kind /\ f[o].reason = o.reason
        /\ f[o].status = o.status \/ (o.status = "failed" /\ f[o].status = "pending")
  BY RetriedRow DEF TypeOK
<1> HIDE DEF f
<1>4. \A o \in ops :
        /\ f[o].status = "blocked" <=> f[o].kind \in BlockedKind
        /\ f[o].status = "blocked" => o.status = "blocked"
  BY <1>3 DEF KindMatchesStatus
<1>5. ops' \subseteq SyncOperationRecord /\ TableInv'
  BY <1>1, <1>2, <1>3, <1>4, UpdatePreserves
<1> QED
  BY <1>1, <1>5 DEF TypeOK

\* The UPDATE of a resolution makes a transfer of whatever row has the id.
LEMMA ResolveWriteIInv ==
  ASSUME IInv, NEW u \in Resolver, ResolveWrite(u)
  PROVE  IInv'
<1> USE DEF IInv, TableInv
<1> DEFINE id == resolving[u][1]
           resolution == resolving[u][2]
           f == [o \in ops |->
             IF o.id = id
             THEN [o EXCEPT !.kind = resolution, !.status = "pending", !.reason = "user",
                            !.last_error = FALSE, !.started_at = FALSE, !.finished_at = FALSE]
             ELSE o]
<1>0. resolution \in TransferKind /\ TransferKind \cap BlockedKind = {}
  BY DEF ResolveWrite, TypeOK, BlockedOperationResolution, TransferKind, BlockedKind
<1>1. /\ ops' = {f[o] : o \in ops} /\ UNCHANGED <<plans, planned, pc, peer, downloads, uploads>>
      /\ resolving' \in [Resolver -> {<<>>} \cup (OperationId \X BlockedOperationResolution)]
  BY DEF ResolveWrite, resolve_update, agentVars, TypeOK
<1> HIDE DEF id, resolution
<1>2. f \in [ops -> SyncOperationRecord]
  BY <1>0, ResolvedRow DEF TypeOK
<1>3. \A o \in ops :
        /\ f[o].id = o.id /\ f[o].path = o.path
        /\ f[o].remote_device_id = o.remote_device_id
        /\ f[o].local_content_hash = o.local_content_hash
        /\ f[o].remote_content_hash = o.remote_content_hash
        /\ \/ o.id = id /\ f[o].kind = resolution /\ f[o].status = "pending" /\ f[o].reason = "user"
           \/ f[o] = o
  BY DEF TypeOK, SyncOperationRecord
<1> HIDE DEF f
<1>4. \A o \in ops :
        /\ f[o].status = "blocked" <=> f[o].kind \in BlockedKind
        /\ f[o].status = "blocked" => o.status = "blocked"
        /\ o.kind \in TransferKind => f[o].kind \in TransferKind
        /\ f[o].kind \in TransferKind => o.kind \in TransferKind \/ f[o].reason = "user"
        /\ f[o].reason = o.reason \/ f[o].reason = "user"
  BY <1>0, <1>3 DEF KindMatchesStatus
<1>5. ops' \subseteq SyncOperationRecord /\ TableInv'
  BY <1>1, <1>2, <1>3, <1>4, UpdatePreserves
<1> QED
  BY <1>1, <1>5 DEF TypeOK

\* The remaining steps do not touch the table.
LEMMA OtherIInv ==
  ASSUME IInv,
         \/ \E a \in Agent, r \in Device : RunEnds(a, r)
         \/ \E a \in Agent : Crash(a)
         \/ \E u \in Resolver, o \in ops, resolution \in BlockedOperationResolution :
              ResolveRead(u, o, resolution)
         \/ \E u \in Resolver : ResolveCrash(u)
         \/ UNCHANGED vars
  PROVE  IInv'
<1> USE DEF IInv
<1>1. UNCHANGED <<ops, plans, planned>>
  BY DEF RunEnds, Crash, ResolveRead, ResolveCrash, vars
<1>2. \A a \in Agent : (downloads[a] \cup uploads[a])' \subseteq downloads[a] \cup uploads[a]
  BY DEF RunEnds, Crash, ResolveRead, ResolveCrash, vars, agentVars, TypeOK
<1>3. TableInv'
  BY <1>1, <1>2, TableUnchanged
<1>4. TypeOK'
  <2>1. ASSUME NEW a \in Agent, NEW r \in Device, RunEnds(a, r) PROVE TypeOK'
    BY <2>1 DEF RunEnds, TypeOK
  <2>2. ASSUME NEW a \in Agent, Crash(a) PROVE TypeOK'
    BY <2>2 DEF Crash, TypeOK
  <2>3. ASSUME NEW u \in Resolver, NEW o \in ops, NEW resolution \in BlockedOperationResolution,
               ResolveRead(u, o, resolution)
        PROVE  TypeOK'
    BY <2>3 DEF ResolveRead, TypeOK, agentVars, SyncOperationRecord
  <2>4. ASSUME NEW u \in Resolver, ResolveCrash(u) PROVE TypeOK'
    BY <2>4 DEF ResolveCrash, TypeOK, agentVars
  <2>5. CASE UNCHANGED vars
    BY <2>5 DEF TypeOK, vars
  <2> QED
    BY <2>1, <2>2, <2>3, <2>4, <2>5
<1> QED
  BY <1>3, <1>4

\* Every command's step preserves the invariant.
LEMMA NextIInv == IInv /\ [Next]_vars => IInv'
<1> SUFFICES ASSUME IInv, [Next]_vars PROVE IInv'
  OBVIOUS
<1>1. ASSUME NEW a \in Agent, AgentNext(a) PROVE IInv'
  <2>1. ASSUME NEW local \in Manifests, NEW remote \in Manifests, NEW mode \in FolderMode,
               Enqueue(a, local, remote, mode)
        PROVE  IInv'
    BY <2>1, EnqueueIInv
  <2>2. CASE ListDownloads(a) \/ ListUploads(a)
    BY <2>2, ListIInv
  <2>3. ASSUME NEW id \in downloads[a] \cup uploads[a],
               StartNext(a, id) \/ TransferDone(a, id) \/ TransferFailed(a, id)
        PROVE  IInv'
    BY <2>3, MarkIInv
  <2>4. ASSUME NEW r \in Device, RunEnds(a, r) PROVE IInv'
    BY <2>4, OtherIInv
  <2>5. CASE Crash(a)
    BY <2>5, OtherIInv
  <2> QED
    BY <1>1, <2>1, <2>2, <2>3, <2>4, <2>5 DEF AgentNext
<1>2. ASSUME NEW u \in Resolver, ResolverNext(u) PROVE IInv'
  <2>1. ASSUME NEW o \in ops, NEW resolution \in BlockedOperationResolution,
               ResolveRead(u, o, resolution)
        PROVE  IInv'
    BY <2>1, OtherIInv
  <2>2. CASE ResolveWrite(u)
    BY <2>2, ResolveWriteIInv
  <2>3. CASE ResolveCrash(u)
    BY <2>3, OtherIInv
  <2> QED
    BY <1>2, <2>1, <2>2, <2>3 DEF ResolverNext
<1>3. ASSUME NEW remotes, RetryFailed(remotes) PROVE IInv'
  BY <1>3, RetryIInv
<1>4. CASE UNCHANGED vars
  BY <1>4, OtherIInv
<1> QED
  BY <1>1, <1>2, <1>3, <1>4 DEF Next

\* The invariant holds in every reachable state.
LEMMA InductiveInvariant == Spec => []IInv
  BY InitIInv, NextIInv, PTL DEF Spec

-----------------------------------------------------------------------------
(* The theorems *)

\* Every row the commands leave in the queue satisfies the table's CHECKs.
THEOREM TypeCorrect == Spec => []TypeOK
<1>1. IInv => TypeOK
  BY DEF IInv
<1> QED
  BY <1>1, InductiveInvariant, PTL

\* However many commands run at once, a row's status and kind never drift
\* apart, although both are written by id alone.
THEOREM KindsMatch == Spec => []KindMatchesStatus
<1>1. IInv => KindMatchesStatus
  BY DEF IInv, TableInv
<1> QED
  BY <1>1, InductiveInvariant, PTL

\* The user is never asked two questions about one path and peer: blocked rows
\* come from a single plan, and a plan has one entry per path.
THEOREM OneQuestionPerPath == Spec => []OneBlockedPerPath
<1>1. IInv => OneBlockedPerPath
  <2> SUFFICES ASSUME IInv, NEW o \in ops, NEW q \in ops,
                      o.status = "blocked", q.status = "blocked",
                      o.path = q.path, o.remote_device_id = q.remote_device_id
               PROVE  o = q
    BY DEF OneBlockedPerPath
  <2>1. o.id[1] = q.id[1] /\ o.id[2] = q.id[2]
    BY DEF IInv, TableInv, BlockedFromOnePlan, IdsUnique
  <2>2. o.id \in OperationId /\ q.id \in OperationId
    BY DEF IInv, TypeOK, SyncOperationRecord
  <2>3. o.id = q.id
    BY <2>1, <2>2 DEF OperationId
  <2> QED
    BY <2>3 DEF IInv, TableInv, IdsUnique
<1> QED
  BY <1>1, InductiveInvariant, PTL

\* A transfer that could replace a version the other side holds is in the
\* queue only because the user resolved a blocked row that way.
THEOREM ReplacementsChosen == Spec => []ReplacementsAreUserChosen
<1>1. IInv => ReplacementsAreUserChosen
  BY DEF IInv, TableInv
<1> QED
  BY <1>1, InductiveInvariant, PTL

\* No command loses an operation of the last plan for a peer.
THEOREM PlanKept == Spec => []LastPlanKept
<1>1. IInv => LastPlanKept
  BY DEF IInv, TableInv, PlannedOfPeer, LastPlanKept, Ids
<1> QED
  BY <1>1, InductiveInvariant, PTL

-----------------------------------------------------------------------------
(* A batch fits the limit *)

\* What holds of a batch however many commands run: an idle agent holds none,
\* the uploads are listed after the downloads and both together fit the limit.
BatchFits ==
  \A a \in Agent :
    /\ IsFiniteSet(downloads[a]) /\ IsFiniteSet(uploads[a])
    /\ Cardinality(downloads[a]) + Cardinality(uploads[a]) <= Limit
    /\ pc[a] = "idle" => downloads[a] = {}
    /\ pc[a] \in {"idle", "list_uploads"} => uploads[a] = {}

\* ORDER BY created_at_unix, path orders any two rows.
LEMMA IdsOrdered ==
  ASSUME NEW i \in OperationId, NEW j \in OperationId
  PROVE  /\ i # j => Before(i, j) \/ Before(j, i)
         /\ ~Before(i, i)
         /\ \A k \in OperationId : Before(k, i) /\ Before(i, j) => Before(k, j)
<1>1. \A k \in OperationId : k[1] \in Nat /\ k[2] \in Nat
  BY PathAssumption DEF OperationId
<1>2. i # j => i[1] # j[1] \/ i[2] # j[2]
  BY DEF OperationId
<1>3. i # j => Before(i, j) \/ Before(j, i)
  BY <1>1, <1>2 DEF Before
<1>4. ~Before(i, i)
  BY <1>1 DEF Before
<1>5. \A k \in OperationId : Before(k, i) /\ Before(i, j) => Before(k, j)
  BY <1>1 DEF Before
<1> QED
  BY <1>3, <1>4, <1>5

\* LIMIT n returns at most n rows: a row's place in the order identifies it.
LEMMA FirstNSize ==
  ASSUME NEW rows, IsFiniteSet(rows), NEW n \in Nat,
         \A o \in rows : o.id \in OperationId,
         \A o, q \in rows : o.id = q.id => o = q
  PROVE  IsFiniteSet(FirstN(rows, n)) /\ Cardinality(FirstN(rows, n)) <= n
<1> DEFINE Earlier(o) == {q \in rows : Before(q.id, o.id)}
           first == FirstN(rows, n)
           place == [o \in first |-> Cardinality(Earlier(o))]
<1>1. \A o \in rows : IsFiniteSet(Earlier(o)) /\ Cardinality(Earlier(o)) \in Nat
  BY FS_Subset, FS_CardinalityType
<1>2. \A o \in first : o \in rows /\ place[o] \in 0 .. (n - 1)
  <2>1. \A o \in first : o \in rows /\ Cardinality(Earlier(o)) < n
    BY DEF FirstN
  <2> HIDE DEF Earlier, first
  <2> QED
    BY <1>1, <2>1
<1>3. ASSUME NEW o \in rows, NEW q \in rows, Before(o.id, q.id)
      PROVE  Cardinality(Earlier(o)) < Cardinality(Earlier(q))
  <2>1. Earlier(o) \cup {o} \subseteq Earlier(q)
    BY <1>3, IdsOrdered
  <2>2. o \notin Earlier(o)
    BY <1>3, IdsOrdered
  <2>3. /\ IsFiniteSet(Earlier(o) \cup {o})
        /\ Cardinality(Earlier(o) \cup {o}) = Cardinality(Earlier(o)) + 1
    BY <1>1, <2>2, FS_AddElement
  <2>4. Cardinality(Earlier(o) \cup {o}) <= Cardinality(Earlier(q))
    BY <1>1, <2>1, FS_Subset
  <2> HIDE DEF Earlier
  <2> QED
    BY <1>1, <2>3, <2>4
<1>4. ASSUME NEW o \in first, NEW q \in first, place[o] = place[q]
      PROVE  o = q
  <2>1. o \in rows /\ q \in rows /\ Cardinality(Earlier(o)) = Cardinality(Earlier(q))
    BY <1>2, <1>4
  <2>2. ~Before(o.id, q.id) /\ ~Before(q.id, o.id)
    <3> HIDE DEF Earlier
    <3> QED
      BY <1>1, <1>3, <2>1
  <2> QED
    BY <2>1, <2>2, IdsOrdered
<1>5. place \in Injection(first, 0 .. (n - 1))
  <2> HIDE DEF first, Earlier
  <2>1. place \in [first -> 0 .. (n - 1)]
    BY <1>2
  <2> HIDE DEF place
  <2> QED
    BY <1>4, <2>1 DEF Injection, IsInjective
<1>6. IsFiniteSet(0 .. (n - 1)) /\ Cardinality(0 .. (n - 1)) = n
  BY FS_Interval
<1> QED
  BY <1>5, <1>6, FS_Injection

\* The table is finite: an id is the number of a plan and a path.
LEMMA TableFinite ==
  ASSUME TypeOK, IdsUnique
  PROVE  IsFiniteSet(ops)
<1> DEFINE id == [o \in ops |-> o.id]
<1>1. IsFiniteSet((0 .. plans) \X Path)
  <2>1. 0 \in Int /\ plans \in Int
    BY DEF TypeOK
  <2>2. IsFiniteSet(0 .. plans)
    BY <2>1, FS_Interval
  <2> QED
    BY <2>2, FolderAssumption, FS_Product
<1>2. \A o \in ops : o.id \in (0 .. plans) \X Path
  BY DEF TypeOK, IdsUnique, SyncOperationRecord, OperationId
<1>3. id \in Injection(ops, (0 .. plans) \X Path)
  BY <1>2 DEF IdsUnique, Injection, IsInjective
<1> QED
  BY <1>1, <1>3, FS_Injection

\* list_pending_operations returns at most limit rows.
LEMMA ListSize ==
  ASSUME TypeOK, IdsUnique, NEW remote, NEW kind, NEW limit \in Nat
  PROVE  LET ids == Ids(list_pending_operations(ops, remote, kind, limit))
         IN IsFiniteSet(ids) /\ Cardinality(ids) \in Nat /\ Cardinality(ids) <= limit
<1> DEFINE rows == {o \in ops : /\ o.remote_device_id = remote
                                /\ o.kind = kind
                                /\ o.status = "pending"}
           first == FirstN(rows, limit)
           id == [o \in first |-> o.id]
<1>1. IsFiniteSet(rows)
  BY TableFinite, FS_Subset
<1>2. \A o \in rows : o.id \in OperationId
  BY DEF TypeOK, SyncOperationRecord
<1>3. \A o, q \in rows : o.id = q.id => o = q
  BY DEF IdsUnique
<1> HIDE DEF rows
<1>4. IsFiniteSet(first) /\ Cardinality(first) <= limit /\ Cardinality(first) \in Nat
  BY <1>1, <1>2, <1>3, FirstNSize, FS_CardinalityType
<1> HIDE DEF first
<1>5. id \in Surjection(first, Ids(first))
  BY DEF Ids, Surjection
<1>6. IsFiniteSet(Ids(first)) /\ Cardinality(Ids(first)) <= Cardinality(first)
  BY <1>4, <1>5, FS_Surjection
<1>7. Ids(first) = Ids(list_pending_operations(ops, remote, kind, limit))
  BY DEF first, rows, list_pending_operations
<1> QED
  BY <1>4, <1>6, <1>7, FS_CardinalityType

\* Finishing an operation, a crash and the end of a run only shorten batches.
LEMMA BatchShrinks ==
  ASSUME BatchFits,
         \A b \in Agent : /\ downloads'[b] \subseteq downloads[b]
                          /\ uploads'[b] \subseteq uploads[b]
                          /\ \/ pc'[b] = pc[b]
                             \/ pc'[b] \in {"run", "transfer"}
                             \/ downloads'[b] = {} /\ uploads'[b] = {}
  PROVE  BatchFits'
<1> SUFFICES ASSUME NEW b \in Agent
             PROVE  /\ IsFiniteSet(downloads'[b]) /\ IsFiniteSet(uploads'[b])
                    /\ Cardinality(downloads'[b]) + Cardinality(uploads'[b]) <= Limit
                    /\ pc'[b] = "idle" => downloads'[b] = {}
                    /\ pc'[b] \in {"idle", "list_uploads"} => uploads'[b] = {}
  BY DEF BatchFits
<1>1. /\ IsFiniteSet(downloads'[b]) /\ Cardinality(downloads'[b]) <= Cardinality(downloads[b])
      /\ Cardinality(downloads'[b]) \in Nat /\ Cardinality(downloads[b]) \in Nat
  BY FS_Subset, FS_CardinalityType DEF BatchFits
<1>2. /\ IsFiniteSet(uploads'[b]) /\ Cardinality(uploads'[b]) <= Cardinality(uploads[b])
      /\ Cardinality(uploads'[b]) \in Nat /\ Cardinality(uploads[b]) \in Nat
  BY FS_Subset, FS_CardinalityType DEF BatchFits
<1>3. Cardinality(downloads'[b]) + Cardinality(uploads'[b]) <= Limit
  BY <1>1, <1>2, LimitAssumption DEF BatchFits
<1>4. /\ pc'[b] = "idle" => downloads'[b] = {}
      /\ pc'[b] \in {"idle", "list_uploads"} => uploads'[b] = {}
  BY DEF BatchFits
<1> QED
  BY <1>1, <1>2, <1>3, <1>4

\* The two queries of run_sync_queue share the limit.
LEMMA ListFits ==
  ASSUME IInv, BatchFits, NEW a \in Agent, ListDownloads(a) \/ ListUploads(a)
  PROVE  BatchFits'
<1> USE DEF IInv, TableInv
<1>0. \A b \in Agent : /\ IsFiniteSet(downloads[b]) /\ Cardinality(downloads[b]) \in Nat
                       /\ IsFiniteSet(uploads[b]) /\ Cardinality(uploads[b]) \in Nat
  BY FS_CardinalityType DEF BatchFits
<1>1. CASE ListDownloads(a)
  <2> DEFINE ids == Ids(list_pending_operations(ops, peer[a], "DownloadFromRemote", Limit))
  <2>1. IsFiniteSet(ids) /\ Cardinality(ids) \in Nat /\ Cardinality(ids) <= Limit
    BY ListSize, LimitAssumption
  <2>2. /\ downloads' = [downloads EXCEPT ![a] = ids]
        /\ pc' = [pc EXCEPT ![a] = "list_uploads"] /\ uploads' = uploads /\ pc[a] = "idle"
    BY <1>1 DEF ListDownloads
  <2> HIDE DEF ids
  <2>3. /\ downloads'[a] = ids /\ pc'[a] = "list_uploads" /\ uploads'[a] = {}
        /\ \A b \in Agent \ {a} : downloads'[b] = downloads[b] /\ pc'[b] = pc[b] /\ uploads'[b] = uploads[b]
    BY <2>2 DEF TypeOK, BatchFits
  <2>4. Cardinality(downloads'[a]) + Cardinality(uploads'[a]) <= Limit /\ IsFiniteSet(uploads'[a])
    BY <2>1, <2>3, FS_EmptySet, LimitAssumption
  <2> QED
    BY <2>1, <2>3, <2>4 DEF BatchFits
<1>2. CASE ListUploads(a)
  <2> DEFINE ids == Ids(list_pending_operations(ops, peer[a], "UploadToRemote", remaining_limit(a)))
  <2>1. Cardinality(uploads[a]) = 0
    BY <1>2, FS_EmptySet DEF BatchFits, ListUploads
  <2>2. /\ remaining_limit(a) \in Nat
        /\ remaining_limit(a) + Cardinality(downloads[a]) = Limit
    BY <1>0, <2>1, LimitAssumption DEF BatchFits, remaining_limit
  <2>3. IsFiniteSet(ids) /\ Cardinality(ids) \in Nat /\ Cardinality(ids) <= remaining_limit(a)
    BY <2>2, ListSize
  <2>4. /\ uploads' = [uploads EXCEPT ![a] = ids]
        /\ pc' = [pc EXCEPT ![a] = "run"] /\ downloads' = downloads
    BY <1>2 DEF ListUploads
  <2> HIDE DEF ids
  <2>5. /\ uploads'[a] = ids /\ pc'[a] = "run" /\ downloads'[a] = downloads[a]
        /\ \A b \in Agent \ {a} : downloads'[b] = downloads[b] /\ pc'[b] = pc[b] /\ uploads'[b] = uploads[b]
    BY <2>4 DEF TypeOK
  <2>6. Cardinality(downloads'[a]) + Cardinality(uploads'[a]) <= Limit
    BY <1>0, <2>2, <2>3, <2>5, LimitAssumption
  <2> QED
    BY <1>0, <2>3, <2>5, <2>6 DEF BatchFits
<1> QED
  BY <1>1, <1>2

\* Every step keeps every batch within the limit.
LEMMA NextFits == IInv /\ BatchFits /\ [Next]_vars => BatchFits'
<1> SUFFICES ASSUME IInv, BatchFits, [Next]_vars PROVE BatchFits'
  OBVIOUS
<1> USE DEF IInv
<1>1. ASSUME UNCHANGED agentVars PROVE BatchFits'
  BY <1>1 DEF BatchFits, agentVars
<1>2. ASSUME NEW a \in Agent, AgentNext(a) PROVE BatchFits'
  <2>1. ASSUME NEW local \in Manifests, NEW remote \in Manifests, NEW mode \in FolderMode,
               Enqueue(a, local, remote, mode)
        PROVE  BatchFits'
    BY <1>1, <2>1 DEF Enqueue
  <2>2. CASE ListDownloads(a) \/ ListUploads(a)
    BY <2>2, ListFits
  <2>3. ASSUME NEW id \in downloads[a] \cup uploads[a],
               StartNext(a, id) \/ TransferDone(a, id) \/ TransferFailed(a, id)
        PROVE  BatchFits'
    BY <2>3, BatchShrinks DEF StartNext, TransferDone, TransferFailed, Advance, TypeOK
  <2>4. ASSUME NEW r \in Device, RunEnds(a, r) PROVE BatchFits'
    BY <2>4, BatchShrinks DEF RunEnds, TypeOK
  <2>5. CASE Crash(a)
    BY <2>5, BatchShrinks DEF Crash, TypeOK
  <2> QED
    BY <1>2, <2>1, <2>2, <2>3, <2>4, <2>5 DEF AgentNext
<1>3. ASSUME NEW u \in Resolver, ResolverNext(u) PROVE BatchFits'
  BY <1>1, <1>3 DEF ResolverNext, ResolveRead, ResolveWrite, ResolveCrash
<1>4. ASSUME NEW remotes, RetryFailed(remotes) PROVE BatchFits'
  BY <1>1, <1>4 DEF RetryFailed
<1>5. CASE UNCHANGED vars
  BY <1>1, <1>5 DEF vars, agentVars
<1> QED
  BY <1>2, <1>3, <1>4, <1>5 DEF Next

\* However many commands run at once, no run of the queue takes more
\* operations than --limit allows.
THEOREM BatchesFit == Spec => []BatchFits
<1>1. Init => BatchFits
  BY FS_EmptySet, LimitAssumption DEF Init, BatchFits
<1> QED
  BY <1>1, NextFits, InductiveInvariant, PTL DEF Spec

-----------------------------------------------------------------------------
(* What a step does to the rows *)

\* Waiting rows have no outcome.
NoOutcome(o) == ~o.last_error /\ ~o.started_at /\ ~o.finished_at

\* enqueue_sync_plan adds rows with a fresh number and drops no finished row.
LEMMA EnqueueRows ==
  ASSUME IInv, NEW a \in Agent, NEW local \in Manifests, NEW remote \in Manifests,
         NEW mode \in FolderMode, Enqueue(a, local, remote, mode)
  PROVE  /\ plans' = plans + 1 /\ UNCHANGED <<pc, peer, downloads, uploads, resolving>>
         /\ pc[a] = "idle"
         /\ \A q \in ops' \ ops : /\ q.id[1] = plans + 1
                                 /\ q.status \in {"pending", "blocked"}
                                 /\ NoOutcome(q)
         /\ \A o \in ops : o.status \in {"done", "failed"} => o \in ops'
<1> DEFINE plan == plan_manifest_sync_for_mode(local, remote, mode)
           queued == {f \in plan : f.action # "InSync"}
           r == peer[a]
<1>1. /\ plans' = plans + 1 /\ UNCHANGED <<pc, peer, downloads, uploads, resolving>>
      /\ pc[a] = "idle"
  BY DEF Enqueue, agentVars
<1>2. /\ local \in Manifest /\ remote \in Manifest /\ plans + 1 \in Nat /\ r \in Device
  BY ManifestsAssumption DEF IInv, TypeOK
<1>3. ops' = {o \in ops : ~(o.remote_device_id = r /\ o.status \in {"pending", "blocked"})}
               \cup {NewOperation(e, r, plans + 1) : e \in queued}
  BY <1>1 DEF Enqueue, enqueue_sync_plan
<1> HIDE DEF plan, r
<1>4. ASSUME NEW e \in queued
      PROVE  LET q == NewOperation(e, r, plans + 1)
             IN /\ q.id[1] = plans + 1
                /\ q.status \in {"pending", "blocked"}
                /\ NoOutcome(q)
  <2>1. PICK p \in Path : e = entry(p, local[p], remote[p], mode)
    BY DEF plan, plan_manifest_sync_for_mode
  <2>2. local[p] \in FileRecord \cup {NoRecord} /\ remote[p] \in FileRecord \cup {NoRecord}
    BY <1>2 DEF Manifest
  <2>3. e \in SyncPlanEntry
    BY <2>1, <2>2, EntryType
  <2>4. e.action \in TransferAction \cup BlockedAction
    BY <2>3 DEF SyncPlanEntry, SyncAction
  <2>5. operation_for_action(e.action).status \in {"pending", "blocked"}
    BY <2>4 DEF operation_for_action, TransferAction, BlockedAction
  <2> DEFINE k == operation_for_action(e.action)
  <2> HIDE DEF k
  <2>6. NewOperation(e, r, plans + 1) =
          [id |-> <<plans + 1, e.path>>, path |-> e.path, kind |-> k.kind, status |-> k.status,
           reason |-> "plan", local_content_hash |-> e.local_content_hash,
           remote_content_hash |-> e.remote_content_hash, remote_device_id |-> r,
           last_error |-> FALSE, retry_count |-> 0, started_at |-> FALSE, finished_at |-> FALSE]
    BY DEF NewOperation, k
  <2>7. k.status \in {"pending", "blocked"}
    BY <2>5 DEF k
  <2> QED
    BY <2>6, <2>7 DEF NoOutcome
<1>5. \A q \in ops' \ ops : /\ q.id[1] = plans + 1
                            /\ q.status \in {"pending", "blocked"}
                            /\ NoOutcome(q)
  BY <1>3, <1>4
<1>6. \A o \in ops : o.status \in {"done", "failed"} => o \in ops'
  BY <1>3
<1> QED
  BY <1>1, <1>5, <1>6

\* mark_started, mark_done and mark_failed change the row with the id, and of
\* it nothing but the outcome.
LEMMA MarkRows ==
  ASSUME IInv, NEW a \in Agent, NEW id \in downloads[a] \cup uploads[a],
         StartNext(a, id) \/ TransferDone(a, id) \/ TransferFailed(a, id)
  PROVE  /\ \A q \in ops' : (q \in ops /\ q.id # id) \/ \E o \in ops :
              /\ o.id = id /\ q.id = id /\ q.kind = o.kind
              /\ \/ /\ StartNext(a, id)
                    /\ q.status = o.status /\ ~q.last_error /\ q.started_at /\ ~q.finished_at
                 \/ /\ TransferDone(a, id)
                    /\ q.status = "done" /\ ~q.last_error /\ q.started_at = o.started_at /\ q.finished_at
                 \/ /\ TransferFailed(a, id)
                    /\ q.status = "failed" /\ q.last_error /\ q.started_at = o.started_at /\ q.finished_at
         /\ \A o \in ops : o.id # id => o \in ops'
         /\ UNCHANGED <<plans, resolving>>
<1>1. \A o \in ops : o \in SyncOperationRecord
  BY DEF IInv, TypeOK
<1>2. CASE StartNext(a, id)
  <2> DEFINE U(o) == [o EXCEPT !.last_error = FALSE, !.started_at = TRUE, !.finished_at = FALSE]
  <2>1. /\ ops' = {IF o.id = id THEN U(o) ELSE o : o \in ops}
        /\ UNCHANGED <<plans, resolving>>
    BY <1>2 DEF StartNext, mark_sync_operation_started
  <2>2. \A o \in ops : /\ U(o).id = o.id /\ U(o).kind = o.kind
                       /\ U(o).status = o.status /\ U(o).last_error = FALSE
                       /\ U(o).started_at = TRUE
    BY <1>1 DEF SyncOperationRecord
  <2>3. \A o \in ops : U(o).finished_at = FALSE
    BY <1>1 DEF SyncOperationRecord
  <2> HIDE DEF U
  <2> QED
    BY <1>2, <2>1, <2>2, <2>3
<1>3. CASE TransferDone(a, id)
  <2> DEFINE U(o) == [o EXCEPT !.status = "done", !.last_error = FALSE, !.finished_at = TRUE]
  <2>1. /\ ops' = {IF o.id = id THEN U(o) ELSE o : o \in ops}
        /\ UNCHANGED <<plans, resolving>>
    BY <1>3 DEF TransferDone, mark_sync_operation_done, update_sync_operation_status
  <2>2. \A o \in ops : /\ U(o).id = o.id /\ U(o).kind = o.kind
                       /\ U(o).status = "done" /\ U(o).last_error = FALSE
                       /\ U(o).started_at = o.started_at
    BY <1>1 DEF SyncOperationRecord
  <2>3. \A o \in ops : U(o).finished_at = TRUE
    BY <1>1 DEF SyncOperationRecord
  <2> HIDE DEF U
  <2> QED
    BY <1>3, <2>1, <2>2, <2>3
<1>4. CASE TransferFailed(a, id)
  <2> DEFINE U(o) == [o EXCEPT !.status = "failed", !.last_error = TRUE, !.finished_at = TRUE]
  <2>1. /\ ops' = {IF o.id = id THEN U(o) ELSE o : o \in ops}
        /\ UNCHANGED <<plans, resolving>>
    BY <1>4 DEF TransferFailed, mark_sync_operation_failed, update_sync_operation_status
  <2>2. \A o \in ops : /\ U(o).id = o.id /\ U(o).kind = o.kind
                       /\ U(o).status = "failed" /\ U(o).last_error = TRUE
                       /\ U(o).started_at = o.started_at
    BY <1>1 DEF SyncOperationRecord
  <2>3. \A o \in ops : U(o).finished_at = TRUE
    BY <1>1 DEF SyncOperationRecord
  <2> HIDE DEF U
  <2> QED
    BY <1>4, <2>1, <2>2, <2>3
<1> QED
  BY <1>2, <1>3, <1>4

\* retry-failed changes failed rows only, into waiting ones.
LEMMA RetryRows ==
  ASSUME IInv, NEW remotes, RetryFailed(remotes)
  PROVE  /\ \A q \in ops' : q \in ops \/ \E o \in ops :
              /\ o.status = "failed" /\ q.id = o.id /\ q.kind = o.kind
              /\ q.status = "pending" /\ NoOutcome(q)
         /\ \A o \in ops : o.status # "failed" => o \in ops'
         /\ UNCHANGED <<plans, pc, peer, downloads, uploads, resolving>>
<1>1. \A o \in ops : o \in SyncOperationRecord
  BY DEF IInv, TypeOK
<1>2. ASSUME NEW o \in SyncOperationRecord
      PROVE  /\ Retried(o).id = o.id /\ Retried(o).kind = o.kind /\ Retried(o).status = "pending"
             /\ Retried(o).last_error = FALSE /\ Retried(o).started_at = FALSE
             /\ Retried(o).finished_at = FALSE
  BY RetriedRow DEF Retried, SyncOperationRecord
<1>3. /\ ops' = retry_failed_sync_operations(ops, remotes)
      /\ UNCHANGED <<plans, pc, peer, downloads, uploads, resolving>>
  BY DEF RetryFailed, agentVars
<1> QED
  BY <1>1, <1>2, <1>3 DEF retry_failed_sync_operations, NoOutcome

\* The UPDATE of a resolution changes the row with the id, into a waiting one.
LEMMA ResolveRows ==
  ASSUME IInv, NEW u \in Resolver, ResolveWrite(u)
  PROVE  /\ \A q \in ops' : (q \in ops /\ q.id # resolving[u][1]) \/ \E o \in ops :
              /\ o.id = resolving[u][1] /\ q.id = o.id
              /\ q.status = "pending" /\ NoOutcome(q)
         /\ \A o \in ops : o.id # resolving[u][1] => o \in ops'
         /\ UNCHANGED <<plans, pc, peer, downloads, uploads>>
         /\ resolving' = [resolving EXCEPT ![u] = <<>>]
<1> DEFINE id == resolving[u][1]
           k == resolving[u][2]
           U(o) == [o EXCEPT !.kind = k, !.status = "pending", !.reason = "user",
                             !.last_error = FALSE, !.started_at = FALSE, !.finished_at = FALSE]
<1>1. \A o \in ops : o \in SyncOperationRecord
  BY DEF IInv, TypeOK
<1>2. /\ ops' = {IF o.id = id THEN U(o) ELSE o : o \in ops}
      /\ UNCHANGED <<plans, pc, peer, downloads, uploads>>
      /\ resolving' = [resolving EXCEPT ![u] = <<>>]
  BY DEF ResolveWrite, agentVars, resolve_update
<1> HIDE DEF id, k
<1>3. \A o \in ops : /\ U(o).id = o.id /\ U(o).status = "pending"
                     /\ U(o).last_error = FALSE /\ U(o).started_at = FALSE
                     /\ U(o).finished_at = FALSE
  BY <1>1 DEF SyncOperationRecord
<1> HIDE DEF U
<1>4. \A q \in ops' : (q \in ops /\ q.id # id) \/ \E o \in ops :
        /\ o.id = id /\ q.id = o.id /\ q.status = "pending" /\ NoOutcome(q)
  BY <1>2, <1>3 DEF NoOutcome
<1>5. \A o \in ops : o.id # id => o \in ops'
  BY <1>2
<1> QED
  BY <1>2, <1>4, <1>5 DEF id

-----------------------------------------------------------------------------
(* One resolver *)

\* The hypothesis: no two resolve-blocked commands at once.
OneResolver == \A u, v \in Resolver : u = v

\* The row a resolver read is still blocked when it writes it.
ResolvingIsBlocked ==
  \A u \in Resolver : resolving[u] # <<>> =>
    /\ resolving[u][1][1] <= plans
    /\ \A o \in ops : o.id = resolving[u][1] => o.status = "blocked"

\* The downloads an agent listed are still downloads when it lists uploads.
DownloadsAreDownloads ==
  \A a \in Agent : pc[a] = "list_uploads" =>
    \A o \in ops : o.id \in downloads[a] => o.kind = "DownloadFromRemote"

NoneTwice == \A a \in Agent : downloads[a] \cap uploads[a] = {}

ResolverInv == ResolvingIsBlocked /\ DownloadsAreDownloads /\ NoneTwice

\* A listed row is not blocked, and its id is not a new one.
LEMMA ListedNotBlocked ==
  ASSUME IInv, NEW a \in Agent, NEW id \in downloads[a] \cup uploads[a]
  PROVE  /\ id[1] # plans + 1
         /\ \A o \in ops : o.id = id => o.status # "blocked"
<1>1. id[1] <= plans /\ id[1] \in Nat /\ plans \in Nat
  BY DEF IInv, TableInv, ListedAreTransfers, TypeOK, OperationId
<1>2. \A o \in ops : o.id = id => o.kind \in TransferKind
  BY DEF IInv, TableInv, ListedAreTransfers
<1>3. \A o \in ops : o.id = id => o.status # "blocked"
  BY <1>2 DEF IInv, TableInv, KindMatchesStatus, TransferKind, BlockedKind
<1> QED
  BY <1>1, <1>3

\* Only a blocked row is ever about to be resolved.
LEMMA NextResolving ==
  ASSUME OneResolver, IInv, ResolverInv, [Next]_vars
  PROVE  ResolvingIsBlocked'
<1> USE DEF ResolverInv
<1>0. plans \in Nat /\ \A u \in Resolver : resolving[u] # <<>> => resolving[u][1][1] \in Nat
  BY DEF IInv, TypeOK, OperationId
<1>1. ASSUME NEW a \in Agent, AgentNext(a) PROVE ResolvingIsBlocked'
  <2>1. ASSUME NEW local \in Manifests, NEW remote \in Manifests, NEW mode \in FolderMode,
               Enqueue(a, local, remote, mode)
        PROVE  ResolvingIsBlocked'
    <3>1. /\ plans' = plans + 1 /\ resolving' = resolving
          /\ \A q \in ops' \ ops : q.id[1] = plans + 1
      BY <2>1, EnqueueRows
    <3> QED
      BY <1>0, <3>1 DEF ResolvingIsBlocked
  <2>2. ASSUME NEW id \in downloads[a] \cup uploads[a],
               StartNext(a, id) \/ TransferDone(a, id) \/ TransferFailed(a, id)
        PROVE  ResolvingIsBlocked'
    <3>1. /\ \A q \in ops' : q \in ops \/ \E o \in ops : o.id = id /\ q.id = id
          /\ UNCHANGED <<plans, resolving>>
      BY <2>2, MarkRows
    <3>2. \A o \in ops : o.id = id => o.status # "blocked"
      BY ListedNotBlocked
    <3> QED
      BY <3>1, <3>2 DEF ResolvingIsBlocked
  <2>3. ASSUME UNCHANGED <<ops, plans, resolving>> PROVE ResolvingIsBlocked'
    BY <2>3 DEF ResolvingIsBlocked
  <2> QED
    BY <1>1, <2>1, <2>2, <2>3 DEF AgentNext, ListDownloads, ListUploads, RunEnds, Crash
<1>2. ASSUME NEW u \in Resolver, ResolverNext(u) PROVE ResolvingIsBlocked'
  <2>1. \A v \in Resolver : v = u
    BY DEF OneResolver
  <2>2. ASSUME NEW o \in ops, NEW resolution \in BlockedOperationResolution,
               ResolveRead(u, o, resolution)
        PROVE  ResolvingIsBlocked'
    <3>1. /\ resolving' = [resolving EXCEPT ![u] = <<o.id, resolution>>]
          /\ UNCHANGED <<ops, plans>> /\ o.status = "blocked"
      BY <2>2 DEF ResolveRead, CanResolve
    <3>2. resolving'[u] = <<o.id, resolution>> /\ resolving'[u][1] = o.id
      BY <3>1 DEF IInv, TypeOK
    <3>3. o.id[1] <= plans /\ \A q \in ops : q.id = o.id => q = o
      BY DEF IInv, TableInv, IdsUnique
    <3> QED
      BY <2>1, <3>1, <3>2, <3>3 DEF ResolvingIsBlocked
  <2>3. CASE ResolveWrite(u) \/ ResolveCrash(u)
    <3>1. resolving'[u] = <<>>
      BY <2>3 DEF ResolveWrite, ResolveCrash, IInv, TypeOK
    <3> QED
      BY <2>1, <3>1 DEF ResolvingIsBlocked
  <2> QED
    BY <1>2, <2>2, <2>3 DEF ResolverNext
<1>3. ASSUME NEW remotes, RetryFailed(remotes) PROVE ResolvingIsBlocked'
  <2>1. /\ \A q \in ops' : q \in ops \/ \E o \in ops : o.status = "failed" /\ q.id = o.id
        /\ UNCHANGED <<plans, resolving>>
    BY <1>3, RetryRows
  <2> QED
    BY <2>1 DEF ResolvingIsBlocked
<1>4. CASE UNCHANGED vars
  BY <1>4 DEF vars, ResolvingIsBlocked
<1> QED
  BY <1>1, <1>2, <1>3, <1>4 DEF Next

\* No step turns a listed download into an upload, and no row is listed twice.
LEMMA NextNoneTwice ==
  ASSUME IInv, ResolverInv, BatchFits, [Next]_vars
  PROVE  DownloadsAreDownloads' /\ NoneTwice'
<1> USE DEF ResolverInv
<1>1. ASSUME NEW a \in Agent, AgentNext(a) PROVE DownloadsAreDownloads' /\ NoneTwice'
  <2>1. ASSUME NEW local \in Manifests, NEW remote \in Manifests, NEW mode \in FolderMode,
               Enqueue(a, local, remote, mode)
        PROVE  DownloadsAreDownloads' /\ NoneTwice'
    <3>1. /\ UNCHANGED <<pc, downloads, uploads>>
          /\ \A q \in ops' \ ops : q.id[1] = plans + 1
      BY <2>1, EnqueueRows
    <3>2. \A b \in Agent : \A id \in downloads[b] : id[1] # plans + 1
      BY ListedNotBlocked
    <3> QED
      BY <3>1, <3>2 DEF DownloadsAreDownloads, NoneTwice
  <2>2. CASE ListDownloads(a)
    <3> DEFINE ids == Ids(list_pending_operations(ops, peer[a], "DownloadFromRemote", Limit))
    <3>1. \A o \in ops : o.id \in ids => o.kind = "DownloadFromRemote"
      <4>1. \A id \in ids : \E o \in ops : o.id = id /\ o.kind = "DownloadFromRemote"
        BY DEF Ids, list_pending_operations, FirstN
      <4> HIDE DEF ids
      <4> QED
        BY <4>1 DEF IInv, TableInv, IdsUnique
    <3>2. /\ downloads' = [downloads EXCEPT ![a] = ids] /\ pc' = [pc EXCEPT ![a] = "list_uploads"]
          /\ UNCHANGED <<ops, uploads>> /\ pc[a] = "idle"
      BY <2>2 DEF ListDownloads
    <3> HIDE DEF ids
    <3>3. uploads[a] = {}
      BY <3>2 DEF BatchFits
    <3> QED
      BY <3>1, <3>2, <3>3 DEF DownloadsAreDownloads, NoneTwice, IInv, TypeOK
  <2>3. CASE ListUploads(a)
    <3> DEFINE ids == Ids(list_pending_operations(ops, peer[a], "UploadToRemote", remaining_limit(a)))
    <3>1. \A id \in ids : \E o \in ops : o.id = id /\ o.kind = "UploadToRemote"
      BY DEF Ids, list_pending_operations, FirstN
    <3>2. /\ uploads' = [uploads EXCEPT ![a] = ids] /\ pc' = [pc EXCEPT ![a] = "run"]
          /\ UNCHANGED <<ops, downloads>> /\ pc[a] = "list_uploads"
      BY <2>3 DEF ListUploads
    <3> HIDE DEF ids
    <3>3. downloads[a] \cap ids = {}
      BY <3>1, <3>2 DEF DownloadsAreDownloads
    <3> QED
      BY <3>2, <3>3 DEF DownloadsAreDownloads, NoneTwice, IInv, TypeOK
  <2>4. ASSUME NEW id \in downloads[a] \cup uploads[a],
               StartNext(a, id) \/ TransferDone(a, id) \/ TransferFailed(a, id)
        PROVE  DownloadsAreDownloads' /\ NoneTwice'
    <3>1. \A q \in ops' : \E o \in ops : q.id = o.id /\ q.kind = o.kind
      BY <2>4, MarkRows
    <3>2. \A b \in Agent : /\ downloads'[b] \subseteq downloads[b] /\ uploads'[b] \subseteq uploads[b]
                           /\ pc'[b] = "list_uploads" => pc[b] = "list_uploads"
      BY <2>4 DEF StartNext, TransferDone, TransferFailed, Advance, IInv, TypeOK
    <3> QED
      BY <3>1, <3>2 DEF DownloadsAreDownloads, NoneTwice
  <2>5. CASE Crash(a) \/ \E r \in Device : RunEnds(a, r)
    <3>1. \A b \in Agent : /\ downloads'[b] \subseteq downloads[b] /\ uploads'[b] \subseteq uploads[b]
                           /\ pc'[b] = "list_uploads" => pc[b] = "list_uploads"
      BY <2>5 DEF RunEnds, Crash, IInv, TypeOK
    <3> QED
      BY <2>5, <3>1 DEF DownloadsAreDownloads, NoneTwice, RunEnds, Crash
  <2> QED
    BY <1>1, <2>1, <2>2, <2>3, <2>4, <2>5 DEF AgentNext
<1>2. ASSUME NEW u \in Resolver, ResolverNext(u) PROVE DownloadsAreDownloads' /\ NoneTwice'
  <2>1. CASE ResolveWrite(u)
    <3>1. /\ \A q \in ops' : q \in ops \/ \E o \in ops : o.id = resolving[u][1] /\ q.id = o.id
          /\ UNCHANGED <<pc, downloads, uploads>>
      BY <2>1, ResolveRows
    <3>2. \A o \in ops : o.id = resolving[u][1] => o.status = "blocked"
      BY <2>1 DEF ResolveWrite, ResolvingIsBlocked
    <3>3. \A b \in Agent : \A id \in downloads[b] : \A o \in ops : o.id = id => o.status # "blocked"
      BY ListedNotBlocked
    <3> QED
      BY <3>1, <3>2, <3>3 DEF DownloadsAreDownloads, NoneTwice
  <2>2. ASSUME UNCHANGED <<ops, pc, downloads, uploads>> PROVE DownloadsAreDownloads' /\ NoneTwice'
    BY <2>2 DEF DownloadsAreDownloads, NoneTwice
  <2> QED
    BY <1>2, <2>1, <2>2 DEF ResolverNext, ResolveRead, ResolveCrash, agentVars
<1>3. ASSUME NEW remotes, RetryFailed(remotes) PROVE DownloadsAreDownloads' /\ NoneTwice'
  <2>1. /\ \A q \in ops' : \E o \in ops : q.id = o.id /\ q.kind = o.kind
        /\ UNCHANGED <<pc, downloads, uploads>>
    BY <1>3, RetryRows
  <2> QED
    BY <2>1 DEF DownloadsAreDownloads, NoneTwice
<1>4. CASE UNCHANGED vars
  BY <1>4 DEF vars, DownloadsAreDownloads, NoneTwice
<1> QED
  BY <1>1, <1>2, <1>3, <1>4 DEF Next

\* With one resolver its invariant holds, for any number of agents.
LEMMA ResolverInvariant == OneResolver => (Spec => []ResolverInv)
<1> SUFFICES ASSUME OneResolver PROVE Spec => []ResolverInv
  OBVIOUS
<1>1. Init => ResolverInv
  BY DEF Init, ResolverInv, ResolvingIsBlocked, DownloadsAreDownloads, NoneTwice
<1>2. IInv /\ BatchFits /\ ResolverInv /\ [Next]_vars => ResolverInv'
  BY NextResolving, NextNoneTwice DEF ResolverInv
<1> QED
  BY <1>1, <1>2, InductiveInvariant, BatchesFit, PTL DEF Spec

\* One run of the queue takes at most --limit operations and none of them
\* twice, for any number of agents, while no two resolve-blocked commands
\* overlap: two of them could turn a download an agent has listed into an
\* upload that it lists again.
THEOREM BatchesWithinLimit == OneResolver => (Spec => []BatchWithinLimit)
<1> SUFFICES ASSUME OneResolver PROVE Spec => []BatchWithinLimit
  OBVIOUS
<1>1. BatchFits /\ ResolverInv => BatchWithinLimit
  BY DEF BatchFits, ResolverInv, NoneTwice, BatchWithinLimit
<1> QED
  BY <1>1, BatchesFit, ResolverInvariant, PTL

-----------------------------------------------------------------------------
(* One agent and one resolver *)

\* The hypothesis: no two commands at once that run the queue.
OneAgent == \A a, b \in Agent : a = b

\* What the agent listed waits until it is executed, and the row of a transfer
\* under way has its start time.
ListedArePending ==
  \A a \in Agent : \A o \in ops :
    o.id \in downloads[a] \cup uploads[a] =>
      /\ o.status = "pending"
      /\ pc[a] = "transfer" /\ IsCurrent(a, o.id) => o.started_at

AgentInv == ListedArePending /\ OutcomeRecorded

\* The two for loops are at one operation at a time.
LEMMA CurrentIsOne ==
  ASSUME IInv, NEW a \in Agent, NEW i, NEW j, IsCurrent(a, i), IsCurrent(a, j)
  PROVE  i = j /\ i \in downloads[a] \cup uploads[a]
<1>1. PICK ids \in {downloads[a], uploads[a]} : IsFirst(i, ids) /\ IsFirst(j, ids)
  BY DEF IsCurrent
<1>2. ids \subseteq OperationId
  BY DEF IInv, TypeOK
<1>3. i \in ids /\ j \in ids /\ (i # j => Before(i, j) /\ Before(j, i))
  BY <1>1 DEF IsFirst
<1>4. i = j
  BY <1>2, <1>3, IdsOrdered
<1> QED
  BY <1>3, <1>4

\* Executing an operation writes one row, which was pending before.
LEMMA MarkOutcome ==
  ASSUME OneAgent, IInv, AgentInv, NEW a \in Agent, NEW id \in downloads[a] \cup uploads[a],
         StartNext(a, id) \/ TransferDone(a, id) \/ TransferFailed(a, id)
  PROVE  AgentInv'
<1>0. \A b \in Agent : b = a
  BY DEF OneAgent
<1>1. \A o \in ops : o.id = id => o.status = "pending"
  BY DEF AgentInv, ListedArePending
<1>2. CASE StartNext(a, id)
  <2>1. \A q \in ops' : (q \in ops /\ q.id # id) \/
          /\ q.id = id /\ q.status = "pending"
          /\ ~q.last_error /\ q.started_at /\ ~q.finished_at
    <3>1. ~TransferDone(a, id) /\ ~TransferFailed(a, id)
      BY <1>2 DEF StartNext, TransferDone, TransferFailed
    <3> QED
      BY <1>1, <1>2, <3>1, MarkRows
  <2>2. OutcomeRecorded'
    BY <2>1 DEF AgentInv, OutcomeRecorded
  <2>3. /\ UNCHANGED <<downloads, uploads>> /\ pc'[a] = "transfer" /\ IsCurrent(a, id)
        /\ \A i : IsCurrent(a, i)' <=> IsCurrent(a, i)
    BY <1>2 DEF StartNext, IInv, TypeOK, IsCurrent
  <2>4. \A i : IsCurrent(a, i) => i = id
    BY <2>3, CurrentIsOne
  <2>5. ListedArePending'
    BY <1>0, <2>1, <2>3, <2>4 DEF AgentInv, ListedArePending
  <2> QED
    BY <2>2, <2>5 DEF AgentInv
<1>3. CASE TransferDone(a, id) \/ TransferFailed(a, id)
  <2>1. pc[a] = "transfer" /\ IsCurrent(a, id)
    BY <1>3 DEF TransferDone, TransferFailed
  <2>2. ~StartNext(a, id)
    BY <2>1 DEF StartNext
  <2>3. \A o \in ops : o.id = id => o.started_at
    BY <2>1 DEF AgentInv, ListedArePending
  <2>4. \A q \in ops' : (q \in ops /\ q.id # id) \/
          /\ q.id = id /\ q.started_at /\ q.finished_at
          /\ \/ q.status = "done" /\ ~q.last_error
             \/ q.status = "failed" /\ q.last_error
    BY <1>3, <2>2, <2>3, MarkRows
  <2>5. OutcomeRecorded'
    BY <2>4 DEF AgentInv, OutcomeRecorded
  <2>6. /\ pc'[a] = "run"
        /\ downloads'[a] = downloads[a] \ {id} /\ uploads'[a] = uploads[a] \ {id}
    BY <1>3 DEF TransferDone, TransferFailed, Advance, IInv, TypeOK
  <2>7. ListedArePending'
    BY <1>0, <2>4, <2>6 DEF AgentInv, ListedArePending
  <2> QED
    BY <2>5, <2>7 DEF AgentInv
<1> QED
  BY <1>2, <1>3

\* With one agent and one resolver every step keeps the outcomes right.
LEMMA NextOutcome ==
  ASSUME OneAgent, IInv, BatchFits, ResolverInv, AgentInv, [Next]_vars
  PROVE  AgentInv'
<1>1. ASSUME NEW a \in Agent, AgentNext(a) PROVE AgentInv'
  <2>0. \A b \in Agent : b = a
    BY DEF OneAgent
  <2>1. ASSUME NEW local \in Manifests, NEW remote \in Manifests, NEW mode \in FolderMode,
               Enqueue(a, local, remote, mode)
        PROVE  AgentInv'
    <3>1. /\ UNCHANGED <<pc, downloads, uploads>> /\ pc[a] = "idle"
          /\ \A q \in ops' \ ops : q.status \in {"pending", "blocked"} /\ NoOutcome(q)
      BY <2>1, EnqueueRows
    <3>2. downloads[a] = {} /\ uploads[a] = {}
      BY <3>1 DEF BatchFits
    <3>3. OutcomeRecorded'
      BY <3>1 DEF AgentInv, OutcomeRecorded, NoOutcome
    <3>4. ListedArePending'
      BY <2>0, <3>1, <3>2 DEF ListedArePending
    <3> QED
      BY <3>3, <3>4 DEF AgentInv
  <2>2. CASE ListDownloads(a) \/ ListUploads(a)
    <3>1. /\ UNCHANGED ops /\ pc'[a] # "transfer"
          /\ \A id \in (downloads[a] \cup uploads[a])' :
               \/ id \in downloads[a] \cup uploads[a]
               \/ \E o \in ops : o.id = id /\ o.status = "pending"
      <4>1. \A kind, limit : \A id \in Ids(list_pending_operations(ops, peer[a], kind, limit)) :
              \E o \in ops : o.id = id /\ o.status = "pending"
        BY DEF Ids, list_pending_operations, FirstN
      <4>2. CASE ListDownloads(a)
        BY <4>1, <4>2 DEF ListDownloads, IInv, TypeOK
      <4>3. CASE ListUploads(a)
        BY <4>1, <4>3 DEF ListUploads, IInv, TypeOK
      <4> QED
        BY <2>2, <4>2, <4>3
    <3>2. ListedArePending'
      BY <2>0, <3>1 DEF AgentInv, ListedArePending, IInv, TableInv, IdsUnique
    <3> QED
      BY <3>1, <3>2 DEF AgentInv, OutcomeRecorded
  <2>3. ASSUME NEW id \in downloads[a] \cup uploads[a],
               StartNext(a, id) \/ TransferDone(a, id) \/ TransferFailed(a, id)
        PROVE  AgentInv'
    BY <2>3, MarkOutcome
  <2>4. CASE Crash(a) \/ \E r \in Device : RunEnds(a, r)
    <3>1. /\ UNCHANGED ops /\ pc'[a] # "transfer"
          /\ (downloads[a] \cup uploads[a])' \subseteq downloads[a] \cup uploads[a]
      BY <2>4 DEF Crash, RunEnds, IInv, TypeOK
    <3> QED
      BY <2>0, <3>1 DEF AgentInv, ListedArePending, OutcomeRecorded
  <2> QED
    BY <1>1, <2>1, <2>2, <2>3, <2>4 DEF AgentNext
<1>2. ASSUME NEW u \in Resolver, ResolverNext(u) PROVE AgentInv'
  <2>1. CASE ResolveWrite(u)
    <3>1. /\ \A q \in ops' : q \in ops \/ \E o \in ops :
               /\ o.id = resolving[u][1] /\ q.id = o.id
               /\ q.status = "pending" /\ NoOutcome(q)
          /\ UNCHANGED <<pc, downloads, uploads>>
      BY <2>1, ResolveRows
    <3>2. \A o \in ops : o.id = resolving[u][1] => o.status = "blocked"
      BY <2>1 DEF ResolveWrite, ResolverInv, ResolvingIsBlocked
    <3>3. OutcomeRecorded'
      BY <3>1 DEF AgentInv, OutcomeRecorded, NoOutcome
    <3>4. ListedArePending'
      BY <3>1, <3>2 DEF AgentInv, ListedArePending, IsCurrent
    <3> QED
      BY <3>3, <3>4 DEF AgentInv
  <2>2. ASSUME UNCHANGED <<ops, pc, downloads, uploads>> PROVE AgentInv'
    BY <2>2 DEF AgentInv, ListedArePending, OutcomeRecorded, IsCurrent
  <2> QED
    BY <1>2, <2>1, <2>2 DEF ResolverNext, ResolveRead, ResolveCrash, agentVars
<1>3. ASSUME NEW remotes, RetryFailed(remotes) PROVE AgentInv'
  <2>1. /\ \A q \in ops' : q \in ops \/ \E o \in ops :
             /\ o.status = "failed" /\ q.id = o.id
             /\ q.status = "pending" /\ NoOutcome(q)
        /\ UNCHANGED <<pc, downloads, uploads>>
    BY <1>3, RetryRows
  <2>2. OutcomeRecorded'
    BY <2>1 DEF AgentInv, OutcomeRecorded, NoOutcome
  <2>3. ListedArePending'
    BY <2>1 DEF AgentInv, ListedArePending, IsCurrent
  <2> QED
    BY <2>2, <2>3 DEF AgentInv
<1>4. CASE UNCHANGED vars
  BY <1>4 DEF vars, AgentInv, ListedArePending, OutcomeRecorded, IsCurrent
<1> QED
  BY <1>1, <1>2, <1>3, <1>4 DEF Next

\* With one agent and one resolver the invariant of the outcomes holds.
LEMMA AgentInvariant == OneAgent /\ OneResolver => (Spec => []AgentInv)
<1> SUFFICES ASSUME OneAgent, OneResolver PROVE Spec => []AgentInv
  OBVIOUS
<1>1. Init => AgentInv
  BY DEF Init, AgentInv, ListedArePending, OutcomeRecorded
<1>2. IInv /\ BatchFits /\ ResolverInv /\ AgentInv /\ [Next]_vars => AgentInv'
  BY NextOutcome
<1> QED
  BY <1>1, <1>2, InductiveInvariant, BatchesFit, ResolverInvariant, PTL DEF Spec

\* A row tells how its last execution ended, while at most one command runs
\* the queue and at most one resolves; retry-failed may run at any time.
THEOREM OutcomesRecorded == OneAgent /\ OneResolver => (Spec => []OutcomeRecorded)
<1> SUFFICES ASSUME OneAgent, OneResolver PROVE Spec => []OutcomeRecorded
  OBVIOUS
<1>1. AgentInv => OutcomeRecorded
  BY DEF AgentInv
<1> QED
  BY <1>1, AgentInvariant, PTL

\* A finished row stays as it is in every step of one agent and one resolver:
\* plans, retries and resolutions skip it, and what an agent executes is
\* pending.
LEMMA NextKeepsDone ==
  ASSUME IInv, ResolverInv, AgentInv, [Next]_vars
  PROVE  \A o \in ops : o.status = "done" => o \in ops'
<1> SUFFICES ASSUME NEW o \in ops, o.status = "done" PROVE o \in ops'
  OBVIOUS
<1>1. ASSUME NEW a \in Agent, AgentNext(a) PROVE o \in ops'
  <2>1. ASSUME NEW local \in Manifests, NEW remote \in Manifests, NEW mode \in FolderMode,
               Enqueue(a, local, remote, mode)
        PROVE  o \in ops'
    BY <2>1, EnqueueRows
  <2>2. ASSUME NEW id \in downloads[a] \cup uploads[a],
               StartNext(a, id) \/ TransferDone(a, id) \/ TransferFailed(a, id)
        PROVE  o \in ops'
    <3>1. o.id # id
      BY DEF AgentInv, ListedArePending
    <3> QED
      BY <2>2, <3>1, MarkRows
  <2> QED
    BY <1>1, <2>1, <2>2 DEF AgentNext, ListDownloads, ListUploads, RunEnds, Crash
<1>2. ASSUME NEW u \in Resolver, ResolverNext(u) PROVE o \in ops'
  <2>1. CASE ResolveWrite(u)
    <3>1. o.id # resolving[u][1]
      BY <2>1 DEF ResolveWrite, ResolverInv, ResolvingIsBlocked
    <3> QED
      BY <2>1, <3>1, ResolveRows
  <2> QED
    BY <1>2, <2>1 DEF ResolverNext, ResolveRead, ResolveCrash
<1>3. ASSUME NEW remotes, RetryFailed(remotes) PROVE o \in ops'
  BY <1>3, RetryRows
<1>4. CASE UNCHANGED vars
  BY <1>4 DEF vars
<1> QED
  BY <1>1, <1>2, <1>3, <1>4 DEF Next

\* A finished transfer stays finished, while at most one command runs the
\* queue and at most one resolves.  With two agents it does not: run
\* sync_queue_no_lock shows one reopening what the other finished.
THEOREM FinishedStaysFinished == OneAgent /\ OneResolver => (Spec => DoneIsFinal)
<1> SUFFICES ASSUME OneAgent, OneResolver PROVE Spec => DoneIsFinal
  OBVIOUS
<1>1. IInv /\ ResolverInv /\ AgentInv /\ [Next]_vars =>
        [\A o \in ops : o.status = "done" => \E q \in ops' : q.id = o.id /\ q.status = "done"]_vars
  BY NextKeepsDone
<1> QED
  BY <1>1, InductiveInvariant, ResolverInvariant, AgentInvariant, PTL DEF Spec, DoneIsFinal

=============================================================================
