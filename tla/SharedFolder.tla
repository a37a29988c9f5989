---------------------------- MODULE SharedFolder ----------------------------
(***************************************************************************)
(* What Syncer promises the user of a shared folder, whatever the agents,  *)
(* the server tasks, the queues and the faults do: the files change by the *)
(* user's hand, or by a version of a file being delivered to a place that  *)
(* is free, or by a version disappearing that the user has given up.       *)
(* SyncCycle implements this specification.                                *)
(***************************************************************************)
EXTENDS Naturals

CONSTANTS Device, Path, Content, NoFile

VARIABLES
  disk,      \* disk[d][p]: the version of file p on device d, or NoFile
  givenUp,   \* <<d, p, c>>: the user has given up version c of p on d
  versions,  \* <<p, c>>: c is or was a version of p that the user made
  edits      \* how often the user has changed a file

folderVars == <<disk, givenUp, versions, edits>>

Init ==
  /\ disk \in [Device -> [Path -> Content \cup {NoFile}]]
  /\ givenUp = {}
  /\ versions = {v \in Path \X Content : \E d \in Device : disk[d][v[1]] = v[2]}
  /\ edits = 0

\* The user writes or removes a file, and may give up versions by doing so.
UserEdits(d, p) ==
  /\ edits' = edits + 1
  /\ \E version \in Content \cup {NoFile} :
       /\ disk' = [disk EXCEPT ![d][p] = version]
       /\ versions' = IF version = NoFile THEN versions ELSE versions \cup {<<p, version>>}
  /\ givenUp \subseteq givenUp'

\* The user gives up a version by a decision alone.
UserGivesUp ==
  /\ givenUp \subseteq givenUp'
  /\ UNCHANGED <<disk, versions, edits>>

\* The place is empty, or holds a version that may go.
Free(d, p) == disk[d][p] = NoFile \/ <<d, p, disk[d][p]>> \in givenUp

\* A version of the file arrives at a free place.
Deliver(d, p) ==
  /\ Free(d, p)
  /\ \E c \in Content : <<p, c>> \in versions /\ disk' = [disk EXCEPT ![d][p] = c]
  /\ UNCHANGED <<givenUp, versions, edits>>

\* A version that the user has given up disappears.
Discard(d, p) ==
  /\ Free(d, p)
  /\ disk' = [disk EXCEPT ![d][p] = NoFile]
  /\ UNCHANGED <<givenUp, versions, edits>>

Next ==
  \/ UserGivesUp
  \/ \E d \in Device, p \in Path : UserEdits(d, p) \/ Deliver(d, p) \/ Discard(d, p)

Spec == Init /\ [][Next]_folderVars
=============================================================================
