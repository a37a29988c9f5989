----------------------------- MODULE Documents -----------------------------
(***************************************************************************)
(* The JSON documents that commands read, change and write back without a  *)
(* lock: peers.json of the agent (accept-peer), folder.json of a shared    *)
(* folder (init-folder) and state.json of the desktop app (add folder,     *)
(* which runs init-folder before it writes its own document).              *)
(*                                                                         *)
(* The steps are the system calls.  peers.json and folder.json are written *)
(* to a temporary file, whose name all writers share, and renamed;         *)
(* state.json is written in place.  A process that has a file open keeps   *)
(* writing to that file wherever a rename has taken it.                    *)
(*                                                                         *)
(* A command that is refused before it writes (an expired ticket, a        *)
(* document that does not parse, a folder without a name, with a bad mode  *)
(* or already configured) changes nothing and is no step.                  *)
(***************************************************************************)
EXTENDS Naturals

CONSTANTS
  Process,      \* agents and app instances, one command at a time each
  Device,       \* the devices whose tickets are accepted
  Secret,       \* shared secrets of tickets
  Folder,       \* paths of shared folders
  Limit,        \* max_bytes of a folder
  MaxCommands,  \* bound: commands that are begun
  Absent,       \* no file at this name
  Empty,        \* a file just truncated
  Torn          \* a file that holds no parsable document

ASSUME LimitAssumption == Limit \subseteq Nat
ASSUME BoundAssumption == MaxCommands \in Nat
ASSUME NameAssumption == {"peers.json", "state.json"} \cap Folder = {}

\* A folder stands for the name of its own folder.json.
Doc == {"peers.json", "state.json"} \cup Folder

\* What a document lists: peers with their secrets, folders with their limits.
Entry == (Device \X Secret) \cup (Folder \X Limit)
Content == (SUBSET Entry) \cup {Absent, Empty, Torn}

ASSUME ContentAssumption ==
  /\ \A text \in SUBSET Entry : text \notin {Absent, Empty, Torn}
  /\ Absent # Empty /\ Absent # Torn /\ Empty # Torn

VARIABLES
  target,    \* target[d]: what is at the document's name
  temp,      \* temp[d]: what is at the name of its temporary file
  run,       \* run[p]: the command process p executes
  database,  \* folders whose state database exists
  expired,   \* tickets whose time is over
  commands,  \* commands begun so far
  kept,      \* history: <<d, e>>: entry e of d acknowledged, not changed since
  inits,     \* history: inits[f] counts the init-folder commands for f
  damaged    \* history: documents with overlapping writers, or a write in
             \* place cut short

vars == <<target, temp, run, database, expired, commands, kept, inits, damaged>>

Idle == [cmd |-> "none", pc |-> "idle", doc |-> "peers.json", entry |-> <<Absent, Absent>>,
         text |-> {}, fd |-> "closed", met |-> {}]

Command ==
  [cmd : {"none", "accept-peer", "init-folder", "add-folder"},
   pc : {"idle", "init", "modify", "create", "write", "rename", "open", "end"},
   doc : Doc, entry : Entry \cup {Idle.entry}, text : SUBSET Entry,
   fd : {"closed", "temp", "target", "unlinked"}, met : SUBSET Doc]

Init ==
  /\ target = [d \in Doc |-> Absent]
  /\ temp = [d \in Doc |-> Absent]
  /\ run = [p \in Process |-> Idle]
  /\ database = {}
  /\ expired = {}
  /\ commands = 0
  /\ kept = {}
  /\ inits = [f \in Folder |-> 0]
  /\ damaged = {}

-----------------------------------------------------------------------------
Key(entry) == entry[1]
Value(entry) == entry[2]

\* The documents a command reads and writes.
Uses(r) ==
  CASE r.cmd = "none" -> {}
    [] r.cmd = "accept-peer" -> {"peers.json"}
    [] r.cmd = "init-folder" -> {Key(r.entry)}
    [] r.cmd = "add-folder" -> {"state.json", Key(r.entry)}

\* What a reader takes for a document.
Readable(content) == content \notin {Empty, Torn}

\* Mutant of Loads: what does not parse counts as a new document.
LoadsOrResets(content) == TRUE

\* read_or_default and load_state fail on a file that does not parse.
Loads(content) == Readable(content)

\* The entries of a document; one that does not exist yet has none.
Parsed(content) == IF content \in {Absent, Empty, Torn} THEN {} ELSE content

\* Process p begins command r; the commands that are under way on the same
\* documents and r have met.
Begin(p, r) ==
  LET Met(q) == IF q = p THEN {} ELSE Uses(run[q]) \cap Uses(r)
  IN /\ run[p] = Idle
     /\ commands < MaxCommands
     /\ commands' = commands + 1
     /\ run' = [q \in Process |->
                 IF q = p THEN [r EXCEPT !.met = UNION {Met(o) : o \in Process}]
                 ELSE [run[q] EXCEPT !.met = @ \cup Met(q)]]
     /\ damaged' = damaged \cup UNION {Met(q) : q \in Process}
     /\ kept' = {k \in kept : ~(k[1] \in Uses(r) /\ Key(k[2]) = Key(r.entry))}

\* A ticket is refused once its time is over.
validate(ticket) == ticket \notin expired

\* accept_peer: reads the ticket, then peers.json or the default document.
AcceptPeer(p, ticket) ==
  /\ validate(ticket)
  /\ Loads(target["peers.json"])
  /\ Begin(p, [Idle EXCEPT !.cmd = "accept-peer", !.pc = "modify", !.entry = ticket,
                           !.text = Parsed(target["peers.json"])])
  /\ UNCHANGED <<target, temp, database, expired, inits>>

\* init_folder of the agent; it does not look for an existing folder.json.
InitFolder(p, f, limit) ==
  /\ Begin(p, [Idle EXCEPT !.cmd = "init-folder", !.pc = "init", !.doc = f,
                           !.entry = <<f, limit>>])
  /\ inits' = [inits EXCEPT ![f] = @ + 1]
  /\ UNCHANGED <<target, temp, database, expired>>

\* create_folder_config refuses a folder that the app already lists.
NotConfigured(f) == \A e \in Parsed(target["state.json"]) : Key(e) # f

\* syncer_add_folder: load_state, create_folder_config, then the agent's
\* init-folder.
AddFolder(p, f, limit) ==
  /\ Loads(target["state.json"])
  /\ NotConfigured(f)
  /\ Begin(p, [Idle EXCEPT !.cmd = "add-folder", !.pc = "init", !.doc = f,
                           !.entry = <<f, limit>>,
                           !.text = Parsed(target["state.json"]) \cup {<<f, limit>>}])
  /\ inits' = [inits EXCEPT ![f] = @ + 1]
  /\ UNCHANGED <<target, temp, database, expired>>

-----------------------------------------------------------------------------
\* Mutant of Accepted: adds the peer without looking for the device.
Pushed(text, ticket) == text \cup {ticket}

\* accept_ticket replaces the entry of the device or adds one.
Accepted(text, ticket) == {e \in text : Key(e) # Key(ticket)} \cup {ticket}

\* accept_ticket validates the ticket a second time.
AcceptTicket(p) ==
  /\ run[p].pc = "modify"
  /\ run' = [run EXCEPT ![p] =
              IF validate(run[p].entry)
              THEN [@ EXCEPT !.pc = "create", !.text = Accepted(run[p].text, run[p].entry)]
              ELSE Idle]
  /\ UNCHANGED <<target, temp, database, expired, commands, kept, inits, damaged>>

\* Mutant of CheckLimit: the app does not look at the exit status of init-folder.
StatusIgnored(p) ==
  /\ run[p].pc = "init"
  /\ run' = [run EXCEPT ![p] =
              IF Value(run[p].entry) # 0 THEN [@ EXCEPT !.pc = "create"]
              ELSE IF run[p].cmd = "add-folder" THEN [@ EXCEPT !.pc = "create", !.doc = "state.json"]
              ELSE Idle]
  /\ UNCHANGED <<target, temp, database, expired, commands, kept, inits, damaged>>

\* FolderSizeLimit::new refuses a limit of zero: init-folder fails, and with it
\* the app's command.
CheckLimit(p) ==
  /\ run[p].pc = "init"
  /\ run' = [run EXCEPT ![p] = IF Value(run[p].entry) = 0 THEN Idle ELSE [@ EXCEPT !.pc = "create"]]
  /\ UNCHANGED <<target, temp, database, expired, commands, kept, inits, damaged>>

\* What the process writes: folder.json is made from the arguments alone.
Bytes(r) == IF r.doc \in Folder THEN {r.entry} ELSE r.text

\* Mutant of InPlace: the temporary file and the rename are left out.
AlwaysInPlace(doc) == TRUE

InPlace(doc) == doc = "state.json"

\* fs::write opens the file and truncates it.
Create(p) ==
  /\ run[p].pc = "create"
  /\ LET d == run[p].doc
     IN \/ /\ InPlace(d)
           /\ target' = [target EXCEPT ![d] = Empty]
           /\ run' = [run EXCEPT ![p].pc = "write", ![p].fd = "target"]
           /\ UNCHANGED temp
        \/ /\ ~InPlace(d)
           /\ temp' = [temp EXCEPT ![d] = Empty]
           /\ run' = [run EXCEPT ![p].pc = "write", ![p].fd = "temp"]
           /\ UNCHANGED target
  /\ UNCHANGED <<database, expired, commands, kept, inits, damaged>>

\* The file p has open, wherever it is by now, holds content.
Store(p, content) ==
  LET d == run[p].doc
  IN /\ target' = IF run[p].fd = "target" THEN [target EXCEPT ![d] = content] ELSE target
     /\ temp' = IF run[p].fd = "temp" THEN [temp EXCEPT ![d] = content] ELSE temp

OpenFile(p) == IF run[p].fd = "target" THEN target[run[p].doc] ELSE temp[run[p].doc]

\* write_all: over what another process has written, the longer text shows
\* through.
Write(p) ==
  /\ run[p].pc = "write"
  /\ \/ Store(p, Bytes(run[p]))
     \/ run[p].fd # "unlinked" /\ OpenFile(p) # Empty /\ Store(p, Torn)
  /\ run' = [run EXCEPT ![p].fd = "closed",
                        ![p].pc = IF InPlace(run[p].doc) THEN "end" ELSE "rename"]
  /\ UNCHANGED <<database, expired, commands, kept, inits, damaged>>

\* Mutant of AfterRename: every document is taken for a folder.json.
AlwaysOpens(doc) == "open"

AfterRename(doc) == IF doc \in Folder THEN "open" ELSE "end"

\* The rename takes the temporary file, whoever wrote it last, and fails when
\* another process has taken it.
Rename(p) ==
  LET d == run[p].doc
      Moved(fd) == IF fd = "temp" THEN "target" ELSE IF fd = "target" THEN "unlinked" ELSE fd
  IN /\ run[p].pc = "rename"
     /\ \/ /\ temp[d] = Absent
           /\ run' = [run EXCEPT ![p] = Idle]
           /\ UNCHANGED <<target, temp>>
        \/ /\ temp[d] # Absent
           /\ target' = [target EXCEPT ![d] = temp[d]]
           /\ temp' = [temp EXCEPT ![d] = Absent]
           /\ run' = [q \in Process |->
                       IF q = p THEN [run[p] EXCEPT !.pc = AfterRename(d)]
                       ELSE IF run[q].doc = d THEN [run[q] EXCEPT !.fd = Moved(@)]
                       ELSE run[q]]
     /\ UNCHANGED <<database, expired, commands, kept, inits, damaged>>

\* init-folder opens the state database; the app then writes its own document.
OpenDatabase(p) ==
  /\ run[p].pc = "open"
  /\ database' = database \cup {run[p].doc}
  /\ run' = [run EXCEPT ![p] =
              IF @.cmd = "add-folder" THEN [@ EXCEPT !.pc = "create", !.doc = "state.json"]
              ELSE [@ EXCEPT !.pc = "end"]]
  /\ UNCHANGED <<target, temp, expired, commands, kept, inits, damaged>>

\* The command reports success; what no other command met is acknowledged.
End(p) ==
  /\ run[p].pc = "end"
  /\ run' = [run EXCEPT ![p] = Idle]
  /\ kept' = kept \cup ((Uses(run[p]) \ run[p].met) \X {run[p].entry})
  /\ UNCHANGED <<target, temp, database, expired, commands, inits, damaged>>

\* The process is killed; a write under way may be left in part.
Crash(p) ==
  /\ run[p] # Idle
  /\ \/ UNCHANGED <<target, temp>>
     \/ run[p].pc = "write" /\ Store(p, Torn)
  /\ damaged' = IF run[p].pc = "write" /\ InPlace(run[p].doc)
                THEN damaged \cup {run[p].doc} ELSE damaged
  /\ run' = [run EXCEPT ![p] = Idle]
  /\ UNCHANGED <<database, expired, commands, kept, inits>>

\* The app is killed while the agent runs init-folder for it; the agent goes on.
AppStops(p) ==
  /\ run[p].cmd = "add-folder"
  /\ run[p].doc \in Folder
  /\ run' = [run EXCEPT ![p].cmd = "init-folder", ![p].text = {}, ![p].met = @ \ {"state.json"}]
  /\ UNCHANGED <<target, temp, database, expired, commands, kept, inits, damaged>>

Expire(ticket) ==
  /\ ticket \notin expired
  /\ expired' = expired \cup {ticket}
  /\ UNCHANGED <<target, temp, run, database, commands, kept, inits, damaged>>

Step(p) ==
  \/ AcceptTicket(p) \/ CheckLimit(p) \/ Create(p) \/ Write(p) \/ Rename(p)
  \/ OpenDatabase(p) \/ End(p) \/ Crash(p) \/ AppStops(p)
  \/ \E ticket \in Device \X Secret : AcceptPeer(p, ticket)
  \/ \E f \in Folder, limit \in Limit : InitFolder(p, f, limit) \/ AddFolder(p, f, limit)

Next ==
  \/ \E p \in Process : Step(p)
  \/ \E ticket \in Device \X Secret : Expire(ticket)

Spec == Init /\ [][Next]_vars

-----------------------------------------------------------------------------
(* Properties *)

TypeOK ==
  /\ target \in [Doc -> Content]
  /\ temp \in [Doc -> Content]
  /\ run \in [Process -> Command]
  /\ database \subseteq Folder
  /\ expired \subseteq Device \X Secret
  /\ commands \in 0..MaxCommands
  /\ kept \subseteq Doc \X Entry
  /\ inits \in [Folder -> 0..MaxCommands]
  /\ damaged \subseteq Doc

\* Whenever a process may be killed, the next command finds a document that
\* parses: a temporary file left behind, or half written, never gets to the
\* document's name.  Two commands that overlap on the document break this, as
\* they share the temporary name, and state.json has a moment of its own.
DocumentsReadable ==
  \A d \in Doc \ damaged :
    Readable(target[d]) \/ (d = "state.json" /\ \E p \in Process : run[p].doc = d /\ run[p].pc = "write")

\* What a command acknowledged, and no other command met, is in the document
\* ever after, through crashes and through later commands that overlap: it may
\* become unreadable, but never reads as if the entry had not been written.
AcknowledgedKept ==
  \A k \in kept : Readable(target[k[1]]) => k[2] \in Parsed(target[k[1]])

\* A device has one secret in peers.json and a folder one entry in state.json,
\* also when commands overlap: otherwise a request could be verified with the
\* secret of an earlier pairing.
OneEntryPerKey ==
  \A d \in Doc : Readable(target[d]) =>
    \A e1, e2 \in Parsed(target[d]) : Key(e1) = Key(e2) => e1 = e2

\* A folder the app lists was initialised: its database exists, and if
\* init-folder ran once only, folder.json has the limit the app shows.
ConfiguredIsInitialised ==
  Readable(target["state.json"]) =>
    \A e \in Parsed(target["state.json"]) :
      /\ Key(e) \in database
      /\ inits[Key(e)] = 1 => target[Key(e)] = {e}
=============================================================================
