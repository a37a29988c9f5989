-------------------------- MODULE DocumentsProofs --------------------------
(***************************************************************************)
(* The documents survive crashes and later commands, for any number of     *)
(* processes, devices, folders and commands.                               *)
(***************************************************************************)
EXTENDS Documents, TLAPS

\* A command's steps go with its document and its arguments.
Control(r) ==
  /\ r.cmd = "none" <=> r.pc = "idle"
  /\ r.cmd = "none" => r = Idle
  /\ r.pc # "write" => r.fd = "closed"
  /\ r.pc = "write" /\ InPlace(r.doc) => r.fd = "target"
  /\ r.cmd = "accept-peer" =>
       /\ r.doc = "peers.json" /\ r.entry \in Device \X Secret
       /\ r.pc \in {"modify", "create", "write", "rename", "end"}
       /\ r.pc # "modify" => r.entry \in r.text
  /\ r.cmd = "init-folder" =>
       /\ r.entry \in Folder \X Limit /\ r.doc = Key(r.entry)
       /\ r.pc \in {"init", "create", "write", "rename", "open", "end"}
  /\ r.cmd = "add-folder" =>
       /\ r.entry \in Folder \X Limit /\ r.entry \in r.text
       /\ \/ r.doc = Key(r.entry) /\ r.pc \in {"init", "create", "write", "rename", "open"}
          \/ r.doc = "state.json" /\ r.pc \in {"create", "write", "end"}

Controlled == \A p \in Process : Control(run[p])

\* Commands under way on one document have met, and it counts as damaged.
MeetingsKnown ==
  /\ \A p \in Process : run[p].met \subseteq damaged
  /\ \A p, q \in Process : p # q => Uses(run[p]) \cap Uses(run[q]) \subseteq run[p].met

\* A command that no other has met finds its files as it left them.
Undisturbed(p) ==
  LET r == run[p]
  IN /\ r.doc \notin r.met =>
          /\ r.pc = "write" => OpenFile(p) = Empty /\ r.fd = IF InPlace(r.doc) THEN "target" ELSE "temp"
          /\ r.pc = "rename" => temp[r.doc] = Bytes(r)
          /\ r.pc \in {"open", "end"} => target[r.doc] = Bytes(r)
     /\ r.cmd = "add-folder" /\ r.doc = "state.json" /\ Key(r.entry) \notin r.met =>
          target[Key(r.entry)] = {r.entry}

WorkKept == \A p \in Process : Undisturbed(p)

\* Every command that is under way has the acknowledged entries in what it is
\* going to write and in what it has written.
KeptByAll ==
  \A k \in kept :
    /\ k[1] \in Folder => Key(k[2]) = k[1]
    /\ \A p \in Process : k[1] \in Uses(run[p]) =>
         /\ Key(run[p].entry) # Key(k[2])
         /\ k[2] \in run[p].text
         /\ run[p].doc = k[1] /\ run[p].pc \in {"write", "rename"} /\ ~InPlace(k[1])
              => temp[k[1]] \in {Absent, Empty, Torn} \/ k[2] \in temp[k[1]]

\* An init-folder command is one of the commands.
InitsCounted == \A f \in Folder : inits[f] <= commands

IInv ==
  /\ TypeOK
  /\ Controlled
  /\ MeetingsKnown
  /\ WorkKept
  /\ DocumentsReadable
  /\ KeptByAll
  /\ AcknowledgedKept
  /\ InitsCounted

-----------------------------------------------------------------------------
(* Documents and the commands that use them *)

\* A set of entries parses, and to itself.
LEMMA TextParses ==
  ASSUME NEW text \in SUBSET Entry
  PROVE  Readable(text) /\ Parsed(text) = text /\ text # Absent /\ text # Empty
  BY ContentAssumption DEF Readable, Parsed

\* The names are different.
LEMMA Names ==
  /\ "peers.json" \in Doc /\ "state.json" \in Doc /\ Folder \subseteq Doc
  /\ "peers.json" \notin Folder /\ "state.json" \notin Folder
  BY NameAssumption DEF Doc

\* What a command uses, by its kind.
LEMMA UsesByKind ==
  ASSUME NEW r \in Command
  PROVE  /\ r.cmd = "none" => Uses(r) = {}
         /\ r.cmd = "accept-peer" => Uses(r) = {"peers.json"}
         /\ r.cmd = "init-folder" => Uses(r) = {Key(r.entry)}
         /\ r.cmd = "add-folder" => Uses(r) = {"state.json", Key(r.entry)}
  BY DEF Uses, Command

\* A command under way works on a document it uses, and writes entries.
LEMMA CommandDoc ==
  ASSUME NEW r \in Command, Control(r), r.cmd # "none"
  PROVE  /\ r.doc \in Uses(r)
         /\ Uses(r) \subseteq Doc
         /\ r.entry \in Entry
         /\ Bytes(r) \in SUBSET Entry
  <1>1. CASE r.cmd = "accept-peer"
    BY <1>1, UsesByKind, Names DEF Control, Command, Bytes, Entry
  <1>2. CASE r.cmd = "init-folder"
    BY <1>2, UsesByKind, Names DEF Control, Command, Bytes, Entry, Key
  <1>3. CASE r.cmd = "add-folder"
    BY <1>3, UsesByKind, Names DEF Control, Command, Bytes, Entry, Key
  <1> QED
    BY <1>1, <1>2, <1>3 DEF Command

\* Of an entry that was acknowledged, no command writes a document without it.
LEMMA KeptInBytes ==
  ASSUME IInv, NEW k \in kept, NEW p \in Process, run[p].cmd # "none", run[p].doc = k[1]
  PROVE  k[2] \in Bytes(run[p])
  <1>1. run[p] \in Command /\ Control(run[p])
    BY DEF IInv, TypeOK, Controlled
  <1>2. k[1] \in Uses(run[p])
    BY <1>1, CommandDoc
  <1>3. /\ k[1] \in Folder => Key(k[2]) = k[1]
        /\ Key(run[p].entry) # Key(k[2])
        /\ k[2] \in run[p].text
    BY <1>2 DEF IInv, KeptByAll
  <1>4. k[1] \in Folder => Key(run[p].entry) = k[1]
    BY <1>1, <1>2, UsesByKind, Names DEF Command
  <1> QED
    BY <1>3, <1>4 DEF Bytes

\* A command that no other has met on d is the only one that uses it.
LEMMA OnlyUser ==
  ASSUME IInv, NEW p \in Process, NEW q \in Process, p # q, NEW d,
         d \in Uses(run[p]), d \in Uses(run[q])
  PROVE  d \in run[p].met /\ d \in run[q].met /\ d \in damaged
  BY DEF IInv, MeetingsKnown

\* A process without a command.
LEMMA IdleCommand ==
  /\ Idle \in Command /\ Control(Idle) /\ Uses(Idle) = {}
  /\ Idle.cmd = "none" /\ Idle.pc = "idle" /\ Idle.doc = "peers.json" /\ Idle.met = {}
  <1>1. Idle \in Command
    BY Names DEF Idle, Command
  <1> QED
    BY <1>1, UsesByKind DEF Idle, Control, InPlace

LEMMA InitIInv == Init => IInv
  <1> SUFFICES ASSUME Init PROVE IInv
    OBVIOUS
  <1>1. \A p \in Process : run[p] = Idle
    BY DEF Init
  <1>2. TypeOK
    BY IdleCommand, BoundAssumption DEF Init, TypeOK, Content
  <1>3. Controlled
    BY <1>1, IdleCommand DEF Controlled
  <1>4. MeetingsKnown
    BY <1>1, IdleCommand DEF MeetingsKnown, Idle
  <1>5. WorkKept
    <2>1. \A p \in Process : run[p].pc = "idle" /\ run[p].cmd = "none"
      BY <1>1, IdleCommand
    <2>2. ASSUME NEW p \in Process PROVE Undisturbed(p)
      BY <2>1 DEF Undisturbed
    <2> QED
      BY <2>2 DEF WorkKept
  <1>6. DocumentsReadable
    BY ContentAssumption DEF Init, DocumentsReadable, Readable
  <1>7. KeptByAll /\ AcknowledgedKept /\ InitsCounted
    BY DEF Init, KeptByAll, AcknowledgedKept, InitsCounted
  <1> QED
    BY <1>2, <1>3, <1>4, <1>5, <1>6, <1>7 DEF IInv

-----------------------------------------------------------------------------
(* The steps of a command that is under way *)

\* A step of p that leaves it with r, and of the files changes its document's.
StepOf(p, r) ==
  LET d == run[p].doc
  IN /\ run' = [run EXCEPT ![p] = r]
     /\ target' \in [Doc -> Content] /\ temp' \in [Doc -> Content]
     /\ \A c \in Doc : c # d => target'[c] = target[c] /\ temp'[c] = temp[c]
     /\ target'[d] \in {target[d], Empty, Torn, Bytes(run[p])}
     /\ temp'[d] \in {temp[d], Empty, Torn, Bytes(run[p])}
     /\ database' \subseteq Folder /\ expired' \subseteq Device \X Secret
     /\ UNCHANGED <<commands, kept, inits>>
     /\ damaged \subseteq damaged' /\ damaged' \subseteq Doc

\* What r has of run[p]: its documents, its meetings, and what it must write.
Continues(p, r) ==
  /\ Uses(r) \subseteq Uses(run[p])
  /\ Uses(r) \cap run[p].met \subseteq r.met
  /\ r.met \subseteq run[p].met
  /\ \A k \in kept : k[1] \in Uses(r) => Key(r.entry) # Key(k[2]) /\ k[2] \in r.text
  /\ r.pc \in {"write", "rename"} /\ ~InPlace(r.doc) =>
       \/ run[p].pc \in {"write", "rename"} /\ r.doc = run[p].doc
       \/ temp'[r.doc] = Empty

LEMMA StepTypes ==
  ASSUME IInv, NEW p \in Process, NEW r \in Command, StepOf(p, r)
  PROVE  TypeOK' /\ InitsCounted'
  BY DEF IInv, TypeOK, InitsCounted, StepOf

LEMMA StepMeetings ==
  ASSUME IInv, NEW p \in Process, NEW r \in Command, Control(r), StepOf(p, r), Continues(p, r)
  PROVE  Controlled' /\ MeetingsKnown'
  <1>1. /\ run \in [Process -> Command]
        /\ run'[p] = r
        /\ \A q \in Process : q # p => run'[q] = run[q]
    BY DEF IInv, TypeOK, StepOf
  <1>2. Controlled'
    BY <1>1 DEF IInv, Controlled
  <1>3. \A q \in Process : run'[q].met \subseteq damaged'
    BY <1>1 DEF IInv, MeetingsKnown, Continues, StepOf
  <1>4. ASSUME NEW q \in Process, NEW o \in Process, q # o
        PROVE  Uses(run'[q]) \cap Uses(run'[o]) \subseteq run'[q].met
    <2>0. Uses(run[q]) \cap Uses(run[o]) \subseteq run[q].met
      BY <1>4 DEF IInv, MeetingsKnown
    <2>1. CASE q = p
      BY <1>1, <1>4, <2>0, <2>1 DEF Continues
    <2>2. CASE o = p
      BY <1>1, <1>4, <2>0, <2>2 DEF Continues
    <2>3. CASE q # p /\ o # p
      BY <1>1, <2>0, <2>3
    <2> QED
      BY <2>1, <2>2, <2>3
  <1>5. \A q \in Process : Uses(run[q])' = Uses(run'[q])
    BY DEF Uses
  <1> QED
    BY <1>2, <1>3, <1>4, <1>5 DEF MeetingsKnown

\* A command uses no document but its own that p changes, unless they have met.
LEMMA StepOthers ==
  ASSUME IInv, NEW p \in Process, run[p].cmd # "none", NEW r \in Command, StepOf(p, r),
         NEW q \in Process, q # p
  PROVE  Undisturbed(q)'
  <1>1. /\ run'[q] = run[q] /\ run[q] \in Command /\ Control(run[q])
        /\ run[p] \in Command /\ Control(run[p])
    BY DEF IInv, TypeOK, Controlled, StepOf
  <1>2. Undisturbed(q)
    BY DEF IInv, WorkKept
  <1>3. run[p].doc \in Uses(run[p])
    BY <1>1, CommandDoc
  <1>4. CASE run[q].cmd = "none"
    BY <1>1, <1>4 DEF Undisturbed, Control
  <1>5. CASE run[q].cmd # "none"
    <2>1. run[q].doc \in Uses(run[q]) /\ Uses(run[q]) \subseteq Doc
      BY <1>1, <1>5, CommandDoc
    <2>2. \A c \in Uses(run[q]) \ run[q].met : target'[c] = target[c] /\ temp'[c] = temp[c]
      BY <1>3, <2>1, OnlyUser DEF StepOf
    <2>3. run[q].cmd = "add-folder" => Key(run[q].entry) \in Uses(run[q])
      BY <1>1, UsesByKind
    <2> QED
      BY <1>1, <1>2, <2>1, <2>2, <2>3 DEF Undisturbed, OpenFile, Bytes
  <1> QED
    BY <1>4, <1>5

\* What p writes over a document has the entries that were acknowledged.
LEMMA StepKept ==
  ASSUME IInv, NEW p \in Process, run[p].cmd # "none", NEW r \in Command, StepOf(p, r),
         Continues(p, r)
  PROVE  KeptByAll' /\ AcknowledgedKept'
  <1>0. /\ kept' = kept /\ kept \subseteq Doc \X Entry
        /\ run'[p] = r /\ run[p] \in Command /\ Control(run[p])
        /\ \A q \in Process : q # p => run'[q] = run[q]
        /\ run[p].doc \in Uses(run[p]) /\ Bytes(run[p]) \in SUBSET Entry
    BY CommandDoc DEF IInv, TypeOK, Controlled, StepOf
  <1>1. ASSUME NEW k \in kept
        PROVE  /\ temp'[k[1]] = temp[k[1]] \/ temp'[k[1]] \in {Empty, Torn} \/ k[2] \in temp'[k[1]]
               /\ \/ target'[k[1]] = target[k[1]]
                  \/ target'[k[1]] \in {Empty, Torn}
                  \/ target'[k[1]] \in SUBSET Entry /\ k[2] \in target'[k[1]]
    <2>1. CASE run[p].doc = k[1]
      BY <1>0, <2>1, KeptInBytes DEF StepOf
    <2>2. CASE run[p].doc # k[1]
      BY <1>0, <2>2 DEF StepOf
    <2> QED
      BY <2>1, <2>2
  <1>2. AcknowledgedKept'
    <2> SUFFICES ASSUME NEW k \in kept, Readable(target'[k[1]])
                 PROVE  k[2] \in Parsed(target'[k[1]])
      BY <1>0 DEF AcknowledgedKept, Readable, Parsed
    <2>1. CASE target'[k[1]] = target[k[1]]
      BY <2>1 DEF IInv, AcknowledgedKept
    <2>2. CASE target'[k[1]] \in SUBSET Entry /\ k[2] \in target'[k[1]]
      BY <2>2, TextParses
    <2> QED
      BY <1>1, <2>1, <2>2 DEF Readable
  <1>3. ASSUME NEW k \in kept, NEW q \in Process, k[1] \in Uses(run'[q])
        PROVE  /\ Key(run'[q].entry) # Key(k[2])
               /\ k[2] \in run'[q].text
               /\ run'[q].doc = k[1] /\ run'[q].pc \in {"write", "rename"} /\ ~InPlace(k[1])
                    => temp'[k[1]] \in {Absent, Empty, Torn} \/ k[2] \in temp'[k[1]]
    <2>1. CASE q # p
      BY <1>0, <1>1, <1>3, <2>1 DEF IInv, KeptByAll
    <2>2. CASE q = p
      <3>1. Key(r.entry) # Key(k[2]) /\ k[2] \in r.text /\ k[1] \in Uses(run[p])
        BY <1>0, <1>3, <2>2 DEF Continues
      <3>2. ASSUME r.doc = k[1], r.pc \in {"write", "rename"}, ~InPlace(k[1])
            PROVE  temp'[k[1]] \in {Absent, Empty, Torn} \/ k[2] \in temp'[k[1]]
        <4>1. CASE run[p].pc \in {"write", "rename"} /\ r.doc = run[p].doc
          BY <1>1, <3>1, <3>2, <4>1 DEF IInv, KeptByAll
        <4> QED
          BY <3>2, <4>1 DEF Continues
      <3> QED
        BY <1>0, <2>2, <3>1, <3>2
    <2> QED
      BY <2>1, <2>2
  <1>4. \A q \in Process : Uses(run[q])' = Uses(run'[q])
    BY DEF Uses
  <1>5. \A k \in kept : k[1] \in Folder => Key(k[2]) = k[1]
    BY DEF IInv, KeptByAll
  <1>6. KeptByAll'
    BY <1>0, <1>3, <1>4, <1>5 DEF KeptByAll, Key, InPlace
  <1> QED
    BY <1>2, <1>6

\* A document that counts as undamaged and p is not writing can be read.
LEMMA ReadableNow ==
  ASSUME IInv, NEW p \in Process, run[p].cmd # "none", run[p].doc \notin damaged
  PROVE  Readable(target[run[p].doc]) \/ (run[p].doc = "state.json" /\ run[p].pc = "write")
  <1>0. /\ run[p] \in Command /\ Control(run[p]) /\ run[p].doc \in Doc
        /\ run[p].doc \in Uses(run[p])
    BY CommandDoc DEF IInv, TypeOK, Controlled
  <1>1. ASSUME NEW q \in Process, run[q].doc = run[p].doc, run[q].pc = "write", q # p
        PROVE  FALSE
    <2>1. run[q] \in Command /\ Control(run[q]) /\ run[q].cmd # "none"
      BY <1>1 DEF IInv, TypeOK, Controlled, Control
    <2>2. run[q].doc \in Uses(run[q])
      BY <2>1, CommandDoc
    <2> QED
      BY <1>0, <1>1, <2>2, OnlyUser
  <1> QED
    BY <1>0, <1>1 DEF IInv, DocumentsReadable

LEMMA StepReadable ==
  ASSUME IInv, NEW p \in Process, run[p].cmd # "none", NEW r \in Command, StepOf(p, r),
         \/ run[p].doc \in damaged'
         \/ Readable(target'[run[p].doc])
         \/ run[p].doc = "state.json" /\ r.doc = "state.json" /\ r.pc = "write"
  PROVE  DocumentsReadable'
  <1>0. /\ run'[p] = r
        /\ \A q \in Process : q # p => run'[q] = run[q]
    BY DEF IInv, TypeOK, StepOf
  <1>1. ASSUME NEW d \in Doc \ damaged'
        PROVE  \/ Readable(target'[d])
               \/ d = "state.json" /\ \E q \in Process : run'[q].doc = d /\ run'[q].pc = "write"
    <2>1. CASE d = run[p].doc
      BY <1>0, <1>1, <2>1
    <2>2. CASE d # run[p].doc
      <3>1. target'[d] = target[d] /\ d \notin damaged
        BY <1>1, <2>2 DEF StepOf
      <3>2. CASE Readable(target[d])
        BY <3>1, <3>2
      <3>3. CASE ~Readable(target[d])
        <4>1. PICK q \in Process : d = "state.json" /\ run[q].doc = d /\ run[q].pc = "write"
          BY <1>1, <3>1, <3>3 DEF IInv, DocumentsReadable
        <4> QED
          BY <1>0, <2>2, <4>1
      <3> QED
        BY <3>2, <3>3
    <2> QED
      BY <2>1, <2>2
  <1> QED
    BY <1>1 DEF DocumentsReadable, Readable

\* The invariant is kept by a step of one command if the command finds its own
\* files as it should and leaves its document readable.
LEMMA StepIInv ==
  ASSUME IInv, NEW p \in Process, run[p].cmd # "none", NEW r \in Command, Control(r),
         StepOf(p, r), Continues(p, r), Undisturbed(p)',
         \/ run[p].doc \in damaged'
         \/ Readable(target'[run[p].doc])
         \/ run[p].doc = "state.json" /\ r.doc = "state.json" /\ r.pc = "write"
  PROVE  IInv'
  <1>1. TypeOK' /\ InitsCounted'
    BY StepTypes
  <1>2. Controlled' /\ MeetingsKnown'
    BY StepMeetings
  <1>3. WorkKept'
    BY StepOthers DEF WorkKept
  <1>4. KeptByAll' /\ AcknowledgedKept'
    BY StepKept
  <1>5. DocumentsReadable'
    BY StepReadable
  <1> QED
    BY <1>1, <1>2, <1>3, <1>4, <1>5 DEF IInv

-----------------------------------------------------------------------------
(* The actions of a command *)

\* What every action starts from.
LEMMA Current ==
  ASSUME IInv, NEW p \in Process, run[p].cmd # "none"
  PROVE  /\ run \in [Process -> Command] /\ run[p] \in Command /\ Control(run[p])
         /\ run[p].doc \in Uses(run[p]) /\ run[p].doc \in Doc
         /\ run[p].met \subseteq damaged
         /\ run[p].entry \in Entry /\ Bytes(run[p]) \in SUBSET Entry
         /\ target \in [Doc -> Content] /\ temp \in [Doc -> Content]
         /\ Undisturbed(p)
  BY CommandDoc DEF IInv, TypeOK, Controlled, MeetingsKnown, WorkKept

\* A process that is at a step of a command has one.
LEMMA UnderWay ==
  ASSUME IInv, NEW p \in Process, run[p].pc # "idle"
  PROVE  run[p].cmd # "none"
  BY DEF IInv, Controlled, Control

\* Ending a command, or losing it, disturbs no invariant.
LEMMA ToIdle ==
  ASSUME IInv, NEW p \in Process, run[p].cmd # "none", StepOf(p, Idle),
         run[p].doc \in damaged' \/ Readable(target'[run[p].doc])
  PROVE  IInv'
  <1>1. Continues(p, Idle)
    BY IdleCommand DEF Continues
  <1>2. run'[p] = Idle
    BY DEF StepOf, IInv, TypeOK
  <1>3. Undisturbed(p)'
    BY <1>2, IdleCommand DEF Undisturbed
  <1> QED
    BY <1>1, <1>3, IdleCommand, StepIInv

\* The step that leaves the files as they are.
LEMMA StepUnchanged ==
  ASSUME IInv, NEW p \in Process, run[p].cmd # "none", NEW r,
         run' = [run EXCEPT ![p] = r],
         UNCHANGED <<target, temp, expired, commands, kept, inits, damaged>>,
         database' \subseteq Folder
  PROVE  StepOf(p, r)
  BY DEF StepOf, IInv, TypeOK

LEMMA AcceptTicketIInv ==
  ASSUME IInv, NEW p \in Process, AcceptTicket(p)
  PROVE  IInv'
  <1>0. run[p].cmd # "none" /\ run[p].pc = "modify"
    BY UnderWay DEF AcceptTicket
  <1>1. /\ run[p] \in Command /\ Control(run[p]) /\ run[p].cmd = "accept-peer"
        /\ run[p].doc \notin damaged => Readable(target[run[p].doc])
        /\ database' \subseteq Folder
    BY <1>0, Current, ReadableNow DEF Control, Command, AcceptTicket, IInv, TypeOK
  <1>2. CASE ~validate(run[p].entry)
    BY <1>0, <1>1, <1>2, StepUnchanged, ToIdle DEF AcceptTicket
  <1>3. CASE validate(run[p].entry)
    <2> DEFINE r == [run[p] EXCEPT !.pc = "create", !.text = Accepted(run[p].text, run[p].entry)]
    <2>1. Accepted(run[p].text, run[p].entry) \in SUBSET Entry
      BY <1>1 DEF Accepted, Command, Control, Entry
    <2>2. /\ r \in Command
          /\ r.cmd = "accept-peer" /\ r.pc = "create" /\ r.doc = run[p].doc /\ r.met = run[p].met
          /\ r.entry = run[p].entry /\ r.fd = run[p].fd
          /\ r.text = Accepted(run[p].text, run[p].entry)
      BY <1>1, <2>1 DEF Command
    <2>3. run' = [run EXCEPT ![p] = r] /\ run'[p] = r
      BY <1>3 DEF AcceptTicket, IInv, TypeOK
    <2> HIDE DEF r
    <2>4. Control(r)
      BY <1>0, <1>1, <2>2 DEF Control, Accepted
    <2>5. StepOf(p, r)
      BY <1>0, <1>1, <2>3, StepUnchanged DEF AcceptTicket
    <2>6. Uses(r) = Uses(run[p])
      BY <1>1, <2>2 DEF Uses
    <2>7. Continues(p, r)
      BY <2>2, <2>6 DEF Continues, IInv, KeptByAll, Accepted
    <2>8. Undisturbed(p)'
      BY <2>2, <2>3 DEF Undisturbed
    <2>9. damaged' = damaged /\ target' = target
      BY DEF AcceptTicket
    <2> QED
      BY <1>0, <1>1, <2>2, <2>4, <2>5, <2>7, <2>8, <2>9, StepIInv
  <1> QED
    BY <1>2, <1>3

LEMMA CheckLimitIInv ==
  ASSUME IInv, NEW p \in Process, CheckLimit(p)
  PROVE  IInv'
  <1>0. run[p].cmd # "none" /\ run[p].pc = "init"
    BY UnderWay DEF CheckLimit
  <1>1. /\ run[p] \in Command /\ Control(run[p])
        /\ run[p].doc \notin damaged => Readable(target[run[p].doc])
        /\ database' \subseteq Folder
    BY <1>0, Current, ReadableNow DEF CheckLimit, IInv, TypeOK
  <1>2. CASE Value(run[p].entry) = 0
    BY <1>0, <1>1, <1>2, StepUnchanged, ToIdle DEF CheckLimit
  <1>3. CASE Value(run[p].entry) # 0
    <2> DEFINE r == [run[p] EXCEPT !.pc = "create"]
    <2>2. /\ r \in Command
          /\ r.cmd = run[p].cmd /\ r.pc = "create" /\ r.doc = run[p].doc /\ r.met = run[p].met
          /\ r.entry = run[p].entry /\ r.fd = run[p].fd /\ r.text = run[p].text
      BY <1>1 DEF Command
    <2>3. run' = [run EXCEPT ![p] = r] /\ run'[p] = r
      BY <1>3 DEF CheckLimit, IInv, TypeOK
    <2> HIDE DEF r
    <2>4. Control(r)
      BY <1>0, <1>1, <2>2 DEF Control
    <2>5. StepOf(p, r)
      BY <1>0, <1>1, <2>3, StepUnchanged DEF CheckLimit
    <2>6. Uses(r) = Uses(run[p])
      BY <2>2 DEF Uses
    <2>7. Continues(p, r)
      BY <2>2, <2>6 DEF Continues, IInv, KeptByAll
    <2>8. Undisturbed(p)'
      <3>1. run[p].doc # "state.json"
        BY <1>0, <1>1, Names DEF Control, Command, Key
      <3> QED
        BY <2>2, <2>3, <3>1 DEF Undisturbed
    <2>9. damaged' = damaged /\ target' = target
      BY DEF CheckLimit
    <2> QED
      BY <1>0, <1>1, <2>2, <2>4, <2>5, <2>7, <2>8, <2>9, StepIInv
  <1> QED
    BY <1>2, <1>3

LEMMA CreateIInv ==
  ASSUME IInv, NEW p \in Process, Create(p)
  PROVE  IInv'
  <1> DEFINE d == run[p].doc
             fd == IF InPlace(d) THEN "target" ELSE "temp"
             r == [run[p] EXCEPT !.pc = "write", !.fd = fd]
  <1>0. run[p].cmd # "none" /\ run[p].pc = "create"
    BY UnderWay DEF Create
  <1>1. /\ run \in [Process -> Command] /\ run[p] \in Command /\ Control(run[p]) /\ d \in Doc
        /\ target \in [Doc -> Content] /\ temp \in [Doc -> Content]
        /\ Undisturbed(p)
        /\ d \notin damaged => Readable(target[d])
    BY <1>0, Current, ReadableNow
  <1>2. /\ r \in Command
        /\ r.cmd = run[p].cmd /\ r.pc = "write" /\ r.doc = d /\ r.met = run[p].met
        /\ r.entry = run[p].entry /\ r.fd = fd /\ r.text = run[p].text
    BY <1>1 DEF Command
  <1>3. /\ run' = [run EXCEPT ![p] = r] /\ run'[p] = r
        /\ InPlace(d) => target' = [target EXCEPT ![d] = Empty] /\ temp' = temp
        /\ ~InPlace(d) => temp' = [temp EXCEPT ![d] = Empty] /\ target' = target
        /\ UNCHANGED <<database, expired, commands, kept, inits, damaged>>
    BY <1>1 DEF Create
  <1> HIDE DEF r
  <1>4. Control(r)
    BY <1>0, <1>1, <1>2 DEF Control
  <1>5. StepOf(p, r)
    BY <1>1, <1>3 DEF StepOf, IInv, TypeOK, Content
  <1>6. Uses(r) = Uses(run[p])
    BY <1>2 DEF Uses
  <1>7. Continues(p, r)
    <2>1. r.pc \in {"write", "rename"} /\ ~InPlace(r.doc) => temp'[r.doc] = Empty
      BY <1>1, <1>2, <1>3
    <2> QED
      BY <1>2, <1>6, <2>1 DEF Continues, IInv, KeptByAll
  <1>8. Undisturbed(p)'
    <2>1. OpenFile(p)' = Empty
      BY <1>1, <1>2, <1>3 DEF OpenFile
    <2>2. run[p].cmd = "add-folder" /\ d = "state.json" =>
            Key(run[p].entry) # d /\ Key(run[p].entry) \in Doc
      BY <1>1, Names DEF Control, Key
    <2>3. run[p].cmd = "add-folder" /\ d = "state.json" =>
            target'[Key(run[p].entry)] = target[Key(run[p].entry)]
      BY <1>1, <1>3, <2>2
    <2> QED
      BY <1>1, <1>2, <1>3, <2>1, <2>3 DEF Undisturbed, InPlace
  <1>9. \/ d \in damaged' \/ Readable(target'[d])
        \/ d = "state.json" /\ r.doc = "state.json" /\ r.pc = "write"
    BY <1>1, <1>2, <1>3 DEF InPlace
  <1> QED
    BY <1>0, <1>2, <1>4, <1>5, <1>7, <1>8, <1>9, StepIInv

LEMMA WriteIInv ==
  ASSUME IInv, NEW p \in Process, Write(p)
  PROVE  IInv'
  <1> DEFINE d == run[p].doc
             pc == IF InPlace(d) THEN "end" ELSE "rename"
             r == [run[p] EXCEPT !.fd = "closed", !.pc = pc]
  <1>0. run[p].cmd # "none" /\ run[p].pc = "write"
    BY UnderWay DEF Write
  <1>1. /\ run \in [Process -> Command] /\ run[p] \in Command /\ Control(run[p]) /\ d \in Doc
        /\ target \in [Doc -> Content] /\ temp \in [Doc -> Content]
        /\ Bytes(run[p]) \in SUBSET Entry
        /\ run[p].met \subseteq damaged
        /\ Undisturbed(p)
    BY <1>0, Current
  <1>2. /\ r \in Command
        /\ r.cmd = run[p].cmd /\ r.pc = pc /\ r.doc = d /\ r.met = run[p].met
        /\ r.entry = run[p].entry /\ r.fd = "closed" /\ r.text = run[p].text
    BY <1>1 DEF Command
  <1>3. /\ run' = [run EXCEPT ![p] = r] /\ run'[p] = r
        /\ UNCHANGED <<database, expired, commands, kept, inits, damaged>>
    BY <1>1 DEF Write
  <1>4. PICK content \in {Torn, Bytes(run[p])} :
          /\ Store(p, content)
          /\ content = Torn => OpenFile(p) # Empty
          /\ content # Torn => content = Bytes(run[p])
    BY <1>1, ContentAssumption DEF Write
  <1>5. Bytes(r) = Bytes(run[p])
    BY <1>2 DEF Bytes
  <1> HIDE DEF r
  <1>6. Control(r)
    <2>1. pc = "end" => d = "state.json"
      BY DEF InPlace
    <2>2. pc = "rename" => d # "state.json"
      BY DEF InPlace
    <2>3. run[p].cmd = "accept-peer" => d # "state.json"
      BY <1>1 DEF Control
    <2>4. run[p].cmd = "init-folder" => d # "state.json"
      BY <1>1, Names DEF Control, Key
    <2> QED
      BY <1>0, <1>1, <1>2, <2>1, <2>2, <2>3, <2>4 DEF Control
  <1>7. StepOf(p, r)
    BY <1>1, <1>3, <1>4 DEF StepOf, IInv, TypeOK, Content, Store
  <1>8. Uses(r) = Uses(run[p])
    BY <1>2 DEF Uses
  <1>9. Continues(p, r)
    BY <1>0, <1>2, <1>8 DEF Continues, IInv, KeptByAll
  <1>10. ASSUME d \notin run[p].met
         PROVE  /\ content = Bytes(run[p])
                /\ InPlace(d) => target'[d] = content
                /\ ~InPlace(d) => temp'[d] = content /\ target' = target
    BY <1>0, <1>1, <1>4, <1>10 DEF Undisturbed, Store
  <1>11. Undisturbed(p)'
    <2>1. run[p].cmd = "add-folder" /\ d = "state.json" => Key(run[p].entry) # d
      BY <1>1, Names DEF Control, Key
    <2>2. run[p].cmd = "add-folder" /\ d = "state.json" =>
            target'[Key(run[p].entry)] = target[Key(run[p].entry)]
      BY <1>1, <1>4, <2>1 DEF Store
    <2>3. Bytes(run[p])' = Bytes(r)
      BY <1>3 DEF Bytes
    <2> QED
      BY <1>1, <1>2, <1>3, <1>5, <1>10, <2>2, <2>3 DEF Undisturbed
  <1>12. d \in damaged' \/ Readable(target'[d])
    <2>1. CASE d \in run[p].met
      BY <1>1, <1>3, <2>1
    <2>2. CASE d \notin run[p].met /\ InPlace(d)
      BY <1>1, <1>10, <2>2, TextParses
    <2>3. CASE d \notin run[p].met /\ ~InPlace(d)
      BY <1>0, <1>3, <1>10, <2>3, ReadableNow DEF InPlace
    <2> QED
      BY <2>1, <2>2, <2>3
  <1> QED
    BY <1>0, <1>2, <1>6, <1>7, <1>9, <1>11, <1>12, StepIInv

LEMMA OpenDatabaseIInv ==
  ASSUME IInv, NEW p \in Process, OpenDatabase(p)
  PROVE  IInv'
  <1> DEFINE d == run[p].doc
  <1>0. run[p].cmd # "none" /\ run[p].pc = "open"
    BY UnderWay DEF OpenDatabase
  <1>1. /\ run \in [Process -> Command] /\ run[p] \in Command /\ Control(run[p])
        /\ Undisturbed(p)
        /\ d \notin damaged => Readable(target[d])
        /\ UNCHANGED <<target, temp, expired, commands, kept, inits, damaged>>
    BY <1>0, Current, ReadableNow DEF OpenDatabase
  <1>2. /\ d = Key(run[p].entry) /\ d \in Folder /\ d # "state.json"
        /\ run[p].cmd \in {"init-folder", "add-folder"} /\ run[p].entry \in Folder \X Limit
        /\ run[p].fd = "closed"
    BY <1>0, <1>1, Names DEF Control, Command, Key
  <1>3. database' \subseteq Folder
    BY <1>2 DEF OpenDatabase, IInv, TypeOK
  <1>4. d \notin run[p].met => target[d] = {run[p].entry}
    BY <1>0, <1>1, <1>2 DEF Undisturbed, Bytes
  <1>5. CASE run[p].cmd = "add-folder"
    <2> DEFINE r == [run[p] EXCEPT !.pc = "create", !.doc = "state.json"]
    <2>2. /\ r \in Command
          /\ r.cmd = run[p].cmd /\ r.pc = "create" /\ r.doc = "state.json" /\ r.met = run[p].met
          /\ r.entry = run[p].entry /\ r.fd = "closed" /\ r.text = run[p].text
      BY <1>1, <1>2, Names DEF Command
    <2>3. run' = [run EXCEPT ![p] = r] /\ run'[p] = r
      BY <1>1, <1>5 DEF OpenDatabase
    <2> HIDE DEF r
    <2>4. Control(r)
      BY <1>1, <1>2, <1>5, <2>2 DEF Control, InPlace
    <2>5. StepOf(p, r)
      BY <1>0, <1>1, <1>3, <2>3, StepUnchanged
    <2>6. Uses(r) = Uses(run[p])
      BY <2>2 DEF Uses
    <2>7. Continues(p, r)
      BY <2>2, <2>6 DEF Continues, IInv, KeptByAll
    <2>8. Undisturbed(p)'
      BY <1>1, <1>2, <1>4, <2>2, <2>3 DEF Undisturbed
    <2> QED
      BY <1>0, <1>1, <2>2, <2>4, <2>5, <2>7, <2>8, StepIInv
  <1>6. CASE run[p].cmd = "init-folder"
    <2> DEFINE r == [run[p] EXCEPT !.pc = "end"]
    <2>2. /\ r \in Command
          /\ r.cmd = run[p].cmd /\ r.pc = "end" /\ r.doc = d /\ r.met = run[p].met
          /\ r.entry = run[p].entry /\ r.fd = "closed" /\ r.text = run[p].text
      BY <1>1, <1>2 DEF Command
    <2>3. run' = [run EXCEPT ![p] = r] /\ run'[p] = r
      BY <1>1, <1>6 DEF OpenDatabase
    <2> HIDE DEF r
    <2>4. Control(r)
      BY <1>1, <1>2, <1>6, <2>2 DEF Control, InPlace
    <2>5. StepOf(p, r)
      BY <1>0, <1>1, <1>3, <2>3, StepUnchanged
    <2>6. Uses(r) = Uses(run[p])
      BY <2>2 DEF Uses
    <2>7. Continues(p, r)
      BY <2>2, <2>6 DEF Continues, IInv, KeptByAll
    <2>8. Undisturbed(p)'
      BY <1>1, <1>2, <1>4, <1>6, <2>2, <2>3 DEF Undisturbed, Bytes
    <2> QED
      BY <1>0, <1>1, <2>2, <2>4, <2>5, <2>7, <2>8, StepIInv
  <1> QED
    BY <1>2, <1>5, <1>6

\* The rename that finds the temporary file.
LEMMA RenamedIInv ==
  ASSUME IInv, NEW p \in Process, Rename(p), temp[run[p].doc] # Absent
  PROVE  IInv'
  <1> DEFINE d == run[p].doc
  <1>0. run[p].cmd # "none" /\ run[p].pc = "rename"
    BY UnderWay DEF Rename
  <1>1. /\ run \in [Process -> Command] /\ run[p] \in Command /\ Control(run[p])
        /\ d \in Doc /\ d \in Uses(run[p])
        /\ target \in [Doc -> Content] /\ temp \in [Doc -> Content]
        /\ Bytes(run[p]) \in SUBSET Entry
        /\ run[p].met \subseteq damaged
        /\ Undisturbed(p)
    BY <1>0, Current
  <1>2. /\ target' = [target EXCEPT ![d] = temp[d]]
        /\ temp' = [temp EXCEPT ![d] = Absent]
        /\ run'[p] = [run[p] EXCEPT !.pc = AfterRename(d)]
        /\ UNCHANGED <<database, expired, commands, kept, inits, damaged>>
    BY DEF Rename
  <1>3. d # "state.json" /\ ~InPlace(d)
    BY <1>0, <1>1, Names DEF Control, InPlace, Key, Command
  <1>4. ASSUME NEW q \in Process, q # p
        PROVE  /\ run'[q] \in Command
               /\ run'[q].cmd = run[q].cmd /\ run'[q].pc = run[q].pc /\ run'[q].doc = run[q].doc
               /\ run'[q].entry = run[q].entry /\ run'[q].text = run[q].text
               /\ run'[q].met = run[q].met
               /\ run'[q].fd = "closed" <=> run[q].fd = "closed"
               /\ run[q].doc # d => run'[q].fd = run[q].fd
               /\ run[q].fd = "closed" => run'[q] = run[q]
    BY <1>1, <1>4 DEF Rename, Command
  <1>5. /\ run'[p] \in Command
        /\ run'[p].cmd = run[p].cmd /\ run'[p].pc = AfterRename(d) /\ run'[p].doc = d
        /\ run'[p].entry = run[p].entry /\ run'[p].text = run[p].text
        /\ run'[p].met = run[p].met /\ run'[p].fd = "closed"
    BY <1>0, <1>1, <1>2 DEF Command, AfterRename, Control
  <1>6. run' \in [Process -> Command]
    BY <1>4, <1>5 DEF Rename
  <1>7. \A q \in Process : Uses(run'[q]) = Uses(run[q])
    BY <1>4, <1>5 DEF Uses
  <1>8. TypeOK' /\ InitsCounted'
    BY <1>1, <1>2, <1>6 DEF IInv, TypeOK, InitsCounted, Content
  <1>9. Controlled'
    <2>1. Control(run'[p])
      BY <1>0, <1>1, <1>3, <1>5, Names DEF Control, AfterRename, Command, Key
    <2>2. ASSUME NEW q \in Process, q # p PROVE Control(run'[q])
      <3>1. Control(run[q])
        BY DEF IInv, Controlled
      <3>2. run[q].doc = d => ~InPlace(run[q].doc)
        BY <1>3
      <3> QED
        BY <1>4, <2>2, <3>1, <3>2 DEF Control
    <2> QED
      BY <2>1, <2>2 DEF Controlled
  <1>10. MeetingsKnown'
    <2>1. \A q \in Process : Uses(run[q])' = Uses(run'[q])
      BY DEF Uses
    <2>2. \A q \in Process : run'[q].met = run[q].met
      BY <1>4, <1>5
    <2> QED
      BY <1>2, <1>7, <2>1, <2>2 DEF IInv, MeetingsKnown
  <1>11. WorkKept'
    <2>1. Undisturbed(p)'
      BY <1>0, <1>1, <1>2, <1>3, <1>5 DEF Undisturbed, Bytes, AfterRename
    <2>2. ASSUME NEW q \in Process, q # p PROVE Undisturbed(q)'
      <3>1. Undisturbed(q) /\ run[q] \in Command /\ Control(run[q])
        BY <1>1 DEF IInv, WorkKept, Controlled
      <3>2. CASE run[q].cmd = "none"
        BY <1>4, <2>2, <3>1, <3>2 DEF Undisturbed, Control
      <3>3. CASE run[q].cmd # "none"
        <4>1. run[q].doc \in Uses(run[q]) /\ Uses(run[q]) \subseteq Doc
          BY <3>1, <3>3, CommandDoc
        <4>2. \A c \in Uses(run[q]) \ run[q].met :
                c # d /\ target'[c] = target[c] /\ temp'[c] = temp[c]
          BY <1>1, <1>2, <2>2, <4>1, OnlyUser
        <4>3. run[q].cmd = "add-folder" => Key(run[q].entry) \in Uses(run[q])
          BY <3>1, UsesByKind
        <4>4. run[q].doc \notin run[q].met => run'[q].fd = run[q].fd
          BY <1>4, <2>2, <4>1, <4>2
        <4>5. Bytes(run'[q]) = Bytes(run[q])
          BY <1>4, <2>2 DEF Bytes
        <4>6. run[q].doc \notin run[q].met => OpenFile(q)' = OpenFile(q)
          BY <1>4, <2>2, <4>1, <4>2, <4>4 DEF OpenFile
        <4>7. Bytes(run[q])' = Bytes(run'[q])
          BY DEF Bytes
        <4> QED
          BY <1>4, <2>2, <3>1, <4>1, <4>2, <4>3, <4>4, <4>5, <4>6, <4>7 DEF Undisturbed
      <3> QED
        BY <3>2, <3>3
    <2> QED
      BY <2>1, <2>2 DEF WorkKept
  <1>12. DocumentsReadable'
    <2>1. ASSUME NEW c \in Doc \ damaged'
          PROVE  \/ Readable(target'[c])
                 \/ c = "state.json" /\ \E q \in Process : run'[q].doc = c /\ run'[q].pc = "write"
      <3>1. CASE c = d
        <4>1. d \notin run[p].met
          BY <1>1, <1>2, <2>1, <3>1
        <4>2. target'[c] = Bytes(run[p])
          BY <1>0, <1>1, <1>2, <3>1, <4>1 DEF Undisturbed
        <4> QED
          BY <1>1, <4>2, TextParses
      <3>2. CASE c # d
        <4>1. target'[c] = target[c] /\ c \notin damaged
          BY <1>1, <1>2, <2>1, <3>2
        <4>2. \A q \in Process : run[q].doc = c => run'[q].doc = c /\ run'[q].pc = run[q].pc
          BY <1>4, <3>2
        <4> QED
          BY <2>1, <4>1, <4>2 DEF IInv, DocumentsReadable
      <3> QED
        BY <3>1, <3>2
    <2> QED
      BY <2>1 DEF DocumentsReadable, Readable
  <1>13. ASSUME NEW k \in kept, k[1] = d
         PROVE  temp[d] \in {Empty, Torn} \/ (temp[d] \in SUBSET Entry /\ k[2] \in temp[d])
    BY <1>0, <1>1, <1>3, <1>13 DEF IInv, KeptByAll, Content
  <1>14. AcknowledgedKept'
    <2> SUFFICES ASSUME NEW k \in kept, Readable(target'[k[1]])
                 PROVE  k[2] \in Parsed(target'[k[1]])
      BY <1>2 DEF AcknowledgedKept, Readable, Parsed
    <2>0. k[1] \in Doc
      BY DEF IInv, TypeOK
    <2>1. CASE k[1] # d
      BY <1>1, <1>2, <2>0, <2>1 DEF IInv, AcknowledgedKept
    <2>2. CASE k[1] = d
      <3>1. target'[k[1]] = temp[d]
        BY <1>1, <1>2, <2>2
      <3> QED
        BY <1>13, <2>2, <3>1, TextParses DEF Readable
    <2> QED
      BY <2>1, <2>2
  <1>15. KeptByAll'
    <2>1. \A q \in Process : Uses(run[q])' = Uses(run'[q])
      BY DEF Uses
    <2>2. ASSUME NEW k \in kept, NEW q \in Process, k[1] \in Uses(run'[q])
          PROVE  /\ Key(run'[q].entry) # Key(k[2])
                 /\ k[2] \in run'[q].text
                 /\ run'[q].doc = k[1] /\ run'[q].pc \in {"write", "rename"} /\ ~InPlace(k[1])
                      => temp'[k[1]] \in {Absent, Empty, Torn} \/ k[2] \in temp'[k[1]]
      <3>0. k[1] \in Doc
        BY DEF IInv, TypeOK
      <3>1. /\ run'[q].entry = run[q].entry /\ run'[q].text = run[q].text
            /\ run'[q].doc = run[q].doc
            /\ run'[q].doc # d => run'[q].pc = run[q].pc
        BY <1>4, <1>5
      <3>2. CASE k[1] = d
        BY <1>1, <1>2, <1>7, <2>2, <3>1, <3>2 DEF IInv, KeptByAll
      <3>3. CASE k[1] # d
        <4>1. temp'[k[1]] = temp[k[1]]
          BY <1>1, <1>2, <3>0, <3>3
        <4> QED
          BY <1>7, <2>2, <3>1, <3>3, <4>1 DEF IInv, KeptByAll
      <3> QED
        BY <3>2, <3>3
    <2>3. \A k \in kept : k[1] \in Folder => Key(k[2]) = k[1]
      BY DEF IInv, KeptByAll
    <2> QED
      BY <1>2, <2>1, <2>2, <2>3 DEF KeptByAll, Key, InPlace
  <1> QED
    BY <1>8, <1>9, <1>10, <1>11, <1>12, <1>14, <1>15 DEF IInv

LEMMA RenameIInv ==
  ASSUME IInv, NEW p \in Process, Rename(p)
  PROVE  IInv'
  <1>0. run[p].cmd # "none" /\ run[p].pc = "rename"
    BY UnderWay DEF Rename
  <1>1. CASE temp[run[p].doc] = Absent
    <2>1. StepOf(p, Idle) /\ target' = target /\ damaged' = damaged
      BY <1>0, <1>1, StepUnchanged DEF Rename, IInv, TypeOK
    <2> QED
      BY <1>0, <2>1, ReadableNow, ToIdle
  <1> QED
    BY <1>1, RenamedIInv

LEMMA CrashIInv ==
  ASSUME IInv, NEW p \in Process, Crash(p)
  PROVE  IInv'
  <1> DEFINE d == run[p].doc
  <1>1. run[p].cmd # "none"
    BY DEF IInv, Controlled, Control, Crash
  <1> QED
    <2>1. /\ run \in [Process -> Command] /\ run[p] \in Command /\ Control(run[p]) /\ d \in Doc
          /\ target \in [Doc -> Content] /\ temp \in [Doc -> Content]
          /\ run[p].met \subseteq damaged
          /\ Undisturbed(p)
      BY <1>1, Current
    <2>2. damaged \subseteq damaged' /\ damaged' \subseteq Doc
      BY <2>1 DEF Crash, IInv, TypeOK
    <2>3. \/ UNCHANGED <<target, temp>>
          \/ run[p].pc = "write" /\ Store(p, Torn)
      BY DEF Crash
    <2>4. StepOf(p, Idle)
      <3>1. /\ target' \in [Doc -> Content] /\ temp' \in [Doc -> Content]
            /\ \A c \in Doc : c # d => target'[c] = target[c] /\ temp'[c] = temp[c]
            /\ target'[d] \in {target[d], Torn} /\ temp'[d] \in {temp[d], Torn}
        BY <2>1, <2>3 DEF Store, Content
      <3> QED
        BY <2>1, <2>2, <3>1 DEF StepOf, Crash, IInv, TypeOK
    <2>5. d \in damaged' \/ Readable(target'[d])
      <3>1. CASE d \in damaged
        BY <2>2, <3>1
      <3>2. CASE d \notin damaged /\ InPlace(d) /\ run[p].pc = "write"
        BY <3>2 DEF Crash
      <3>3. CASE d \notin damaged /\ ~(InPlace(d) /\ run[p].pc = "write")
        <4>1. Readable(target[d])
          BY <1>1, <3>3, ReadableNow DEF InPlace
        <4>2. run[p].pc = "write" => run[p].fd = "temp"
          BY <2>1, <3>3 DEF Undisturbed
        <4>3. target' = target
          BY <2>3, <4>2 DEF Store
        <4> QED
          BY <4>1, <4>3
      <3> QED
        BY <3>1, <3>2, <3>3
    <2> QED
      BY <1>1, <2>4, <2>5, ToIdle

LEMMA AppStopsIInv ==
  ASSUME IInv, NEW p \in Process, AppStops(p)
  PROVE  IInv'
  <1> DEFINE d == run[p].doc
             r == [run[p] EXCEPT !.cmd = "init-folder", !.text = {},
                                 !.met = run[p].met \ {"state.json"}]
  <1>0. run[p].cmd = "add-folder" /\ d \in Folder
    BY DEF AppStops
  <1>1. /\ run \in [Process -> Command] /\ run[p] \in Command /\ Control(run[p])
        /\ Undisturbed(p)
    BY <1>0, Current
  <1>2. /\ r \in Command
        /\ r.cmd = "init-folder" /\ r.pc = run[p].pc /\ r.doc = d
        /\ r.met = run[p].met \ {"state.json"}
        /\ r.entry = run[p].entry /\ r.fd = run[p].fd /\ r.text = {}
    BY <1>1 DEF Command
  <1>3. /\ run' = [run EXCEPT ![p] = r] /\ run'[p] = r
        /\ UNCHANGED <<target, temp, database, expired, commands, kept, inits, damaged>>
    BY <1>1 DEF AppStops
  <1> HIDE DEF r
  <1>4. /\ d = Key(run[p].entry) /\ d # "state.json" /\ run[p].entry \in Folder \X Limit
        /\ run[p].pc \in {"init", "create", "write", "rename", "open"}
    BY <1>0, <1>1, Names DEF Control
  <1>5. Control(r)
    BY <1>1, <1>2, <1>4 DEF Control
  <1>6. StepOf(p, r)
    BY <1>0, <1>3, StepUnchanged DEF IInv, TypeOK
  <1>7. Uses(r) = {d} /\ Uses(run[p]) = {"state.json", d}
    BY <1>0, <1>1, <1>2, <1>4, UsesByKind
  <1>8. Continues(p, r)
    <2>1. \A k \in kept : k[1] \notin Uses(r)
      BY <1>0, <1>4, <1>7 DEF IInv, KeptByAll
    <2>2. r.pc \in {"write", "rename"} => run[p].pc \in {"write", "rename"} /\ r.doc = run[p].doc
      BY <1>2
    <2> QED
      BY <1>2, <1>4, <1>7, <2>1, <2>2 DEF Continues
  <1>9. Undisturbed(p)'
    <2>1. Bytes(r) = Bytes(run[p]) /\ Bytes(run[p])' = Bytes(run'[p])
      BY <1>0, <1>2 DEF Bytes
    <2>2. OpenFile(p)' = OpenFile(p)
      BY <1>2, <1>3 DEF OpenFile
    <2> QED
      BY <1>1, <1>2, <1>3, <1>4, <2>1, <2>2 DEF Undisturbed
  <1>10. d \in damaged' \/ Readable(target'[d])
    BY <1>0, <1>3, <1>4, ReadableNow
  <1> QED
    BY <1>0, <1>2, <1>5, <1>6, <1>8, <1>9, <1>10, StepIInv

LEMMA EndIInv ==
  ASSUME IInv, NEW p \in Process, End(p)
  PROVE  IInv'
  <1> DEFINE d == run[p].doc
             new == (Uses(run[p]) \ run[p].met) \X {run[p].entry}
  <1>0. run[p].cmd # "none" /\ run[p].pc = "end"
    BY UnderWay DEF End
  <1>1. /\ run \in [Process -> Command] /\ run[p] \in Command /\ Control(run[p])
        /\ d \in Uses(run[p]) /\ Uses(run[p]) \subseteq Doc
        /\ run[p].entry \in Entry
        /\ Undisturbed(p)
        /\ d \notin damaged => Readable(target[d])
    BY <1>0, Current, ReadableNow, CommandDoc
  <1>2. /\ run' = [run EXCEPT ![p] = Idle] /\ run'[p] = Idle
        /\ \A q \in Process : q # p => run'[q] = run[q]
        /\ kept' = kept \cup new
        /\ UNCHANGED <<target, temp, database, expired, commands, inits, damaged>>
    BY <1>1 DEF End
  <1>3. TypeOK' /\ InitsCounted'
    <2>1. new \subseteq Doc \X Entry
      BY <1>1
    <2> HIDE DEF new
    <2> QED
      BY <1>2, <2>1, IdleCommand DEF IInv, TypeOK, InitsCounted
  <1>4. \A q \in Process : Uses(run[q])' = Uses(run'[q])
    BY DEF Uses
  <1>5. Controlled'
    BY <1>2, IdleCommand DEF IInv, Controlled
  <1>6. MeetingsKnown'
    BY <1>2, <1>4, IdleCommand DEF IInv, MeetingsKnown
  <1>7. WorkKept'
    <2>1. Undisturbed(p)'
      BY <1>2, IdleCommand DEF Undisturbed
    <2>2. \A q \in Process : q # p => Undisturbed(q)'
      BY <1>2 DEF IInv, WorkKept, Undisturbed, OpenFile, Bytes
    <2> QED
      BY <2>1, <2>2 DEF WorkKept
  <1>8. DocumentsReadable'
    BY <1>0, <1>2 DEF IInv, DocumentsReadable, Readable
  <1>9. \A k \in new : run[p].entry \in target[k[1]] /\ target[k[1]] \in SUBSET Entry
    <2>1. d \notin run[p].met => target[d] = Bytes(run[p])
      BY <1>0, <1>1 DEF Undisturbed
    <2>2. run[p].entry \in Bytes(run[p]) /\ Bytes(run[p]) \in SUBSET Entry
      BY <1>0, <1>1, CommandDoc, Names DEF Control, Bytes, Command, Key
    <2>3. ASSUME NEW c \in Uses(run[p]), c # d
          PROVE  run[p].cmd = "add-folder" /\ d = "state.json" /\ c = Key(run[p].entry)
      BY <1>0, <1>1, <2>3, UsesByKind DEF Control, Command
    <2>4. \A c \in Uses(run[p]) \ run[p].met : c # d => target[c] = {run[p].entry}
      BY <1>1, <2>3 DEF Undisturbed
    <2> QED
      BY <1>1, <2>1, <2>2, <2>4
  <1>10. \A k \in new : k[2] = run[p].entry /\ k[1] \in Uses(run[p]) \ run[p].met
    OBVIOUS
  <1>11. AcknowledgedKept'
    <2>1. ASSUME NEW k \in kept', Readable(target[k[1]])
          PROVE  k[2] \in Parsed(target[k[1]])
      <3>1. CASE k \in kept
        BY <2>1, <3>1 DEF IInv, AcknowledgedKept
      <3>2. CASE k \in new
        BY <1>9, <1>10, <3>2, TextParses
      <3> QED
        BY <1>2, <2>1, <3>1, <3>2
    <2> QED
      BY <1>2, <2>1 DEF AcknowledgedKept, Readable, Parsed
  <1>12. KeptByAll'
    <2>1. ASSUME NEW k \in new
          PROVE  /\ k[1] \in Folder => Key(k[2]) = k[1]
                 /\ \A q \in Process : k[1] \notin Uses(run'[q])
      <3>1. k[1] \in Folder => Key(k[2]) = k[1]
        BY <1>0, <1>1, <1>10, UsesByKind, Names DEF Command
      <3>2. \A q \in Process : q # p => k[1] \notin Uses(run[q])
        BY <1>10, OnlyUser
      <3> QED
        BY <1>2, <3>1, <3>2, IdleCommand
    <2>2. ASSUME NEW k \in kept, NEW q \in Process, k[1] \in Uses(run'[q])
          PROVE  /\ Key(run'[q].entry) # Key(k[2])
                 /\ k[2] \in run'[q].text
                 /\ run'[q].doc = k[1] /\ run'[q].pc \in {"write", "rename"} /\ ~InPlace(k[1])
                      => temp[k[1]] \in {Absent, Empty, Torn} \/ k[2] \in temp[k[1]]
      BY <1>2, <2>2, IdleCommand DEF IInv, KeptByAll
    <2>3. \A k \in kept : k[1] \in Folder => Key(k[2]) = k[1]
      BY DEF IInv, KeptByAll
    <2> HIDE DEF new
    <2> QED
      BY <1>2, <1>4, <2>1, <2>2, <2>3 DEF KeptByAll, Key, InPlace
  <1> QED
    BY <1>3, <1>5, <1>6, <1>7, <1>8, <1>11, <1>12 DEF IInv

LEMMA ExpireIInv ==
  ASSUME IInv, NEW ticket \in Device \X Secret, Expire(ticket)
  PROVE  IInv'
  <1>1. /\ UNCHANGED <<target, temp, run, database, commands, kept, inits, damaged>>
        /\ expired' \subseteq Device \X Secret
    BY DEF Expire, IInv, TypeOK
  <1>2. TypeOK' /\ InitsCounted'
    BY <1>1 DEF IInv, TypeOK, InitsCounted
  <1>3. Controlled' /\ MeetingsKnown'
    BY <1>1 DEF IInv, Controlled, MeetingsKnown, Uses, Key
  <1>4. WorkKept' /\ DocumentsReadable'
    BY <1>1 DEF IInv, WorkKept, Undisturbed, OpenFile, Bytes, DocumentsReadable, Readable
  <1>5. KeptByAll' /\ AcknowledgedKept'
    BY <1>1 DEF IInv, KeptByAll, AcknowledgedKept, Readable, Parsed, Uses, Key
  <1> QED
    BY <1>2, <1>3, <1>4, <1>5 DEF IInv

LEMMA UnchangedIInv ==
  ASSUME IInv, UNCHANGED vars
  PROVE  IInv'
  <1>1. UNCHANGED <<target, temp, run, database, expired, commands, kept, inits, damaged>>
    BY DEF vars
  <1>2. TypeOK' /\ InitsCounted'
    BY <1>1 DEF IInv, TypeOK, InitsCounted
  <1>3. Controlled' /\ MeetingsKnown'
    BY <1>1 DEF IInv, Controlled, MeetingsKnown, Uses, Key
  <1>4. WorkKept' /\ DocumentsReadable'
    BY <1>1 DEF IInv, WorkKept, Undisturbed, OpenFile, Bytes, DocumentsReadable, Readable
  <1>5. KeptByAll' /\ AcknowledgedKept'
    BY <1>1 DEF IInv, KeptByAll, AcknowledgedKept, Readable, Parsed, Uses, Key
  <1> QED
    BY <1>2, <1>3, <1>4, <1>5 DEF IInv

-----------------------------------------------------------------------------
(* The beginning of a command *)

\* A command that has read its document and has done nothing else yet.
Fresh(r) ==
  /\ r \in Command /\ Control(r) /\ r.cmd # "none"
  /\ r.pc \in {"init", "modify"} /\ r.doc # "state.json" /\ r.met = {}
  /\ \A k \in kept : k[1] \in Uses(r) /\ Key(r.entry) # Key(k[2]) => k[2] \in r.text

LEMMA BeginIInv ==
  ASSUME IInv, NEW p \in Process, NEW r, Fresh(r), Begin(p, r),
         UNCHANGED <<target, temp, database, expired>>,
         inits' \in [Folder -> Nat], \A f \in Folder : inits'[f] <= inits[f] + 1
  PROVE  IInv'
  <1> DEFINE Met(q) == IF q = p THEN {} ELSE Uses(run[q]) \cap Uses(r)
             met == UNION {Met(o) : o \in Process}
  <1>0. /\ commands < MaxCommands /\ commands' = commands + 1
        /\ run' = [q \in Process |-> IF q = p THEN [r EXCEPT !.met = met]
                                     ELSE [run[q] EXCEPT !.met = @ \cup Met(q)]]
        /\ damaged' = damaged \cup met
        /\ kept' = {k \in kept : ~(k[1] \in Uses(r) /\ Key(k[2]) = Key(r.entry))}
    BY DEF Begin
  <1>1. Uses(r) \subseteq Doc
    BY CommandDoc DEF Fresh
  <1>2. \A q \in Process : Met(q) \subseteq met /\ Met(q) \subseteq Uses(r)
    OBVIOUS
  <1>3. met \subseteq Doc
    BY <1>1
  <1>4. /\ run'[p] \in Command /\ run'[p].met = met
        /\ run'[p].cmd = r.cmd /\ run'[p].pc = r.pc /\ run'[p].doc = r.doc
        /\ run'[p].entry = r.entry /\ run'[p].text = r.text /\ run'[p].fd = r.fd
    <2> HIDE DEF met
    <2> QED
      BY <1>0, <1>3 DEF Fresh, Command
  <1>5. ASSUME NEW q \in Process, q # p
        PROVE  /\ run'[q] \in Command /\ run'[q].met = run[q].met \cup (Uses(run[q]) \cap Uses(r))
               /\ run'[q].cmd = run[q].cmd /\ run'[q].pc = run[q].pc /\ run'[q].doc = run[q].doc
               /\ run'[q].entry = run[q].entry /\ run'[q].text = run[q].text
               /\ run'[q].fd = run[q].fd
               /\ run[q].cmd = "none" => run'[q] = run[q]
    <2>1. run[q] \in Command /\ Control(run[q]) /\ run'[q] = [run[q] EXCEPT !.met = @ \cup Met(q)]
      BY <1>0, <1>5 DEF IInv, TypeOK, Controlled
    <2>2. Met(q) = Uses(run[q]) \cap Uses(r) /\ Met(q) \subseteq Doc
      BY <1>1, <1>5
    <2>3. run[q].cmd = "none" => Met(q) = {}
      BY <2>1, <2>2, UsesByKind
    <2> HIDE DEF Met
    <2>4. CASE run[q].cmd # "none"
      BY <2>1, <2>2, <2>4 DEF Command
    <2>5. CASE run[q].cmd = "none"
      <3>1. run[q].met \cup Met(q) = run[q].met
        BY <2>3, <2>5
      <3>2. run'[q] = run[q]
        BY <2>1, <3>1 DEF Command
      <3> QED
        BY <2>1, <2>2, <2>3, <2>5, <3>2
    <2> QED
      BY <2>4, <2>5
  <1> HIDE DEF met, Met
  <1>6. run' \in [Process -> Command]
    BY <1>0, <1>4, <1>5
  <1>7. TypeOK' /\ InitsCounted'
    <2>1. /\ commands' \in 0..MaxCommands
          /\ inits' \in [Folder -> 0..MaxCommands]
          /\ \A f \in Folder : inits'[f] <= commands'
      BY <1>0, BoundAssumption DEF IInv, TypeOK, InitsCounted
    <2>2. kept' \subseteq Doc \X Entry /\ damaged' \subseteq Doc
      BY <1>0, <1>3 DEF IInv, TypeOK
    <2> QED
      BY <1>6, <2>1, <2>2 DEF IInv, TypeOK, InitsCounted
  <1>8. /\ Uses(run'[p]) = Uses(r)
        /\ \A q \in Process : q # p => Uses(run'[q]) = Uses(run[q])
    BY <1>4, <1>5 DEF Uses
  <1>9. \A q \in Process : Uses(run[q])' = Uses(run'[q])
    BY DEF Uses
  <1>10. Controlled'
    <2>1. Control(run'[p])
      BY <1>4 DEF Fresh, Control
    <2>2. ASSUME NEW q \in Process, q # p PROVE Control(run'[q])
      <3>1. Control(run[q])
        BY DEF IInv, Controlled
      <3> QED
        BY <1>5, <2>2, <3>1 DEF Control
    <2> QED
      BY <2>1, <2>2 DEF Controlled
  <1>11. MeetingsKnown'
    <2>1. \A q \in Process : run'[q].met \subseteq damaged'
      BY <1>0, <1>2, <1>4, <1>5 DEF IInv, MeetingsKnown, Met
    <2>2. ASSUME NEW q \in Process, NEW o \in Process, q # o
          PROVE  Uses(run'[q]) \cap Uses(run'[o]) \subseteq run'[q].met
      <3>1. CASE q = p
        BY <1>2, <1>4, <1>8, <2>2, <3>1 DEF Met
      <3>2. CASE o = p
        BY <1>5, <1>8, <2>2, <3>2
      <3>3. CASE q # p /\ o # p
        BY <1>5, <1>8, <2>2, <3>3 DEF IInv, MeetingsKnown
      <3> QED
        BY <3>1, <3>2, <3>3
    <2> QED
      BY <1>9, <2>1, <2>2 DEF MeetingsKnown
  <1>12. WorkKept'
    <2>1. Undisturbed(p)'
      BY <1>4 DEF Undisturbed, Fresh
    <2>2. ASSUME NEW q \in Process, q # p PROVE Undisturbed(q)'
      <3>1. Undisturbed(q)
        BY DEF IInv, WorkKept
      <3>2. Bytes(run[q])' = Bytes(run[q]) /\ OpenFile(q)' = OpenFile(q)
        BY <1>5, <2>2 DEF Bytes, OpenFile
      <3> QED
        BY <1>5, <2>2, <3>1, <3>2 DEF Undisturbed
    <2> QED
      BY <2>1, <2>2 DEF WorkKept
  <1>13. DocumentsReadable'
    <2>1. run[p].pc # "write"
      BY IdleCommand DEF Begin
    <2>2. \A q \in Process : run[q].pc = "write" => run'[q].pc = "write" /\ run'[q].doc = run[q].doc
      BY <1>5, <2>1
    <2> QED
      BY <1>0, <2>2 DEF IInv, DocumentsReadable, Readable
  <1>14. AcknowledgedKept'
    BY <1>0 DEF IInv, AcknowledgedKept, Readable, Parsed
  <1>15. KeptByAll'
    <2>1. ASSUME NEW k \in kept', NEW q \in Process, k[1] \in Uses(run'[q])
          PROVE  /\ Key(run'[q].entry) # Key(k[2])
                 /\ k[2] \in run'[q].text
                 /\ run'[q].doc = k[1] /\ run'[q].pc \in {"write", "rename"} /\ ~InPlace(k[1])
                      => temp[k[1]] \in {Absent, Empty, Torn} \/ k[2] \in temp[k[1]]
      <3>0. k \in kept /\ ~(k[1] \in Uses(r) /\ Key(k[2]) = Key(r.entry))
        BY <1>0, <2>1
      <3>1. CASE q = p
        BY <1>4, <1>8, <2>1, <3>0, <3>1 DEF Fresh
      <3>2. CASE q # p
        BY <1>5, <1>8, <2>1, <3>0, <3>2 DEF IInv, KeptByAll
      <3> QED
        BY <3>1, <3>2
    <2>2. \A k \in kept' : k[1] \in Folder => Key(k[2]) = k[1]
      BY <1>0 DEF IInv, KeptByAll
    <2> QED
      BY <1>9, <2>1, <2>2 DEF KeptByAll, Key, InPlace
  <1> QED
    BY <1>7, <1>10, <1>11, <1>12, <1>13, <1>14, <1>15 DEF IInv

\* What a document that loads has, a command that reads it has too.
LEMMA ReadKept ==
  ASSUME IInv, NEW d \in Doc, Loads(target[d])
  PROVE  /\ \A k \in kept : k[1] = d => k[2] \in Parsed(target[d])
         /\ Parsed(target[d]) \in SUBSET Entry
  BY DEF IInv, AcknowledgedKept, Loads, Readable, Parsed, TypeOK, Content

LEMMA AcceptPeerIInv ==
  ASSUME IInv, NEW p \in Process, NEW ticket \in Device \X Secret, AcceptPeer(p, ticket)
  PROVE  IInv'
  <1> DEFINE text == Parsed(target["peers.json"])
             r == [Idle EXCEPT !.cmd = "accept-peer", !.pc = "modify", !.entry = ticket,
                               !.text = text]
  <1>1. Loads(target["peers.json"]) /\ Begin(p, r)
    BY DEF AcceptPeer
  <1>2. /\ \A k \in kept : k[1] = "peers.json" => k[2] \in text
        /\ text \in SUBSET Entry
    BY <1>1, Names, ReadKept
  <1> HIDE DEF text
  <1>3. /\ r \in Command /\ r.cmd = "accept-peer" /\ r.pc = "modify" /\ r.doc = "peers.json"
        /\ r.entry = ticket /\ r.text = text /\ r.fd = "closed" /\ r.met = {}
    BY <1>2, Names DEF Idle, Command, Entry
  <1> HIDE DEF r
  <1>4. Control(r) /\ Uses(r) = {"peers.json"}
    BY <1>3, UsesByKind DEF Control
  <1>5. Fresh(r)
    BY <1>2, <1>3, <1>4 DEF Fresh
  <1> QED
    BY <1>1, <1>5, BeginIInv DEF AcceptPeer, IInv, TypeOK

LEMMA InitFolderIInv ==
  ASSUME IInv, NEW p \in Process, NEW f \in Folder, NEW limit \in Limit, InitFolder(p, f, limit)
  PROVE  IInv'
  <1> DEFINE r == [Idle EXCEPT !.cmd = "init-folder", !.pc = "init", !.doc = f,
                               !.entry = <<f, limit>>]
  <1>1. Begin(p, r)
    BY DEF InitFolder
  <1>2. /\ r \in Command /\ r.cmd = "init-folder" /\ r.pc = "init" /\ r.doc = f
        /\ r.entry = <<f, limit>> /\ r.text = {} /\ r.fd = "closed" /\ r.met = {}
    BY Names DEF Idle, Command, Entry
  <1> HIDE DEF r
  <1>3. Control(r) /\ Uses(r) = {f}
    BY <1>2, UsesByKind DEF Control, Key
  <1>4. \A k \in kept : k[1] = f => Key(k[2]) = Key(r.entry)
    BY <1>2 DEF IInv, KeptByAll, Key
  <1>5. Fresh(r)
    BY <1>2, <1>3, <1>4, Names DEF Fresh
  <1>6. inits' \in [Folder -> Nat] /\ \A g \in Folder : inits'[g] <= inits[g] + 1
    BY DEF InitFolder, IInv, TypeOK
  <1> QED
    BY <1>1, <1>5, <1>6, BeginIInv DEF InitFolder

LEMMA AddFolderIInv ==
  ASSUME IInv, NEW p \in Process, NEW f \in Folder, NEW limit \in Limit, AddFolder(p, f, limit)
  PROVE  IInv'
  <1> DEFINE text == Parsed(target["state.json"]) \cup {<<f, limit>>}
             r == [Idle EXCEPT !.cmd = "add-folder", !.pc = "init", !.doc = f,
                               !.entry = <<f, limit>>, !.text = text]
  <1>1. Loads(target["state.json"]) /\ Begin(p, r)
    BY DEF AddFolder
  <1>2. /\ \A k \in kept : k[1] = "state.json" => k[2] \in text
        /\ text \in SUBSET Entry /\ <<f, limit>> \in text
    BY <1>1, Names, ReadKept DEF Entry
  <1> HIDE DEF text
  <1>3. /\ r \in Command /\ r.cmd = "add-folder" /\ r.pc = "init" /\ r.doc = f
        /\ r.entry = <<f, limit>> /\ r.text = text /\ r.fd = "closed" /\ r.met = {}
    BY <1>2, Names DEF Idle, Command, Entry
  <1> HIDE DEF r
  <1>4. Control(r) /\ Uses(r) = {"state.json", f}
    BY <1>2, <1>3, UsesByKind DEF Control, Key
  <1>5. \A k \in kept : k[1] = f => Key(k[2]) = Key(r.entry)
    BY <1>3 DEF IInv, KeptByAll, Key
  <1>6. Fresh(r)
    BY <1>2, <1>3, <1>4, <1>5, Names DEF Fresh
  <1>7. inits' \in [Folder -> Nat] /\ \A g \in Folder : inits'[g] <= inits[g] + 1
    BY DEF AddFolder, IInv, TypeOK
  <1> QED
    BY <1>1, <1>6, <1>7, BeginIInv DEF AddFolder

-----------------------------------------------------------------------------
(* The theorems *)

\* The invariant is inductive.
LEMMA NextIInv == IInv /\ [Next]_vars => IInv'
  <1> SUFFICES ASSUME IInv, [Next]_vars PROVE IInv'
    OBVIOUS
  <1>1. ASSUME NEW p \in Process, Step(p) PROVE IInv'
    <2>1. CASE AcceptTicket(p)
      BY <2>1, AcceptTicketIInv
    <2>2. CASE CheckLimit(p)
      BY <2>2, CheckLimitIInv
    <2>3. CASE Create(p)
      BY <2>3, CreateIInv
    <2>4. CASE Write(p)
      BY <2>4, WriteIInv
    <2>5. CASE Rename(p)
      BY <2>5, RenameIInv
    <2>6. CASE OpenDatabase(p)
      BY <2>6, OpenDatabaseIInv
    <2>7. CASE End(p)
      BY <2>7, EndIInv
    <2>8. CASE Crash(p)
      BY <2>8, CrashIInv
    <2>9. CASE AppStops(p)
      BY <2>9, AppStopsIInv
    <2>10. CASE \E ticket \in Device \X Secret : AcceptPeer(p, ticket)
      BY <2>10, AcceptPeerIInv
    <2>11. CASE \E f \in Folder, limit \in Limit : InitFolder(p, f, limit) \/ AddFolder(p, f, limit)
      BY <2>11, InitFolderIInv, AddFolderIInv
    <2> QED
      BY <1>1, <2>1, <2>2, <2>3, <2>4, <2>5, <2>6, <2>7, <2>8, <2>9, <2>10, <2>11 DEF Step
  <1>2. CASE \E ticket \in Device \X Secret : Expire(ticket)
    BY <1>2, ExpireIInv
  <1>3. CASE UNCHANGED vars
    BY <1>3, UnchangedIInv
  <1> QED
    BY <1>1, <1>2, <1>3 DEF Next

LEMMA Inductive == Spec => []IInv
  BY InitIInv, NextIInv, PTL DEF Spec

\* Type correctness of the document commands.
THEOREM TypeCorrect == Spec => []TypeOK
  <1>1. IInv => TypeOK
    BY DEF IInv
  <1> QED
    BY <1>1, Inductive, PTL

\* A crash at any step of a write (the temporary file of peer_store and of
\* folder_store, the write in place of the app) leaves a document that parses, if
\* no two commands overlapped on it and the write in place was not cut short.
THEOREM CrashSafe == Spec => []DocumentsReadable
  <1>1. IInv => DocumentsReadable
    BY DEF IInv
  <1> QED
    BY <1>1, Inductive, PTL

\* An entry acknowledged by a command that met no other is lost by no later
\* command, overlapping ones included.
THEOREM NoLostUpdate == Spec => []AcknowledgedKept
  <1>1. IInv => AcknowledgedKept
    BY DEF IInv
  <1> QED
    BY <1>1, Inductive, PTL

-----------------------------------------------------------------------------
(* One entry for a key, whatever overlaps *)

Functional(text) == \A e1, e2 \in text : Key(e1) = Key(e2) => e1 = e2

\* Every content that is anywhere has one entry for a key.
AllFunctional ==
  /\ \A d \in Doc : target[d] \in SUBSET Entry => Functional(target[d])
  /\ \A d \in Doc : temp[d] \in SUBSET Entry => Functional(temp[d])
  /\ \A p \in Process : Functional(run[p].text)

LEMMA BytesFunctional ==
  ASSUME TypeOK, AllFunctional, NEW p \in Process
  PROVE  Functional(Bytes(run[p]))
  BY DEF AllFunctional, Bytes, Functional

\* A step that moves contents about, and gives a process no text but one with
\* one entry for a key.
LEMMA ContentsFunctional ==
  ASSUME TypeOK, AllFunctional, NEW p \in Process, NEW d \in Doc,
         \A c \in Doc : c # d => target'[c] = target[c] /\ temp'[c] = temp[c],
         target'[d] \in {target[d], temp[d], Absent, Empty, Torn, Bytes(run[p])},
         temp'[d] \in {temp[d], Absent, Empty, Torn, Bytes(run[p])},
         \A q \in Process : q # p => run'[q].text = run[q].text,
         Functional(run'[p].text)
  PROVE  AllFunctional'
  <1>1. \A c \in Doc : target'[c] \in SUBSET Entry => Functional(target'[c])
    BY ContentAssumption, BytesFunctional DEF AllFunctional
  <1>2. \A c \in Doc : temp'[c] \in SUBSET Entry => Functional(temp'[c])
    BY ContentAssumption, BytesFunctional DEF AllFunctional
  <1>3. \A q \in Process : Functional(run'[q].text)
    BY DEF AllFunctional
  <1> QED
    BY <1>1, <1>2, <1>3 DEF AllFunctional, Functional, Key, Entry

LEMMA NextFunctional ==
  ASSUME TypeOK, AllFunctional, [Next]_vars
  PROVE  AllFunctional'
  <1>0. /\ run \in [Process -> Command]
        /\ target \in [Doc -> Content] /\ temp \in [Doc -> Content]
        /\ \A q \in Process : run[q].doc \in Doc /\ Functional(run[q].text)
        /\ \A c \in Doc : Functional(Parsed(target[c]))
    BY ContentAssumption DEF TypeOK, Command, AllFunctional, Parsed, Content, Functional
  <1>1. Functional({}) /\ Idle.text = {}
    BY DEF Functional, Idle
  <1>2. ASSUME NEW p \in Process, Step(p) PROVE AllFunctional'
    <2> DEFINE d == run[p].doc
    <2>1. CASE AcceptTicket(p)
      <3>1. Functional(Accepted(run[p].text, run[p].entry))
        BY <1>0 DEF Accepted, Functional
      <3>2. run'[p].text \in {{}, Accepted(run[p].text, run[p].entry)}
        BY <1>0, <1>1, <2>1 DEF AcceptTicket, Command
      <3> QED
        BY <1>0, <1>1, <2>1, <3>1, <3>2, ContentsFunctional DEF AcceptTicket
    <2>2. CASE CheckLimit(p) \/ OpenDatabase(p) \/ AppStops(p) \/ End(p)
      <3>0. target' = target /\ temp' = temp
        BY <2>2 DEF CheckLimit, OpenDatabase, AppStops, End
      <3>1. run'[p].text \in {{}, run[p].text}
        <4>1. CASE CheckLimit(p)
          BY <1>0, <1>1, <4>1 DEF CheckLimit, Command
        <4>2. CASE OpenDatabase(p)
          BY <1>0, <4>2 DEF OpenDatabase, Command
        <4>3. CASE AppStops(p)
          BY <1>0, <4>3 DEF AppStops, Command
        <4>4. CASE End(p)
          BY <1>0, <1>1, <4>4 DEF End
        <4> QED
          BY <2>2, <4>1, <4>2, <4>3, <4>4
      <3>2. \A q \in Process : q # p => run'[q].text = run[q].text
        BY <1>0, <2>2 DEF CheckLimit, OpenDatabase, AppStops, End
      <3> QED
        BY <1>0, <1>1, <3>0, <3>1, <3>2, ContentsFunctional
    <2>3. CASE Create(p)
      <3>1. run'[p].text = run[p].text /\ \A q \in Process : q # p => run'[q].text = run[q].text
        BY <1>0, <2>3 DEF Create, Command
      <3> QED
        BY <1>0, <2>3, <3>1, ContentsFunctional DEF Create
    <2>4. CASE Write(p)
      <3>1. run'[p].text = run[p].text /\ \A q \in Process : q # p => run'[q].text = run[q].text
        BY <1>0, <2>4 DEF Write, Command
      <3> QED
        BY <1>0, <2>4, <3>1, ContentsFunctional DEF Write, Store
    <2>5. CASE Rename(p)
      <3>1. run'[p].text \in {{}, run[p].text}
        BY <1>0, <1>1, <2>5 DEF Rename, Command
      <3>2. \A q \in Process : q # p => run'[q].text = run[q].text
        BY <1>0, <2>5 DEF Rename, Command
      <3>3. /\ \A c \in Doc : c # d => target'[c] = target[c] /\ temp'[c] = temp[c]
            /\ target'[d] \in {target[d], temp[d]} /\ temp'[d] \in {temp[d], Absent}
        BY <1>0, <2>5 DEF Rename
      <3>4. Functional(run'[p].text)
        BY <1>0, <1>1, <3>1
      <3> QED
        BY <1>0, <3>2, <3>3, <3>4, ContentsFunctional
    <2>6. CASE Crash(p)
      <3>1. run'[p].text = {} /\ \A q \in Process : q # p => run'[q].text = run[q].text
        BY <1>0, <1>1, <2>6 DEF Crash
      <3>2. /\ \A c \in Doc : c # d => target'[c] = target[c] /\ temp'[c] = temp[c]
            /\ target'[d] \in {target[d], Torn} /\ temp'[d] \in {temp[d], Torn}
        BY <1>0, <2>6 DEF Crash, Store
      <3>3. Functional(run'[p].text)
        BY <1>1, <3>1
      <3> QED
        BY <1>0, <3>1, <3>2, <3>3, ContentsFunctional
    <2>7. ASSUME NEW r, Begin(p, r), Functional(r.text), UNCHANGED <<target, temp>>,
                 DOMAIN r = DOMAIN Idle
          PROVE  AllFunctional'
      <3>1. run'[p].text = r.text /\ \A q \in Process : q # p => run'[q].text = run[q].text
        BY <1>0, <2>7 DEF Begin, Command, Idle
      <3> QED
        BY <1>0, <2>7, <3>1, ContentsFunctional
    <2>8. ASSUME NEW ticket \in Device \X Secret, AcceptPeer(p, ticket) PROVE AllFunctional'
      BY <1>0, <2>7, <2>8, Names DEF AcceptPeer, Idle
    <2>9. ASSUME NEW f \in Folder, NEW limit \in Limit, InitFolder(p, f, limit)
          PROVE  AllFunctional'
      BY <1>1, <2>7, <2>9 DEF InitFolder, Idle
    <2>10. ASSUME NEW f \in Folder, NEW limit \in Limit, AddFolder(p, f, limit)
           PROVE  AllFunctional'
      <3>1. Functional(Parsed(target["state.json"]) \cup {<<f, limit>>})
        BY <1>0, <2>10, Names DEF AddFolder, NotConfigured, Functional, Key
      <3> QED
        BY <2>7, <2>10, <3>1 DEF AddFolder, Idle
    <2> QED
      BY <1>2, <2>1, <2>2, <2>3, <2>4, <2>5, <2>6, <2>8, <2>9, <2>10 DEF Step
  <1>3. ASSUME UNCHANGED <<target, temp, run>> PROVE AllFunctional'
    BY <1>3 DEF AllFunctional, Functional, Key, Entry
  <1> QED
    BY <1>2, <1>3 DEF Next, Expire, vars

\* A device has one secret and a folder one entry in what a command can read,
\* for any commands that overlap and crash.
THEOREM Unambiguous == Spec => []OneEntryPerKey
  <1>1. Init => AllFunctional
    <2> SUFFICES ASSUME Init PROVE AllFunctional
      OBVIOUS
    <2>1. \A d \in Doc : target[d] \notin SUBSET Entry /\ temp[d] \notin SUBSET Entry
      BY ContentAssumption DEF Init
    <2>2. \A p \in Process : run[p].text = {}
      BY DEF Init, Idle
    <2> QED
      BY <2>1, <2>2 DEF AllFunctional, Functional
  <1>2. TypeOK /\ AllFunctional /\ [Next]_vars => AllFunctional'
    BY NextFunctional
  <1>3. TypeOK /\ AllFunctional => OneEntryPerKey
    BY DEF TypeOK, AllFunctional, OneEntryPerKey, Parsed, Content, Readable, Functional
  <1> QED
    BY <1>1, <1>2, <1>3, TypeCorrect, PTL DEF Spec

-----------------------------------------------------------------------------
(* A folder the app lists was initialised *)

\* What holds of an entry of state.json: its folder was initialised, and if
\* that happened once only, folder.json has its limit and nobody writes it.
Listed(e) ==
  /\ e \in Folder \X Limit
  /\ Key(e) \in database
  /\ inits[Key(e)] >= 1
  /\ inits[Key(e)] = 1 => /\ target[Key(e)] = {e}
                          /\ \A p \in Process : run[p].doc # Key(e)

\* The entries of state.json and the ones an add-folder has read from it.
AllListed ==
  /\ \A e \in Parsed(target["state.json"]) : Listed(e)
  /\ \A p \in Process : run[p].cmd = "add-folder" =>
       /\ \A e \in run[p].text \ {run[p].entry} : Listed(e)
       /\ run[p].doc = "state.json" => Key(run[p].entry) \in database

\* Every init-folder is counted: one for a folder in use, two for one on which
\* commands have met.
UsersCounted ==
  \A p \in Process, f \in Folder :
    /\ f \in Uses(run[p]) => inits[f] >= 1
    /\ f \in run[p].met => inits[f] >= 2

ListInv == AllListed /\ UsersCounted

\* An entry stays listed in a step that takes no folder away, and in which only
\* a command that works on a folder writes its folder.json.
LEMMA ListedStays ==
  ASSUME TypeOK, TypeOK', NEW e, Listed(e),
         database \subseteq database',
         \A f \in Folder : inits'[f] >= inits[f],
         \A f \in Folder : target'[f] = target[f] \/ \E p \in Process : run[p].doc = f,
         \A p \in Process : \/ run'[p].doc \notin Folder
                            \/ run'[p].doc = run[p].doc
                            \/ inits'[run'[p].doc] > inits[run'[p].doc]
  PROVE  Listed(e)'
  <1> DEFINE f == Key(e)
  <1>1. f \in Folder /\ f \in database' /\ inits[f] >= 1 /\ e \in Folder \X Limit
    BY DEF Listed, Key
  <1>2. inits[f] \in Nat /\ inits'[f] \in Nat /\ inits'[f] >= inits[f]
    BY <1>1, BoundAssumption DEF TypeOK
  <1>3. ASSUME inits'[f] = 1
        PROVE  target'[f] = {e} /\ \A p \in Process : run'[p].doc # f
    <2>1. inits[f] = 1 /\ ~(inits'[f] > inits[f])
      BY <1>1, <1>2, <1>3
    <2>2. target[f] = {e} /\ \A p \in Process : run[p].doc # f
      BY <2>1 DEF Listed
    <2> QED
      BY <1>1, <2>1, <2>2
  <1>4. Key(e)' = f
    BY DEF Key
  <1> HIDE DEF f
  <1>5. inits'[f] >= 1
    BY <1>1, <1>2
  <1> QED
    BY <1>1, <1>3, <1>4, <1>5 DEF Listed

\* The entry an add-folder is about to write to state.json is one of an
\* initialised folder.
LEMMA OwnEntryListed ==
  ASSUME IInv, ListInv, NEW p \in Process, run[p].cmd = "add-folder", run[p].doc = "state.json"
  PROVE  Listed(run[p].entry)
  <1> DEFINE f == Key(run[p].entry)
  <1>1. run[p] \in Command /\ Control(run[p]) /\ run[p].entry \in Folder \X Limit
    BY DEF IInv, TypeOK, Controlled, Control
  <1>2. f \in Folder /\ f \in Uses(run[p]) /\ f \in database
    BY <1>1, UsesByKind DEF ListInv, AllListed, Key
  <1>3. inits[f] >= 1 /\ (f \in run[p].met => inits[f] >= 2)
    BY <1>2 DEF ListInv, UsersCounted
  <1>4. ASSUME inits[f] = 1
        PROVE  target[f] = {run[p].entry} /\ \A q \in Process : run[q].doc # f
    <2>1. f \notin run[p].met
      BY <1>3, <1>4
    <2>2. target[f] = {run[p].entry}
      BY <2>1 DEF IInv, WorkKept, Undisturbed
    <2>3. ASSUME NEW q \in Process, run[q].doc = f PROVE FALSE
      <3>1. q # p
        BY <1>2, <2>3, Names
      <3>2. run[q] \in Command /\ Control(run[q])
        BY DEF IInv, TypeOK, Controlled
      <3>3. run[q].cmd # "none"
        BY <1>2, <2>3, <3>2, Names, IdleCommand DEF Control
      <3>4. f \in Uses(run[q])
        BY <2>3, <3>2, <3>3, CommandDoc
      <3> QED
        BY <1>2, <2>1, <3>1, <3>4, OnlyUser
    <2> QED
      BY <2>2, <2>3
  <1> QED
    BY <1>1, <1>2, <1>3, <1>4 DEF Listed

\* A step of a command that is under way.
LEMMA StepListed ==
  ASSUME IInv, TypeOK', ListInv, NEW p \in Process, run[p].cmd # "none",
         \A q \in Process : q # p =>
           /\ run'[q].cmd = run[q].cmd /\ run'[q].entry = run[q].entry
           /\ run'[q].text = run[q].text /\ run'[q].doc = run[q].doc /\ run'[q].met = run[q].met,
         Uses(run'[p]) \subseteq Uses(run[p]),
         run'[p].met \subseteq run[p].met,
         run'[p].doc \in {run[p].doc, "state.json", "peers.json"},
         run'[p].cmd = "add-folder" =>
           /\ run[p].cmd = "add-folder"
           /\ run'[p].entry = run[p].entry /\ run'[p].text = run[p].text
           /\ run'[p].doc = "state.json" =>
                run[p].doc = "state.json" \/ Key(run[p].entry) \in database',
         \A c \in Doc : c # run[p].doc => target'[c] = target[c],
         run[p].doc = "state.json" =>
           target'["state.json"] \in {target["state.json"], Empty, Torn, Bytes(run[p])},
         database \subseteq database', inits' = inits
  PROVE  ListInv'
  <1>0. /\ TypeOK /\ run[p] \in Command /\ Control(run[p])
        /\ \A q \in Process : run[q] \in Command /\ run'[q] \in Command
    BY DEF IInv, TypeOK, Controlled
  <1>1. ASSUME NEW e, Listed(e) PROVE Listed(e)'
    <2>1. \A f \in Folder : inits'[f] >= inits[f]
      BY <1>0, BoundAssumption DEF TypeOK
    <2>2. \A f \in Folder : target'[f] = target[f] \/ \E q \in Process : run[q].doc = f
      BY Names
    <2>3. \A q \in Process : run'[q].doc \notin Folder \/ run'[q].doc = run[q].doc
      BY Names
    <2> QED
      BY <1>0, <1>1, <2>1, <2>2, <2>3, ListedStays
  <1>2. \A e \in Parsed(target'["state.json"]) : Listed(e)'
    <2>1. CASE target'["state.json"] = target["state.json"]
      BY <1>1, <2>1 DEF ListInv, AllListed
    <2>2. CASE target'["state.json"] \in {Empty, Torn}
      BY <2>2 DEF Parsed
    <2>3. CASE run[p].doc = "state.json" /\ target'["state.json"] = Bytes(run[p])
      <3>1. run[p].cmd = "add-folder"
        BY <1>0, <2>3, Names DEF Control, Command, Key
      <3>2. Bytes(run[p]) = run[p].text /\ run[p].text \in SUBSET Entry
        BY <1>0, <2>3, Names DEF Bytes, Command
      <3>3. \A e \in run[p].text : Listed(e)
        BY <2>3, <3>1, OwnEntryListed DEF ListInv, AllListed
      <3> QED
        BY <1>1, <2>3, <3>2, <3>3, TextParses
    <2> QED
      BY <2>1, <2>2, <2>3, Names
  <1>3. ASSUME NEW q \in Process, run'[q].cmd = "add-folder"
        PROVE  /\ \A e \in run'[q].text \ {run'[q].entry} : Listed(e)'
               /\ run'[q].doc = "state.json" => Key(run'[q].entry) \in database'
    <2>1. /\ run[q].cmd = "add-folder" /\ run'[q].text = run[q].text
          /\ run'[q].entry = run[q].entry
          /\ run'[q].doc = "state.json" =>
               run[q].doc = "state.json" \/ Key(run[q].entry) \in database'
      BY <1>3
    <2>2. /\ \A e \in run[q].text \ {run[q].entry} : Listed(e)
          /\ run[q].doc = "state.json" => Key(run[q].entry) \in database
      BY <2>1 DEF ListInv, AllListed
    <2> QED
      BY <1>1, <2>1, <2>2
  <1>4. ASSUME NEW q \in Process, NEW f \in Folder
        PROVE  /\ f \in Uses(run'[q]) => inits'[f] >= 1
               /\ f \in run'[q].met => inits'[f] >= 2
    <2>1. Uses(run'[q]) \subseteq Uses(run[q])
      <3>1. CASE q = p
        BY <3>1
      <3>2. CASE q # p
        BY <1>0, <3>2 DEF Uses
      <3> QED
        BY <3>1, <3>2
    <2>2. run'[q].met \subseteq run[q].met
      OBVIOUS
    <2> QED
      BY <2>1, <2>2 DEF ListInv, UsersCounted
  <1>5. AllListed'
    <2>1. Parsed(target["state.json"])' = Parsed(target'["state.json"])
      BY DEF Parsed
    <2>2. \A q \in Process : Key(run[q].entry)' = Key(run'[q].entry)
      BY DEF Key
    <2> QED
      BY <1>2, <1>3, <2>1, <2>2 DEF AllListed
  <1>6. UsersCounted'
    <2>1. \A q \in Process : Uses(run[q])' = Uses(run'[q])
      BY DEF Uses
    <2> QED
      BY <1>4, <2>1 DEF UsersCounted
  <1> QED
    BY <1>5, <1>6 DEF ListInv

\* The beginning of a command: what it reads in state.json is listed, and an
\* init-folder for the folder it names is counted.
LEMMA BeginListed ==
  ASSUME IInv, TypeOK', ListInv, NEW p \in Process, NEW r \in Command, Begin(p, r),
         UNCHANGED <<target, database>>,
         \A f \in Folder : inits'[f] >= inits[f],
         \A f \in Folder \cap Uses(r) : inits'[f] = inits[f] + 1,
         r.doc \in Folder => r.doc \in Uses(r),
         r.cmd = "add-folder" => /\ r.doc # "state.json"
                                 /\ \A e \in r.text \ {r.entry} : Listed(e)
  PROVE  ListInv'
  <1> DEFINE Met(q) == IF q = p THEN {} ELSE Uses(run[q]) \cap Uses(r)
             met == UNION {Met(o) : o \in Process}
  <1>0. /\ TypeOK /\ run \in [Process -> Command]
        /\ \A f \in Folder : inits[f] \in Nat /\ inits'[f] \in Nat
    BY BoundAssumption DEF IInv, TypeOK
  <1>1. run' = [q \in Process |-> IF q = p THEN [r EXCEPT !.met = met]
                                  ELSE [run[q] EXCEPT !.met = @ \cup Met(q)]]
    BY DEF Begin
  <1>2. \A f \in met : f \in Uses(r) /\ \E q \in Process : f \in Uses(run[q])
    OBVIOUS
  <1>3. \A q \in Process : Met(q) \subseteq Uses(r) /\ Met(q) \subseteq Uses(run[q])
    OBVIOUS
  <1> HIDE DEF Met, met
  <1>4. /\ run'[p].cmd = r.cmd /\ run'[p].doc = r.doc /\ run'[p].entry = r.entry
        /\ run'[p].text = r.text /\ run'[p].met = met
    BY <1>1 DEF Command
  <1>5. \A q \in Process : q # p =>
          /\ run'[q].cmd = run[q].cmd /\ run'[q].entry = run[q].entry
          /\ run'[q].text = run[q].text /\ run'[q].doc = run[q].doc
          /\ run'[q].met = run[q].met \cup Met(q)
    BY <1>0, <1>1 DEF Command
  <1>6. ASSUME NEW e, Listed(e) PROVE Listed(e)'
    <2>1. \A q \in Process : \/ run'[q].doc \notin Folder
                             \/ run'[q].doc = run[q].doc
                             \/ inits'[run'[q].doc] > inits[run'[q].doc]
      BY <1>0, <1>4, <1>5
    <2> QED
      BY <1>0, <1>6, <2>1, ListedStays
  <1>7. AllListed'
    <2>1. Parsed(target["state.json"])' = Parsed(target["state.json"])
      BY DEF Parsed
    <2>2. \A e \in Parsed(target["state.json"]) : Listed(e)'
      BY <1>6 DEF ListInv, AllListed
    <2>3. ASSUME NEW q \in Process, run'[q].cmd = "add-folder"
          PROVE  /\ \A e \in run'[q].text \ {run'[q].entry} : Listed(e)'
                 /\ run'[q].doc = "state.json" => Key(run'[q].entry) \in database
      <3>1. CASE q = p
        BY <1>4, <1>6, <2>3, <3>1
      <3>2. CASE q # p
        BY <1>5, <1>6, <2>3, <3>2 DEF ListInv, AllListed
      <3> QED
        BY <3>1, <3>2
    <2>4. \A q \in Process : Key(run[q].entry)' = Key(run'[q].entry)
      BY DEF Key
    <2> QED
      BY <2>1, <2>2, <2>3, <2>4 DEF AllListed
  <1>8. \A q \in Process : q # p => Uses(run'[q]) = Uses(run[q])
    BY <1>5 DEF Uses
  <1>9. Uses(run'[p]) = Uses(r)
    BY <1>4 DEF Uses
  <1>10. \A q \in Process, f \in Folder : f \in Uses(run[q]) => inits[f] >= 1
    BY DEF ListInv, UsersCounted
  <1>11. ASSUME NEW q \in Process, NEW f \in Folder
         PROVE  /\ f \in Uses(run'[q]) => inits'[f] >= 1
                /\ f \in run'[q].met => inits'[f] >= 2
    <2>1. f \in Uses(run'[q]) => inits'[f] >= 1
      BY <1>0, <1>8, <1>9, <1>10
    <2>2. f \in Uses(r) /\ (\E o \in Process : f \in Uses(run[o])) => inits'[f] >= 2
      BY <1>0, <1>10
    <2>3. q = p => (f \in run'[q].met => inits'[f] >= 2)
      BY <1>2, <1>4, <2>2
    <2>4. f \in run[q].met => inits'[f] >= 2
      BY <1>0 DEF ListInv, UsersCounted
    <2>5. q # p => (f \in run'[q].met => inits'[f] >= 2)
      BY <1>3, <1>5, <2>2, <2>4
    <2> QED
      BY <2>1, <2>3, <2>5
  <1>12. UsersCounted'
    <2>1. \A q \in Process : Uses(run[q])' = Uses(run'[q])
      BY DEF Uses
    <2> QED
      BY <1>11, <2>1 DEF UsersCounted
  <1> QED
    BY <1>7, <1>12 DEF ListInv

\* The step of one process; the invariants above hold after it too.
LEMMA NextListed ==
  ASSUME IInv, IInv', ListInv, NEW p \in Process, Step(p)
  PROVE  ListInv'
  <1>0. TypeOK /\ TypeOK' /\ run \in [Process -> Command] /\ run[p] \in Command /\ Control(run[p])
    BY DEF IInv, TypeOK, Controlled
  <1>1. CASE AcceptTicket(p)
    <2>1. run[p].cmd = "accept-peer" /\ run[p].doc = "peers.json"
      BY <1>0, <1>1 DEF AcceptTicket, Control, Command
    <2>2. /\ run'[p].cmd \in {"none", "accept-peer"} /\ run'[p].met \in {{}, run[p].met}
          /\ run'[p].doc = "peers.json"
          /\ run'[p] = Idle \/ run'[p].cmd = "accept-peer"
      BY <1>0, <1>1, <2>1, IdleCommand DEF AcceptTicket, Command
    <2>3. Uses(run'[p]) \subseteq Uses(run[p])
      BY <2>1, <2>2, IdleCommand DEF Uses
    <2> QED
      BY <1>0, <1>1, <2>1, <2>2, <2>3, StepListed DEF AcceptTicket
  <1>2. CASE CheckLimit(p)
    <2>1. run[p].cmd # "none"
      BY <1>2, UnderWay DEF CheckLimit
    <2>2. \/ run'[p] = Idle
          \/ /\ run'[p].cmd = run[p].cmd /\ run'[p].met = run[p].met /\ run'[p].doc = run[p].doc
             /\ run'[p].entry = run[p].entry /\ run'[p].text = run[p].text
      BY <1>0, <1>2 DEF CheckLimit, Command
    <2>3. Uses(run'[p]) \subseteq Uses(run[p])
      BY <2>2, IdleCommand DEF Uses
    <2> QED
      BY <1>0, <1>2, <2>1, <2>2, <2>3, IdleCommand, StepListed DEF CheckLimit
  <1>3. CASE Create(p)
    <2>1. run[p].cmd # "none"
      BY <1>3, UnderWay DEF Create
    <2>2. /\ run'[p].cmd = run[p].cmd /\ run'[p].met = run[p].met /\ run'[p].doc = run[p].doc
          /\ run'[p].entry = run[p].entry /\ run'[p].text = run[p].text
          /\ \A q \in Process : q # p => run'[q] = run[q]
      BY <1>0, <1>3 DEF Create, Command
    <2>3. Uses(run'[p]) = Uses(run[p])
      BY <2>2 DEF Uses
    <2>4. /\ \A c \in Doc : c # run[p].doc => target'[c] = target[c]
          /\ target'[run[p].doc] \in {target[run[p].doc], Empty}
      BY <1>0, <1>3 DEF Create, TypeOK, Command
    <2>5. database' = database /\ inits' = inits
      BY <1>3 DEF Create
    <2> QED
      BY <1>0, <2>1, <2>2, <2>3, <2>4, <2>5, StepListed
  <1>4. CASE Write(p)
    <2>1. run[p].cmd # "none"
      BY <1>4, UnderWay DEF Write
    <2>2. /\ run'[p].cmd = run[p].cmd /\ run'[p].met = run[p].met /\ run'[p].doc = run[p].doc
          /\ run'[p].entry = run[p].entry /\ run'[p].text = run[p].text
          /\ \A q \in Process : q # p => run'[q] = run[q]
      BY <1>0, <1>4 DEF Write, Command
    <2>3. Uses(run'[p]) = Uses(run[p])
      BY <2>2 DEF Uses
    <2>4. /\ \A c \in Doc : c # run[p].doc => target'[c] = target[c]
          /\ target'[run[p].doc] \in {target[run[p].doc], Torn, Bytes(run[p])}
      BY <1>0, <1>4 DEF Write, Store, TypeOK, Command
    <2>5. database' = database /\ inits' = inits
      BY <1>4 DEF Write
    <2> QED
      BY <1>0, <2>1, <2>2, <2>3, <2>4, <2>5, StepListed
  <1>5. CASE Rename(p)
    <2>1. run[p].cmd # "none"
      BY <1>5, UnderWay DEF Rename
    <2>2. run[p].doc # "state.json"
      BY <1>0, <1>5, <2>1, Names DEF Rename, Control, Command, Key
    <2>3. \/ run'[p] = Idle
          \/ /\ run'[p].cmd = run[p].cmd /\ run'[p].met = run[p].met /\ run'[p].doc = run[p].doc
             /\ run'[p].entry = run[p].entry /\ run'[p].text = run[p].text
      BY <1>0, <1>5 DEF Rename, Command
    <2>4. Uses(run'[p]) \subseteq Uses(run[p])
      BY <2>3, IdleCommand DEF Uses
    <2>5. \A q \in Process : q # p =>
            /\ run'[q].cmd = run[q].cmd /\ run'[q].entry = run[q].entry
            /\ run'[q].text = run[q].text /\ run'[q].doc = run[q].doc /\ run'[q].met = run[q].met
      BY <1>0, <1>5 DEF Rename, Command
    <2>6. \A c \in Doc : c # run[p].doc => target'[c] = target[c]
      BY <1>0, <1>5 DEF Rename, TypeOK
    <2>7. database' = database /\ inits' = inits
      BY <1>5 DEF Rename
    <2> QED
      BY <1>0, <2>1, <2>2, <2>3, <2>4, <2>5, <2>6, <2>7, IdleCommand, StepListed
  <1>6. CASE OpenDatabase(p)
    <2>1. run[p].cmd # "none"
      BY <1>6, UnderWay DEF OpenDatabase
    <2>2. /\ run'[p].cmd = run[p].cmd /\ run'[p].met = run[p].met
          /\ run'[p].doc \in {run[p].doc, "state.json"}
          /\ run'[p].entry = run[p].entry /\ run'[p].text = run[p].text
      BY <1>0, <1>6 DEF OpenDatabase, Command
    <2>3. Uses(run'[p]) = Uses(run[p])
      BY <2>2 DEF Uses
    <2>4. run[p].cmd = "add-folder" => run[p].doc = Key(run[p].entry)
      BY <1>0, <1>6 DEF OpenDatabase, Control
    <2>5. /\ database' = database \cup {run[p].doc} /\ inits' = inits /\ target' = target
          /\ \A q \in Process : q # p => run'[q] = run[q]
      BY <1>0, <1>6 DEF OpenDatabase
    <2> QED
      BY <1>0, <2>1, <2>2, <2>3, <2>4, <2>5, StepListed
  <1>7. CASE End(p)
    <2>1. run[p].cmd # "none"
      BY <1>7, UnderWay DEF End
    <2>2. run'[p] = Idle
      BY <1>0, <1>7 DEF End
    <2> QED
      BY <1>0, <1>7, <2>1, <2>2, IdleCommand, StepListed DEF End
  <1>8. CASE Crash(p)
    <2>1. run[p].cmd # "none"
      BY <1>0, <1>8 DEF Crash, Control
    <2>2. /\ run'[p] = Idle /\ \A q \in Process : q # p => run'[q] = run[q]
      BY <1>0, <1>8 DEF Crash
    <2>3. /\ \A c \in Doc : c # run[p].doc => target'[c] = target[c]
          /\ target'[run[p].doc] \in {target[run[p].doc], Torn}
      BY <1>0, <1>8 DEF Crash, Store, TypeOK, Command
    <2>4. database' = database /\ inits' = inits
      BY <1>8 DEF Crash
    <2> QED
      BY <1>0, <2>1, <2>2, <2>3, <2>4, IdleCommand, StepListed
  <1>9. CASE AppStops(p)
    <2>1. run[p].cmd = "add-folder"
      BY <1>9 DEF AppStops
    <2>2. /\ run'[p].cmd = "init-folder" /\ run'[p].met \subseteq run[p].met
          /\ run'[p].doc = run[p].doc /\ run'[p].entry = run[p].entry
      BY <1>0, <1>9 DEF AppStops, Command
    <2>3. Uses(run'[p]) \subseteq Uses(run[p])
      BY <2>1, <2>2 DEF Uses
    <2> QED
      BY <1>0, <1>9, <2>1, <2>2, <2>3, StepListed DEF AppStops
  <1>10. ASSUME NEW ticket \in Device \X Secret, AcceptPeer(p, ticket) PROVE ListInv'
    <2> DEFINE text == Parsed(target["peers.json"])
               r == [Idle EXCEPT !.cmd = "accept-peer", !.pc = "modify", !.entry = ticket,
                                 !.text = text]
    <2>1. Begin(p, r) /\ UNCHANGED <<target, database, inits>>
      BY <1>10 DEF AcceptPeer
    <2>2. text \in SUBSET Entry
      BY <1>0, Names DEF TypeOK, Content, Parsed
    <2> HIDE DEF text
    <2>3. r \in Command /\ r.cmd = "accept-peer" /\ r.doc = "peers.json"
      BY <2>2, Names DEF Idle, Command, Entry
    <2> HIDE DEF r
    <2>4. Uses(r) \cap Folder = {}
      BY <2>3, UsesByKind, Names
    <2>5. \A f \in Folder : inits'[f] >= inits[f]
      BY <1>0, <2>1, BoundAssumption DEF TypeOK
    <2> QED
      BY <1>0, <2>1, <2>3, <2>4, <2>5, Names, BeginListed
  <1>11. ASSUME NEW f \in Folder, NEW limit \in Limit, InitFolder(p, f, limit) PROVE ListInv'
    <2> DEFINE r == [Idle EXCEPT !.cmd = "init-folder", !.pc = "init", !.doc = f,
                                 !.entry = <<f, limit>>]
    <2>1. Begin(p, r) /\ UNCHANGED <<target, database>> /\ inits' = [inits EXCEPT ![f] = @ + 1]
      BY <1>11 DEF InitFolder
    <2>2. r \in Command /\ r.cmd = "init-folder" /\ r.doc = f /\ r.entry = <<f, limit>>
      BY Names DEF Idle, Command, Entry
    <2> HIDE DEF r
    <2>3. Uses(r) = {f}
      BY <2>2, UsesByKind DEF Key
    <2>4. /\ \A g \in Folder : inits'[g] >= inits[g]
          /\ inits'[f] = inits[f] + 1
      BY <1>0, <2>1, BoundAssumption DEF TypeOK
    <2> QED
      BY <1>0, <2>1, <2>2, <2>3, <2>4, BeginListed
  <1>12. ASSUME NEW f \in Folder, NEW limit \in Limit, AddFolder(p, f, limit) PROVE ListInv'
    <2> DEFINE text == Parsed(target["state.json"]) \cup {<<f, limit>>}
               r == [Idle EXCEPT !.cmd = "add-folder", !.pc = "init", !.doc = f,
                                 !.entry = <<f, limit>>, !.text = text]
    <2>1. Begin(p, r) /\ UNCHANGED <<target, database>> /\ inits' = [inits EXCEPT ![f] = @ + 1]
      BY <1>12 DEF AddFolder
    <2>2. /\ text \in SUBSET Entry
          /\ \A e \in text \ {<<f, limit>>} : Listed(e)
      BY <1>0, Names DEF TypeOK, Content, Parsed, Entry, ListInv, AllListed
    <2> HIDE DEF text
    <2>3. /\ r \in Command /\ r.cmd = "add-folder" /\ r.doc = f /\ r.entry = <<f, limit>>
          /\ r.text = text
      BY <2>2, Names DEF Idle, Command, Entry
    <2> HIDE DEF r
    <2>4. Uses(r) = {"state.json", f}
      BY <2>3, UsesByKind DEF Key
    <2>5. /\ \A g \in Folder : inits'[g] >= inits[g]
          /\ inits'[f] = inits[f] + 1
      BY <1>0, <2>1, BoundAssumption DEF TypeOK
    <2> QED
      BY <1>0, <2>1, <2>2, <2>3, <2>4, <2>5, Names, BeginListed
  <1> QED
    BY <1>1, <1>2, <1>3, <1>4, <1>5, <1>6, <1>7, <1>8, <1>9, <1>10, <1>11, <1>12 DEF Step

\* A folder the app lists was initialised: its database exists, and if
\* init-folder ran once only, folder.json has the limit the app shows, for any
\* commands that overlap and crash.
THEOREM ListedAreInitialised == Spec => []ConfiguredIsInitialised
  <1>1. Init => ListInv
    <2> SUFFICES ASSUME Init PROVE ListInv
      OBVIOUS
    <2>1. Parsed(target["state.json"]) = {}
      BY Names DEF Init, Parsed
    <2>2. \A p \in Process : run[p] = Idle
      BY DEF Init
    <2> QED
      BY <2>1, <2>2, IdleCommand DEF ListInv, AllListed, UsersCounted
  <1>2. ASSUME IInv, IInv', ListInv, [Next]_vars PROVE ListInv'
    <2>1. ASSUME UNCHANGED <<target, run, database, inits>> PROVE ListInv'
      <3>1. \A e : Listed(e) => Listed(e)'
        BY <2>1 DEF Listed, Key
      <3>2. /\ Parsed(target["state.json"])' = Parsed(target["state.json"])
            /\ \A p \in Process : /\ Uses(run[p])' = Uses(run[p])
                                 /\ Key(run[p].entry)' = Key(run[p].entry)
        BY <2>1 DEF Parsed, Uses, Key
      <3>3. AllListed'
        BY <1>2, <2>1, <3>1, <3>2 DEF ListInv, AllListed
      <3>4. UsersCounted'
        BY <1>2, <2>1, <3>2 DEF ListInv, UsersCounted
      <3> QED
        BY <3>3, <3>4 DEF ListInv
    <2> QED
      BY <1>2, <2>1, NextListed DEF Next, Expire, vars
  <1>3. ListInv => ConfiguredIsInitialised
    BY DEF ListInv, AllListed, Listed, ConfiguredIsInitialised
  <1> QED
    BY <1>1, <1>2, <1>3, Inductive, PTL DEF Spec
=============================================================================
