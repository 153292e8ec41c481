----------------------------- MODULE SessionLog -----------------------------
(***************************************************************************)
(* The session file of hivecore-persistence: an append-only JSONL log      *)
(* whose lines form a tree (ADR-032), the SessionWriter that appends to it *)
(* and the SessionReader that replays it after a restart.                  *)
(*                                                                         *)
(* One process owns the file.  Inside it several tasks emit (the driver,   *)
(* and the detached tasks that forward tool updates); the file and state   *)
(* mutexes of the writer serialise them.  A message is identified by the   *)
(* id of its entry; time stamps, seq numbers and payloads are left out.    *)
(***************************************************************************)
EXTENDS Naturals, Sequences, FiniteSets, SequencesExt

CONSTANTS
  Emitters,  \* tasks that share one SessionWriter
  Ids,       \* the entry ids EntryId::new may return
  None,      \* Option::None
  Faults     \* how write_line may go wrong, a subset of WriteFaults

WriteFaults == {"fail",  \* nothing reached the file
                "torn",  \* a proper prefix of the JSON text did
                "cut"}   \* the whole JSON text did, its newline did not

ASSUME LogAssumption == None \notin Ids \union Emitters /\ Faults \subseteq WriteFaults

Outcomes == {"ok"} \union Faults
Kinds    == {"message", "event", "leaf"}
MaybeId  == Ids \union {None}

Entry == [kind : Kinds, id : Ids, parent : MaybeId, from : MaybeId, to : MaybeId]

\* Slip: a message starts a conversation of its own.
RootMessage(id, parent) == [kind |-> "message", id |-> id, parent |-> None,
                            from |-> None, to |-> None]

Message(id, parent)          == [kind |-> "message", id |-> id, parent |-> parent,
                                 from |-> None, to |-> None]
\* Slip: the tag of the event itself wins over that of the entry.
EventFlattened(id, parent)   == [Message(id, parent) EXCEPT !.kind = "tool_exec_update"]

Event(id, parent)            == [Message(id, parent) EXCEPT !.kind = "event"]
LeafChange(id, parent, f, t) == [kind |-> "leaf", id |-> id, parent |-> parent,
                                 from |-> f, to |-> t]

VARIABLES
  file,    \* the entries after the header whose whole text reached the disk
  tail,    \* how the last line ends: "eol", or "cut"/"torn" after a failed write
  broken,  \* two writes were glued into one line that is not JSON
  proc,    \* "absent" (no file yet), "up" (a writer is open) or "down"
  leaf,    \* WriterState.leaf
  seen,    \* WriterState.seen_ids
  lock,    \* the emitter holding both mutexes between two lines, or None
  pend,    \* the Message entry id that emitter has written
  acked    \* history: the transcript the emitters were told is stored

disk == <<file, tail, broken>>
mem  == <<leaf, seen>>
vars == <<file, tail, broken, proc, leaf, seen, lock, pend, acked>>

-----------------------------------------------------------------------------
(* SessionReader: what a reader makes of the lines. *)

IssuedIds(f) == {f[i].id : i \in DOMAIN f}

\* The file parses: every line is JSON.  A line that only lacks its newline
\* still does.
Readable == ~broken /\ tail # "torn"

\* Slip: the newest Message decides.
DiskLeafByMessage(f) ==
  LET m == SelectLastInSeq(f, LAMBDA e : e.kind = "message")
  IN  IF m # 0 THEN f[m].id ELSE None

\* SessionReader::leaf_id: the newest LeafChange, else the newest Message.
DiskLeaf(f) ==
  LET lc == SelectLastInSeq(f, LAMBDA e : e.kind = "leaf")
      m  == SelectLastInSeq(f, LAMBDA e : e.kind = "message")
  IN  IF lc # 0 THEN f[lc].to ELSE IF m # 0 THEN f[m].id ELSE None

\* by_id: the newest line with this id (0 if there is none).
IndexOf(f, id) == SelectLastInSeq(f, LAMBDA e : e.id = id)

\* SessionReader::path_to_root: follow parents from l, keep the Message entries,
\* root first.  The cycle guard allows 8 steps more than there are lines, the
\* header included.
PathToRoot(f, l) ==
  LET fuel == Len(f) + 9
      above[n \in 0 .. fuel] ==
        [id \in MaybeId |->
           LET i == IndexOf(f, id)
           IN  IF n = 0 \/ i = 0 THEN <<>>
               ELSE above[n - 1][f[i].parent]
                    \o (IF f[i].kind = "message" THEN <<id>> ELSE <<>>)]
  IN  above[fuel][l]

-----------------------------------------------------------------------------
(* SessionWriter *)

\* write_line(e) with outcome o.  A line written after an unterminated one is
\* glued to it.
WriteLine(e, o) ==
  /\ file'   = IF o \in {"ok", "cut"} THEN Append(file, e) ELSE file
  /\ broken' = (broken \/ (o = "ok" /\ tail # "eol"))
  /\ tail'   = CASE o = "ok"   -> "eol"
                 [] o = "fail" -> tail
                 [] o = "torn" -> "torn"
                 [] o = "cut"  -> IF tail = "eol" THEN "cut" ELSE "torn"

\* Slip: the collision check sees the cursor only.
UncheckedFresh == Ids \ {leaf}

\* The ids next_unique_id may hand out: those not yet issued.
Fresh == Ids \ seen

Init ==
  /\ file = <<>> /\ tail = "eol" /\ broken = FALSE
  /\ proc = "absent"
  /\ leaf = None /\ seen = {}
  /\ lock = None /\ pend = None
  /\ acked = <<>>

\* SessionWriter::create: truncate, write the header, start from nothing.
Create ==
  /\ proc = "absent"
  /\ proc' = "up"
  /\ UNCHANGED <<disk, mem, lock, pend, acked>>

\* append_message, first half: take both mutexes and write the Message line.
\* If that fails the locks are released and only the id is used up.
AppendMessage(e) ==
  /\ proc = "up" /\ lock = None
  /\ \E id \in Fresh, o \in Outcomes :
       /\ WriteLine(Message(id, leaf), o)
       /\ seen' = seen \union {id}
       /\ lock' = IF o = "ok" THEN e ELSE None
       /\ pend' = IF o = "ok" THEN id ELSE None
  /\ UNCHANGED <<proc, leaf, acked>>

\* Slips: success is reported whatever the write did; the cursor moves whatever
\* the write did.
CommitLeafUnchecked(e) ==
  /\ proc = "up" /\ lock = e
  /\ \E id \in Fresh, o \in Outcomes :
       /\ WriteLine(LeafChange(id, pend, leaf, pend), o)
       /\ seen' = seen \union {id}
       /\ leaf' = IF o = "ok" THEN pend ELSE leaf
       /\ acked' = Append(acked, pend)
  /\ lock' = None /\ pend' = None
  /\ UNCHANGED proc

CommitLeafEager(e) ==
  /\ proc = "up" /\ lock = e
  /\ \E id \in Fresh, o \in Outcomes :
       /\ WriteLine(LeafChange(id, pend, leaf, pend), o)
       /\ seen' = seen \union {id}
       /\ leaf' = pend
       /\ acked' = IF o = "ok" THEN Append(acked, pend) ELSE acked
  /\ lock' = None /\ pend' = None
  /\ UNCHANGED proc

\* append_message, second half: write the LeafChange line, move the cursor
\* only if that worked, release both mutexes.
CommitLeaf(e) ==
  /\ proc = "up" /\ lock = e
  /\ \E id \in Fresh, o \in Outcomes :
       /\ WriteLine(LeafChange(id, pend, leaf, pend), o)
       /\ seen' = seen \union {id}
       /\ leaf' = IF o = "ok" THEN pend ELSE leaf
       /\ acked' = IF o = "ok" THEN Append(acked, pend) ELSE acked
  /\ lock' = None /\ pend' = None
  /\ UNCHANGED proc

\* append_event: one line hanging off the current leaf; the leaf stays.
AppendEvent(e) ==
  /\ proc = "up" /\ lock = None
  /\ \E id \in Fresh, o \in Outcomes :
       /\ WriteLine(Event(id, leaf), o)
       /\ seen' = seen \union {id}
  /\ UNCHANGED <<proc, leaf, lock, pend, acked>>

\* set_leaf_id(target): an explicit cursor move (rewind), journalled first.
SetLeaf(target) ==
  /\ proc = "up" /\ lock = None
  /\ \E id \in Fresh, o \in Outcomes :
       /\ WriteLine(LeafChange(id, leaf, leaf, target), o)
       /\ seen' = seen \union {id}
       /\ leaf' = IF o = "ok" THEN target ELSE leaf
       /\ acked' = IF o = "ok" THEN PathToRoot(file, target) ELSE acked
  /\ UNCHANGED <<proc, lock, pend>>

\* The process ends, by exit or by crash; only the disk survives.
Stop ==
  /\ proc = "up"
  /\ proc' = "down"
  /\ leaf' = None /\ seen' = {}
  /\ lock' = None /\ pend' = None
  /\ UNCHANGED <<disk, acked>>

\* hivecore-coder --continue/--session: open_append_with_state seeded from a
\* SessionReader snapshot.  A file that does not parse is refused.
Reopen ==
  /\ proc = "down" /\ Readable
  /\ proc' = "up"
  /\ leaf' = DiskLeaf(file)
  /\ seen' = IssuedIds(file)
  /\ acked' = PathToRoot(file, DiskLeaf(file))
  /\ UNCHANGED <<disk, lock, pend>>

\* hivecore-coder --fork-from target: the writer is seeded with the target as
\* its leaf, and set_leaf_id(target) then journals the move.  An error of that
\* write ends the process.
ReopenFork(target) ==
  /\ proc = "down" /\ Readable
  /\ target \in IssuedIds(file)
  /\ \E id \in Ids \ IssuedIds(file), o \in Outcomes :
       /\ WriteLine(LeafChange(id, target, target, target), o)
       /\ IF o = "ok"
          THEN /\ proc' = "up"
               /\ leaf' = target
               /\ seen' = IssuedIds(file) \union {id}
               /\ acked' = PathToRoot(file, target)
          ELSE UNCHANGED <<proc, mem, acked>>
  /\ UNCHANGED <<lock, pend>>

Next ==
  \/ Create
  \/ \E e \in Emitters : AppendMessage(e) \/ CommitLeaf(e) \/ AppendEvent(e)
  \/ \E t \in IssuedIds(file) \union {None} : SetLeaf(t)
  \/ Stop
  \/ Reopen
  \/ \E t \in Ids : ReopenFork(t)

Spec == Init /\ [][Next]_vars

-----------------------------------------------------------------------------
\* (acked is only ever compared; ImplementsTranscript pins it down.)
TypeOK ==
  /\ file \in Seq(Entry)
  /\ tail \in {"eol", "cut", "torn"}
  /\ broken \in BOOLEAN
  /\ proc \in {"absent", "up", "down"}
  /\ leaf \in MaybeId
  /\ seen \in SUBSET Ids
  /\ lock \in Emitters \union {None}
  /\ pend \in MaybeId

\* No two lines of the file carry the same id, across failed writes, crashes
\* and restarts: next_unique_id's guard covers what earlier runs issued.
UniqueIds ==
  \A i, j \in DOMAIN file : file[i].id = file[j].id => i = j

\* Every parent is an earlier line.  The log is a forest: a walk to the root
\* never meets a missing entry and never needs the reader's cycle guard.
ParentsEarlier ==
  \A i \in DOMAIN file :
    file[i].parent # None =>
      \E j \in 1 .. (i - 1) : file[j].id = file[i].parent

\* The writer's cursor points into the file.
LeafOnDisk == leaf # None => leaf \in IssuedIds(file)

\* The file is a forest of uniquely named entries with the cursor in it, after
\* any sequence of failed writes, stops, resumes and forks.
LogWellFormed == UniqueIds /\ ParentsEarlier /\ LeafOnDisk

\* What the emitters were told is stored is what a replay from the writer's
\* cursor returns, as long as the file can be read.  An append that lost the
\* race for the mutexes, or a message hung off the wrong parent, breaks this.
AckedIsReplayed ==
  proc = "up" /\ Readable => PathToRoot(file, leaf) = acked

\* The cursor in memory and the cursor a reader would recover agree whenever
\* the last write ended cleanly; the one exception is a file without any
\* LeafChange, where the reader adopts a Message nobody committed.
CursorRecoverable ==
  proc = "up" /\ Readable /\ tail = "eol"
     /\ (\E i \in DOMAIN file : file[i].kind = "leaf")
  => DiskLeaf(file) = leaf

\* A restart from a file whose last line is complete brings back the
\* acknowledged messages of the current branch, in order.  Nothing else comes
\* back, except that a file without any LeafChange yields its newest Message.
AckedSurvivesRestart ==
  [][Reopen /\ tail = "eol" =>
       \/ acked' = acked
       \/ /\ \A i \in DOMAIN file : file[i].kind # "leaf"
          /\ acked # acked' /\ acked = Front(acked')]_vars

\* The file implements the transcript.  A reader sees the conversation at the
\* writer's cursor while a writer is open and at the recovered one otherwise.
ReaderLeaf == IF proc = "up" THEN leaf ELSE DiskLeaf(file)

Abstract == INSTANCE Transcript WITH
  Messages <- Ids,
  path     <- IF Readable THEN PathToRoot(file, ReaderLeaf) ELSE <<>>,
  known    <- IF Readable
              THEN {PathToRoot(file, x) : x \in IssuedIds(file) \union {None}}
              ELSE {},
  usable   <- Readable

\* Every step of the log is a step of the transcript: no interleaving of
\* emitters, failed write, stop, resume or fork makes a recorded conversation
\* unreachable, reorders one, or adds a message anywhere but at the cursor.
ImplementsTranscript == Abstract!Spec

=============================================================================
