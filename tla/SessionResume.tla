---------------------------- MODULE SessionResume ----------------------------
(***************************************************************************)
(* Several hivecore-coder processes resuming one session (bin/main.rs):    *)
(* each reads the prior messages, then takes the lock of SessionLock, then *)
(* opens the file a second time for the writer's cursor, optionally forks, *)
(* talks, and exits.  The file is abstracted to the conversations that end *)
(* in one of its entries and the one its newest LeafChange leads to, which *)
(* SessionLog shows it implements.                                         *)
(***************************************************************************)
EXTENDS SessionLock, Sequences, SequencesExt

CONSTANT Messages  \* the messages that may be said, each once

VARIABLES
  tree,    \* the conversations that end in some entry on disk
  path,    \* the one the newest LeafChange leads to
  stage,   \* "start", "resolved" or "open", per process
  ctx,     \* the messages the agent loop of each process works with
  cursor,  \* the conversation at the cursor of its SessionWriter
  forked   \* it was started with --fork-from

session == <<tree, path, stage, ctx, cursor, forked>>
allVars == <<vars, session>>

Said == UNION {Range(branch) : branch \in tree}

\* Entries before the first message end the empty conversation.
ResumeInit ==
  /\ Init
  /\ tree = {<<>>} /\ path = <<>>
  /\ stage = [p \in Procs |-> "start"]
  /\ ctx = [p \in Procs |-> <<>>]
  /\ cursor = [p \in Procs |-> <<>>]
  /\ forked = [p \in Procs |-> FALSE]

\* The process is gone or its command has failed: its memory is cleared.
Forget(p) ==
  /\ stage'  = [stage EXCEPT ![p] = "start"]
  /\ ctx'    = [ctx EXCEPT ![p] = <<>>]
  /\ cursor' = [cursor EXCEPT ![p] = <<>>]
  /\ forked' = [forked EXCEPT ![p] = FALSE]

\* resolve_session: read the prior messages, before any lock.
Resolve(p) ==
  /\ pc[p] = "idle" /\ stage[p] = "start"
  /\ stage' = [stage EXCEPT ![p] = "resolved"]
  /\ ctx' = [ctx EXCEPT ![p] = path]
  /\ UNCHANGED <<vars, tree, path, cursor, forked>>

\* A step of acquire_lock.  If it ends without the lock the command fails.
Acquire(p) ==
  /\ stage[p] = "resolved"
  /\ \/ Look(p) \/ Read(p) \/ ReadFails(p) \/ Probe(p) \/ Unlink(p)
     \/ Create(p) \/ Write(p) \/ FailWrite(p)
  /\ IF pc'[p] = "idle" THEN Forget(p) /\ UNCHANGED <<tree, path>>
                        ELSE UNCHANGED session

\* Slip: the cursor is that of the messages read before the lock.
OpenAtContext(p) ==
  /\ pc[p] = "held" /\ stage[p] = "resolved"
  /\ stage' = [stage EXCEPT ![p] = "open"]
  /\ cursor' = [cursor EXCEPT ![p] = ctx[p]]
  /\ UNCHANGED <<vars, tree, path, ctx, forked>>

\* SessionReader::open and open_append_with_state: the cursor is the current
\* end of the conversation; the messages stay those read before.
Open(p) ==
  /\ pc[p] = "held" /\ stage[p] = "resolved"
  /\ stage' = [stage EXCEPT ![p] = "open"]
  /\ cursor' = [cursor EXCEPT ![p] = path]
  /\ UNCHANGED <<vars, tree, path, ctx, forked>>

\* Slips: the messages are not derived again; the branch is nested, not spliced.
OpenForkKeepingContext(p) ==
  /\ pc[p] = "held" /\ stage[p] = "resolved"
  /\ \E target \in tree :
       /\ cursor' = [cursor EXCEPT ![p] = target]
       /\ path' = target
  /\ stage' = [stage EXCEPT ![p] = "open"]
  /\ forked' = [forked EXCEPT ![p] = TRUE]
  /\ UNCHANGED <<vars, tree, ctx>>

OpenForkNested(p) ==
  /\ pc[p] = "held" /\ stage[p] = "resolved"
  /\ \E target \in tree : cursor' = [cursor EXCEPT ![p] = <<target>>]
  /\ stage' = [stage EXCEPT ![p] = "open"]
  /\ forked' = [forked EXCEPT ![p] = TRUE]
  /\ UNCHANGED <<vars, tree, path, ctx>>

\* The same with --fork-from: the cursor moves to any entry on disk, on this
\* branch or another, the move is journalled, and the messages are derived
\* again from there.
OpenFork(p) ==
  /\ pc[p] = "held" /\ stage[p] = "resolved"
  /\ \E target \in tree :
       /\ cursor' = [cursor EXCEPT ![p] = target]
       /\ ctx' = [ctx EXCEPT ![p] = target]
       /\ path' = target
  /\ stage' = [stage EXCEPT ![p] = "open"]
  /\ forked' = [forked EXCEPT ![p] = TRUE]
  /\ UNCHANGED <<vars, tree>>

\* The agent loop commits a message: appended under the writer's own cursor,
\* which the LeafChange makes the conversation on disk.
Say(p, m) ==
  /\ pc[p] = "held" /\ stage[p] = "open"
  /\ m \notin Said
  /\ cursor' = [cursor EXCEPT ![p] = Append(@, m)]
  /\ ctx' = [ctx EXCEPT ![p] = Append(@, m)]
  /\ path' = Append(cursor[p], m)
  /\ tree' = tree \union {path'}
  /\ UNCHANGED <<vars, stage, forked>>

\* main returns, on success or by an error after the lock was taken: the lock
\* is dropped and the process is over.
Exit(p) == Release(p) /\ Forget(p) /\ UNCHANGED <<tree, path>>

Kill(p) == Crash(p) /\ Forget(p) /\ UNCHANGED <<tree, path>>

\* Another command is started with the pid.
Restart(p) == Respawn(p) /\ UNCHANGED session

ResumeNext ==
  \E p \in Procs :
    \/ Resolve(p) \/ Acquire(p) \/ Open(p) \/ OpenFork(p)
    \/ \E m \in Messages : Say(p, m)
    \/ Exit(p) \/ Kill(p) \/ Restart(p)

ResumeSpec == ResumeInit /\ [][ResumeNext]_allVars

-----------------------------------------------------------------------------
ResumeTypeOK ==
  /\ TypeOK
  /\ tree \subseteq Seq(Messages)
  /\ path \in Seq(Messages)
  /\ stage \in [Procs -> {"start", "resolved", "open"}]
  /\ ctx \in [Procs -> Seq(Messages)]
  /\ cursor \in [Procs -> Seq(Messages)]
  /\ forked \in [Procs -> BOOLEAN]

\* While no acquire() is disturbed, the process that talks extends the
\* conversation on disk: its cursor is never behind what others have written.
WriterAtTip ==
  Undisturbed => \A p \in Procs : stage[p] = "open" => cursor[p] = path

\* While no acquire() is disturbed, only a fork takes messages off the
\* conversation on disk; whoever was killed, and whenever.
OnlyForkDrops ==
  [][Undisturbed' /\ (\A p \in Procs : ~OpenFork(p))
       => IsPrefix(path, path')]_allVars

\* A fork resumes with the very conversation it appends to.
ForkSeesItsPath ==
  \A p \in Procs : forked[p] => ctx[p] = cursor[p]

-----------------------------------------------------------------------------
\* Resume replays the disk (ADR-026): the agent loop works with the
\* conversation its messages are appended to.
ContextIsReplayed ==
  Undisturbed => \A p \in Procs : stage[p] = "open" => ctx[p] = cursor[p]

=============================================================================
