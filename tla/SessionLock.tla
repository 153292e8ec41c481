---------------------------- MODULE SessionLock ----------------------------
(***************************************************************************)
(* The advisory lock file of hivecore-persistence (sessions/lock.rs):      *)
(* <session>.jsonl.lock holds the pid of the process that has the session  *)
(* open.  acquire() looks at the file, reads it, probes the pid, removes   *)
(* the file if the pid is gone, creates it exclusively and writes the own  *)
(* pid: one action per system call, because other processes run between    *)
(* any two.                                                                *)
(***************************************************************************)
EXTENDS FiniteSets

CONSTANTS
  Procs,      \* processes that may open the session, by pid
  None,       \* no pid (an empty or garbled file)
  Users,      \* the users processes run as
  Root,       \* the one who may signal everybody's processes
  ReadFaults  \* whether a lock file that is there may be unreadable

ASSUME LockAssumption == None \notin Procs /\ ReadFaults \in BOOLEAN

\* What a lock path can name: whether there is a file, the running process
\* that created it, if that one still owns the handle, and the pid its text
\* parses to.
File == [there : BOOLEAN, maker : Procs \union {None}, pid : Procs \union {None}]

LockFile(maker, pid) == [there |-> TRUE, maker |-> maker, pid |-> pid]
Leftover(pid)        == LockFile(None, pid)
NoFile               == [there |-> FALSE, maker |-> None, pid |-> None]

Steps == {"idle", "read", "probe", "unlink", "create", "write", "held", "dead"}

VARIABLES
  dir,    \* what the lock path names
  pc,     \* the step each process takes next
  got,    \* the pid it read from the file
  owner,  \* the user each process runs as
  raced,  \* history: two acquire() calls have overlapped
  misled, \* history: an acquire() could not see that the pid in the file lives
  reused  \* history: the pid of a process that is gone has a new process

vars == <<dir, pc, got, owner, raced, misled, reused>>

Acquiring(p) == pc[p] \in {"read", "probe", "unlink", "create", "write"}

Lives(pid) == pid # None /\ pc[pid] # "dead"

MaySignal(p, pid) == owner[p] \in {Root, owner[pid]}

\* kill(pid, 0) == 0: there is such a process and p may signal it.  EPERM is
\* not told from ESRCH, so a living process of another user counts as gone.
pid_alive(p, pid) == Lives(pid) /\ MaySignal(p, pid)

-----------------------------------------------------------------------------
\* Earlier processes may have left a lock file behind, garbled or with their
\* pid in it.
Init ==
  /\ pc \in [Procs -> {"idle", "dead"}]
  /\ dir \in {NoFile} \union {Leftover(x) : x \in Procs \union {None}}
  /\ owner \in [Procs -> Users]
  /\ reused = Lives(dir.pid)
  /\ got = [p \in Procs |-> None]
  /\ raced = FALSE /\ misled = FALSE

Goto(p, step) == pc' = [pc EXCEPT ![p] = step]

\* lock_path.exists()
Look(p) ==
  /\ pc[p] = "idle"
  /\ Goto(p, IF dir.there THEN "read" ELSE "create")
  /\ raced' = (raced \/ \E q \in Procs : Acquiring(q))
  /\ UNCHANGED <<dir, got, owner, misled, reused>>

\* read_to_string(..): a file that is gone by now has no pid in it.
Read(p) ==
  /\ pc[p] = "read"
  /\ got' = [got EXCEPT ![p] = dir.pid]
  /\ Goto(p, "probe")
  /\ UNCHANGED <<dir, owner, raced, misled, reused>>

\* unwrap_or_default(): a file that cannot be read is taken for an empty one.
ReadFails(p) ==
  /\ ReadFaults
  /\ pc[p] = "read"
  /\ got' = [got EXCEPT ![p] = None]
  /\ Goto(p, "probe")
  /\ misled' = (misled \/ Lives(dir.pid))
  /\ UNCHANGED <<dir, owner, raced, reused>>

\* Slip: the guard exists before the check, and its Drop runs when Busy is
\* returned.
ProbeDropping(p) ==
  /\ pc[p] = "probe"
  /\ Goto(p, IF pid_alive(p, got[p]) THEN "idle" ELSE "unlink")
  /\ dir' = IF pid_alive(p, got[p]) THEN NoFile ELSE dir
  /\ misled' = (misled \/ (Lives(got[p]) /\ ~MaySignal(p, got[p])))
  /\ UNCHANGED <<got, owner, raced, reused>>

\* Busy if the pid is alive, else the file is to be removed.
Probe(p) ==
  /\ pc[p] = "probe"
  /\ Goto(p, IF pid_alive(p, got[p]) THEN "idle" ELSE "unlink")
  /\ misled' = (misled \/ (Lives(got[p]) /\ ~MaySignal(p, got[p])))
  /\ UNCHANGED <<dir, got, owner, raced, reused>>

\* remove_file: removes whatever has the name by now; an error if nothing has
\* or the directory does not allow it.
Unlink(p) ==
  /\ pc[p] = "unlink"
  /\ \/ /\ dir.there
        /\ dir' = NoFile
        /\ Goto(p, "create")
     \/ /\ Goto(p, "idle")
        /\ UNCHANGED dir
  /\ UNCHANGED <<got, owner, raced, misled, reused>>

\* create_new: an error if the name is taken or the directory does not allow it.
Create(p) ==
  /\ pc[p] = "create"
  /\ \/ /\ ~dir.there
        /\ dir' = LockFile(p, None)
        /\ Goto(p, "write")
     \/ /\ Goto(p, "idle")
        /\ UNCHANGED dir
  /\ UNCHANGED <<got, owner, raced, misled, reused>>

\* The pid goes into the file p created, wherever that is by now.
Write(p) ==
  /\ pc[p] = "write"
  /\ Goto(p, "held")
  /\ dir' = IF dir.maker = p THEN [dir EXCEPT !.pid = p] ELSE dir
  /\ UNCHANGED <<got, owner, raced, misled, reused>>

\* Slip: the failed write is not noticed.
FailWriteUnnoticed(p) ==
  /\ pc[p] = "write"
  /\ Goto(p, "held")
  /\ UNCHANGED <<dir, got, owner, raced, misled, reused>>

\* The write fails: acquire() returns the error and the empty file stays.
FailWrite(p) ==
  /\ pc[p] = "write"
  /\ Goto(p, "idle")
  /\ dir' = IF dir.maker = p THEN Leftover(None) ELSE dir
  /\ UNCHANGED <<got, owner, raced, misled, reused>>

\* Slip: the handle goes, the file stays.
ReleaseHandle(p) ==
  /\ pc[p] = "held"
  /\ dir' = IF dir.maker = p THEN Leftover(dir.pid) ELSE dir
  /\ Goto(p, "idle")
  /\ UNCHANGED <<got, owner, raced, misled, reused>>

\* Drop for SessionLock removes whatever has the name by now.  (If it cannot,
\* it says nothing and the process ends with the file in place, as in Crash.)
Release(p) ==
  /\ pc[p] = "held"
  /\ dir' = NoFile
  /\ Goto(p, "idle")
  /\ UNCHANGED <<got, owner, raced, misled, reused>>

\* A kill runs no destructor: the file stays.
Crash(p) ==
  /\ pc[p] # "dead"
  /\ Goto(p, "dead")
  /\ dir' = IF dir.maker = p THEN Leftover(dir.pid) ELSE dir
  /\ got' = [got EXCEPT ![p] = None]
  /\ UNCHANGED <<owner, raced, misled, reused>>

\* The pid is given to a new process, of any user.
Respawn(p) ==
  /\ pc[p] = "dead"
  /\ Goto(p, "idle")
  /\ \E u \in Users : owner' = [owner EXCEPT ![p] = u]
  /\ reused' = TRUE
  /\ UNCHANGED <<dir, got, raced, misled>>

Next ==
  \E p \in Procs :
    \/ Look(p) \/ Read(p) \/ ReadFails(p) \/ Probe(p) \/ Unlink(p)
    \/ Create(p) \/ Write(p) \/ FailWrite(p) \/ Release(p) \/ Crash(p) \/ Respawn(p)

Spec == Init /\ [][Next]_vars

-----------------------------------------------------------------------------
TypeOK ==
  /\ dir \in File
  /\ pc \in [Procs -> Steps]
  /\ got \in [Procs -> Procs \union {None}]
  /\ owner \in [Procs -> Users]
  /\ raced \in BOOLEAN /\ misled \in BOOLEAN /\ reused \in BOOLEAN

\* At most one process has the session open.
MutualExclusion ==
  \A p, q \in Procs : pc[p] = "held" /\ pc[q] = "held" => p = q

\* No two acquire() calls have overlapped, and none has met the lock of a
\* living process that it may not signal, or whose file it could not read.
Undisturbed == ~raced /\ ~misled

\* As long as nothing of that kind has happened, the lock does exclude: crashes
\* at any point, left-over and garbled files, pids given out again, failed
\* writes and releases during somebody's acquire included.
ExclusiveUndisturbed == Undisturbed => MutualExclusion

\* Undisturbed, the lock file names its holder for as long as it is held, so a
\* later acquire() that may signal the holder finds it busy.
HolderIsNamed ==
  Undisturbed => \A p \in Procs : pc[p] = "held" => dir = LockFile(p, p)

\* A stale lock is reclaimed at the next attempt: while pids are not given out
\* again, Busy is only ever answered when another process is alive, races or
\* not.  (With a reused pid the lock of a dead process can refuse forever.)
BusyNotAlone ==
  [][\A p \in Procs :
       ~reused /\ pc[p] = "probe" /\ pc'[p] = "idle"
         => \E q \in Procs \ {p} : Lives(q)]_vars

=============================================================================
