------------------------- MODULE SessionResumeProofs -------------------------
(***************************************************************************)
(* Sharing one session file, for any processes and any messages: what the  *)
(* lock buys the writers.                                                  *)
(***************************************************************************)
EXTENDS SessionResume, SessionLockProofs

\* The types of what this module adds.
SessionTypes ==
  /\ tree \subseteq Seq(Messages)
  /\ path \in Seq(Messages)
  /\ stage \in [Procs -> {"start", "resolved", "open"}]
  /\ ctx \in [Procs -> Seq(Messages)]
  /\ cursor \in [Procs -> Seq(Messages)]
  /\ forked \in [Procs -> BOOLEAN]

\* Whoever has the file open holds the lock.
OpenIsHeld == \A p \in Procs : stage[p] = "open" => pc[p] = "held"

TipInv == OpenIsHeld /\ WriterAtTip

ForkInv == \A p \in Procs : forked[p] => stage[p] = "open" /\ ctx[p] = cursor[p]

\* The steps of the processes are steps of the lock.
LEMMA StepIsLockStep == [ResumeNext]_allVars => [Next]_vars
<1> SUFFICES ASSUME [ResumeNext]_allVars PROVE [Next]_vars
  OBVIOUS
<1>1. CASE UNCHANGED allVars
  BY <1>1 DEF allVars
<1>2. ASSUME NEW p \in Procs,
             \/ Resolve(p) \/ Open(p) \/ OpenFork(p)
             \/ \E m \in Messages : Say(p, m)
      PROVE  [Next]_vars
  BY <1>2 DEF Resolve, Open, OpenFork, Say
<1>3. ASSUME NEW p \in Procs, Acquire(p) PROVE [Next]_vars
  BY <1>3 DEF Acquire, Next
<1>4. ASSUME NEW p \in Procs, Exit(p) \/ Kill(p) \/ Restart(p) PROVE [Next]_vars
  BY <1>4 DEF Exit, Kill, Restart, Next
<1>5. QED
  BY <1>1, <1>2, <1>3, <1>4 DEF ResumeNext

\* Processes that resume, fork, talk and die implement the lock: what they do to
\* the conversation restricts when they take and leave it, and adds no step of
\* their own to it (main: acquire_lock).
THEOREM ResumeIsLock == ResumeSpec => Spec
<1>1. ResumeInit => Init
  BY DEF ResumeInit
<1>2. QED
  BY <1>1, StepIsLockStep, PTL DEF ResumeSpec, Spec

\* So what the lock promises holds while a session is shared: undisturbed,
\* one holder, whom the lock file names; and Busy only while another lives.
THEOREM LockKept ==
  ResumeSpec => []ExclusiveUndisturbed /\ []HolderIsNamed /\ BusyNotAlone
  BY ResumeIsLock, Excludes, NamesHolder, StaleIsReclaimed, PTL

\* Every step keeps the types.
LEMMA StepSessionTypes == SessionTypes /\ [ResumeNext]_allVars => SessionTypes'
<1> SUFFICES ASSUME SessionTypes, [ResumeNext]_allVars PROVE SessionTypes'
  OBVIOUS
<1> USE DEF SessionTypes
<1>a. <<>> \in Seq(Messages)
  OBVIOUS
<1>b. ASSUME NEW p \in Procs, Forget(p), UNCHANGED <<tree, path>>
      PROVE  SessionTypes'
  BY <1>a, <1>b DEF Forget
<1>1. CASE UNCHANGED allVars
  BY <1>1 DEF allVars, session
<1>2. ASSUME NEW p \in Procs, Resolve(p) PROVE SessionTypes'
  BY <1>2 DEF Resolve
<1>3. ASSUME NEW p \in Procs, Acquire(p) PROVE SessionTypes'
  BY <1>3, <1>b DEF Acquire, session
<1>4. ASSUME NEW p \in Procs, Open(p) PROVE SessionTypes'
  BY <1>4 DEF Open
<1>5. ASSUME NEW p \in Procs, OpenFork(p) PROVE SessionTypes'
  <2>1. PICK target \in tree :
          /\ cursor' = [cursor EXCEPT ![p] = target]
          /\ ctx' = [ctx EXCEPT ![p] = target]
          /\ path' = target
    BY <1>5 DEF OpenFork
  <2>2. target \in Seq(Messages)
    OBVIOUS
  <2>3. QED
    BY <1>5, <2>1, <2>2 DEF OpenFork
<1>6. ASSUME NEW p \in Procs, NEW m \in Messages, Say(p, m) PROVE SessionTypes'
  <2>1. Append(cursor[p], m) \in Seq(Messages) /\ Append(ctx[p], m) \in Seq(Messages)
    OBVIOUS
  <2>2. QED
    BY <1>6, <2>1 DEF Say
<1>7. ASSUME NEW p \in Procs, Exit(p) \/ Kill(p) PROVE SessionTypes'
  BY <1>7, <1>b DEF Exit, Kill
<1>8. ASSUME NEW p \in Procs, Restart(p) PROVE SessionTypes'
  BY <1>8 DEF Restart, session
<1>9. QED
  BY <1>1, <1>2, <1>3, <1>4, <1>5, <1>6, <1>7, <1>8 DEF ResumeNext

\* The initial states satisfy all of it.
LEMMA InitSession == ResumeInit => SessionTypes /\ TipInv /\ ForkInv
<1> SUFFICES ASSUME ResumeInit PROVE SessionTypes /\ TipInv /\ ForkInv
  OBVIOUS
<1>1. <<>> \in Seq(Messages)
  OBVIOUS
<1>2. QED
  BY <1>1 DEF ResumeInit, SessionTypes, TipInv, ForkInv, OpenIsHeld, WriterAtTip

\* Every process keeps its types.
THEOREM ResumeTypeCorrect == ResumeSpec => []ResumeTypeOK
<1>1. ResumeInit => Init
  BY DEF ResumeInit
<1>2. TypeOK /\ SessionTypes => ResumeTypeOK
  BY DEF SessionTypes, ResumeTypeOK
<1>3. QED
  BY <1>1, <1>2, InitTypeOK, StepTypeOK, StepIsLockStep, InitSession,
     StepSessionTypes, PTL DEF ResumeSpec

-----------------------------------------------------------------------------
\* What has disturbed an acquire() stays remembered while a session is shared.
LEMMA StaysUndisturbed ==
  TypeOK /\ [ResumeNext]_allVars /\ Undisturbed' => Undisturbed
  BY StepIsLockStep, UndisturbedBefore

\* Every step keeps writers at the tip: whoever appends holds the lock, and
\* undisturbed nobody else does.
LEMMA StepTipInv ==
  IInv /\ IInv' /\ SessionTypes /\ TipInv /\ [ResumeNext]_allVars => TipInv'
<1> SUFFICES ASSUME IInv, IInv', SessionTypes, TipInv, [ResumeNext]_allVars
             PROVE  TipInv'
  OBVIOUS
<1> USE DEF SessionTypes, TipInv, OpenIsHeld, WriterAtTip
<1>t. pc \in [Procs -> Steps] /\ pc' \in [Procs -> Steps]
  BY DEF IInv, TypeOK
<1>0. Undisturbed => \A p, q \in Procs : pc[p] = "held" /\ pc[q] = "held" => p = q
  BY DEF IInv, HolderIsNamed, LockFile
<1>r. Undisturbed' => Undisturbed
  BY StaysUndisturbed DEF IInv
<1>b. ASSUME NEW p \in Procs, Forget(p), path' = path,
             NEW v, pc' = [pc EXCEPT ![p] = v]
      PROVE  TipInv'
  BY <1>t, <1>0, <1>r, <1>b DEF Forget
<1>1. CASE UNCHANGED allVars
  BY <1>1, <1>r DEF allVars, session, vars
<1>2. ASSUME NEW p \in Procs, Resolve(p) PROVE TipInv'
  BY <1>2, <1>r DEF Resolve, vars
<1>3. ASSUME NEW p \in Procs, Acquire(p) PROVE TipInv'
  <2>1. PICK v : pc' = [pc EXCEPT ![p] = v]
    BY <1>3 DEF Acquire, Look, Read, ReadFails, Probe, Unlink, Create, Write, FailWrite, Goto
  <2>2. CASE pc'[p] = "idle"
    BY <1>3, <2>1, <2>2, <1>b DEF Acquire
  <2>3. CASE pc'[p] # "idle"
    BY <1>3, <1>t, <2>1, <2>3, <1>0, <1>r DEF Acquire, session
  <2>4. QED
    BY <2>2, <2>3
<1>4. ASSUME NEW p \in Procs, Open(p) PROVE TipInv'
  BY <1>4, <1>0, <1>r DEF Open, vars
<1>5. ASSUME NEW p \in Procs, OpenFork(p) PROVE TipInv'
  <2>1. PICK target \in tree :
          /\ cursor' = [cursor EXCEPT ![p] = target]
          /\ path' = target
    BY <1>5 DEF OpenFork
  <2>2. QED
    BY <1>5, <2>1, <1>0, <1>r DEF OpenFork, vars
<1>6. ASSUME NEW p \in Procs, NEW m \in Messages, Say(p, m) PROVE TipInv'
  BY <1>6, <1>0, <1>r DEF Say, vars
<1>7. ASSUME NEW p \in Procs, Exit(p) PROVE TipInv'
  BY <1>7, <1>b DEF Exit, Release, Goto
<1>8. ASSUME NEW p \in Procs, Kill(p) PROVE TipInv'
  BY <1>8, <1>b DEF Kill, Crash, Goto
<1>9. ASSUME NEW p \in Procs, Restart(p) PROVE TipInv'
  BY <1>9, <1>t, <1>0, <1>r DEF Restart, Respawn, Goto, session
<1>10. QED
  BY <1>1, <1>2, <1>3, <1>4, <1>5, <1>6, <1>7, <1>8, <1>9 DEF ResumeNext

\* Everything these theorems need, in one invariant.
LEMMA Invariants == ResumeSpec => [](IInv /\ SessionTypes /\ TipInv)
<1>1. ResumeInit => IInv
  BY InitIInv DEF ResumeInit
<1>2. QED
  BY <1>1, InitSession, StepIsLockStep, StepIInv, StepSessionTypes, StepTipInv, PTL
  DEF ResumeSpec

\* Undisturbed, every process that talks extends the conversation on disk, for any number of processes, kills and forks.
THEOREM WritersAtTip == ResumeSpec => []WriterAtTip
<1>1. TipInv => WriterAtTip
  BY DEF TipInv
<1>2. QED
  BY <1>1, Invariants, PTL

-----------------------------------------------------------------------------
\* A step that is no fork keeps what is on disk while nothing is disturbed.
LEMMA StepKeepsPath ==
  ASSUME SessionTypes, TipInv, [ResumeNext]_allVars,
         Undisturbed, \A p \in Procs : ~OpenFork(p)
  PROVE  IsPrefix(path, path')
<1> USE DEF SessionTypes
<1>1. ASSUME path' = path PROVE IsPrefix(path, path')
  BY <1>1 DEF IsPrefix
<1>2. ASSUME NEW p \in Procs, NEW m \in Messages, Say(p, m)
      PROVE  IsPrefix(path, path')
  <2>1. path' = Append(path, m)
    BY <1>2 DEF Say, TipInv, WriterAtTip
  <2>2. Len(path) <= Len(path') /\ SubSeq(path', 1, Len(path)) = path
    BY <2>1
  <2>3. SubSeq(path, 1, Len(path)) = path
    OBVIOUS
  <2>4. QED
    BY <2>2, <2>3 DEF IsPrefix
<1>3. ASSUME NEW p \in Procs,
             \/ Resolve(p) \/ Acquire(p) \/ Open(p)
             \/ Exit(p) \/ Kill(p) \/ Restart(p)
      PROVE  path' = path
  BY <1>3 DEF Resolve, Acquire, Open, Exit, Kill, Restart, session
<1>4. UNCHANGED allVars => path' = path
  BY DEF allVars, session
<1>5. QED
  BY <1>1, <1>2, <1>3, <1>4 DEF ResumeNext

\* Undisturbed, only a fork takes messages off the conversation on disk,
\* whichever processes are killed and whenever.
THEOREM ForksAloneDrop == ResumeSpec => OnlyForkDrops
<1>1. IInv /\ SessionTypes /\ TipInv /\ [ResumeNext]_allVars =>
        [Undisturbed' /\ (\A p \in Procs : ~OpenFork(p))
           => IsPrefix(path, path')]_allVars
  BY StepKeepsPath, StaysUndisturbed DEF IInv
<1>2. QED
  BY <1>1, Invariants, PTL DEF ResumeSpec, OnlyForkDrops

-----------------------------------------------------------------------------
\* A fork sets the messages and the cursor together, and from then on they
\* grow together.
LEMMA StepForkInv == SessionTypes /\ ForkInv /\ [ResumeNext]_allVars => ForkInv'
<1> SUFFICES ASSUME SessionTypes, ForkInv, [ResumeNext]_allVars PROVE ForkInv'
  OBVIOUS
<1> USE DEF SessionTypes, ForkInv
<1>1. ASSUME NEW p \in Procs, Forget(p) PROVE ForkInv'
  BY <1>1 DEF Forget
<1>2. ASSUME UNCHANGED session PROVE ForkInv'
  BY <1>2 DEF session
<1>3. ASSUME NEW p \in Procs, Resolve(p) \/ Open(p) PROVE ForkInv'
  BY <1>3 DEF Resolve, Open
<1>4. ASSUME NEW p \in Procs, OpenFork(p) PROVE ForkInv'
  <2>1. PICK target \in tree :
          /\ cursor' = [cursor EXCEPT ![p] = target]
          /\ ctx' = [ctx EXCEPT ![p] = target]
    BY <1>4 DEF OpenFork
  <2>2. QED
    BY <1>4, <2>1 DEF OpenFork
<1>5. ASSUME NEW p \in Procs, NEW m \in Messages, Say(p, m) PROVE ForkInv'
  BY <1>5 DEF Say
<1>6. ASSUME NEW p \in Procs, Acquire(p) \/ Exit(p) \/ Kill(p) \/ Restart(p)
      PROVE  ForkInv'
  BY <1>6, <1>1, <1>2 DEF Acquire, Exit, Kill, Restart
<1>7. UNCHANGED allVars => UNCHANGED session
  BY DEF allVars
<1>8. QED
  BY <1>2, <1>3, <1>4, <1>5, <1>6, <1>7 DEF ResumeNext

\* A fork talks with the very conversation it appends to, races or not.
THEOREM ForksSeeTheirPath == ResumeSpec => []ForkSeesItsPath
<1>1. ForkInv => ForkSeesItsPath
  BY DEF ForkInv, ForkSeesItsPath
<1>2. QED
  BY <1>1, InitSession, StepSessionTypes, StepForkInv, PTL DEF ResumeSpec

=============================================================================
