-------------------------- MODULE SessionLockProofs --------------------------
(***************************************************************************)
(* The lock excludes for any set of processes and users, as long as no     *)
(* acquire() is disturbed.                                                 *)
(***************************************************************************)
EXTENDS SessionLock, TLAPS

\* Undisturbed, at most one process is inside acquire().
OneAcquires == \A p, q \in Procs : Acquiring(p) /\ Acquiring(q) => p = q

Held(p) == pc[p] = "held"

\* From the probe of a dead or missing pid to the end of acquire(), nobody
\* holds the lock; while the probe is pending, a holder is the pid in hand.
NobodyHolds == \A r \in Procs : ~Held(r)

AcquirerKnows ==
  \A p \in Procs :
    /\ pc[p] = "probe" => \A r \in Procs : Held(r) => got[p] = r
    /\ pc[p] \in {"unlink", "create", "write"} => NobodyHolds
    /\ pc[p] = "write" => dir = LockFile(p, None)

IInv ==
  /\ TypeOK
  /\ Undisturbed => OneAcquires /\ HolderIsNamed /\ AcquirerKnows

-----------------------------------------------------------------------------
\* What the proofs below unfold in every step.
USE DEF TypeOK, Steps, File, LockFile, Leftover, NoFile, Acquiring, Goto, Held

\* The initial states have their type.
LEMMA InitTypeOK == Init => TypeOK
<1> SUFFICES ASSUME Init PROVE TypeOK
  OBVIOUS
<1>1. dir \in File
  <2>1. NoFile \in File
    OBVIOUS
  <2>2. \A x \in Procs \union {None} : Leftover(x) \in File
    OBVIOUS
  <2>3. dir = NoFile \/ \E x \in Procs \union {None} : dir = Leftover(x)
    BY DEF Init
  <2>4. QED
    BY <2>1, <2>2, <2>3 DEF Leftover, NoFile
<1>2. pc \in [Procs -> Steps]
  BY DEF Init
<1>3. /\ got \in [Procs -> Procs \union {None}] /\ owner \in [Procs -> Users]
      /\ raced \in BOOLEAN /\ misled \in BOOLEAN /\ reused \in BOOLEAN
  BY DEF Init, Lives
<1>4. QED
  BY <1>1, <1>2, <1>3

\* Every step keeps the type.
LEMMA StepTypeOK == TypeOK /\ [Next]_vars => TypeOK'
<1> SUFFICES ASSUME TypeOK, [Next]_vars PROVE TypeOK'
  OBVIOUS
<1>1. CASE UNCHANGED vars
  BY <1>1 DEF vars
<1>2. ASSUME NEW p \in Procs, Look(p) PROVE TypeOK'
  BY <1>2 DEF Look
<1>3. ASSUME NEW p \in Procs, Read(p) PROVE TypeOK'
  BY <1>3 DEF Read
<1>4. ASSUME NEW p \in Procs, ReadFails(p) \/ Probe(p) PROVE TypeOK'
  <2>1. misled' \in BOOLEAN
    BY <1>4 DEF ReadFails, Probe
  <2>2. UNCHANGED <<dir, owner, raced, reused>>
    BY <1>4 DEF ReadFails, Probe
  <2>3. got' \in [Procs -> Procs \union {None}] /\ pc' \in [Procs -> Steps]
    BY <1>4 DEF ReadFails, Probe
  <2>4. QED
    BY <2>1, <2>2, <2>3
<1>5. ASSUME NEW p \in Procs, Unlink(p) PROVE TypeOK'
  <2>1. CASE dir' = NoFile /\ Goto(p, "create")
    BY <1>5, <2>1 DEF Unlink
  <2>2. CASE Goto(p, "idle") /\ UNCHANGED dir
    BY <1>5, <2>2 DEF Unlink
  <2>3. QED
    BY <1>5, <2>1, <2>2 DEF Unlink
<1>6. ASSUME NEW p \in Procs, Create(p) PROVE TypeOK'
  <2>1. CASE dir' = LockFile(p, None) /\ Goto(p, "write")
    <3>1. dir' = LockFile(p, None) /\ pc' = [pc EXCEPT ![p] = "write"]
      BY <2>1
    <3>2. dir' \in File
      BY <3>1
    <3>3. QED
      BY <1>6, <3>1, <3>2 DEF Create
  <2>2. CASE UNCHANGED dir
    BY <1>6, <2>2 DEF Create
  <2>3. QED
    BY <1>6, <2>1, <2>2 DEF Create
<1>7. ASSUME NEW p \in Procs, Write(p) PROVE TypeOK'
  BY <1>7 DEF Write
<1>8. ASSUME NEW p \in Procs, FailWrite(p) PROVE TypeOK'
  BY <1>8 DEF FailWrite
<1>9. ASSUME NEW p \in Procs, Release(p) PROVE TypeOK'
  BY <1>9 DEF Release
<1>10. ASSUME NEW p \in Procs, Crash(p) PROVE TypeOK'
  BY <1>10 DEF Crash
<1>11. ASSUME NEW p \in Procs, Respawn(p) PROVE TypeOK'
  BY <1>11 DEF Respawn
<1>12. QED
  BY <1>1, <1>2, <1>3, <1>4, <1>5, <1>6, <1>7, <1>8, <1>9, <1>10, <1>11
  DEF Next

\* Every reachable state has its type.
THEOREM TypeCorrect == Spec => []TypeOK
  BY InitTypeOK, StepTypeOK, PTL DEF Spec

\* The strengthening holds at the start: no process is inside acquire().
LEMMA InitIInv == Init => IInv
<1> SUFFICES ASSUME Init PROVE IInv
  OBVIOUS
<1>1. TypeOK
  BY InitTypeOK
<1>2. \A p \in Procs : pc[p] \in {"idle", "dead"}
  BY DEF Init
<1>3. OneAcquires /\ HolderIsNamed /\ AcquirerKnows
  BY <1>2 DEF OneAcquires, HolderIsNamed, AcquirerKnows
<1>4. QED
  BY <1>1, <1>3 DEF IInv

\* What has disturbed an acquire() is remembered.
LEMMA UndisturbedBefore ==
  TypeOK /\ [Next]_vars /\ Undisturbed' => Undisturbed
<1> SUFFICES ASSUME TypeOK, [Next]_vars, raced \/ misled
             PROVE  raced' \/ misled'
  BY DEF Undisturbed
<1>1. ASSUME NEW p \in Procs, Look(p) PROVE raced' \/ misled'
  BY <1>1 DEF Look
<1>2. ASSUME NEW p \in Procs, ReadFails(p) \/ Probe(p) PROVE raced' \/ misled'
  BY <1>2 DEF ReadFails, Probe
<1>3. ASSUME UNCHANGED <<raced, misled>> PROVE raced' \/ misled'
  BY <1>3
<1>4. ASSUME NEW p \in Procs,
             \/ Read(p) \/ Unlink(p) \/ Create(p) \/ Write(p) \/ FailWrite(p)
             \/ Release(p) \/ Crash(p) \/ Respawn(p)
      PROVE  UNCHANGED <<raced, misled>>
  BY <1>4 DEF Read, Unlink, Create, Write, FailWrite, Release, Crash, Respawn
<1>5. QED
  BY <1>1, <1>2, <1>3, <1>4 DEF Next, vars

\* Every step keeps the strengthening, whatever the other processes do.
LEMMA StepIInv == IInv /\ [Next]_vars => IInv'
<1> SUFFICES ASSUME IInv, [Next]_vars, Undisturbed'
             PROVE  OneAcquires' /\ HolderIsNamed' /\ AcquirerKnows'
  BY StepTypeOK DEF IInv
<1> USE LockAssumption DEF Undisturbed, OneAcquires, HolderIsNamed, AcquirerKnows, NobodyHolds
<1>0. TypeOK /\ Undisturbed
  BY UndisturbedBefore DEF IInv
<1>a. OneAcquires /\ HolderIsNamed /\ AcquirerKnows
  BY <1>0 DEF IInv
<1>1. CASE UNCHANGED vars
  BY <1>1, <1>a DEF vars
<1>2. ASSUME NEW p \in Procs, Look(p)
      PROVE  OneAcquires' /\ HolderIsNamed' /\ AcquirerKnows'
  <2>1. \A q \in Procs : ~Acquiring(q)
    BY <1>2 DEF Look
  <2>2. OneAcquires'
    BY <1>0, <1>2, <2>1 DEF Look
  <2>3. HolderIsNamed'
    BY <1>0, <1>a, <1>2 DEF Look
  <2>4. AcquirerKnows'
    BY <1>0, <1>a, <1>2, <2>1 DEF Look
  <2>5. QED
    BY <2>2, <2>3, <2>4
<1>3. ASSUME NEW p \in Procs, Read(p)
      PROVE  OneAcquires' /\ HolderIsNamed' /\ AcquirerKnows'
  BY <1>0, <1>a, <1>3 DEF Read
<1>13. ASSUME NEW p \in Procs, ReadFails(p)
       PROVE  OneAcquires' /\ HolderIsNamed' /\ AcquirerKnows'
  <2>1. ~Lives(dir.pid)
    BY <1>13 DEF ReadFails, Undisturbed
  <2>2. \A r \in Procs : ~Held(r)
    <3> SUFFICES ASSUME NEW r \in Procs, Held(r) PROVE FALSE
      OBVIOUS
    <3>1. dir.pid = r
      BY <1>0, <1>a
    <3>2. QED
      BY <2>1, <3>1 DEF Lives
  <2>3. QED
    BY <1>0, <1>a, <1>13, <2>2 DEF ReadFails, Undisturbed
<1>4. ASSUME NEW p \in Procs, Probe(p)
      PROVE  OneAcquires' /\ HolderIsNamed' /\ AcquirerKnows'
  <2>1. CASE pid_alive(p, got[p])
    BY <1>0, <1>a, <1>4, <2>1 DEF Probe, Undisturbed
  <2>2. CASE ~pid_alive(p, got[p])
    <3>1. ~Lives(got[p])
      BY <1>4, <2>2 DEF Probe, Undisturbed, pid_alive
    <3>2. NobodyHolds
      <4> SUFFICES ASSUME NEW r \in Procs, Held(r) PROVE FALSE
        OBVIOUS
      <4>1. got[p] = r
        BY <1>a, <1>4 DEF Probe
      <4>2. QED
        BY <3>1, <4>1 DEF Lives
    <3>3. pc' = [pc EXCEPT ![p] = "unlink"] /\ UNCHANGED <<dir, got>>
      BY <1>4, <2>2 DEF Probe
    <3>4. Acquiring(p)
      BY <1>4 DEF Probe
    <3>5. QED
      BY <1>0, <1>a, <3>2, <3>3, <3>4
  <2>3. QED
    BY <2>1, <2>2
<1>5. ASSUME NEW p \in Procs, Unlink(p)
      PROVE  OneAcquires' /\ HolderIsNamed' /\ AcquirerKnows'
  BY <1>0, <1>a, <1>5 DEF Unlink
<1>6. ASSUME NEW p \in Procs, Create(p)
      PROVE  OneAcquires' /\ HolderIsNamed' /\ AcquirerKnows'
  BY <1>0, <1>a, <1>6 DEF Create
<1>7. ASSUME NEW p \in Procs, Write(p)
      PROVE  OneAcquires' /\ HolderIsNamed' /\ AcquirerKnows'
  <2>1. dir = LockFile(p, None) /\ NobodyHolds
    BY <1>a, <1>7 DEF Write
  <2>2. dir' = LockFile(p, p)
    BY <1>0, <1>7, <2>1 DEF Write
  <2>3. OneAcquires' /\ HolderIsNamed'
    BY ZenonT(30), <1>0, <1>a, <1>7, <2>1, <2>2 DEF Write
  <2>4. AcquirerKnows'
    BY <1>0, <1>a, <1>7 DEF Write
  <2>5. QED
    BY <2>3, <2>4
<1>8. ASSUME NEW p \in Procs, FailWrite(p)
      PROVE  OneAcquires' /\ HolderIsNamed' /\ AcquirerKnows'
  BY <1>0, <1>a, <1>8 DEF FailWrite
<1>9. ASSUME NEW p \in Procs, Release(p)
      PROVE  OneAcquires' /\ HolderIsNamed' /\ AcquirerKnows'
  BY <1>0, <1>a, <1>9 DEF Release
<1>10. ASSUME NEW p \in Procs, Crash(p)
       PROVE  OneAcquires' /\ HolderIsNamed' /\ AcquirerKnows'
  <2>1. OneAcquires'
    BY <1>0, <1>a, <1>10 DEF Crash
  <2>2. \A r \in Procs \ {p} : pc'[r] = pc[r] /\ got'[r] = got[r]
    BY <1>0, <1>10 DEF Crash
  <2>3. ~Held(p)' /\ pc'[p] = "dead"
    BY <1>0, <1>10 DEF Crash
  <2>4. \A r \in Procs \ {p} :
          dir.maker = r => dir' = dir
    BY <1>10 DEF Crash
  <2>5. HolderIsNamed'
    <3> SUFFICES ASSUME NEW r \in Procs, Held(r)' PROVE dir' = LockFile(r, r)
      BY DEF HolderIsNamed
    <3>1. r # p /\ Held(r)
      BY <2>2, <2>3
    <3>2. dir = LockFile(r, r)
      BY <1>0, <1>a, <3>1
    <3>3. QED
      BY <2>4, <3>1, <3>2
  <2>6. AcquirerKnows'
    <3> SUFFICES ASSUME NEW r \in Procs, r # p
        PROVE  /\ pc'[r] = "probe" => \A h \in Procs : Held(h)' => got'[r] = h
               /\ pc'[r] \in {"unlink", "create", "write"} => NobodyHolds'
               /\ pc'[r] = "write" => dir' = LockFile(r, None)
      BY <2>3 DEF AcquirerKnows
    <3>1. \A h \in Procs : Held(h)' => Held(h)
      BY <2>2, <2>3
    <3>2. pc[r] = "write" => dir = LockFile(r, None)
      BY <1>a
    <3>3. QED
      BY <1>a, <2>2, <2>4, <3>1, <3>2
  <2>7. QED
    BY <2>1, <2>5, <2>6
<1>11. ASSUME NEW p \in Procs, Respawn(p)
       PROVE  OneAcquires' /\ HolderIsNamed' /\ AcquirerKnows'
  BY <1>0, <1>a, <1>11 DEF Respawn
<1>12. QED
  BY <1>1, <1>2, <1>3, <1>4, <1>5, <1>6, <1>7, <1>8, <1>9, <1>10, <1>11, <1>13
  DEF Next

\* While no acquire() is disturbed the lock file names the holder, so the next
\* acquire() that may signal it finds it busy.
THEOREM NamesHolder == Spec => []HolderIsNamed
<1>1. IInv => HolderIsNamed
  BY DEF IInv, HolderIsNamed
<1>2. QED
  BY <1>1, InitIInv, StepIInv, StepTypeOK, PTL DEF Spec

\* While no acquire() is disturbed at most one process holds the lock.
THEOREM Excludes == Spec => []ExclusiveUndisturbed
<1>1. HolderIsNamed => ExclusiveUndisturbed
  BY DEF HolderIsNamed, ExclusiveUndisturbed, MutualExclusion, LockFile
<1>2. QED
  BY <1>1, NamesHolder, PTL

-----------------------------------------------------------------------------
\* While no pid is given out again, the pid in the file is that of a process
\* that is gone or of the one that made the file and holds the lock by it, and
\* nobody reads its own pid.
PidIsForeign ==
  /\ \A p \in Procs : dir.maker = p => pc[p] \in {"write", "held"}
  /\ \A p \in Procs : dir.pid = p => pc[p] = "dead" \/ (dir.maker = p /\ Held(p))
  /\ \A p \in Procs : pc[p] = "probe" => got[p] # p

RInv == TypeOK /\ (~reused => PidIsForeign)

\* The strengthening for BusyNotAlone holds at the start.
LEMMA InitRInv == Init => RInv
<1> SUFFICES ASSUME Init, ~reused PROVE PidIsForeign
  BY InitTypeOK DEF RInv
<1>1. TypeOK
  BY InitTypeOK
<1>2. dir.maker = None /\ ~Lives(dir.pid)
  BY DEF Init
<1>3. \A p \in Procs : pc[p] \in {"idle", "dead"}
  BY DEF Init
<1>4. QED
  BY <1>1, <1>2, <1>3, LockAssumption DEF PidIsForeign, Lives

\* Every step keeps it, overlapping acquire() calls included.
LEMMA StepRInv == RInv /\ [Next]_vars => RInv'
<1> SUFFICES ASSUME RInv, [Next]_vars, ~reused' PROVE PidIsForeign'
  BY StepTypeOK DEF RInv
<1> USE LockAssumption DEF PidIsForeign
<1>0. TypeOK /\ PidIsForeign
  BY DEF RInv, Next, vars, Look, Read, ReadFails, Probe, Unlink, Create, Write, FailWrite,
         Release, Crash, Respawn
<1>1. CASE UNCHANGED vars
  BY <1>0, <1>1 DEF vars
<1>2. ASSUME NEW p \in Procs, Look(p) PROVE PidIsForeign'
  BY <1>0, <1>2 DEF Look
<1>3. ASSUME NEW p \in Procs, Read(p) PROVE PidIsForeign'
  BY <1>0, <1>3 DEF Read
<1>13. ASSUME NEW p \in Procs, ReadFails(p) PROVE PidIsForeign'
  BY <1>0, <1>13 DEF ReadFails
<1>4. ASSUME NEW p \in Procs, Probe(p) PROVE PidIsForeign'
  BY <1>0, <1>4 DEF Probe
<1>5. ASSUME NEW p \in Procs, Unlink(p) PROVE PidIsForeign'
  BY <1>0, <1>5 DEF Unlink
<1>6. ASSUME NEW p \in Procs, Create(p) PROVE PidIsForeign'
  BY <1>0, <1>6 DEF Create
<1>7. ASSUME NEW p \in Procs, Write(p) PROVE PidIsForeign'
  BY <1>0, <1>7 DEF Write
<1>8. ASSUME NEW p \in Procs, FailWrite(p) PROVE PidIsForeign'
  BY <1>0, <1>8 DEF FailWrite
<1>9. ASSUME NEW p \in Procs, Release(p) PROVE PidIsForeign'
  BY <1>0, <1>9 DEF Release
<1>10. ASSUME NEW p \in Procs, Crash(p) PROVE PidIsForeign'
  BY <1>0, <1>10 DEF Crash
<1>11. ASSUME NEW p \in Procs, Respawn(p) PROVE PidIsForeign'
  BY <1>11 DEF Respawn
<1>12. QED
  BY <1>1, <1>2, <1>3, <1>4, <1>5, <1>6, <1>7, <1>8, <1>9, <1>10, <1>11, <1>13
  DEF Next

\* A process that answers Busy has probed the pid of another, living one.
LEMMA BusyStep ==
  ASSUME RInv, [Next]_vars, NEW p \in Procs,
         ~reused, pc[p] = "probe", pc'[p] = "idle"
  PROVE  \E q \in Procs \ {p} : Lives(q)
<1>1. TypeOK /\ got[p] # p
  BY DEF RInv, PidIsForeign
<1>2. Probe(p)
  BY <1>1 DEF Next, vars, Look, Read, ReadFails, Probe, Unlink, Create, Write, FailWrite,
              Release, Crash, Respawn
<1>3. Lives(got[p])
  BY <1>1, <1>2 DEF Probe, pid_alive
<1>4. got[p] \in Procs \ {p}
  BY <1>1, <1>3 DEF Lives
<1>5. QED
  BY <1>3, <1>4

\* While pids are not given out again, Busy is only answered when another
\* process is alive: a stale lock is reclaimed at the next attempt.
THEOREM StaleIsReclaimed == Spec => BusyNotAlone
<1>1. RInv /\ [Next]_vars =>
        [\A p \in Procs :
           ~reused /\ pc[p] = "probe" /\ pc'[p] = "idle"
             => \E q \in Procs \ {p} : Lives(q)]_vars
  BY BusyStep
<1>2. QED
  BY <1>1, InitRInv, StepRInv, PTL DEF Spec, BusyNotAlone

=============================================================================
