---------------------------- MODULE SelfUpdateProofs ----------------------------
(***************************************************************************)
(* Proofs about self-update for every number of updaters, versions,           *)
(* invocations and faults: an interrupted update can be undone, and an update  *)
(* is atomic to the operator (the refinement of AtomicUpdate).                *)
(*                                                                          *)
(* What a rollback needs has to be in every directory a power loss may bring   *)
(* back; what the lock's holder does next needs more of the one it sees.  The  *)
(* invariant keeps the two apart: RecordsInv speaks of every survivable        *)
(* directory, ProgressInv of the directory and the stage of the holder.        *)
(***************************************************************************)
EXTENDS SelfUpdate, FiniteSetTheorems, TLAPS

\* Past the lock: only the lock's holder is.
Working(u) == stage[u] \notin {"idle", "started"}
LockInv ==
  /\ \A u \in Updaters : Working(u) <=> u \in lock
  /\ \A u, v \in lock : u = v

\* There is an executable in every directory, and an open record has what undoes it.
HasRollback(d) == d.txn = "open" => d.backup # 0 /\ (d.hadPrevious => d.prevBackup # 0)
RecordsInv == \A d \in survivable : d.exe # 0 /\ HasRollback(d)

Installing == {"swapping", "syncing", "probing", "publishing", "sealing", "committing"}
RollingBack == {"restoring", "restoringPrevious", "settling", "closing"}
Sweeping == {"sweeping", "sweptArtifacts", "forgetting"}

\* How far the holder has come shows in the directory.
Progress(u) ==
  /\ stage[u] \in {"resolving", "staging", "opening"} => dir.txn = "none"
  /\ stage[u] = "staging" => target \in Versions
  /\ stage[u] = "opening" =>
       /\ dir.candidate \in Versions
       /\ dir.backup = dir.exe /\ dir.prevCandidate = dir.exe /\ dir.prevBackup = dir.previous
  /\ stage[u] \in Installing \cup RollingBack => dir.txn = "open"
  /\ stage[u] = "swapping" => dir.candidate \in Versions
  /\ stage[u] \in {"swapping", "syncing", "probing", "publishing"} => dir.prevCandidate = dir.backup
  /\ stage[u] \in {"sealing", "committing"} => dir.previous = dir.backup
  /\ stage[u] = "committing" => survivable = {dir}
  /\ stage[u] \in {"restoringPrevious", "settling", "closing"} => dir.exe = dir.backup
  /\ stage[u] \in {"settling", "closing"} => dir.previous = RestoredPrevious(dir)
  /\ stage[u] \in Sweeping => dir.txn = "committed"
ProgressInv == \A u \in Updaters : Progress(u)

IInv == TypeOK /\ LockInv /\ RecordsInv /\ ProgressInv

-----------------------------------------------------------------------------
\* A file operation on a directory gives a directory.
LEMMA Fields ==
  ASSUME NEW d \in Directory
  PROVE  /\ \A v \in File :
              /\ [d EXCEPT !.exe = v] \in Directory
              /\ [d EXCEPT !.previous = v] \in Directory
              /\ [d EXCEPT !.backup = v] \in Directory
              /\ [d EXCEPT !.candidate = v] \in Directory
              /\ [d EXCEPT !.prevCandidate = v] \in Directory
              /\ [d EXCEPT !.prevBackup = v] \in Directory
         /\ \A t \in Txns : [d EXCEPT !.txn = t] \in Directory
         /\ \A t \in Txns, h \in BOOLEAN :
              [d EXCEPT !.txn = t, !.hadPrevious = h] \in Directory
BY DEF Directory

LEMMA Contents ==
  ASSUME NEW d \in Directory
  PROVE  /\ {d.exe, d.previous, d.backup, d.candidate, d.prevCandidate, d.prevBackup} \subseteq File
         /\ d.txn \in Txns /\ d.hadPrevious \in BOOLEAN
BY DEF Directory

LEMMA Zero == 0 \in File /\ Versions \subseteq File
BY SelfUpdateAssumption DEF File, Versions

\* The directories staging passes through.
LEMMA Staging ==
  ASSUME NEW d \in Directory, NEW t \in File
  PROVE  LET a == [WithoutArtifacts(d) EXCEPT !.candidate = t]
             b == [a EXCEPT !.backup = d.exe]
             c == [b EXCEPT !.prevBackup = d.previous]
             e == [c EXCEPT !.prevCandidate = b.backup]
         IN  /\ {a, b, c, e} \subseteq Directory
             /\ \A x \in {a, b, c, e} :
                  x.exe = d.exe /\ x.previous = d.previous /\ x.txn = d.txn
             /\ e.candidate = t /\ e.backup = d.exe /\ e.prevCandidate = d.exe
             /\ e.prevBackup = d.previous
BY Zero, ZenonT(40) DEF Directory, WithoutArtifacts

LEMMA Bare ==
  ASSUME NEW d \in Directory
  PROVE  /\ WithoutArtifacts(d) \in Directory
         /\ WithoutArtifacts(d).exe = d.exe /\ WithoutArtifacts(d).previous = d.previous
         /\ WithoutArtifacts(d).txn = d.txn
BY Zero DEF Directory, WithoutArtifacts

\* Sweeping removes artifacts only.
LEMMA Trail ==
  ASSUME NEW d \in Directory, NEW k \in 1..5
  PROVE  /\ SweepTrail(d)[k] \in Directory
         /\ SweepTrail(d)[k].exe = d.exe /\ SweepTrail(d)[k].previous = d.previous
         /\ SweepTrail(d)[k].txn = d.txn
<1> DEFINE a == [d EXCEPT !.backup = 0]
           b == [a EXCEPT !.candidate = 0]
           c == [b EXCEPT !.prevCandidate = 0]
           e == [c EXCEPT !.prevBackup = 0]
<1>1. a \in Directory /\ b \in Directory /\ c \in Directory /\ e \in Directory
  <2>1. a \in Directory
    BY Fields, Zero
  <2> HIDE DEF a
  <2>2. b \in Directory
    BY <2>1, Fields, Zero
  <2> HIDE DEF b
  <2>3. c \in Directory
    BY <2>2, Fields, Zero
  <2> HIDE DEF c
  <2>4. e \in Directory
    BY <2>3, Fields, Zero
  <2>5. QED
    BY <2>1, <2>2, <2>3, <2>4
<1>2. /\ a.exe = d.exe /\ a.previous = d.previous /\ a.txn = d.txn
      /\ b.exe = d.exe /\ b.previous = d.previous /\ b.txn = d.txn
      /\ c.exe = d.exe /\ c.previous = d.previous /\ c.txn = d.txn
      /\ e.exe = d.exe /\ e.previous = d.previous /\ e.txn = d.txn
  BY DEF Directory
<1>3. SweepTrail(d) = <<d, a, b, c, e>>
  BY DEF SweepTrail
<1> HIDE DEF a, b, c, e
<1>4. k = 1 \/ k = 2 \/ k = 3 \/ k = 4 \/ k = 5
  OBVIOUS
<1>5. SweepTrail(d)[k] \in {d, a, b, c, e}
  BY <1>3, <1>4
<1>6. QED
  BY <1>1, <1>2, <1>5

\* The artifacts a committed update leaves are swept from its first to its last.
LEMMA SweepEnds ==
  ASSUME NEW u, SweepArtifacts(u)
  PROVE  \E k \in 1..5 :
           /\ dir' = SweepTrail(dir)[k]
           /\ survivable' = survivable \cup {SweepTrail(dir)[j] : j \in 1..k}
           /\ 1..k \subseteq 1..5
BY DEF SweepArtifacts

-----------------------------------------------------------------------------
\* Whoever is past the lock is alone there.
LEMMA Alone ==
  ASSUME LockInv, NEW u \in Updaters, Working(u), NEW v \in Updaters, v # u
  PROVE  ~Working(v)
BY DEF LockInv

\* At most one updater is past the lock, and it holds it.
LEMMA LockStep ==
  ASSUME TypeOK, LockInv, [Next]_vars
  PROVE  LockInv'
<1>1. ASSUME NEW u \in Updaters, Start(u) PROVE LockInv'
  BY <1>1 DEF Start, At, Goto, Exit, TypeOK, LockInv, Working, InstallFrame, OrRollBack
<1>2. ASSUME NEW u \in Updaters, AcquireLock(u) PROVE LockInv'
  BY <1>2 DEF AcquireLock, At, Goto, LockFree, TypeOK, LockInv, Working
<1>3. ASSUME NEW u \in Updaters, Recover(u) PROVE LockInv'
  <2>1. \/ Goto(u, "resolving") /\ lock' = lock
        \/ Goto(u, "sweeping") /\ lock' = lock
        \/ Goto(u, "restoring") /\ lock' = lock
        \/ Exit(u)
    BY <1>3 DEF Recover
  <2>2. QED
    BY <1>3, <2>1 DEF Recover, At, Goto, Exit, TypeOK, LockInv, Working
<1>4. ASSUME NEW u \in Updaters, Resolve(u) PROVE LockInv'
  BY <1>4 DEF Resolve, At, Goto, Exit, TypeOK, LockInv, Working, InstallFrame, OrRollBack
<1>5. ASSUME NEW u \in Updaters, Stage(u) PROVE LockInv'
  BY <1>5 DEF Stage, At, Goto, Exit, TypeOK, LockInv, Working, InstallFrame, OrRollBack
<1>6. ASSUME NEW u \in Updaters, OpenTransaction(u) PROVE LockInv'
  BY <1>6 DEF OpenTransaction, At, Goto, Exit, TypeOK, LockInv, Working, InstallFrame, OrRollBack
<1>7. ASSUME NEW u \in Updaters, Swap(u) PROVE LockInv'
  BY <1>7 DEF Swap, At, Goto, Exit, TypeOK, LockInv, Working, InstallFrame, OrRollBack
<1>8. ASSUME NEW u \in Updaters, SyncSwap(u) PROVE LockInv'
  BY <1>8 DEF SyncSwap, At, Goto, Exit, TypeOK, LockInv, Working, InstallFrame, OrRollBack
<1>9. ASSUME NEW u \in Updaters, Probe(u) PROVE LockInv'
  BY <1>9 DEF Probe, At, Goto, Exit, TypeOK, LockInv, Working, InstallFrame, OrRollBack
<1>10. ASSUME NEW u \in Updaters, PublishPrevious(u) PROVE LockInv'
  BY <1>10 DEF PublishPrevious, At, Goto, Exit, TypeOK, LockInv, Working, InstallFrame, OrRollBack
<1>11. ASSUME NEW u \in Updaters, SyncPrevious(u) PROVE LockInv'
  BY <1>11 DEF SyncPrevious, At, Goto, Exit, TypeOK, LockInv, Working, InstallFrame, OrRollBack
<1>12. ASSUME NEW u \in Updaters, Commit(u) PROVE LockInv'
  BY <1>12 DEF Commit, At, Goto, Exit, TypeOK, LockInv, Working, InstallFrame, OrRollBack
<1>13. ASSUME NEW u \in Updaters, RestoreExecutable(u) PROVE LockInv'
  BY <1>13 DEF RestoreExecutable, At, Goto, Exit, TypeOK, LockInv, Working, InstallFrame, OrRollBack
<1>14. ASSUME NEW u \in Updaters, RestorePrevious(u) PROVE LockInv'
  BY <1>14 DEF RestorePrevious, At, Goto, Exit, TypeOK, LockInv, Working, InstallFrame, OrRollBack
<1>15. ASSUME NEW u \in Updaters, SettleRollback(u) PROVE LockInv'
  BY <1>15 DEF SettleRollback, At, Goto, Exit, TypeOK, LockInv, Working, InstallFrame, OrRollBack
<1>16. ASSUME NEW u \in Updaters, CloseRollback(u) PROVE LockInv'
  BY <1>16 DEF CloseRollback, At, Goto, Exit, TypeOK, LockInv, Working, InstallFrame, OrRollBack
<1>17. ASSUME NEW u \in Updaters, SweepArtifacts(u) PROVE LockInv'
  <2>1. \/ Goto(u, "sweptArtifacts") /\ lock' = lock
        \/ Exit(u)
    BY <1>17 DEF SweepArtifacts
  <2>2. QED
    BY <1>17, <2>1 DEF SweepArtifacts, At, Goto, Exit, TypeOK, LockInv, Working
<1>18. ASSUME NEW u \in Updaters, SyncSweep(u) PROVE LockInv'
  BY <1>18 DEF SyncSweep, At, Goto, Exit, TypeOK, LockInv, Working, InstallFrame, OrRollBack
<1>19. ASSUME NEW u \in Updaters, Forget(u) PROVE LockInv'
  BY <1>19 DEF Forget, At, Goto, Exit, TypeOK, LockInv, Working, InstallFrame, OrRollBack
<1>20. ASSUME NEW u \in Updaters, Kill(u) PROVE LockInv'
  BY <1>20 DEF Kill, At, Goto, Exit, TypeOK, LockInv, Working, InstallFrame, OrRollBack
<1>21. CASE PowerLoss
  BY <1>21 DEF PowerLoss, LockInv, Working
<1>22. CASE UNCHANGED vars
  BY <1>22 DEF vars, LockInv, Working
<1>23. QED
  BY <1>1, <1>2, <1>3, <1>4, <1>5, <1>6, <1>7, <1>8, <1>9, <1>10, <1>11, <1>12, <1>13, <1>14, <1>15, <1>16, <1>17, <1>18, <1>19, <1>20, <1>21, <1>22 DEF Next

\* Every step leaves a directory, which a power loss may leave as well.
DirectoryTypes == dir \in Directory /\ survivable \subseteq Directory /\ dir \in survivable

LEMMA DirectoryStep ==
  ASSUME TypeOK, [Next]_vars
  PROVE  DirectoryTypes'
<1> DirectoryTypes /\ target \in File
  BY DEF TypeOK, DirectoryTypes
<1>1. ASSUME NEW u \in Updaters, Start(u) PROVE DirectoryTypes'
  BY <1>1 DEF Start, NoDirectoryChange, DirectoryTypes
<1>2. ASSUME NEW u \in Updaters, AcquireLock(u) PROVE DirectoryTypes'
  BY <1>2 DEF AcquireLock, NoDirectoryChange, DirectoryTypes
<1>3. ASSUME NEW u \in Updaters, Recover(u) PROVE DirectoryTypes'
  BY <1>3 DEF Recover, NoDirectoryChange, DirectoryTypes
<1>4. ASSUME NEW u \in Updaters, Resolve(u) PROVE DirectoryTypes'
  BY <1>4 DEF Resolve, NoDirectoryChange, DirectoryTypes
<1>5. ASSUME NEW u \in Updaters, Stage(u) PROVE DirectoryTypes'
  <2>1. CASE NoDirectoryChange
    BY <2>1 DEF NoDirectoryChange, DirectoryTypes
  <2>2. CASE ~NoDirectoryChange
    <3> DEFINE a == [WithoutArtifacts(dir) EXCEPT !.candidate = target]
               b == [a EXCEPT !.backup = dir.exe]
               c == [b EXCEPT !.prevBackup = dir.previous]
               d == [c EXCEPT !.prevCandidate = b.backup]
    <3>1. dir' = d /\ survivable' = survivable \cup {a, b, c, d}
      BY <1>5, <2>2 DEF Stage
    <3>2. {a, b, c, d} \subseteq Directory
      BY Staging DEF DirectoryTypes, TypeOK
    <3> HIDE DEF a, b, c, d
    <3>3. QED
      BY <3>1, <3>2 DEF DirectoryTypes
  <2>3. QED
    BY <2>1, <2>2
<1>6. ASSUME NEW u \in Updaters, OpenTransaction(u) PROVE DirectoryTypes'
  <2> DEFINE open == [dir EXCEPT !.txn = "open", !.hadPrevious = dir.prevBackup # 0]
  <2>1. open \in Directory /\ WithoutArtifacts(dir) \in Directory
    BY Fields, Bare DEF DirectoryTypes, Txns
  <2>2. \/ dir' = open /\ survivable' = {open}
        \/ dir' = open /\ survivable' = survivable \cup {open, dir'}
        \/ Becomes(WithoutArtifacts(dir))
    BY <1>6 DEF OpenTransaction, OwnedArtifacts
  <2> HIDE DEF open
  <2>3. QED
    BY <2>1, <2>2 DEF Becomes, DirectoryTypes
<1>7. ASSUME NEW u \in Updaters, Swap(u) PROVE DirectoryTypes'
  <2> DEFINE d == [dir EXCEPT !.exe = dir.candidate, !.candidate = 0]
  <2>1. d \in Directory
    BY Zero DEF DirectoryTypes, Directory
  <2>2. Becomes(d) \/ NoDirectoryChange
    BY <1>7 DEF Swap
  <2> HIDE DEF d
  <2>3. QED
    BY <2>1, <2>2 DEF Becomes, NoDirectoryChange, DirectoryTypes
<1>8. ASSUME NEW u \in Updaters, SyncSwap(u) PROVE DirectoryTypes'
  BY <1>8 DEF SyncSwap, Synced, NoDirectoryChange, DirectoryTypes
<1>9. ASSUME NEW u \in Updaters, Probe(u) PROVE DirectoryTypes'
  BY <1>9 DEF Probe, NoDirectoryChange, DirectoryTypes
<1>10. ASSUME NEW u \in Updaters, PublishPrevious(u) PROVE DirectoryTypes'
  <2> DEFINE d == [dir EXCEPT !.previous = dir.prevCandidate, !.prevCandidate = 0]
  <2>1. d \in Directory
    BY Zero DEF DirectoryTypes, Directory
  <2>2. Becomes(d) \/ NoDirectoryChange
    BY <1>10 DEF PublishPrevious
  <2> HIDE DEF d
  <2>3. QED
    BY <2>1, <2>2 DEF Becomes, NoDirectoryChange, DirectoryTypes
<1>11. ASSUME NEW u \in Updaters, SyncPrevious(u) PROVE DirectoryTypes'
  BY <1>11 DEF SyncPrevious, Synced, NoDirectoryChange, DirectoryTypes
<1>12. ASSUME NEW u \in Updaters, Commit(u) PROVE DirectoryTypes'
  <2>1. Committed(dir) \in Directory
    BY Fields DEF Committed, DirectoryTypes, Txns
  <2>2. QED
    BY <1>12, <2>1 DEF Commit, Becomes, NoDirectoryChange, DirectoryTypes
<1>13. ASSUME NEW u \in Updaters, RestoreExecutable(u) PROVE DirectoryTypes'
  <2>1. [dir EXCEPT !.exe = dir.backup] \in Directory
    BY Fields, Contents DEF DirectoryTypes
  <2>2. QED
    BY <1>13, <2>1 DEF RestoreExecutable, Becomes, NoDirectoryChange, DirectoryTypes
<1>14. ASSUME NEW u \in Updaters, RestorePrevious(u) PROVE DirectoryTypes'
  <2>1. RestoredPrevious(dir) \in File
    BY Contents, Zero DEF DirectoryTypes, RestoredPrevious
  <2>2. [dir EXCEPT !.previous = RestoredPrevious(dir)] \in Directory
    BY <2>1, Fields DEF DirectoryTypes
  <2>3. QED
    BY <1>14, <2>2 DEF RestorePrevious, Becomes, NoDirectoryChange, DirectoryTypes
<1>15. ASSUME NEW u \in Updaters, SettleRollback(u) PROVE DirectoryTypes'
  <2> DEFINE a == [dir EXCEPT !.candidate = 0]
             b == [a EXCEPT !.prevCandidate = 0]
  <2>1. a \in Directory
    BY Fields, Zero DEF DirectoryTypes
  <2>2. dir' = b /\ (survivable' = {b} \/ survivable' = survivable \cup {a, b})
    BY <1>15 DEF SettleRollback
  <2> HIDE DEF a
  <2>3. b \in Directory
    BY <2>1, Fields, Zero
  <2> HIDE DEF b
  <2>4. QED
    BY <2>1, <2>2, <2>3 DEF DirectoryTypes
<1>16. ASSUME NEW u \in Updaters, CloseRollback(u) PROVE DirectoryTypes'
  <2>1. Committed(dir) \in Directory
    BY Fields DEF Committed, DirectoryTypes, Txns
  <2>2. QED
    BY <1>16, <2>1 DEF CloseRollback, Becomes, NoDirectoryChange, DirectoryTypes
<1>17. ASSUME NEW u \in Updaters, SweepArtifacts(u) PROVE DirectoryTypes'
  <2>1. PICK k \in 1..5 :
          /\ dir' = SweepTrail(dir)[k]
          /\ survivable' = survivable \cup {SweepTrail(dir)[j] : j \in 1..k}
          /\ 1..k \subseteq 1..5
    BY <1>17, SweepEnds
  <2>2. k \in 1..k /\ \A j \in 1..k : SweepTrail(dir)[j] \in Directory
    BY <2>1, Trail DEF DirectoryTypes
  <2>3. QED
    BY <2>1, <2>2 DEF DirectoryTypes
<1>18. ASSUME NEW u \in Updaters, SyncSweep(u) PROVE DirectoryTypes'
  BY <1>18 DEF SyncSweep, Synced, NoDirectoryChange, DirectoryTypes
<1>19. ASSUME NEW u \in Updaters, Forget(u) PROVE DirectoryTypes'
  <2> DEFINE gone == [dir EXCEPT !.txn = "none", !.hadPrevious = FALSE]
  <2>1. gone \in Directory
    BY Fields DEF DirectoryTypes, Txns
  <2>2. \/ dir' = gone /\ survivable' = {gone}
        \/ dir' \in {dir, gone} /\ survivable' = survivable \cup {dir, gone}
    BY <1>19 DEF Forget
  <2> HIDE DEF gone
  <2>3. QED
    BY <2>1, <2>2 DEF DirectoryTypes
<1>20. ASSUME NEW u \in Updaters, Kill(u) PROVE DirectoryTypes'
  BY <1>20 DEF Kill, NoDirectoryChange, DirectoryTypes
<1>21. CASE PowerLoss
  BY <1>21 DEF PowerLoss, DirectoryTypes
<1>22. CASE UNCHANGED vars
  BY <1>22 DEF vars, DirectoryTypes
<1>23. QED
  BY <1>1, <1>2, <1>3, <1>4, <1>5, <1>6, <1>7, <1>8, <1>9, <1>10, <1>11, <1>12, <1>13, <1>14, <1>15, <1>16, <1>17, <1>18, <1>19, <1>20, <1>21, <1>22 DEF Next

ControlTypes ==
  /\ lock \subseteq Updaters
  /\ stage \in [Updaters -> Stages] /\ current \in [Updaters -> File]
  /\ target \in File /\ afterSweep \in {"resolving", "idle"}
  /\ starts \in 0..MaxStarts /\ faults \in 0..MaxFaults

\* The types of what the updaters keep.
LEMMA ControlStep ==
  ASSUME TypeOK, [Next]_vars
  PROVE  ControlTypes'
<1> ControlTypes /\ \A n \in 0..MaxFaults : n < MaxFaults => n + 1 \in 0..MaxFaults
  BY SelfUpdateAssumption DEF TypeOK, ControlTypes
<1> \A n \in 0..MaxStarts : n < MaxStarts => n + 1 \in 0..MaxStarts
  BY SelfUpdateAssumption
<1>1. ASSUME NEW u \in Updaters, Start(u) PROVE ControlTypes'
  <2>1. current' \in [Updaters -> File]
    BY <1>1, Contents DEF Start, TypeOK, ControlTypes
  <2>2. QED
    BY <1>1, <2>1 DEF Start, Goto, TypeOK, ControlTypes, Stages
<1>2. ASSUME NEW u \in Updaters, AcquireLock(u) PROVE ControlTypes'
  BY <1>2 DEF AcquireLock, Goto, Exit, Fault, InstallFrame, OrRollBack, TypeOK, ControlTypes, Stages
<1>3. ASSUME NEW u \in Updaters, Recover(u) PROVE ControlTypes'
  <2>1. /\ \/ Goto(u, "resolving") /\ lock' = lock
           \/ Goto(u, "sweeping") /\ lock' = lock
           \/ Goto(u, "restoring") /\ lock' = lock
           \/ Exit(u)
        /\ afterSweep' \in {afterSweep, "resolving"}
        /\ UNCHANGED <<current, target, starts, faults>>
    BY <1>3 DEF Recover
  <2>2. QED
    BY <2>1 DEF Goto, Exit, TypeOK, ControlTypes, Stages
<1>4. ASSUME NEW u \in Updaters, Resolve(u) PROVE ControlTypes'
  BY <1>4, Zero DEF Resolve, Goto, Exit, TypeOK, ControlTypes, Stages
<1>5. ASSUME NEW u \in Updaters, Stage(u) PROVE ControlTypes'
  BY <1>5 DEF Stage, Goto, Exit, Fault, InstallFrame, OrRollBack, TypeOK, ControlTypes, Stages
<1>6. ASSUME NEW u \in Updaters, OpenTransaction(u) PROVE ControlTypes'
  BY <1>6 DEF OpenTransaction, Goto, Exit, Fault, InstallFrame, OrRollBack, TypeOK, ControlTypes, Stages
<1>7. ASSUME NEW u \in Updaters, Swap(u) PROVE ControlTypes'
  BY <1>7 DEF Swap, Goto, Exit, Fault, InstallFrame, OrRollBack, TypeOK, ControlTypes, Stages
<1>8. ASSUME NEW u \in Updaters, SyncSwap(u) PROVE ControlTypes'
  BY <1>8 DEF SyncSwap, Goto, Exit, Fault, InstallFrame, OrRollBack, TypeOK, ControlTypes, Stages
<1>9. ASSUME NEW u \in Updaters, Probe(u) PROVE ControlTypes'
  BY <1>9 DEF Probe, Goto, Exit, Fault, InstallFrame, OrRollBack, TypeOK, ControlTypes, Stages
<1>10. ASSUME NEW u \in Updaters, PublishPrevious(u) PROVE ControlTypes'
  BY <1>10 DEF PublishPrevious, Goto, Exit, Fault, InstallFrame, OrRollBack, TypeOK, ControlTypes, Stages
<1>11. ASSUME NEW u \in Updaters, SyncPrevious(u) PROVE ControlTypes'
  BY <1>11 DEF SyncPrevious, Goto, Exit, Fault, InstallFrame, OrRollBack, TypeOK, ControlTypes, Stages
<1>12. ASSUME NEW u \in Updaters, Commit(u) PROVE ControlTypes'
  BY <1>12 DEF Commit, Goto, Exit, Fault, InstallFrame, OrRollBack, TypeOK, ControlTypes, Stages
<1>13. ASSUME NEW u \in Updaters, RestoreExecutable(u) PROVE ControlTypes'
  BY <1>13 DEF RestoreExecutable, Goto, Exit, Fault, InstallFrame, OrRollBack, TypeOK, ControlTypes, Stages
<1>14. ASSUME NEW u \in Updaters, RestorePrevious(u) PROVE ControlTypes'
  BY <1>14 DEF RestorePrevious, Goto, Exit, Fault, InstallFrame, OrRollBack, TypeOK, ControlTypes, Stages
<1>15. ASSUME NEW u \in Updaters, SettleRollback(u) PROVE ControlTypes'
  BY <1>15 DEF SettleRollback, Goto, Exit, Fault, InstallFrame, OrRollBack, TypeOK, ControlTypes, Stages
<1>16. ASSUME NEW u \in Updaters, CloseRollback(u) PROVE ControlTypes'
  BY <1>16 DEF CloseRollback, Goto, Exit, Fault, InstallFrame, OrRollBack, TypeOK, ControlTypes, Stages
<1>17. ASSUME NEW u \in Updaters, SweepArtifacts(u) PROVE ControlTypes'
  <2>1. /\ \/ Goto(u, "sweptArtifacts") /\ UNCHANGED <<lock, faults>>
           \/ Fault /\ Exit(u)
        /\ UNCHANGED <<current, target, afterSweep, starts>>
    BY <1>17 DEF SweepArtifacts
  <2>2. QED
    BY <2>1 DEF Goto, Exit, Fault, TypeOK, ControlTypes, Stages
<1>18. ASSUME NEW u \in Updaters, SyncSweep(u) PROVE ControlTypes'
  BY <1>18 DEF SyncSweep, Goto, Exit, Fault, InstallFrame, OrRollBack, TypeOK, ControlTypes, Stages
<1>19. ASSUME NEW u \in Updaters, Forget(u) PROVE ControlTypes'
  <2>1. /\ \/ Goto(u, afterSweep) /\ UNCHANGED <<lock, faults>>
           \/ Exit(u) /\ UNCHANGED faults
           \/ Fault /\ Exit(u)
        /\ UNCHANGED <<current, target, afterSweep, starts>>
    BY <1>19 DEF Forget
  <2>2. QED
    BY <2>1 DEF Goto, Exit, Fault, TypeOK, ControlTypes, Stages
<1>20. ASSUME NEW u \in Updaters, Kill(u) PROVE ControlTypes'
  BY <1>20 DEF Kill, Goto, Exit, Fault, InstallFrame, OrRollBack, TypeOK, ControlTypes, Stages
<1>21. CASE PowerLoss
  BY <1>21 DEF PowerLoss, Fault, TypeOK, ControlTypes, Stages
<1>22. CASE UNCHANGED vars
  BY <1>22 DEF vars, TypeOK, ControlTypes
<1>23. QED
  BY <1>1, <1>2, <1>3, <1>4, <1>5, <1>6, <1>7, <1>8, <1>9, <1>10, <1>11, <1>12, <1>13, <1>14, <1>15, <1>16, <1>17, <1>18, <1>19, <1>20, <1>21, <1>22 DEF Next

\* The types.
LEMMA TypeStep == TypeOK /\ LockInv /\ [Next]_vars => TypeOK'
<1> SUFFICES ASSUME TypeOK, LockInv, [Next]_vars PROVE TypeOK'
  OBVIOUS
<1>1. Cardinality(lock') <= 1
  <2>1. \A u, v \in lock' : u = v
    BY LockStep DEF LockInv
  <2>2. CASE lock' = {}
    BY <2>2, FS_EmptySet
  <2>3. CASE lock' # {}
    <3>1. PICK u \in lock' : TRUE
      BY <2>3
    <3>2. lock' = {u}
      BY <2>1, <3>1
    <3>3. Cardinality({u}) = 1
      BY FS_Singleton, Zenon
    <3>4. QED
      BY <3>2, <3>3
  <2>4. QED
    BY <2>2, <2>3
<1>2. QED
  BY <1>1, DirectoryStep, ControlStep DEF DirectoryTypes, ControlTypes, TypeOK

-----------------------------------------------------------------------------
\* Progress is a matter of the holder's stage; what the others say is nothing.
LEMMA OnlyTheHolder ==
  ASSUME TypeOK, LockInv, NEW u \in Updaters, Working(u), NEW s,
         stage' = [stage EXCEPT ![u] = s], Progress(u)'
  PROVE  ProgressInv'
<1> SUFFICES ASSUME NEW v \in Updaters, v # u PROVE Progress(v)'
  BY DEF ProgressInv
<1>1. stage'[v] \in {"idle", "started"}
  BY Alone DEF TypeOK, Working
<1>2. QED
  BY <1>1 DEF Progress, Installing, RollingBack, Sweeping

LEMMA HolderLeaves ==
  ASSUME TypeOK, LockInv, NEW u \in Updaters, Working(u), Exit(u)
  PROVE  ProgressInv'
<1>1. stage' = [stage EXCEPT ![u] = "idle"]
  BY DEF Exit, Goto
<1>2. Progress(u)'
  BY <1>1 DEF TypeOK, Progress, Installing, RollingBack, Sweeping
<1>3. QED
  BY <1>1, <1>2, OnlyTheHolder

\* What staging leaves when it succeeds.
LEMMA StagedFiles ==
  ASSUME TypeOK, NEW u \in Updaters, Stage(u), Goto(u, "opening")
  PROVE  /\ dir'.exe = dir.exe /\ dir'.previous = dir.previous /\ dir'.txn = dir.txn
         /\ dir'.candidate = target /\ dir'.backup = dir.exe
         /\ dir'.prevCandidate = dir.exe /\ dir'.prevBackup = dir.previous
<1> DEFINE a == [WithoutArtifacts(dir) EXCEPT !.candidate = target]
           b == [a EXCEPT !.backup = dir.exe]
           c == [b EXCEPT !.prevBackup = dir.previous]
           d == [c EXCEPT !.prevCandidate = b.backup]
<1>1. stage' # [stage EXCEPT ![u] = "idle"]
  BY DEF Goto, TypeOK
<1>2. dir' = d
  BY <1>1 DEF Stage, Exit, Goto
<1>3. d.exe = dir.exe /\ d.previous = dir.previous /\ d.txn = dir.txn
      /\ d.candidate = target /\ d.backup = dir.exe
      /\ d.prevCandidate = dir.exe /\ d.prevBackup = dir.previous
  BY Staging DEF TypeOK
<1> HIDE DEF a, b, c, d
<1>4. QED
  BY <1>2, <1>3

\* Every step of the holder leaves what its next one relies on.
LEMMA ProgressStep ==
  ASSUME TypeOK, LockInv, ProgressInv, [Next]_vars
  PROVE  ProgressInv'
<1>1. ASSUME NEW u \in Updaters, Start(u) PROVE ProgressInv'
  <2>1. stage' = [stage EXCEPT ![u] = "started"] /\ UNCHANGED <<dir, survivable, target>>
    BY <1>1 DEF Start, Goto, NoDirectoryChange
  <2>2. QED
    BY <2>1 DEF ProgressInv, TypeOK, Progress, Installing, RollingBack, Sweeping, RestoredPrevious
<1>2. ASSUME NEW u \in Updaters, AcquireLock(u) PROVE ProgressInv'
  <2>1. /\ \E s \in {"recovering", "idle"} : stage' = [stage EXCEPT ![u] = s]
        /\ UNCHANGED <<dir, survivable, target>>
    BY <1>2 DEF AcquireLock, Goto, NoDirectoryChange
  <2>2. QED
    BY <2>1 DEF ProgressInv, TypeOK, Progress, Installing, RollingBack, Sweeping, RestoredPrevious
<1>3. ASSUME NEW u \in Updaters, Recover(u) PROVE ProgressInv'
  <2>1. stage[u] = "recovering" /\ Working(u) /\ Progress(u)
    BY <1>3 DEF Recover, At, Working, ProgressInv
  <2>2. CASE Goto(u, "resolving")
    <3>1. stage'[u] = "resolving"
      BY <2>2 DEF Goto, TypeOK
    <3>2. Progress(u)'
      BY <1>3, <2>1, <2>2, <3>1, Contents DEF Recover, Exit, Goto, TypeOK, Txns, Progress, Installing, RollingBack, Sweeping, NoDirectoryChange
    <3>3. QED
      BY <2>1, <2>2, <3>2, OnlyTheHolder DEF Goto
  <2>3. CASE Goto(u, "sweeping")
    <3>1. stage'[u] = "sweeping"
      BY <2>3 DEF Goto, TypeOK
    <3>2. Progress(u)'
      BY <1>3, <2>1, <2>3, <3>1, Contents DEF Recover, Exit, Goto, TypeOK, Txns, Progress, Installing, RollingBack, Sweeping, NoDirectoryChange
    <3>3. QED
      BY <2>1, <2>3, <3>2, OnlyTheHolder DEF Goto
  <2>4. CASE Goto(u, "restoring")
    <3>1. stage'[u] = "restoring"
      BY <2>4 DEF Goto, TypeOK
    <3>2. Progress(u)'
      BY <1>3, <2>1, <2>4, <3>1, Contents DEF Recover, Goto, TypeOK, Txns, Progress, Installing, RollingBack, Sweeping, NoDirectoryChange
    <3>3. QED
      BY <2>1, <2>4, <3>2, OnlyTheHolder DEF Goto
  <2>5. CASE Exit(u)
    BY <2>1, <2>5, HolderLeaves
  <2>6. QED
    BY <1>3, <2>2, <2>3, <2>4, <2>5 DEF Recover
<1>4. ASSUME NEW u \in Updaters, Resolve(u) PROVE ProgressInv'
  <2>1. stage[u] = "resolving" /\ Working(u) /\ Progress(u)
    BY <1>4 DEF Resolve, At, Working, ProgressInv
  <2>2. CASE Goto(u, "staging")
    <3>1. stage'[u] = "staging"
      BY <2>2 DEF Goto, TypeOK
    <3>2. Progress(u)'
      BY <1>4, <2>1, <2>2, <3>1 DEF Resolve, Exit, Goto, TypeOK, Progress, Installing, RollingBack, Sweeping, NoDirectoryChange
    <3>3. QED
      BY <2>1, <2>2, <3>2, OnlyTheHolder DEF Goto
  <2>3. CASE Exit(u)
    BY <2>1, <2>3, HolderLeaves
  <2>4. QED
    BY <1>4, <2>2, <2>3 DEF Resolve
<1>5. ASSUME NEW u \in Updaters, Stage(u) PROVE ProgressInv'
  <2>1. stage[u] = "staging" /\ Working(u) /\ Progress(u)
    BY <1>5 DEF Stage, At, Working, ProgressInv
  <2>2. CASE Goto(u, "opening")
    <3>1. stage'[u] = "opening"
      BY <2>2 DEF Goto, TypeOK
    <3>2. Progress(u)'
      BY <1>5, <2>1, <2>2, <3>1, StagedFiles DEF Progress, Installing, RollingBack, Sweeping
    <3>3. QED
      BY <2>1, <2>2, <3>2, OnlyTheHolder DEF Goto
  <2>3. CASE Exit(u)
    BY <2>1, <2>3, HolderLeaves
  <2>4. QED
    BY <1>5, <2>2, <2>3 DEF Stage
<1>6. ASSUME NEW u \in Updaters, OpenTransaction(u) PROVE ProgressInv'
  <2>1. stage[u] = "opening" /\ Working(u) /\ Progress(u)
    BY <1>6 DEF OpenTransaction, At, Working, ProgressInv
  <2>2. CASE Goto(u, "swapping")
    <3>1. stage'[u] = "swapping"
      BY <2>2 DEF Goto, TypeOK
    <3>2. Progress(u)'
      BY <1>6, <2>1, <2>2, <3>1 DEF OpenTransaction, Exit, Goto, TypeOK, Directory, Progress, Installing, RollingBack, Sweeping
    <3>3. QED
      BY <2>1, <2>2, <3>2, OnlyTheHolder DEF Goto
  <2>3. CASE Exit(u)
    BY <2>1, <2>3, HolderLeaves
  <2>4. QED
    BY <1>6, <2>2, <2>3 DEF OpenTransaction
<1>7. ASSUME NEW u \in Updaters, Swap(u) PROVE ProgressInv'
  <2>1. stage[u] = "swapping" /\ Working(u) /\ Progress(u)
    BY <1>7 DEF Swap, At, Working, ProgressInv
  <2>2. CASE Goto(u, "syncing")
    <3>1. stage'[u] = "syncing"
      BY <2>2 DEF Goto, TypeOK
    <3>2. Progress(u)'
      BY <1>7, <2>1, <2>2, <3>1 DEF Swap, Goto, TypeOK, Directory, Progress, Installing, RollingBack, Sweeping, Becomes
    <3>3. QED
      BY <2>1, <2>2, <3>2, OnlyTheHolder DEF Goto
  <2>3. CASE Goto(u, "restoring")
    <3>1. stage'[u] = "restoring"
      BY <2>3 DEF Goto, TypeOK
    <3>2. Progress(u)'
      BY <1>7, <2>1, <2>3, <3>1 DEF Swap, Goto, TypeOK, Directory, Becomes, Synced, NoDirectoryChange, Progress, Installing, RollingBack, Sweeping, Becomes
    <3>3. QED
      BY <2>1, <2>3, <3>2, OnlyTheHolder DEF Goto
  <2>4. CASE Exit(u)
    BY <2>1, <2>4, HolderLeaves
  <2>5. QED
    BY <1>7, <2>2, <2>3, <2>4 DEF Swap
<1>8. ASSUME NEW u \in Updaters, SyncSwap(u) PROVE ProgressInv'
  <2>1. stage[u] = "syncing" /\ Working(u) /\ Progress(u)
    BY <1>8 DEF SyncSwap, At, Working, ProgressInv
  <2>2. CASE Goto(u, "probing")
    <3>1. stage'[u] = "probing"
      BY <2>2 DEF Goto, TypeOK
    <3>2. Progress(u)'
      BY <1>8, <2>1, <2>2, <3>1 DEF SyncSwap, Goto, TypeOK, Directory, Progress, Installing, RollingBack, Sweeping, Synced
    <3>3. QED
      BY <2>1, <2>2, <3>2, OnlyTheHolder DEF Goto
  <2>3. CASE Goto(u, "restoring")
    <3>1. stage'[u] = "restoring"
      BY <2>3 DEF Goto, TypeOK
    <3>2. Progress(u)'
      BY <1>8, <2>1, <2>3, <3>1 DEF SyncSwap, Goto, TypeOK, Directory, Becomes, Synced, NoDirectoryChange, Progress, Installing, RollingBack, Sweeping, Synced
    <3>3. QED
      BY <2>1, <2>3, <3>2, OnlyTheHolder DEF Goto
  <2>4. CASE Exit(u)
    BY <2>1, <2>4, HolderLeaves
  <2>5. QED
    BY <1>8, <2>2, <2>3, <2>4 DEF SyncSwap
<1>9. ASSUME NEW u \in Updaters, Probe(u) PROVE ProgressInv'
  <2>1. stage[u] = "probing" /\ Working(u) /\ Progress(u)
    BY <1>9 DEF Probe, At, Working, ProgressInv
  <2>2. CASE Goto(u, "publishing")
    <3>1. stage'[u] = "publishing"
      BY <2>2 DEF Goto, TypeOK
    <3>2. Progress(u)'
      BY <1>9, <2>1, <2>2, <3>1 DEF Probe, Goto, TypeOK, Directory, Progress, Installing, RollingBack, Sweeping, NoDirectoryChange, OrRollBack
    <3>3. QED
      BY <2>1, <2>2, <3>2, OnlyTheHolder DEF Goto
  <2>3. CASE Goto(u, "restoring")
    <3>1. stage'[u] = "restoring"
      BY <2>3 DEF Goto, TypeOK
    <3>2. Progress(u)'
      BY <1>9, <2>1, <2>3, <3>1 DEF Probe, Goto, TypeOK, Directory, Becomes, Synced, NoDirectoryChange, Progress, Installing, RollingBack, Sweeping, NoDirectoryChange, OrRollBack
    <3>3. QED
      BY <2>1, <2>3, <3>2, OnlyTheHolder DEF Goto
  <2>4. CASE Exit(u)
    BY <2>1, <2>4, HolderLeaves
  <2>5. QED
    BY <1>9, <2>2, <2>3, <2>4 DEF Probe, OrRollBack
<1>10. ASSUME NEW u \in Updaters, PublishPrevious(u) PROVE ProgressInv'
  <2>1. stage[u] = "publishing" /\ Working(u) /\ Progress(u)
    BY <1>10 DEF PublishPrevious, At, Working, ProgressInv
  <2>2. CASE Goto(u, "sealing")
    <3>1. stage'[u] = "sealing"
      BY <2>2 DEF Goto, TypeOK
    <3>2. Progress(u)'
      BY <1>10, <2>1, <2>2, <3>1 DEF PublishPrevious, Goto, TypeOK, Directory, Progress, Installing, RollingBack, Sweeping, Becomes
    <3>3. QED
      BY <2>1, <2>2, <3>2, OnlyTheHolder DEF Goto
  <2>3. CASE Goto(u, "restoring")
    <3>1. stage'[u] = "restoring"
      BY <2>3 DEF Goto, TypeOK
    <3>2. Progress(u)'
      BY <1>10, <2>1, <2>3, <3>1 DEF PublishPrevious, Goto, TypeOK, Directory, Becomes, Synced, NoDirectoryChange, Progress, Installing, RollingBack, Sweeping, Becomes
    <3>3. QED
      BY <2>1, <2>3, <3>2, OnlyTheHolder DEF Goto
  <2>4. CASE Exit(u)
    BY <2>1, <2>4, HolderLeaves
  <2>5. QED
    BY <1>10, <2>2, <2>3, <2>4 DEF PublishPrevious
<1>11. ASSUME NEW u \in Updaters, SyncPrevious(u) PROVE ProgressInv'
  <2>1. stage[u] = "sealing" /\ Working(u) /\ Progress(u)
    BY <1>11 DEF SyncPrevious, At, Working, ProgressInv
  <2>2. CASE Goto(u, "committing")
    <3>1. stage'[u] = "committing"
      BY <2>2 DEF Goto, TypeOK
    <3>2. Progress(u)'
      BY <1>11, <2>1, <2>2, <3>1 DEF SyncPrevious, Goto, TypeOK, Directory, Progress, Installing, RollingBack, Sweeping, Synced
    <3>3. QED
      BY <2>1, <2>2, <3>2, OnlyTheHolder DEF Goto
  <2>3. CASE Goto(u, "restoring")
    <3>1. stage'[u] = "restoring"
      BY <2>3 DEF Goto, TypeOK
    <3>2. Progress(u)'
      BY <1>11, <2>1, <2>3, <3>1 DEF SyncPrevious, Goto, TypeOK, Directory, Becomes, Synced, NoDirectoryChange, Progress, Installing, RollingBack, Sweeping, Synced
    <3>3. QED
      BY <2>1, <2>3, <3>2, OnlyTheHolder DEF Goto
  <2>4. CASE Exit(u)
    BY <2>1, <2>4, HolderLeaves
  <2>5. QED
    BY <1>11, <2>2, <2>3, <2>4 DEF SyncPrevious
<1>12. ASSUME NEW u \in Updaters, Commit(u) PROVE ProgressInv'
  <2>1. stage[u] = "committing" /\ Working(u) /\ Progress(u)
    BY <1>12 DEF Commit, At, Working, ProgressInv
  <2>2. CASE Goto(u, "sweeping")
    <3>1. stage'[u] = "sweeping"
      BY <2>2 DEF Goto, TypeOK
    <3>2. Progress(u)'
      BY <1>12, <2>1, <2>2, <3>1 DEF Commit, Exit, Goto, TypeOK, Directory, Committed, Progress, Installing, RollingBack, Sweeping
    <3>3. QED
      BY <2>1, <2>2, <3>2, OnlyTheHolder DEF Goto
  <2>3. CASE Goto(u, "restoring")
    <3>1. stage'[u] = "restoring"
      BY <2>3 DEF Goto, TypeOK
    <3>2. Progress(u)'
      BY <1>12, <2>1, <2>3, <3>1 DEF Commit, Exit, Goto, TypeOK, Directory, NoDirectoryChange, Progress, Installing, RollingBack, Sweeping
    <3>3. QED
      BY <2>1, <2>3, <3>2, OnlyTheHolder DEF Goto
  <2>4. CASE Exit(u)
    BY <2>1, <2>4, HolderLeaves
  <2>5. QED
    BY <1>12, <2>2, <2>3, <2>4 DEF Commit
<1>13. ASSUME NEW u \in Updaters, RestoreExecutable(u) PROVE ProgressInv'
  <2>1. stage[u] = "restoring" /\ Working(u) /\ Progress(u)
    BY <1>13 DEF RestoreExecutable, At, Working, ProgressInv
  <2>2. CASE Goto(u, "restoringPrevious")
    <3>1. stage'[u] = "restoringPrevious"
      BY <2>2 DEF Goto, TypeOK
    <3>2. Progress(u)'
      BY <1>13, <2>1, <2>2, <3>1 DEF RestoreExecutable, Exit, Goto, TypeOK, Directory, Becomes, Progress, Installing, RollingBack, Sweeping
    <3>3. QED
      BY <2>1, <2>2, <3>2, OnlyTheHolder DEF Goto
  <2>3. CASE Exit(u)
    BY <2>1, <2>3, HolderLeaves
  <2>4. QED
    BY <1>13, <2>2, <2>3 DEF RestoreExecutable
<1>14. ASSUME NEW u \in Updaters, RestorePrevious(u) PROVE ProgressInv'
  <2>1. stage[u] = "restoringPrevious" /\ Working(u) /\ Progress(u)
    BY <1>14 DEF RestorePrevious, At, Working, ProgressInv
  <2>2. CASE Goto(u, "settling")
    <3>1. stage'[u] = "settling"
      BY <2>2 DEF Goto, TypeOK
    <3>2. Progress(u)'
      BY <1>14, <2>1, <2>2, <3>1 DEF RestorePrevious, Exit, Goto, TypeOK, Directory, Becomes, RestoredPrevious, Progress, Installing, RollingBack, Sweeping
    <3>3. QED
      BY <2>1, <2>2, <3>2, OnlyTheHolder DEF Goto
  <2>3. CASE Exit(u)
    BY <2>1, <2>3, HolderLeaves
  <2>4. QED
    BY <1>14, <2>2, <2>3 DEF RestorePrevious
<1>15. ASSUME NEW u \in Updaters, SettleRollback(u) PROVE ProgressInv'
  <2>1. stage[u] = "settling" /\ Working(u) /\ Progress(u)
    BY <1>15 DEF SettleRollback, At, Working, ProgressInv
  <2>2. CASE Goto(u, "closing")
    <3>1. stage'[u] = "closing"
      BY <2>2 DEF Goto, TypeOK
    <3>2. Progress(u)'
      BY <1>15, <2>1, <2>2, <3>1 DEF SettleRollback, Exit, Goto, TypeOK, Directory, RestoredPrevious, Progress, Installing, RollingBack, Sweeping
    <3>3. QED
      BY <2>1, <2>2, <3>2, OnlyTheHolder DEF Goto
  <2>3. CASE Exit(u)
    BY <2>1, <2>3, HolderLeaves
  <2>4. QED
    BY <1>15, <2>2, <2>3 DEF SettleRollback
<1>16. ASSUME NEW u \in Updaters, CloseRollback(u) PROVE ProgressInv'
  <2>1. stage[u] = "closing" /\ Working(u) /\ Progress(u)
    BY <1>16 DEF CloseRollback, At, Working, ProgressInv
  <2>2. CASE Goto(u, "sweeping")
    <3>1. stage'[u] = "sweeping"
      BY <2>2 DEF Goto, TypeOK
    <3>2. Progress(u)'
      BY <1>16, <2>1, <2>2, <3>1 DEF CloseRollback, Exit, Goto, TypeOK, Directory, Committed, Progress, Installing, RollingBack, Sweeping
    <3>3. QED
      BY <2>1, <2>2, <3>2, OnlyTheHolder DEF Goto
  <2>3. CASE Exit(u)
    BY <2>1, <2>3, HolderLeaves
  <2>4. QED
    BY <1>16, <2>2, <2>3 DEF CloseRollback
<1>17. ASSUME NEW u \in Updaters, SweepArtifacts(u) PROVE ProgressInv'
  <2>1. stage[u] = "sweeping" /\ Working(u) /\ Progress(u)
    BY <1>17 DEF SweepArtifacts, At, Working, ProgressInv
  <2>2. CASE Goto(u, "sweptArtifacts")
    <3>1. stage'[u] = "sweptArtifacts"
      BY <2>2 DEF Goto, TypeOK
    <3>2. Progress(u)'
      BY <1>17, <2>1, <2>2, <3>1, SweepEnds, Trail DEF TypeOK, Progress, Installing, RollingBack, Sweeping
    <3>3. QED
      BY <2>1, <2>2, <3>2, OnlyTheHolder DEF Goto
  <2>3. CASE Exit(u)
    BY <2>1, <2>3, HolderLeaves
  <2>4. QED
    BY <1>17, <2>2, <2>3 DEF SweepArtifacts
<1>18. ASSUME NEW u \in Updaters, SyncSweep(u) PROVE ProgressInv'
  <2>1. stage[u] = "sweptArtifacts" /\ Working(u) /\ Progress(u)
    BY <1>18 DEF SyncSweep, At, Working, ProgressInv
  <2>2. CASE Goto(u, "forgetting")
    <3>1. stage'[u] = "forgetting"
      BY <2>2 DEF Goto, TypeOK
    <3>2. Progress(u)'
      BY <1>18, <2>1, <2>2, <3>1 DEF SyncSweep, Exit, Goto, TypeOK, Synced, Progress, Installing, RollingBack, Sweeping
    <3>3. QED
      BY <2>1, <2>2, <3>2, OnlyTheHolder DEF Goto
  <2>3. CASE Exit(u)
    BY <2>1, <2>3, HolderLeaves
  <2>4. QED
    BY <1>18, <2>2, <2>3 DEF SyncSweep
<1>19. ASSUME NEW u \in Updaters, Forget(u) PROVE ProgressInv'
  <2>1. stage[u] = "forgetting" /\ Working(u) /\ Progress(u)
    BY <1>19 DEF Forget, At, Working, ProgressInv
  <2>2. CASE Goto(u, "resolving")
    <3>1. stage'[u] = "resolving"
      BY <2>2 DEF Goto, TypeOK
    <3>2. Progress(u)'
      BY <1>19, <2>1, <2>2, <3>1 DEF Forget, Exit, Goto, TypeOK, Directory, Progress, Installing, RollingBack, Sweeping
    <3>3. QED
      BY <2>1, <2>2, <3>2, OnlyTheHolder DEF Goto
  <2>3. CASE Goto(u, "idle")
    <3>1. stage'[u] = "idle"
      BY <2>3 DEF Goto, TypeOK
    <3>2. Progress(u)'
      BY <1>19, <2>1, <2>3, <3>1 DEF Progress, Installing, RollingBack, Sweeping
    <3>3. QED
      BY <2>1, <2>3, <3>2, OnlyTheHolder DEF Goto
  <2>4. CASE Exit(u)
    BY <2>1, <2>4, HolderLeaves
  <2>5. QED
    BY <1>19, <2>2, <2>3, <2>4 DEF Forget, TypeOK
<1>20. ASSUME NEW u \in Updaters, Kill(u) PROVE ProgressInv'
  <2>1. Working(u) \/ stage[u] = "started"
    BY <1>20 DEF Kill, At, Working, TypeOK
  <2>2. CASE Working(u)
    BY <1>20, <2>2, HolderLeaves DEF Kill
  <2>3. CASE stage[u] = "started"
    BY <1>20, <2>3 DEF Kill, Exit, Goto, NoDirectoryChange, ProgressInv, TypeOK, Progress, Installing, RollingBack, Sweeping, RestoredPrevious
  <2>4. QED
    BY <2>1, <2>2, <2>3
<1>21. CASE PowerLoss
  BY <1>21 DEF PowerLoss, ProgressInv, Progress, Installing, RollingBack, Sweeping
<1>22. CASE UNCHANGED vars
  BY <1>22 DEF vars, ProgressInv, Progress, Installing, RollingBack, Sweeping, RestoredPrevious
<1>23. QED
  BY <1>1, <1>2, <1>3, <1>4, <1>5, <1>6, <1>7, <1>8, <1>9, <1>10, <1>11, <1>12, <1>13, <1>14, <1>15, <1>16, <1>17, <1>18, <1>19, <1>20, <1>21, <1>22 DEF Next

-----------------------------------------------------------------------------
(* What a step shows to the operator, and the records it leaves.              *)

\* The step keeps the records and is one of AtomicUpdate, or shows nothing.
Observed ==
  /\ RecordsInv'
  /\ Abstract!UpdateNext \/ UNCHANGED <<installedPair, riskPairs>>

\* A directory that keeps the records and stands for the same pair as this one.
Fine(d) == d.exe # 0 /\ HasRollback(d) /\ Effective(d) = Effective(dir)

SameRollback(d) ==
  /\ d.txn = dir.txn /\ d.backup = dir.backup
  /\ d.hadPrevious = dir.hadPrevious /\ d.prevBackup = dir.prevBackup

LEMMA HereIsFine ==
  ASSUME TypeOK, RecordsInv
  PROVE  Fine(dir)
BY DEF TypeOK, RecordsInv, Fine

\* While no record is open the artifacts mean nothing.
LEMMA ClosedIsFine ==
  ASSUME TypeOK, RecordsInv, dir.txn # "open",
         NEW d, d.exe = dir.exe, d.previous = dir.previous, d.txn = dir.txn
  PROVE  Fine(d)
BY DEF TypeOK, RecordsInv, Fine, HasRollback, Effective

\* While a record is open only what it would restore counts.
LEMMA OpenIsFine ==
  ASSUME TypeOK, RecordsInv, dir.txn = "open", NEW d, d.exe # 0, SameRollback(d)
  PROVE  Fine(d)
BY DEF TypeOK, RecordsInv, SameRollback, Fine, HasRollback, Effective

\* A step that adds fine directories is not seen.
LEMMA Grows ==
  ASSUME RecordsInv, NEW S, survivable' = survivable \cup S, \A d \in S : Fine(d), Fine(dir')
  PROVE  Observed
<1>1. RecordsInv'
  BY DEF RecordsInv, Fine
<1>2. Effective(dir') = Effective(dir)
  BY DEF Fine
<1>3. installedPair' = installedPair /\ riskPairs' = riskPairs
  BY <1>2 DEF installedPair, riskPairs, Fine
<1>4. QED
  BY <1>1, <1>3 DEF Observed

LEMMA GrowsByOne ==
  ASSUME RecordsInv, NEW d, Fine(d), Becomes(d)
  PROVE  Observed
<1> DEFINE S == {d}
<1>1. survivable' = survivable \cup S /\ (\A x \in S : Fine(x)) /\ Fine(dir')
  BY DEF Becomes
<1> HIDE DEF S
<1>2. QED
  BY <1>1, Grows

\* A sync that leaves a fine directory takes the risk away.
LEMMA Shrinks ==
  ASSUME survivable' = {dir'}, Fine(dir')
  PROVE  Observed
<1>1. RecordsInv'
  BY DEF RecordsInv, Fine
<1>2. Effective(dir') = Effective(dir)
  BY DEF Fine
<1>3. installedPair' = installedPair /\ riskPairs' = {}
  BY <1>2 DEF installedPair, riskPairs
<1>4. QED
  BY <1>1, <1>3 DEF Observed, Abstract!UpdateNext, Abstract!Settle

LEMMA NothingSeen ==
  ASSUME RecordsInv, UNCHANGED <<dir, survivable>>
  PROVE  Observed
BY DEF Observed, RecordsInv, installedPair, riskPairs

\* Every step of an updater, killed or cut off as it may be, is one of AtomicUpdate.
LEMMA ObservedStep ==
  ASSUME TypeOK, RecordsInv, ProgressInv, [Next]_vars
  PROVE  Observed
<1>1. ASSUME NEW u \in Updaters, Start(u) PROVE Observed
  BY <1>1, NothingSeen DEF Start, NoDirectoryChange
<1>2. ASSUME NEW u \in Updaters, AcquireLock(u) PROVE Observed
  BY <1>2, NothingSeen DEF AcquireLock, NoDirectoryChange
<1>3. ASSUME NEW u \in Updaters, Recover(u) PROVE Observed
  BY <1>3, NothingSeen DEF Recover, NoDirectoryChange
<1>4. ASSUME NEW u \in Updaters, Resolve(u) PROVE Observed
  BY <1>4, NothingSeen DEF Resolve, NoDirectoryChange
<1>5. ASSUME NEW u \in Updaters, Stage(u) PROVE Observed
  <2>1. CASE NoDirectoryChange
    BY <2>1, NothingSeen DEF NoDirectoryChange
  <2>2. CASE ~NoDirectoryChange
    <3> DEFINE a == [WithoutArtifacts(dir) EXCEPT !.candidate = target]
               b == [a EXCEPT !.backup = dir.exe]
               c == [b EXCEPT !.prevBackup = dir.previous]
               d == [c EXCEPT !.prevCandidate = b.backup]
    <3>1. dir' = d /\ survivable' = survivable \cup {a, b, c, d}
      BY <1>5, <2>2 DEF Stage
    <3>2. \A x \in {a, b, c, d} : x.exe = dir.exe /\ x.previous = dir.previous /\ x.txn = dir.txn
      BY Staging, ZenonT(40) DEF TypeOK
    <3>3. dir.txn = "none"
      BY <1>5 DEF Stage, At, ProgressInv, Progress
    <3> HIDE DEF a, b, c, d
    <3>4. \A x \in {a, b, c, d} : Fine(x)
      BY <3>2, <3>3, ClosedIsFine
    <3> DEFINE S == {a, b, c, d}
    <3>5. survivable' = survivable \cup S /\ (\A x \in S : Fine(x)) /\ Fine(dir')
      BY <3>1, <3>4
    <3> HIDE DEF S
    <3>6. QED
      BY <3>5, Grows
  <2>3. QED
    BY <2>1, <2>2
<1>6. ASSUME NEW u \in Updaters, OpenTransaction(u) PROVE Observed
  <2> DEFINE open == [dir EXCEPT !.txn = "open", !.hadPrevious = dir.prevBackup # 0]
  <2>1. /\ dir.txn = "none" /\ dir.backup = dir.exe /\ dir.prevBackup = dir.previous
        /\ dir \in Directory /\ dir.exe # 0
    BY <1>6 DEF OpenTransaction, At, ProgressInv, Progress, TypeOK, RecordsInv
  <2>2. Fine(open)
    BY <2>1 DEF Fine, HasRollback, Effective, Directory
  <2>3. Fine(WithoutArtifacts(dir))
    BY <2>1, Bare, ClosedIsFine
  <2>4. \/ dir' = open /\ survivable' = {open}
        \/ dir' = open /\ survivable' = survivable \cup {open, dir'}
        \/ Becomes(WithoutArtifacts(dir))
    BY <1>6 DEF OpenTransaction, OwnedArtifacts
  <2> HIDE DEF open
  <2>5. QED
    BY <2>2, <2>3, <2>4, Grows, Shrinks DEF Becomes
<1>7. ASSUME NEW u \in Updaters, Swap(u) PROVE Observed
  <2> DEFINE d == [dir EXCEPT !.exe = dir.candidate, !.candidate = 0]
  <2>1. dir.txn = "open" /\ dir \in Directory /\ dir \in survivable
    BY <1>7 DEF Swap, At, ProgressInv, Progress, Installing, RollingBack, TypeOK
  <2>2. d.exe # 0 /\ SameRollback(d)
    BY <1>7, <2>1 DEF Swap, At, ProgressInv, Progress, SameRollback, Directory, Versions
  <2>3. Becomes(d) \/ NoDirectoryChange
    BY <1>7 DEF Swap
  <2> HIDE DEF d
  <2>4. QED
    BY <2>1, <2>2, <2>3, OpenIsFine, GrowsByOne, NothingSeen DEF NoDirectoryChange
<1>8. ASSUME NEW u \in Updaters, SyncSwap(u) PROVE Observed
  BY <1>8, NothingSeen, Shrinks, HereIsFine DEF SyncSwap, NoDirectoryChange, Synced
<1>9. ASSUME NEW u \in Updaters, Probe(u) PROVE Observed
  BY <1>9, NothingSeen DEF Probe, NoDirectoryChange
<1>10. ASSUME NEW u \in Updaters, PublishPrevious(u) PROVE Observed
  <2> DEFINE d == [dir EXCEPT !.previous = dir.prevCandidate, !.prevCandidate = 0]
  <2>1. dir.txn = "open" /\ dir \in Directory /\ dir \in survivable
    BY <1>10 DEF PublishPrevious, At, ProgressInv, Progress, Installing, RollingBack, TypeOK
  <2>2. d.exe # 0 /\ SameRollback(d)
    BY <1>10, <2>1 DEF RecordsInv, SameRollback, Directory
  <2>3. Becomes(d) \/ NoDirectoryChange
    BY <1>10 DEF PublishPrevious
  <2> HIDE DEF d
  <2>4. QED
    BY <2>1, <2>2, <2>3, OpenIsFine, GrowsByOne, NothingSeen DEF NoDirectoryChange
<1>11. ASSUME NEW u \in Updaters, SyncPrevious(u) PROVE Observed
  BY <1>11, NothingSeen, Shrinks, HereIsFine DEF SyncPrevious, NoDirectoryChange, Synced
<1>12. ASSUME NEW u \in Updaters, Commit(u) PROVE Observed
  <2>1. /\ dir.txn = "open" /\ dir.previous = dir.backup /\ survivable = {dir}
        /\ dir \in Directory /\ dir.exe # 0
    BY <1>12 DEF Commit, At, ProgressInv, Progress, Installing, TypeOK, RecordsInv
  <2>2. Effective(Committed(dir)) = <<dir.exe, dir.backup>> /\ Effective(dir)[1] = dir.backup
    BY <2>1 DEF Effective, Committed, Directory
  <2>3. Committed(dir).exe # 0 /\ HasRollback(Committed(dir)) /\ dir.exe \in Versions
    BY <2>1 DEF HasRollback, Committed, Directory, File, Versions
  <2>4. CASE dir' = Committed(dir) /\ survivable' \in {{dir'}, {dir, dir'}}
    <3>1. RecordsInv'
      BY <2>1, <2>3, <2>4 DEF RecordsInv
    <3>2. installedPair' = <<dir.exe, installedPair[1]>>
      BY <2>2, <2>4 DEF installedPair
    <3>3. riskPairs' \in SUBSET ({installedPair} \ {installedPair'})
      BY <2>4 DEF riskPairs, installedPair
    <3>4. Abstract!Update
      BY <2>3, <3>2, <3>3 DEF Abstract!Update, Versions
    <3>5. QED
      BY <3>1, <3>4 DEF Observed, Abstract!UpdateNext
  <2>5. QED
    BY <1>12, <2>1, <2>4, NothingSeen DEF Commit, Becomes, NoDirectoryChange
<1>13. ASSUME NEW u \in Updaters, RestoreExecutable(u) PROVE Observed
  <2> DEFINE d == [dir EXCEPT !.exe = dir.backup]
  <2>1. dir.txn = "open" /\ dir \in Directory /\ dir \in survivable
    BY <1>13 DEF RestoreExecutable, At, ProgressInv, Progress, Installing, RollingBack, TypeOK
  <2>2. d.exe # 0 /\ SameRollback(d)
    BY <1>13, <2>1 DEF RecordsInv, HasRollback, SameRollback, Directory
  <2>3. Becomes(d) \/ NoDirectoryChange
    BY <1>13 DEF RestoreExecutable
  <2> HIDE DEF d
  <2>4. QED
    BY <2>1, <2>2, <2>3, OpenIsFine, GrowsByOne, NothingSeen DEF NoDirectoryChange
<1>14. ASSUME NEW u \in Updaters, RestorePrevious(u) PROVE Observed
  <2> DEFINE d == [dir EXCEPT !.previous = RestoredPrevious(dir)]
  <2>1. dir.txn = "open" /\ dir \in Directory /\ dir \in survivable
    BY <1>14 DEF RestorePrevious, At, ProgressInv, Progress, Installing, RollingBack, TypeOK
  <2>2. d.exe # 0 /\ SameRollback(d)
    BY <1>14, <2>1 DEF RecordsInv, SameRollback, Directory
  <2>3. Becomes(d) \/ NoDirectoryChange
    BY <1>14 DEF RestorePrevious
  <2> HIDE DEF d
  <2>4. QED
    BY <2>1, <2>2, <2>3, OpenIsFine, GrowsByOne, NothingSeen DEF NoDirectoryChange
<1>15. ASSUME NEW u \in Updaters, SettleRollback(u) PROVE Observed
  <2> DEFINE a == [dir EXCEPT !.candidate = 0]
             b == [a EXCEPT !.prevCandidate = 0]
  <2>1. dir.txn = "open" /\ dir \in Directory /\ dir \in survivable
    BY <1>15 DEF SettleRollback, At, ProgressInv, Progress, RollingBack, TypeOK
  <2>2. a.exe # 0 /\ SameRollback(a) /\ b.exe # 0 /\ SameRollback(b)
    BY <2>1 DEF RecordsInv, SameRollback, Directory
  <2>3. dir' = b /\ (survivable' = {b} \/ survivable' = survivable \cup {a, b})
    BY <1>15 DEF SettleRollback
  <2> HIDE DEF a, b
  <2>4. Fine(a) /\ Fine(b)
    BY <2>1, <2>2, OpenIsFine
  <2>5. QED
    BY <2>3, <2>4, Grows, Shrinks
<1>16. ASSUME NEW u \in Updaters, CloseRollback(u) PROVE Observed
  <2>1. /\ dir.txn = "open" /\ dir.exe = dir.backup /\ dir.previous = RestoredPrevious(dir)
        /\ dir \in Directory /\ dir.exe # 0
    BY <1>16 DEF CloseRollback, At, ProgressInv, Progress, RollingBack, TypeOK, RecordsInv
  <2>2. Fine(Committed(dir))
    BY <2>1 DEF Fine, HasRollback, Effective, Committed, RestoredPrevious, Directory
  <2>3. QED
    BY <1>16, <2>2, Grows, Shrinks, NothingSeen DEF CloseRollback, Becomes, NoDirectoryChange
<1>17. ASSUME NEW u \in Updaters, SweepArtifacts(u) PROVE Observed
  <2>1. PICK k \in 1..5 :
          /\ dir' = SweepTrail(dir)[k]
          /\ survivable' = survivable \cup {SweepTrail(dir)[j] : j \in 1..k}
          /\ 1..k \subseteq 1..5
    BY <1>17, SweepEnds
  <2>2. dir.txn = "committed" /\ dir \in Directory
    BY <1>17 DEF SweepArtifacts, At, ProgressInv, Progress, Sweeping, TypeOK
  <2>3. \A j \in 1..5 : Fine(SweepTrail(dir)[j])
    BY <2>2, Trail, ClosedIsFine
  <2> DEFINE S == {SweepTrail(dir)[j] : j \in 1..k}
  <2>4. \A d \in S : Fine(d)
    BY <2>1, <2>3
  <2>5. survivable' = survivable \cup S /\ Fine(dir')
    BY <2>1, <2>3
  <2> HIDE DEF S
  <2>6. QED
    BY <2>4, <2>5, Grows
<1>18. ASSUME NEW u \in Updaters, SyncSweep(u) PROVE Observed
  BY <1>18, NothingSeen, Shrinks, HereIsFine DEF SyncSweep, NoDirectoryChange, Synced
<1>19. ASSUME NEW u \in Updaters, Forget(u) PROVE Observed
  <2> DEFINE gone == [dir EXCEPT !.txn = "none", !.hadPrevious = FALSE]
  <2>1. dir.txn = "committed" /\ dir \in Directory
    BY <1>19 DEF Forget, At, ProgressInv, Progress, Sweeping, TypeOK
  <2>2. Fine(gone)
    <3>1. gone.exe = dir.exe /\ gone.previous = dir.previous /\ gone.txn = "none"
      BY <2>1 DEF Directory
    <3> HIDE DEF gone
    <3>2. dir.exe # 0
      BY DEF TypeOK, RecordsInv
    <3>3. QED
      BY <2>1, <3>1, <3>2 DEF Fine, HasRollback, Effective
  <2>3. \/ dir' = gone /\ survivable' = {gone}
        \/ dir' \in {dir, gone} /\ survivable' = survivable \cup {dir, gone}
    BY <1>19 DEF Forget
  <2> HIDE DEF gone
  <2>4. QED
    BY <2>2, <2>3, HereIsFine, Grows, Shrinks
<1>20. ASSUME NEW u \in Updaters, Kill(u) PROVE Observed
  BY <1>20, NothingSeen DEF Kill, NoDirectoryChange
<1>21. CASE PowerLoss
  <2>1. dir' \in survivable /\ survivable' = {dir'}
    BY <1>21 DEF PowerLoss
  <2>2. RecordsInv'
    BY <2>1 DEF RecordsInv
  <2>3. riskPairs' = {} /\ (installedPair' \in riskPairs \/ installedPair' = installedPair)
    BY <2>1 DEF riskPairs, installedPair
  <2>4. QED
    BY <2>2, <2>3 DEF Observed, Abstract!UpdateNext, Abstract!Revert, Abstract!Settle
<1>22. CASE UNCHANGED vars
  BY <1>22, NothingSeen DEF vars
<1>23. QED
  BY <1>1, <1>2, <1>3, <1>4, <1>5, <1>6, <1>7, <1>8, <1>9, <1>10, <1>11, <1>12, <1>13, <1>14, <1>15, <1>16, <1>17, <1>18, <1>19, <1>20, <1>21, <1>22 DEF Next

-----------------------------------------------------------------------------
\* A fresh installation satisfies the invariant.
LEMMA Beginning == Init => IInv
<1> SUFFICES ASSUME Init PROVE IInv
  OBVIOUS
<1>1. PICK q \in {0, 1} :
        dir = [exe |-> 1, previous |-> q, txn |-> "none", hadPrevious |-> FALSE,
               backup |-> 0, candidate |-> 0, prevCandidate |-> 0, prevBackup |-> 0]
  BY DEF Init
<1>2. dir \in Directory /\ dir.exe = 1 /\ dir.txn = "none"
  BY <1>1, SelfUpdateAssumption DEF Directory, File, Txns
<1>3. TypeOK
  BY <1>2, Zero, FS_EmptySet, SelfUpdateAssumption DEF Init, TypeOK, Stages
<1>4. LockInv /\ RecordsInv
  BY <1>2 DEF Init, LockInv, Working, RecordsInv, HasRollback
<1>5. ProgressInv
  BY DEF Init, ProgressInv, Progress, Installing, RollingBack, Sweeping
<1>6. QED
  BY <1>3, <1>4, <1>5 DEF IInv

\* Every step keeps it.
LEMMA Keeps == IInv /\ [Next]_vars => IInv'
BY TypeStep, LockStep, ProgressStep, ObservedStep DEF IInv, Observed

\* The inductive invariant holds throughout.
THEOREM Inductive == Spec => []IInv
BY Beginning, Keeps, PTL DEF Spec

\* The types hold throughout, and at most one updater has the lock.
THEOREM TypeCorrect == Spec => []TypeOK
BY Inductive, PTL DEF IInv

\* Whatever step failed, whoever was killed and wherever power went, an open record has
\* what undoes it, in every directory that may come back.
THEOREM AlwaysRecoverable == Spec => []Recoverable
<1>1. IInv => Recoverable
  BY DEF IInv, RecordsInv, HasRollback, Recoverable
<1>2. QED
  BY <1>1, Inductive, PTL

\* To the operator an update happens as a whole or not at all: self-update implements
\* AtomicUpdate.
THEOREM UpdatesAreAtomic == Spec => IsAtomic
<1>1. Init => Abstract!UpdateInit
  <2> SUFFICES ASSUME Init PROVE Abstract!UpdateInit
    OBVIOUS
  <2>1. PICK q \in {0, 1} : dir.exe = 1 /\ dir.previous = q /\ dir.txn = "none"
    BY DEF Init
  <2>2. installedPair = <<1, q>> /\ riskPairs = {}
    BY <2>1 DEF Init, installedPair, riskPairs, Effective
  <2>3. QED
    BY <2>2, SelfUpdateAssumption DEF Abstract!UpdateInit
<1>2. IInv /\ [Next]_vars => [Abstract!UpdateNext]_<<installedPair, riskPairs>>
  BY ObservedStep DEF IInv, Observed
<1>3. QED
  BY <1>1, <1>2, Inductive, PTL DEF Spec, IsAtomic, Abstract!UpdateSpec

=============================================================================
