----------------------------- MODULE SelfUpdate -----------------------------
(***************************************************************************)
(* `inventree-mcp self-update` (internal/selfupdate): how a verified        *)
(* release replaces the running executable, what happens when a step fails, *)
(* when the updater is killed or the machine loses power, and how the next  *)
(* invocation recovers.                                                     *)
(*                                                                          *)
(* One directory holds the executable, .previous, the transaction record    *)
(* and the artifacts it names.  File contents are synced before they are    *)
(* renamed into place, so only directory entries can be lost.  A file       *)
(* system that journals directory operations in order (ext4, xfs, APFS) may *)
(* come back from a power loss with the directory as it was after any       *)
(* operation since the last sync: that set is `survivable`.                 *)
(*                                                                          *)
(* A file is its version; 0 stands for a file that does not exist.          *)
(***************************************************************************)
EXTENDS Integers, FiniteSets

CONSTANTS
  Updaters,     \* self-update processes
  MaxVersion,   \* bound of the model: releases 1..MaxVersion
  MaxStarts,    \* bound of the model: invocations
  MaxFaults     \* bound of the model: failed steps, kills and power losses

ASSUME SelfUpdateAssumption ==
  MaxVersion \in Nat \ {0} /\ MaxStarts \in Nat /\ MaxFaults \in Nat

VARIABLES
  dir,         \* the directory the processes see
  survivable,  \* the directories a power loss may leave
  lock,        \* the flock: at most one holder
  stage,       \* where each updater is
  current,     \* the release each updater was built from
  target,      \* the release the lock's holder installs
  afterSweep,  \* where cleanupCommittedTransaction returns to
  starts, faults

vars == <<dir, survivable, lock, stage, current, target, afterSweep,
          starts, faults>>

Versions == 1..MaxVersion
File == 0..MaxVersion
Txns == {"none", "open", "committed"}

\* hadPrevious is the record's PreviousBackupPath # "".
Directory ==
  [exe : File, previous : File, txn : Txns, hadPrevious : BOOLEAN,
   backup : File, candidate : File, prevCandidate : File, prevBackup : File]

Stages == {"idle", "started", "recovering", "resolving", "staging", "opening",
           "swapping", "syncing", "probing", "publishing", "sealing",
           "committing", "restoring", "restoringPrevious", "settling",
           "closing", "sweeping", "sweptArtifacts", "forgetting"}

TypeOK ==
  /\ dir \in Directory
  /\ survivable \subseteq Directory /\ dir \in survivable
  /\ lock \subseteq Updaters /\ Cardinality(lock) <= 1
  /\ stage \in [Updaters -> Stages]
  /\ current \in [Updaters -> File]
  /\ target \in File
  /\ afterSweep \in {"resolving", "idle"}
  /\ starts \in 0..MaxStarts /\ faults \in 0..MaxFaults

Init ==
  /\ \E p \in {0, 1} :
       dir = [exe |-> 1, previous |-> p, txn |-> "none", hadPrevious |-> FALSE,
              backup |-> 0, candidate |-> 0, prevCandidate |-> 0,
              prevBackup |-> 0]
  /\ survivable = {dir}
  /\ lock = {}
  /\ stage = [u \in Updaters |-> "idle"]
  /\ current = [u \in Updaters |-> 0]
  /\ target = 0
  /\ afterSweep = "idle"
  /\ starts = 0 /\ faults = 0

-----------------------------------------------------------------------------
(* Helpers; a faulty variant stands before the operator it varies.          *)

\* Directory operations, and what a power loss may leave after them.
Becomes(d) == dir' = d /\ survivable' = survivable \cup {d}
NoDirectoryChange == UNCHANGED <<dir, survivable>>
Synced == UNCHANGED dir /\ survivable' = {dir}

At(u, s) == stage[u] = s
Goto(u, s) == stage' = [stage EXCEPT ![u] = s]
Exit(u) == Goto(u, "idle") /\ lock' = lock \ {u}
Fault == faults < MaxFaults /\ faults' = faults + 1

\* What an operator has: an open transaction is one that will be undone.
Effective(d) ==
  IF d.txn = "open"
  THEN <<d.backup, IF d.hadPrevious THEN d.prevBackup ELSE 0>>
  ELSE <<d.exe, d.previous>>

\* The deferred removals of installVerified, while the record does not own
\* the artifacts.
WithoutArtifacts(d) ==
  [d EXCEPT !.backup = 0, !.candidate = 0, !.prevCandidate = 0, !.prevBackup = 0]

\* The directories cleanupCommittedTransaction passes through as it removes
\* the artifacts in order.
SweepTrail(d) ==
  LET a == [d EXCEPT !.backup = 0]
      b == [a EXCEPT !.candidate = 0]
      c == [b EXCEPT !.prevCandidate = 0]
  IN  <<d, a, b, c, [c EXCEPT !.prevBackup = 0]>>

-----------------------------------------------------------------------------
(* Run, up to the choice of a release.                                      *)

\* The operator starts the installed executable; its version is compiled in.
Start(u) ==
  /\ At(u, "idle") /\ starts < MaxStarts
  /\ starts' = starts + 1
  /\ current' = [current EXCEPT ![u] = dir.exe]
  /\ Goto(u, "started")
  /\ NoDirectoryChange
  /\ UNCHANGED <<lock, target, afterSweep, faults>>

\* acquireLock does not wait: a second updater gives up.
LockFree == lock = {}

AcquireLock(u) ==
  /\ At(u, "started")
  /\ IF LockFree THEN lock' = lock \cup {u} /\ Goto(u, "recovering")
                 ELSE UNCHANGED lock /\ Goto(u, "idle")
  /\ NoDirectoryChange
  /\ UNCHANGED <<current, target, afterSweep, starts, faults>>

\* recoverInterruptedUpdate: a committed record is swept, an open one undone.
\* An open one without its rollback file is an error the operator must solve.
Recover(u) ==
  /\ At(u, "recovering")
  /\ CASE dir.txn = "none" -> Goto(u, "resolving") /\ UNCHANGED <<lock, afterSweep>>
       [] dir.txn = "committed" ->
            Goto(u, "sweeping") /\ afterSweep' = "resolving" /\ UNCHANGED lock
       [] OTHER ->
            /\ UNCHANGED afterSweep
            /\ IF dir.backup = 0 THEN Exit(u)
                                 ELSE Goto(u, "restoring") /\ UNCHANGED lock
  /\ NoDirectoryChange
  /\ UNCHANGED <<current, target, starts, faults>>

\* A release that is not newer than the updater's own version ends the run.
Resolve(u) ==
  /\ At(u, "resolving")
  /\ \/ \E t \in Versions :
          /\ t > current[u]
          /\ target' = t /\ Goto(u, "staging") /\ UNCHANGED lock
     \/ Exit(u) /\ UNCHANGED target
  /\ NoDirectoryChange
  /\ UNCHANGED <<current, afterSweep, starts, faults>>

-----------------------------------------------------------------------------
(* installVerified.                                                         *)

\* The candidate is probed, the executable and an existing .previous are
\* copied.  A failure leaves nothing behind.
Stage(u) ==
  LET a == [WithoutArtifacts(dir) EXCEPT !.candidate = target]
      b == [a EXCEPT !.backup = dir.exe]
      c == [b EXCEPT !.prevBackup = dir.previous]
      d == [c EXCEPT !.prevCandidate = b.backup]
  IN
  /\ At(u, "staging")
  /\ \/ /\ dir' = d /\ survivable' = survivable \cup {a, b, c, d}
        /\ Goto(u, "opening") /\ UNCHANGED <<lock, faults>>
     \/ Fault /\ Exit(u) /\ NoDirectoryChange
  /\ UNCHANGED <<current, target, afterSweep, starts>>

\* WriteTransaction: the record is renamed into place and the directory is
\* synced.  When only the sync fails the record is there and owns the
\* artifacts; when the rename fails they are removed.
DisownedArtifacts(d) == WithoutArtifacts(d)
OwnedArtifacts(d) == d

OpenTransaction(u) ==
  LET open == [dir EXCEPT !.txn = "open", !.hadPrevious = dir.prevBackup # 0] IN
  /\ At(u, "opening")
  /\ \/ /\ dir' = open /\ survivable' = {open}
        /\ Goto(u, "swapping") /\ UNCHANGED <<lock, faults>>
     \/ /\ dir' = OwnedArtifacts(open)
        /\ survivable' = survivable \cup {open, dir'}
        /\ Fault /\ Exit(u)
     \/ Fault /\ Becomes(WithoutArtifacts(dir)) /\ Exit(u)
  /\ UNCHANGED <<current, target, afterSweep, starts>>

\* The steps from here to the commit; any failure starts the rollback.
OrRollBack(u, s) ==
  \/ Goto(u, s) /\ UNCHANGED faults
  \/ Fault /\ Goto(u, "restoring")

InstallFrame == UNCHANGED <<lock, current, target, afterSweep, starts>>

Swap(u) ==
  /\ At(u, "swapping")
  /\ \/ /\ Becomes([dir EXCEPT !.exe = dir.candidate, !.candidate = 0])
        /\ Goto(u, "syncing") /\ UNCHANGED faults
     \/ Fault /\ NoDirectoryChange /\ Goto(u, "restoring")
  /\ InstallFrame

SyncSwap(u) ==
  /\ At(u, "syncing")
  /\ \/ Synced /\ Goto(u, "probing") /\ UNCHANGED faults
     \/ Fault /\ NoDirectoryChange /\ Goto(u, "restoring")
  /\ InstallFrame

\* requireVersion of the installed file, and the two chmods after it.
Probe(u) ==
  /\ At(u, "probing") /\ OrRollBack(u, "publishing")
  /\ NoDirectoryChange /\ InstallFrame

PublishPrevious(u) ==
  /\ At(u, "publishing")
  /\ \/ /\ Becomes([dir EXCEPT !.previous = dir.prevCandidate, !.prevCandidate = 0])
        /\ Goto(u, "sealing") /\ UNCHANGED faults
     \/ Fault /\ NoDirectoryChange /\ Goto(u, "restoring")
  /\ InstallFrame

SyncPrevious(u) ==
  /\ At(u, "sealing")
  /\ \/ Synced /\ Goto(u, "committing") /\ UNCHANGED faults
     \/ Fault /\ NoDirectoryChange /\ Goto(u, "restoring")
  /\ InstallFrame

Committed(d) == [d EXCEPT !.txn = "committed"]

\* ReplaceTransaction(Committed = true).  A record that is visible but not
\* synced counts as success, and nothing is cleaned up.
Commit(u) ==
  /\ At(u, "committing")
  /\ \/ /\ dir' = Committed(dir) /\ survivable' = {dir'}
        /\ Goto(u, "sweeping") /\ afterSweep' = "idle" /\ UNCHANGED <<lock, faults>>
     \/ Fault /\ Becomes(Committed(dir)) /\ Exit(u) /\ UNCHANGED afterSweep
     \/ /\ Fault /\ NoDirectoryChange
        /\ Goto(u, "restoring") /\ UNCHANGED <<lock, afterSweep>>
  /\ UNCHANGED <<current, target, starts>>

-----------------------------------------------------------------------------
(* rollbackTransaction.  Every failure leaves the record open: the next     *)
(* invocation starts the rollback again.                                    *)

RestoreExecutable(u) ==
  /\ At(u, "restoring")
  /\ \/ /\ Becomes([dir EXCEPT !.exe = dir.backup])
        /\ Goto(u, "restoringPrevious") /\ UNCHANGED <<lock, faults>>
     \/ Fault /\ NoDirectoryChange /\ Exit(u)
  /\ UNCHANGED <<current, target, afterSweep, starts>>

DropsPrevious(d) == 0
RestoredPrevious(d) == IF d.hadPrevious THEN d.prevBackup ELSE 0

RestorePrevious(u) ==
  /\ At(u, "restoringPrevious")
  /\ \/ /\ Becomes([dir EXCEPT !.previous = RestoredPrevious(dir)])
        /\ Goto(u, "settling") /\ UNCHANGED <<lock, faults>>
     \/ Fault /\ NoDirectoryChange /\ Exit(u)
  /\ UNCHANGED <<current, target, afterSweep, starts>>

\* The candidates are removed (their errors are ignored), then the sync.
SettleRollback(u) ==
  LET a == [dir EXCEPT !.candidate = 0]
      b == [a EXCEPT !.prevCandidate = 0]
  IN
  /\ At(u, "settling")
  /\ \/ /\ dir' = b /\ survivable' = {b}
        /\ Goto(u, "closing") /\ UNCHANGED <<lock, faults>>
     \/ Fault /\ dir' = b /\ survivable' = survivable \cup {a, b} /\ Exit(u)
  /\ UNCHANGED <<current, target, afterSweep, starts>>

CloseRollback(u) ==
  /\ At(u, "closing")
  /\ \/ /\ dir' = Committed(dir) /\ survivable' = {dir'}
        /\ Goto(u, "sweeping") /\ afterSweep' = "idle" /\ UNCHANGED <<lock, faults>>
     \/ Fault /\ Becomes(Committed(dir)) /\ Exit(u) /\ UNCHANGED afterSweep
     \/ Fault /\ NoDirectoryChange /\ Exit(u) /\ UNCHANGED afterSweep
  /\ UNCHANGED <<current, target, starts>>

-----------------------------------------------------------------------------
(* cleanupCommittedTransaction.                                             *)

\* The artifacts go one by one; a removal that fails stops the sweep.
SweepArtifacts(u) ==
  LET trail == SweepTrail(dir) IN
  /\ At(u, "sweeping")
  /\ \E k \in 1..5 :
       /\ dir' = trail[k]
       /\ survivable' = survivable \cup {trail[j] : j \in 1..k}
       /\ IF k = 5 THEN Goto(u, "sweptArtifacts") /\ UNCHANGED <<lock, faults>>
                   ELSE Fault /\ Exit(u)
  /\ UNCHANGED <<current, target, afterSweep, starts>>

SyncSweep(u) ==
  /\ At(u, "sweptArtifacts")
  /\ \/ Synced /\ Goto(u, "forgetting") /\ UNCHANGED <<lock, faults>>
     \/ Fault /\ NoDirectoryChange /\ Exit(u)
  /\ UNCHANGED <<current, target, afterSweep, starts>>

\* The record is removed and the directory synced.  When that sync fails the
\* record is published again, which may fail as well.
Forget(u) ==
  LET gone == [dir EXCEPT !.txn = "none", !.hadPrevious = FALSE] IN
  /\ At(u, "forgetting")
  /\ \/ /\ dir' = gone /\ survivable' = {gone}
        /\ UNCHANGED faults
        /\ IF afterSweep = "idle" THEN Exit(u)
                                  ELSE Goto(u, afterSweep) /\ UNCHANGED lock
     \/ /\ Fault /\ Exit(u)
        /\ dir' \in {dir, gone}
        /\ survivable' = survivable \cup {dir, gone}
  /\ UNCHANGED <<current, target, afterSweep, starts>>

-----------------------------------------------------------------------------
(* Faults no step of the updater reports.                                   *)

\* The kernel releases a killed updater's lock.
Kill(u) ==
  /\ ~At(u, "idle") /\ Fault /\ Exit(u)
  /\ NoDirectoryChange
  /\ UNCHANGED <<current, target, afterSweep, starts>>

PowerLoss ==
  /\ Fault
  /\ dir' \in survivable /\ survivable' = {dir'}
  /\ lock' = {} /\ stage' = [u \in Updaters |-> "idle"]
  /\ UNCHANGED <<current, target, afterSweep, starts>>

Next ==
  \/ \E u \in Updaters :
       \/ Start(u) \/ AcquireLock(u) \/ Recover(u) \/ Resolve(u)
       \/ Stage(u) \/ OpenTransaction(u) \/ Swap(u) \/ SyncSwap(u) \/ Probe(u)
       \/ PublishPrevious(u) \/ SyncPrevious(u) \/ Commit(u)
       \/ RestoreExecutable(u) \/ RestorePrevious(u) \/ SettleRollback(u)
       \/ CloseRollback(u)
       \/ SweepArtifacts(u) \/ SyncSweep(u) \/ Forget(u)
       \/ Kill(u)
  \/ PowerLoss

Spec == Init /\ [][Next]_vars

-----------------------------------------------------------------------------
(* Properties.                                                              *)

\* Whatever step failed and wherever power went, an interrupted update can be
\* undone: a directory with an open record has the files the rollback needs.
Recoverable ==
  \A d \in survivable :
    d.txn = "open" => d.backup # 0 /\ (d.hadPrevious => d.prevBackup # 0)

\* An update is never half there: once no record is left, the executable and
\* .previous are the ones of a whole update, or the ones from before it, in
\* every directory the operator or a power loss may see.
installedPair == Effective(dir)
riskPairs == {Effective(d) : d \in survivable} \ {Effective(dir)}

Abstract == INSTANCE AtomicUpdate
              WITH installed <- installedPair, atRisk <- riskPairs

IsAtomic == Abstract!UpdateSpec

\* No version policy is circumvented: an update is only ever committed over
\* an older executable (docs/self-update.md: "downgrades ... fail or return a
\* no-op without changing the executable").
NoDowngrade ==
  [][dir.txn = "open" /\ dir'.txn = "committed" => dir'.exe >= dir.backup]_vars

\* The rollback source outlives the record that may need it: "retaining the
\* transaction rollback source until a cleanup-only committed record or its
\* removal is durably synced" (docs/self-update.md).
RollbackSourceRetained ==
  (\E d \in survivable : d.txn = "open") => dir.backup # 0

=============================================================================
