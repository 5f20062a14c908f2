-------------------------- MODULE SelfUpdateProofs --------------------------
(* Proofs about SelfUpdate: whatever fails and whenever the process or the  *)
(* power supply ends, there is a file left to start, and no torn one; the   *)
(* first update keeps what runs, and an update installs what is later.      *)
EXTENDS SelfUpdate, TLAPS

Contents == Files \cup {None}

\* A directory that is fit to be found after a crash: something is left, and
\* nothing is damaged.
Fit(d) ==
  /\ d \in [Names -> Contents]
  /\ \E n \in Names : d[n] # None
  /\ \A n \in Names : d[n] # None => d[n].state = "whole"

\* What the update under way has in hand.
NewReady ==
  /\ at \in {"downloaded", "extracted", "flushed", "backedUp"} => new \in Files
  /\ at = "extracted" => new.state # "damaged"
  /\ at \in {"flushed", "backedUp"} => new.state = "whole"

\* Between the renames the backup is where it will be looked for.
BackupMade ==
  at = "backedUp" =>
    /\ Exe \in Names /\ Backup \in Names
    /\ file[Backup] # None

\* No update is under way without a process, so that a start finds none.
StoppedIsIdle == running = Down => at = "idle"

\* As strong as it needs to be: a power failure brings back any directory of
\* unsynced, so these have to be fit like the present one.
IInv ==
  /\ latest \in Versions
  /\ self \in Names
  /\ follows \in BOOLEAN
  /\ Fit(file)
  /\ \A d \in unsynced : Fit(d)
  /\ NewReady
  /\ BackupMade
  /\ StoppedIsIdle

\* No file is the absence of one.
LEMMA FilesAreSome == \A f \in Files : f # None
  BY SelfUpdateAssumption DEF Files, Versions

\* A new content at one name keeps a directory fit, if it is whole.
LEMMA FitPut ==
  ASSUME NEW d, Fit(d), NEW n \in Names, NEW f \in Files, f.state = "whole"
  PROVE  Fit([d EXCEPT ![n] = f])
  BY FilesAreSome DEF Fit, Contents

\* Moving a file that is there keeps a directory fit.
LEMMA FitMove ==
  ASSUME NEW d, Fit(d), NEW from \in Names, NEW to \in Names, from # to, d[from] # None
  PROVE  Fit([d EXCEPT ![to] = d[from], ![from] = None])
  <1> DEFINE e == [d EXCEPT ![to] = d[from], ![from] = None]
  <1>1. e \in [Names -> Contents]
    BY DEF Fit, Contents
  <1>2. e[to] = d[from] /\ e[from] = None
    BY DEF Fit
  <1>3. \A n \in Names : n # to /\ n # from => e[n] = d[n]
    BY DEF Fit
  <1> QED
    BY <1>1, <1>2, <1>3 DEF Fit

LEMMA RenameFit ==
  ASSUME IInv, NEW from \in Names, NEW to \in Names, from # to, file[from] # None,
         Rename(from, to)
  PROVE  /\ Fit(file') /\ \A d \in unsynced' : Fit(d)
         /\ file'[to] # None
  <1>1. Fit([file EXCEPT ![to] = file[from], ![from] = None])
    BY FitMove DEF IInv
  <1>2. file'[to] = file[from]
    BY DEF Rename, IInv, Fit
  <1> QED
    BY <1>1, <1>2 DEF Rename, IInv

LEMMA InitHolds == Init => IInv
  <1> SUFFICES ASSUME Init PROVE IInv
    OBVIOUS
  <1>1. 0 \in Names /\ Installed \in Versions /\ latest \in Versions
    BY SelfUpdateAssumption DEF Init, Names, Versions
  <1>2. Whole(Installed) \in Files /\ Whole(Installed).state = "whole"
    BY <1>1 DEF Whole, Files
  <1>3. Fit(file)
    BY <1>1, <1>2, FilesAreSome DEF Init, Fit, Contents
  <1> QED
    BY <1>1, <1>3, SelfUpdateAssumption DEF Init, IInv, NewReady, BackupMade, StoppedIsIdle

LEMMA Inductive == IInv /\ [Next]_vars => IInv'
  <1> SUFFICES ASSUME IInv, [Next]_vars PROVE IInv'
    OBVIOUS
  <1> USE DEF process, disk, StoppedIsIdle
  <1>1. CASE BeginApply
    BY <1>1 DEF BeginApply, MayUpdate, IInv, NewReady, BackupMade, Fit
  <1>2. CASE Download
    BY <1>2 DEF Download, IInv, NewReady, BackupMade, Fit, Files
  <1>3. CASE Verify
    BY <1>3 DEF Verify, IInv, NewReady, BackupMade, Fit
  <1>4. CASE Flush
    <2>1. new' \in Files /\ new'.state = "whole"
      BY <1>4 DEF Flush, IInv, NewReady, Files
    <2> QED
      BY <1>4, <2>1 DEF Flush, IInv, NewReady, BackupMade, Fit
  <1>5. CASE Abort
    BY <1>5 DEF Abort, IInv, NewReady, BackupMade, Fit
  <1>6. CASE BackUp
    <2>1. Exe = self /\ Backup = self + 1 /\ Backup \in Names /\ Exe # Backup
      BY <1>6, SelfUpdateAssumption DEF BackUp, Exe, Backup, IInv, Names
    <2>2. /\ Fit(file') /\ \A d \in unsynced' : Fit(d)
          /\ file'[Backup] # None
      BY <1>6, <2>1, RenameFit DEF BackUp, IInv
    <2>3. self' \in Names /\ Exe' = Exe /\ Backup' = Backup
      BY <1>6, <2>1, SelfUpdateAssumption DEF BackUp, Exe, Backup, IInv, Names
    <2>4. NewReady'
      BY <1>6 DEF BackUp, NewReady, IInv
    <2>5. BackupMade'
      BY <2>1, <2>2, <2>3, <1>6 DEF BackupMade, IInv
    <2> QED
      BY <1>6, <2>2, <2>3, <2>4, <2>5 DEF BackUp, IInv
  <1>7. CASE Install
    <2>1. Fit(file')
      BY <1>7, FitPut DEF Install, IInv, NewReady, BackupMade
    <2>2. \A d \in unsynced' : Fit(d)
      BY <1>7 DEF Install, IInv
    <2> QED
      BY <1>7, <2>1, <2>2 DEF Install, IInv, NewReady, BackupMade
  <1>8. CASE InstallFails
    <2>1. Exe # Backup /\ Exe \in Names /\ Backup \in Names /\ file[Backup] # None
      BY <1>8 DEF InstallFails, IInv, BackupMade, Backup, Exe, Names
    <2>2. CASE Rename(Backup, Exe) /\ self' = Exe
      <3>1. Fit(file') /\ \A d \in unsynced' : Fit(d)
        BY <2>1, <2>2, RenameFit
      <3> QED
        BY <1>8, <2>1, <2>2, <3>1 DEF InstallFails, IInv, NewReady, BackupMade
    <2>3. CASE UNCHANGED <<disk, self>>
      BY <1>8, <2>3 DEF InstallFails, IInv, NewReady, BackupMade, Fit
    <2> QED
      BY <1>8, <2>2, <2>3 DEF InstallFails
  <1>9. CASE EndApply
    BY <1>9 DEF EndApply, IInv, NewReady, BackupMade, Fit
  <1>10. CASE Rollback
    <2>1. Exe = self /\ Backup \in Names /\ Exe # Backup /\ file[Backup] # None
      BY <1>10 DEF Rollback, MayUpdate, BackupFound, Exe, Backup, IInv, Names
    <2>2. Fit(file') /\ \A d \in unsynced' : Fit(d)
      BY <1>10, <2>1, RenameFit DEF Rollback, IInv
    <2> QED
      BY <1>10, <2>2 DEF Rollback, MayUpdate, IInv, NewReady, BackupMade
  <1>11. CASE Exit
    BY <1>11 DEF Exit, Stop, IInv, NewReady, BackupMade, Fit
  <1>12. CASE PowerFails
    <2>1. Fit(file')
      BY <1>12 DEF PowerFails, IInv
    <2> QED
      BY <1>12, <2>1 DEF PowerFails, Stop, IInv, NewReady, BackupMade
  <1>13. CASE Start
    <2>1. 0 \in Names
      BY SelfUpdateAssumption DEF Names
    <2>2. follows' \in BOOLEAN
      BY <1>13, SelfUpdateAssumption DEF Start
    <2> QED
      BY <1>13, <2>1, <2>2 DEF Start, IInv, NewReady, BackupMade, Fit, Exe, Backup
  <1>14. CASE Publish
    BY <1>14 DEF Publish, IInv, NewReady, BackupMade, Fit, Exe, Backup, Versions
  <1>15. CASE UNCHANGED vars
    BY <1>15 DEF vars, IInv, NewReady, BackupMade, Fit, Exe, Backup
  <1> QED
    BY <1>1, <1>2, <1>3, <1>4, <1>5, <1>6, <1>7, <1>8, <1>9, <1>10, <1>11, <1>12,
       <1>13, <1>14, <1>15 DEF Next

LEMMA Invariance == Spec => []IInv
  BY InitHolds, Inductive, PTL DEF Spec

(* update.go:5 and 415-419: however updates, rollbacks, failing renames,    *)
(* restarts and power failures follow each other, one of the executable     *)
(* and its backups is always there.                                         *)
THEOREM SomethingLeft == Spec => []AlwaysRecoverable
  <1>1. IInv => AlwaysRecoverable
    BY DEF IInv, Fit, AlwaysRecoverable
  <1> QED
    BY <1>1, Invariance, PTL

(* update.go:6 and 381-386: no file at any of these names is ever damaged   *)
(* or still in the buffers of the operating system.                         *)
THEOREM NothingTorn == Spec => []FilesWhole
  <1>1. IInv => FilesWhole
    BY DEF IInv, Fit, FilesWhole
  <1> QED
    BY <1>1, Invariance, PTL

-----------------------------------------------------------------------------
(* The backup of the first update.                                         *)

\* Until the first move the executable is what runs; from then until the
\* second one the first backup is, if there is one.
FirstMove ==
  /\ moves \in 0 .. 2
  /\ running # Down =>
       /\ moves = 0 => /\ self = 0 /\ file[0] = Whole(running)
                       /\ at \notin {"backedUp", "installed"}
       /\ moves = 1 => /\ file[1] \in {None, Whole(running)}
                       /\ at \in {"backedUp", "installed"} => Exe = 0

LEMMA FirstMoveInit == Init => FirstMove
  BY SelfUpdateAssumption DEF Init, FirstMove, Names, Whole

LEMMA FirstMoveNext == IInv /\ FirstMove /\ [Next]_vars => FirstMove'
  <1> SUFFICES ASSUME IInv, FirstMove, [Next]_vars PROVE FirstMove'
    OBVIOUS
  <1> USE DEF process, disk
  <1>0. /\ 0 \in Names /\ 1 \in Names
        /\ file \in [Names -> Contents] /\ self \in Names /\ self \in Nat
        /\ running = Down => at = "idle"
    BY SelfUpdateAssumption DEF Names, IInv, Fit, StoppedIsIdle
  <1>1. CASE BeginApply
    BY <1>1 DEF BeginApply, MayUpdate, FirstMove, Exe
  <1>2. CASE Download
    BY <1>2 DEF Download, FirstMove, Exe
  <1>3. CASE Verify
    BY <1>3 DEF Verify, FirstMove, Exe
  <1>4. CASE Flush
    BY <1>4 DEF Flush, FirstMove, Exe
  <1>5. CASE Abort
    BY <1>5 DEF Abort, FirstMove, Exe
  <1>6. CASE BackUp
    <2>1. running # Down /\ running' = running /\ at' = "backedUp" /\ Exe = self
          /\ moves' \in 1 .. 2 /\ (moves' = 1 => moves = 0)
      BY <1>0, <1>6 DEF BackUp, Move, Exe, FirstMove
    <2>2. Exe' = self
      BY <1>0, <1>6 DEF BackUp, Exe
    <2>3. moves = 0 => file'[1] = Whole(running)
      BY <1>0, <1>6, <2>1 DEF BackUp, Rename, Backup, FirstMove
    <2> QED
      BY <2>1, <2>2, <2>3 DEF FirstMove
  <1>7. CASE Install
    <2>1. moves' = moves /\ running' = running /\ at' = "installed" /\ Exe' = Exe
          /\ file' = [file EXCEPT ![Exe] = new]
      BY <1>7 DEF Install, Exe
    <2>2. CASE running # Down /\ moves = 1
      <3>1. Exe = 0 /\ file'[1] = file[1]
        BY <1>0, <1>7, <2>1, <2>2 DEF FirstMove, Install
      <3> QED
        BY <2>1, <2>2, <3>1 DEF FirstMove
    <2> QED
      BY <1>7, <2>1, <2>2 DEF FirstMove, Install
  <1>8. CASE InstallFails
    <2>1. moves' = moves /\ running' = running /\ at' = "idle" /\ at = "backedUp"
      BY <1>8 DEF InstallFails
    <2>2. CASE running # Down /\ moves = 1
      <3>1. Exe = 0 /\ Backup = 1
        BY <1>8, <2>2 DEF FirstMove, InstallFails, Backup
      <3>2. file'[1] \in {None, file[1]}
        BY <1>0, <1>8, <3>1 DEF InstallFails, Rename
      <3> QED
        BY <2>1, <2>2, <3>2 DEF FirstMove
    <2> QED
      BY <2>1, <2>2 DEF FirstMove
  <1>9. CASE EndApply
    BY <1>9 DEF EndApply, FirstMove, Exe
  <1>10. CASE Rollback
    <2>1. running # Down /\ running' = running /\ at = "idle" /\ at' = at /\ Exe = self
          /\ moves' \in 1 .. 2 /\ (moves' = 1 => moves = 0)
      BY <1>10 DEF Rollback, MayUpdate, Move, Exe, FirstMove
    <2>2. moves = 0 => file'[1] = None
      BY <1>0, <1>10, <2>1 DEF Rollback, Rename, Backup, FirstMove
    <2> QED
      BY <2>1, <2>2 DEF FirstMove
  <1>11. CASE Exit
    BY <1>11 DEF Exit, Stop, FirstMove
  <1>12. CASE PowerFails
    BY <1>12 DEF PowerFails, Stop, FirstMove
  <1>13. CASE Start
    <2>1. file[0] \in Files /\ file[0].state = "whole"
      BY <1>0, <1>13 DEF Start, Contents
    <2>2. file[0] = Whole(file[0].ver)
      BY <2>1 DEF Files, Whole
    <2> QED
      BY <1>0, <1>13, <2>2 DEF Start, FirstMove, Exe
  <1>14. CASE Publish
    BY <1>14 DEF Publish, FirstMove, Exe
  <1>15. CASE UNCHANGED vars
    BY <1>15 DEF vars, FirstMove, Exe
  <1> QED
    BY <1>1, <1>2, <1>3, <1>4, <1>5, <1>6, <1>7, <1>8, <1>9, <1>10, <1>11, <1>12,
       <1>13, <1>14, <1>15 DEF Next

(* update.go:413-437: the first update after a start leaves the version     *)
(* that runs at .backup and not whatever was there before, whichever of its *)
(* steps fails and wherever the running file's name has gone.               *)
THEOREM FirstBackupIsRunning == Spec => []FirstUpdateKeepsRunning
  <1>1. FirstMove => FirstUpdateKeepsRunning
    BY DEF FirstMove, FirstUpdateKeepsRunning
  <1>2. Init => FirstMove
    BY FirstMoveInit
  <1>3. IInv /\ FirstMove /\ [Next]_vars => FirstMove'
    BY FirstMoveNext
  <1> QED
    BY <1>1, <1>2, <1>3, Invariance, PTL DEF Spec

-----------------------------------------------------------------------------
(* Versions only go up.                                                    *)

\* Not ahead of what has been installed or released.
Known(v) == v \in Versions /\ (Rank(v) <= Rank(Installed) \/ Rank(v) <= Rank(latest))
KnownFiles(d) == \A n \in Names : d[n] # None => Known(d[n].ver)

InHand == {"downloaded", "extracted", "flushed", "backedUp"}

\* What the update under way is about to install is later than what runs.
Upward ==
  /\ KnownFiles(file) /\ \A d \in unsynced : KnownFiles(d)
  /\ running # Down => Known(running)
  /\ at = "checked" /\ ~running.pre =>
       IF latest.pre THEN Rank(latest) >= Rank(running) ELSE Rank(latest) > Rank(running)
  /\ at \in InHand => Known(new.ver)
  /\ at \in InHand /\ ~running.pre /\ ~new.ver.pre => Rank(new.ver) > Rank(running)

LEMMA PartBounds ==
  ASSUME NEW n \in Seq(Nat), Len(n) <= 3, \A i \in 1 .. Len(n) : n[i] < 100
  PROVE  \A i \in Nat \ {0} : Part(n, i) \in Nat /\ Part(n, i) <= 99
                              /\ (i > 3 => Part(n, i) = 0)
  <1>1. Len(n) \in Nat
    OBVIOUS
  <1>2. ASSUME NEW i \in Nat, i # 0
        PROVE  Part(n, i) \in Nat /\ Part(n, i) <= 99 /\ (i > 3 => Part(n, i) = 0)
    <2>1. CASE i <= Len(n)
      <3>1. i \in 1 .. Len(n)
        BY <1>1, <1>2, <2>1
      <3>2. n[i] \in Nat
        BY <3>1
      <3>3. n[i] < 100
        BY <3>1
      <3> QED
        BY <1>1, <2>1, <3>2, <3>3 DEF Part
    <2>2. CASE ~(i <= Len(n))
      BY <2>2 DEF Part
    <2> QED
      BY <2>1, <2>2
  <1> QED
    BY <1>2

LEMMA VersionParts ==
  ASSUME Comparable, NEW v \in Versions
  PROVE  /\ Len(v.num) \in Nat
         /\ \A i \in Nat \ {0} : Part(v.num, i) \in Nat /\ Part(v.num, i) <= 99
                                 /\ (i > 3 => Part(v.num, i) = 0)
  <1>1. v.num \in Seq(Nat)
    BY SelfUpdateAssumption DEF Versions
  <1>2. Len(v.num) <= 3 /\ \A i \in 1 .. Len(v.num) : v.num[i] < 100
    BY DEF Comparable
  <1> QED
    BY <1>1, <1>2, PartBounds

\* No later part outweighs an earlier one.
LEMMA Weights ==
  ASSUME NEW a \in Nat, NEW b \in Nat, NEW c \in Nat,
         NEW x \in Nat, NEW y \in Nat, NEW z \in Nat, y <= 99, z <= 99,
         a > x \/ (a = x /\ b > y) \/ (a = x /\ b = y /\ c > z)
  PROVE  10000 * a + 100 * b + c > 10000 * x + 100 * y + z
  OBVIOUS

LEMMA RankNat ==
  ASSUME Comparable, NEW v \in Versions
  PROVE  Rank(v) \in Nat
  <1>1. Part(v.num, 1) \in Nat /\ Part(v.num, 2) \in Nat /\ Part(v.num, 3) \in Nat
    BY VersionParts
  <1> QED
    BY <1>1 DEF Rank

\* The first part that differs decides the rank as well.
LEMMA GreaterRank ==
  ASSUME Comparable, NEW v \in Versions, NEW w \in Versions, GreaterSemver(v.num, w.num)
  PROVE  Rank(v) > Rank(w)
  <1> DEFINE V(i) == Part(v.num, i)
             W(i) == Part(w.num, i)
  <1>1. \A i \in Nat \ {0} : V(i) \in Nat /\ V(i) <= 99 /\ (i > 3 => V(i) = 0)
    BY VersionParts
  <1>2. \A i \in Nat \ {0} : W(i) \in Nat /\ W(i) <= 99 /\ (i > 3 => W(i) = 0)
    BY VersionParts
  <1>3. PICK i \in Nat \ {0} : V(i) > W(i) /\ \A j \in 1 .. (i - 1) : V(j) = W(j)
    <2>1. Len(v.num) \in Nat /\ Len(w.num) \in Nat
      BY VersionParts
    <2> QED
      BY <2>1 DEF GreaterSemver
  <1>4. Rank(v) = 10000 * V(1) + 100 * V(2) + V(3)
    BY DEF Rank
  <1>5. Rank(w) = 10000 * W(1) + 100 * W(2) + W(3)
    BY DEF Rank
  <1>6. V(1) \in Nat /\ V(2) \in Nat /\ V(3) \in Nat
    BY <1>1
  <1>7. W(1) \in Nat /\ W(2) \in Nat /\ W(3) \in Nat /\ W(2) <= 99 /\ W(3) <= 99
    BY <1>2
  <1> HIDE DEF V, W
  <1>8. i = 1 \/ i = 2 \/ i = 3
    BY <1>1, <1>2, <1>3
  <1>9. \/ V(1) > W(1)
        \/ V(1) = W(1) /\ V(2) > W(2)
        \/ V(1) = W(1) /\ V(2) = W(2) /\ V(3) > W(3)
    <2>1. CASE i = 1
      BY <1>3, <2>1
    <2>2. CASE i = 2
      BY <1>3, <2>2
    <2>3. CASE i = 3
      BY <1>3, <2>3
    <2> QED
      BY <1>8, <2>1, <2>2, <2>3
  <1>10. 10000 * V(1) + 100 * V(2) + V(3) > 10000 * W(1) + 100 * W(2) + W(3)
    BY <1>6, <1>7, <1>9, Weights
  <1> QED
    BY <1>4, <1>5, <1>10

\* What is newer by the check is not behind, as long as suffixes are ahead.
LEMMA NewerIsAhead ==
  ASSUME Comparable, SuffixesAhead, latest \in Versions, NEW v, Known(v), ~v.pre,
         NewerVersion(latest, v)
  PROVE  IF latest.pre THEN Rank(latest) >= Rank(v) ELSE Rank(latest) > Rank(v)
  <1>1. Rank(latest) \in Nat /\ Rank(v) \in Nat /\ Rank(Installed) \in Nat
    BY RankNat DEF Known, Versions
  <1>2. CASE latest.pre
    <2>1. Rank(latest) >= Rank(Installed)
      BY <1>1, <1>2 DEF SuffixesAhead, Versions
    <2> QED
      BY <1>1, <1>2, <2>1 DEF Known
  <1>3. CASE ~latest.pre
    BY <1>3, GreaterRank DEF NewerVersion, Known
  <1> QED
    BY <1>2, <1>3

LEMMA UpwardInit == Comparable /\ Init => Upward
  <1> SUFFICES ASSUME Comparable, Init PROVE Upward
    OBVIOUS
  <1>1. Installed \in Versions /\ Rank(Installed) \in Nat
    BY RankNat DEF Versions
  <1>2. Known(Installed)
    BY <1>1 DEF Known
  <1> QED
    BY <1>2 DEF Init, Upward, KnownFiles, InHand, Whole

LEMMA KnownMove ==
  ASSUME NEW from \in Names, NEW to \in Names, IInv, Upward, Rename(from, to),
         latest' = latest, file[from] # None
  PROVE  KnownFiles(file)' /\ \A d \in unsynced' : KnownFiles(d)'
  <1>1. file \in [Names -> Contents]
    BY DEF IInv, Fit
  <1>2. \A d : KnownFiles(d)' <=> KnownFiles(d)
    BY DEF KnownFiles, Known, Rank
  <1>3. \A n \in Names : file'[n] \in {None, file[n], file[from]}
    BY <1>1 DEF Rename
  <1>4. KnownFiles(file)'
    BY <1>3 DEF Upward, KnownFiles, Known
  <1> QED
    BY <1>2, <1>4 DEF Rename, Upward

LEMMA UpwardNext ==
  ASSUME Comparable, SuffixesAhead, IInv, Upward, [Next]_vars
  PROVE  Upward'
  <1> USE DEF process, disk
  <1>a. running = Down => at = "idle"
    BY DEF IInv, StoppedIsIdle
  <1>b. latest \in Versions /\ file \in [Names -> Contents] /\ self \in Names /\ self \in Nat
    BY SelfUpdateAssumption DEF IInv, Fit, Names
  <1>1. CASE BeginApply
    <2>1. Known(running) /\ NewerVersion(latest, running)
      BY <1>1 DEF BeginApply, MayUpdate, Upward
    <2>2. ~running.pre =>
            IF latest.pre THEN Rank(latest) >= Rank(running) ELSE Rank(latest) > Rank(running)
      BY <1>b, <2>1, NewerIsAhead
    <2> QED
      BY <1>1, <2>2 DEF BeginApply, Upward, KnownFiles, Known, Rank, InHand
  <1>2. CASE Download
    <2>1. new'.ver = latest /\ at' = "downloaded" /\ at = "checked"
      BY <1>2 DEF Download
    <2>2. Known(latest)
      BY <1>b, RankNat DEF Known
    <2> QED
      BY <1>2, <2>1, <2>2 DEF Download, Upward, KnownFiles, Known, Rank, InHand
  <1>3. CASE Verify
    BY <1>3 DEF Verify, Upward, KnownFiles, Known, Rank, InHand
  <1>4. CASE Flush
    <2>1. new'.ver = new.ver
      BY <1>4 DEF Flush, IInv, NewReady, Files
    <2> QED
      BY <1>4, <2>1 DEF Flush, Upward, KnownFiles, Known, Rank, InHand
  <1>5. CASE Abort
    BY <1>5 DEF Abort, Upward, KnownFiles, Known, Rank, InHand
  <1>6. CASE BackUp
    <2>1. Exe = self /\ Backup = self + 1 /\ Exe \in Names /\ Backup \in Names
          /\ file[Exe] # None
      BY <1>6, <1>b, SelfUpdateAssumption DEF BackUp, Exe, Backup, Names
    <2>2. KnownFiles(file)' /\ \A d \in unsynced' : KnownFiles(d)'
      BY <1>6, <2>1, KnownMove DEF BackUp
    <2> QED
      BY <1>6, <2>2 DEF BackUp, Upward, Known, Rank, InHand
  <1>7. CASE Install
    <2>1. Exe \in Names /\ Known(new.ver)
      BY <1>7 DEF Install, IInv, BackupMade, Upward, InHand
    <2>2. \A n \in Names : file'[n] \in {file[n], new}
      BY <1>7, <1>b DEF Install
    <2>3. \A d : KnownFiles(d)' <=> KnownFiles(d)
      BY <1>7 DEF Install, KnownFiles, Known, Rank
    <2>4. KnownFiles(file)'
      BY <1>7, <2>1, <2>2 DEF Install, Upward, KnownFiles, Known, Rank
    <2>5. \A d \in unsynced' : KnownFiles(d)'
      BY <1>7, <2>3 DEF Install, Upward
    <2> QED
      BY <1>7, <2>4, <2>5 DEF Install, Upward, Known, Rank, InHand
  <1>8. CASE InstallFails
    <2>1. Exe \in Names /\ Backup \in Names /\ file[Backup] # None
      BY <1>8 DEF InstallFails, IInv, BackupMade
    <2>2. KnownFiles(file)' /\ \A d \in unsynced' : KnownFiles(d)'
      <3>1. CASE Rename(Backup, Exe)
        BY <1>8, <2>1, <3>1, KnownMove DEF InstallFails
      <3>2. CASE UNCHANGED <<disk, self>>
        BY <1>8, <3>2 DEF InstallFails, Upward, KnownFiles, Known, Rank
      <3> QED
        BY <1>8, <3>1, <3>2 DEF InstallFails
    <2> QED
      BY <1>8, <2>2 DEF InstallFails, Upward, Known, Rank, InHand
  <1>9. CASE EndApply
    BY <1>9 DEF EndApply, Upward, KnownFiles, Known, Rank, InHand
  <1>10. CASE Rollback
    <2>1. Exe = self /\ Exe \in Names /\ Backup \in Names /\ file[Backup] # None
          /\ latest' = latest
      BY <1>10, <1>b DEF Rollback, MayUpdate, BackupFound, Exe
    <2>2. KnownFiles(file)' /\ \A d \in unsynced' : KnownFiles(d)'
      BY <1>10, <2>1, KnownMove DEF Rollback
    <2> QED
      BY <1>10, <2>2 DEF Rollback, MayUpdate, Upward, Known, Rank, InHand
  <1>11. CASE Exit
    BY <1>11 DEF Exit, Stop, Upward, KnownFiles, Known, Rank, InHand
  <1>12. CASE PowerFails
    BY <1>12 DEF PowerFails, Stop, Upward, KnownFiles, Known, Rank, InHand
  <1>13. CASE Start
    <2>1. 0 \in Names
      BY SelfUpdateAssumption DEF Names
    <2>2. Known(file[0].ver) /\ at = "idle"
      BY <1>13, <1>a, <2>1 DEF Start, Upward, KnownFiles
    <2> QED
      BY <1>13, <2>2 DEF Start, Upward, KnownFiles, Known, Rank, InHand
  <1>14. CASE Publish
    <2>1. latest' \in Versions /\ Rank(latest') > Rank(latest)
      BY <1>14 DEF Publish, Versions
    <2>2. Rank(latest) \in Nat /\ Rank(latest') \in Nat /\ \A v \in Versions : Rank(v) \in Nat
      BY <1>b, <2>1, RankNat
    <2>3. \A v : Known(v) => Known(v)'
      BY <2>1, <2>2 DEF Known, Rank, Versions
    <2>4. \A d : KnownFiles(d) => KnownFiles(d)'
      BY <2>3 DEF KnownFiles
    <2>5. CASE at = "checked" /\ ~running.pre
      <3>1. Rank(latest') > Rank(running)
        BY <1>a, <2>1, <2>2, <2>5 DEF Upward, Known
      <3>2. Rank(running) \in Nat
        BY <1>a, <2>2, <2>5 DEF Upward, Known
      <3>3. Rank(running') = Rank(running)
        BY <1>14 DEF Publish
      <3> QED
        BY <1>14, <2>2, <2>3, <2>4, <2>5, <3>1, <3>2, <3>3 DEF Publish, Upward, InHand
    <2> QED
      BY <1>14, <2>3, <2>4, <2>5 DEF Publish, Upward, InHand
  <1>15. CASE UNCHANGED vars
    BY <1>15 DEF vars, Upward, KnownFiles, Known, Rank, InHand
  <1> QED
    BY <1>1, <1>2, <1>3, <1>4, <1>5, <1>6, <1>7, <1>8, <1>9, <1>10, <1>11, <1>12,
       <1>13, <1>14, <1>15 DEF Next

(* update.go:240-263 and 607-666: among versions without a suffix an update *)
(* only ever installs a later one than the one that runs, although the      *)
(* latest release is asked for twice, releases come out meanwhile, and      *)
(* rollbacks and power failures bring earlier files back.  It takes that no *)
(* release with a suffix is older than the first installation: against one  *)
(* such the check answers yes, and what is published next need not be later.*)
THEOREM InstallsLater ==
  ASSUME Comparable, SuffixesAhead
  PROVE  Spec => NoDowngrade
  <1>1. Init => Upward
    BY UpwardInit
  <1>2. IInv /\ Upward /\ [Next]_vars => Upward'
    BY UpwardNext
  <1>3. Upward => (Install /\ ~new.ver.pre /\ ~running.pre => Rank(new.ver) > Rank(running))
    BY DEF Upward, Install, InHand
  <1> QED
    BY <1>1, <1>2, <1>3, Invariance, PTL DEF Spec, NoDowngrade
=============================================================================
