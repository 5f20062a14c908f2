----------------------------- MODULE SelfUpdate -----------------------------
(***************************************************************************)
(* The online update (internal/update/update.go and the endpoints of       *)
(* internal/server/admin_update.go): look up the latest release, download  *)
(* and verify it, move the executable to .backup and the new one into its  *)
(* place, or move the backup back.  The process may end between any two of *)
(* these steps (the restart endpoint, a kill, a power failure), and is     *)
(* started again from whatever stands at the executable's path.            *)
(*                                                                         *)
(* updateMu and Service.lock let one update or rollback run at a time; the *)
(* restart endpoint takes neither.                                         *)
(***************************************************************************)
EXTENDS Integers, Sequences

CONSTANTS
  Releases,   \* versions that may be published, in any number
  Installed,  \* the version installed at first
  None,       \* no file
  Down,       \* no process
  Faults,     \* what may go wrong: "rename" fails, "power" fails
  LastName,   \* a bound: how many ".backup" a file name may end in
  Follows     \* does os.Executable() follow a rename of the running file?

ASSUME SelfUpdateAssumption ==
  /\ \A v \in Releases \cup {Installed} : v.num \in Seq(Nat) /\ v.pre \in BOOLEAN
  /\ None \notin [ver : Releases \cup {Installed}, state : {"damaged", "buffered", "whole"}]
  /\ Down \notin Releases \cup {Installed}
  /\ Faults \subseteq {"rename", "power"}
  /\ LastName \in Nat \ {0}
  /\ Follows \subseteq BOOLEAN /\ Follows # {}

\* A version has its numbers and perhaps a pre-release suffix.
Versions == Releases \cup {Installed}
\* A file is damaged, or what was released but not yet on the disk, or whole.
Files == [ver : Versions, state : {"damaged", "buffered", "whole"}]
Whole(v) == [ver |-> v, state |-> "whole"]

\* Name 0 is the executable's path, 1 is that with .backup, and so on.
Names == 0 .. LastName

VARIABLES
  running,   \* the version of the process, or Down
  latest,    \* the release the server calls the latest
  file,      \* for each name the file there, or None
  unsynced,  \* earlier values of file a power failure may bring back
  self,      \* the name os.Executable() gives
  follows,   \* does it still change with a rename of the running file?
  at,        \* how far the update under way has come, or "idle"
  new,       \* the new binary in the temporary directory, or None
  moves      \* updates and rollbacks that moved files since the start, up to 2

disk == <<file, unsynced>>
process == <<running, self, follows>>
vars == <<process, latest, disk, at, new, moves>>

Init ==
  /\ running = Installed
  /\ latest \in Releases \cup {Installed}
  /\ file = [n \in Names |-> IF n = 0 THEN Whole(Installed) ELSE None]
  /\ unsynced = {}
  /\ self = 0
  /\ follows \in Follows
  /\ at = "idle"
  /\ new = None
  /\ moves = 0

-----------------------------------------------------------------------------
(* Version order.                                                          *)

Part(n, i) == IF i <= Len(n) THEN n[i] ELSE 0

\* compareSemver(a, b) > 0: the first part that differs decides.
GreaterSemver(a, b) ==
  \E i \in 1 .. (Len(a) + Len(b)) :
    /\ Part(a, i) > Part(b, i)
    /\ \A j \in 1 .. (i - 1) : Part(a, j) = Part(b, j)

\* Mutant: any other version is newer, as for a development build.
NewerWhenDifferent(tag, current) == tag # current

\* A suffix on either side cannot be compared: any other version is newer.
NewerVersion(tag, current) ==
  IF tag.pre \/ current.pre THEN tag # current ELSE GreaterSemver(tag.num, current.num)

-----------------------------------------------------------------------------
(* Service.Apply.                                                          *)

\* The handlers of the panel give up unless updateMu is free.
MayUpdate == running # Down /\ at = "idle"

\* Check has seen a newer release; Apply asks for the latest a second time.
BeginApply ==
  /\ MayUpdate
  /\ NewerVersion(latest, running)
  /\ at' = "checked"
  /\ UNCHANGED <<process, latest, disk, new, moves>>

\* The second answer, whatever it is by now, is what gets downloaded; what
\* arrives may be damaged.
Download ==
  /\ at = "checked"
  /\ \E s \in {"damaged", "buffered"} : new' = [ver |-> latest, state |-> s]
  /\ at' = "downloaded"
  /\ UNCHANGED <<process, latest, disk, moves>>

\* Mutant: a damaged archive is let through.
VerifyNothing ==
  /\ at = "downloaded"
  /\ at' = "extracted"
  /\ UNCHANGED <<process, latest, disk, new, moves>>

\* The checksum, then the binary out of the archive.
Verify ==
  /\ at = "downloaded" /\ new.state # "damaged"
  /\ at' = "extracted"
  /\ UNCHANGED <<process, latest, disk, new, moves>>

\* Mutant: the new binary is renamed without having been synced.
FlushNothing ==
  /\ at = "extracted"
  /\ at' = "flushed"
  /\ UNCHANGED <<process, latest, disk, new, moves>>

\* syncFile.
Flush ==
  /\ at = "extracted"
  /\ new' = [new EXCEPT !.state = IF @ = "buffered" THEN "whole" ELSE @]
  /\ at' = "flushed"
  /\ UNCHANGED <<process, latest, disk, moves>>

\* Any step up to the first rename may fail; the temporary directory goes.
Abort ==
  /\ \/ at \in {"checked", "downloaded", "extracted"}
     \/ at = "flushed" /\ (file[self] = None \/ "rename" \in Faults)
  /\ at' = "idle" /\ new' = None
  /\ UNCHANGED <<process, latest, disk, moves>>

\* The variable exe of applyRelease, read before the running file was renamed.
Exe == IF follows /\ at \in {"backedUp", "installed"} THEN self - 1 ELSE self
Backup == Exe + 1

\* A rename, which a power failure may undo as long as it is not synced.
Rename(from, to) ==
  /\ file' = [file EXCEPT ![to] = file[from], ![from] = None]
  /\ unsynced' = unsynced \cup {file}

Move == moves' = IF moves < 2 THEN moves + 1 ELSE moves

\* Mutant: a backup that is already there is not replaced.
BackUpOnce ==
  /\ at = "flushed" /\ file[self] # None /\ self < LastName
  /\ \/ file[Backup] = None /\ Rename(Exe, Backup)
     \/ file[Backup] # None /\ file' = [file EXCEPT ![Exe] = None] /\ UNCHANGED unsynced
  /\ self' = (IF follows THEN self + 1 ELSE self)
  /\ at' = "backedUp"
  /\ Move
  /\ UNCHANGED <<running, follows, latest, new>>

\* The first rename of replaceExecutable.
BackUp ==
  /\ at = "flushed" /\ file[self] # None /\ self < LastName
  /\ Rename(Exe, Backup)
  /\ self' = (IF follows THEN self + 1 ELSE self)
  /\ at' = "backedUp"
  /\ Move
  /\ UNCHANGED <<running, follows, latest, new>>

\* syncDir, whose failure is ignored, and the second rename.
Install ==
  /\ at = "backedUp"
  /\ file' = [file EXCEPT ![Exe] = new] /\ new' = None
  /\ \E kept \in {{}, unsynced} : unsynced' = kept \cup {file}
  /\ at' = "installed"
  /\ UNCHANGED <<process, latest, moves>>

\* Mutant: a failed installation cleans the backup up.
InstallFailsCleaning ==
  /\ at = "backedUp" /\ "rename" \in Faults
  /\ file' = [file EXCEPT ![Backup] = None]
  /\ at' = "idle" /\ new' = None
  /\ UNCHANGED <<process, latest, unsynced, moves>>

\* The second rename fails; the backup is moved back, or that fails too.
InstallFails ==
  /\ at = "backedUp" /\ "rename" \in Faults
  /\ \/ Rename(Backup, Exe) /\ self' = Exe
     \/ UNCHANGED <<disk, self>>
  /\ at' = "idle" /\ new' = None
  /\ UNCHANGED <<running, follows, latest, moves>>

\* The last syncDir.
EndApply ==
  /\ at = "installed"
  /\ unsynced' \in {{}, unsynced}
  /\ at' = "idle"
  /\ UNCHANGED <<process, latest, file, new, moves>>

\* Service.Rollback: one rename, without a sync.  The running file is
\* replaced; its link in /proc keeps the name it had last.
BackupFound == Backup \in Names /\ file[Backup] # None

Rollback ==
  /\ MayUpdate /\ BackupFound
  /\ Rename(Backup, Exe)
  /\ follows' = (follows /\ file[self] = None)
  /\ Move
  /\ UNCHANGED <<running, self, latest, at, new>>

-----------------------------------------------------------------------------
(* The process, the power supply and the release server.                   *)

Stop ==
  /\ running # Down /\ running' = Down
  /\ at' = "idle" /\ new' = None
  /\ UNCHANGED <<self, follows, latest, moves>>

\* The restart endpoint, a kill or a crash, also in the middle of an update.
Exit == Stop /\ UNCHANGED disk

\* What has not reached the disk is lost.
PowerFails ==
  /\ "power" \in Faults
  /\ Stop
  /\ file' \in unsynced \cup {file}
  /\ unsynced' = {}

\* systemd or Docker starts the executable, if that can be started.
Start ==
  /\ running = Down /\ file[0] # None
  /\ file[0].state = "whole"
  /\ running' = file[0].ver
  /\ self' = 0 /\ follows' \in Follows
  /\ moves' = 0
  /\ UNCHANGED <<latest, disk, at, new>>

\* What v.num is worth, for parts below 100 and at most three of them.
Rank(v) == 10000 * Part(v.num, 1) + 100 * Part(v.num, 2) + Part(v.num, 3)

\* Releases come in order.
Publish ==
  /\ \E v \in Releases : Rank(v) > Rank(latest) /\ latest' = v
  /\ UNCHANGED <<process, disk, at, new, moves>>

Next ==
  \/ BeginApply \/ Download \/ Verify \/ Flush \/ Abort
  \/ BackUp \/ Install \/ InstallFails \/ EndApply
  \/ Rollback
  \/ Exit \/ PowerFails \/ Start \/ Publish

Spec == Init /\ [][Next]_vars

-----------------------------------------------------------------------------
(* Nothing damaged and nothing that a power failure could still tear ever   *)
(* stands at the executable's path or at a backup's.                        *)
FilesWhole == \A n \in Names : file[n] # None => file[n].state = "whole"

(* However updates, rollbacks, failing renames, restarts and power failures *)
(* follow each other, there is always a file left to start: the executable  *)
(* or a backup.                                                             *)
AlwaysRecoverable == \E n \in Names : file[n] # None

(* The first update after a start leaves the running version in .backup,    *)
(* whatever backup there was before, so that a rollback leads back to it.   *)
FirstUpdateKeepsRunning ==
  running # Down /\ at = "idle" /\ moves = 1 /\ file[1] # None
    => file[1] = Whole(running)

(* Among versions without a suffix an update only ever installs a later one *)
(* than the one that runs, although the latest release is asked for twice   *)
(* and releases come out meanwhile.                                         *)
NoDowngrade ==
  [][Install /\ ~new.ver.pre /\ ~running.pre => Rank(new.ver) > Rank(running)]_vars

\* What NoDowngrade takes of the versions: Rank speaks of at most three parts,
\* each below 100, and
Comparable ==
  \A v \in Versions : Len(v.num) <= 3 /\ \A i \in 1 .. Len(v.num) : v.num[i] < 100

\* no release with a suffix is behind the first installation.  Against one
\* that is, BeginApply says yes, and what is published before Download need
\* not be later than what runs.
SuffixesAhead == \A v \in Releases : v.pre => Rank(v) >= Rank(Installed)

(* README.md:234: the old version stays in .backup and one can go back to   *)
(* it at any time.  So Rollback finds the file at .backup when there is one.*)
BackupUsable == running # Down /\ at = "idle" /\ file[1] # None => BackupFound
=============================================================================
