------------------------------ MODULE PoolState ------------------------------
(***************************************************************************)
(* The health of the accounts in memory and in state.json                  *)
(* (internal/pool/pool.go): which operations save, which do not, the save  *)
(* of AddAccount that runs outside the pool's lock, the reload of the auth *)
(* directory, and restarts, at any moment, that load the file back.        *)
(*                                                                         *)
(* Every operation but AddAccount holds p.mu to its end, its save included *)
(* (state.json is replaced by a rename), and is one step.                  *)
(***************************************************************************)
EXTENDS Integers, FiniteSets

CONSTANTS
  Accounts,      \* account names
  ErrThreshold,  \* errors in a row that freeze an account
  ErrCooldown,   \* how long such a freeze lasts
  SoftCooldown,  \* how long a 429 freezes an account
  MaxErr,        \* bound on an error count
  MaxTime        \* bound on the clock

ASSUME PoolStateAssumption ==
  /\ ErrThreshold \in Nat \ {0}
  /\ ErrCooldown \in Nat
  /\ SoftCooldown \in Nat
  /\ MaxErr \in Nat
  /\ MaxTime \in Nat

VARIABLES
  now,          \* the clock
  dir,          \* accounts with a credential file in the auth directory
  members,      \* accounts of the pool
  mem,          \* their health in memory; Fresh outside the pool
  file,         \* state.json; Fresh for an account without an entry
  login,        \* AddAccount's save in flight, if any
  overwritten   \* a late save of AddAccount replaced a newer state.json

poolVars == <<now, dir, members, mem, file, login, overwritten>>

\* coolUntil = 0 stands for the zero time.
Health == [err : Nat, cool : Nat, dis : BOOLEAN]
Fresh == [err |-> 0, cool |-> 0, dis |-> FALSE]

NoSnap == [a \in Accounts |-> Fresh]
\* "added": the pool is updated and nothing saved yet; "taken": the entries
\* are collected and not yet written.  late: another save came in between.
Idle == [phase |-> "idle", snap |-> NoSnap, late |-> FALSE]

PoolInit ==
  /\ now = 1
  /\ dir \in SUBSET Accounts
  /\ members = dir
  /\ mem = NoSnap
  /\ file = NoSnap
  /\ login = Idle
  /\ overwritten = FALSE

Healthy(m, a) == ~m[a].dis /\ now > m[a].cool

\* saveState writes an entry for each member and for nobody else.
Entries(m, ms) == [a \in Accounts |-> IF a \in ms THEN m[a] ELSE Fresh]

\* A save under p.mu: the state of mem' replaces the file.
Save ==
  /\ file' = Entries(mem', members)
  /\ overwritten' = FALSE
  /\ login' = [login EXCEPT !.late = login.phase = "taken"]

Update(a, h) == a \in members /\ mem' = [mem EXCEPT ![a] = h]

-----------------------------------------------------------------------------
NoteError(a) ==
  LET n == mem[a].err + 1 IN
  /\ n <= MaxErr
  /\ Update(a, [mem[a] EXCEPT !.err = n,
                  !.cool = IF n >= ErrThreshold THEN now + ErrCooldown ELSE @])
  /\ Save
  /\ UNCHANGED <<now, dir, members>>

\* NoteError, Cooldown and Disable also save when the account they name has
\* left the pool.
JudgeAbsent ==
  /\ UNCHANGED mem
  /\ Save
  /\ UNCHANGED <<now, dir, members>>

\* The one judgement that is not saved.
NoteSuccess(a) ==
  /\ Update(a, [mem[a] EXCEPT !.err = 0])
  /\ UNCHANGED <<now, dir, members, file, login, overwritten>>

Cooldown(a) ==
  /\ Update(a, [mem[a] EXCEPT !.cool = now + SoftCooldown])
  /\ Save
  /\ UNCHANGED <<now, dir, members>>

\* Mutant: the ban is not saved.
DisableUnsaved(a) ==
  /\ Update(a, [mem[a] EXCEPT !.dis = TRUE])
  /\ UNCHANGED <<now, dir, members, file, login, overwritten>>

Disable(a) ==
  /\ Update(a, [mem[a] EXCEPT !.dis = TRUE])
  /\ Save
  /\ UNCHANGED <<now, dir, members>>

Enable(a) ==
  /\ Update(a, [mem[a] EXCEPT !.dis = FALSE])
  /\ Save
  /\ UNCHANGED <<now, dir, members>>

ClearCooldown(a) ==
  /\ Update(a, [mem[a] EXCEPT !.cool = 0])
  /\ Save
  /\ UNCHANGED <<now, dir, members>>

\* A successful RefreshToken lifts the ban in memory only.
RefreshToken(a) ==
  /\ Update(a, [mem[a] EXCEPT !.dis = FALSE])
  /\ UNCHANGED <<now, dir, members, file, login, overwritten>>

\* saveLoginResult writes the credentials, then AddAccount changes the pool
\* under p.mu; a known account keeps its error count and its cooldown.
AddAccount(a) ==
  /\ login.phase = "idle"
  /\ dir' = dir \cup {a}
  /\ members' = members \cup {a}
  /\ mem' = [mem EXCEPT ![a].dis = FALSE]
  /\ login' = [login EXCEPT !.phase = "added"]
  /\ UNCHANGED <<now, file, overwritten>>

\* AddAccount's saveState after p.mu is unlocked: collect, then write.
CollectEntries ==
  /\ login.phase = "added"
  /\ login' = [phase |-> "taken", snap |-> Entries(mem, members), late |-> FALSE]
  /\ UNCHANGED <<now, dir, members, mem, file, overwritten>>

WriteEntries ==
  /\ login.phase = "taken"
  /\ file' = login.snap
  /\ overwritten' = login.late
  /\ login' = Idle
  /\ UNCHANGED <<now, dir, members, mem>>

\* An account file disappears from the directory.
RemoveFile(a) ==
  /\ a \in dir
  /\ dir' = dir \ {a}
  /\ UNCHANGED <<now, members, mem, file, login, overwritten>>

RestoreFile(a) ==
  /\ a \notin dir
  /\ dir' = dir \cup {a}
  /\ UNCHANGED <<now, members, mem, file, login, overwritten>>

\* POST /admin/api/reload: accounts that stay keep their health, new ones
\* start afresh, and nothing is saved.
SyncToDir ==
  LET kept == members \cap dir IN
  /\ members' = dir
  /\ mem' = Entries(mem, kept)
  /\ UNCHANGED <<now, dir, file, login, overwritten>>

\* Mutants: entries of accounts without a file are kept; cooldowns are lost.
LoadStateAll == file
LoadStateNoCooldown ==
  [a \in Accounts |-> IF a \in dir THEN [file[a] EXCEPT !.cool = 0] ELSE Fresh]

LoadState == Entries(file, dir)

\* The process ends at any moment and starts again.
PoolRestart ==
  /\ members' = dir
  /\ mem' = LoadState
  /\ login' = Idle
  /\ overwritten' = FALSE
  /\ UNCHANGED <<now, dir, file>>

Tick ==
  /\ now < MaxTime
  /\ now' = now + 1
  /\ UNCHANGED <<dir, members, mem, file, login, overwritten>>

PoolNext ==
  \/ \E a \in Accounts :
       \/ NoteError(a) \/ NoteSuccess(a) \/ Cooldown(a) \/ Disable(a)
       \/ Enable(a) \/ ClearCooldown(a) \/ RefreshToken(a)
       \/ AddAccount(a) \/ RemoveFile(a) \/ RestoreFile(a)
  \/ JudgeAbsent \/ CollectEntries \/ WriteEntries
  \/ SyncToDir \/ PoolRestart \/ Tick

PoolSpec == PoolInit /\ [][PoolNext]_poolVars

-----------------------------------------------------------------------------
PoolTypeOK ==
  /\ now \in Nat
  /\ dir \subseteq Accounts
  /\ members \subseteq Accounts
  /\ mem \in [Accounts -> Health]
  /\ file \in [Accounts -> Health]
  /\ login \in [phase : {"idle", "added", "taken"},
                snap : [Accounts -> Health], late : BOOLEAN]
  /\ overwritten \in BOOLEAN
  /\ \A a \in Accounts \ members : mem[a] = Fresh

\* Whoever goes by h is at least as strict on the account as with g.
AtLeastAsStrict(h, g) ==
  /\ h.err >= g.err
  /\ h.cool >= g.cool
  /\ g.dis => h.dis

(* state.json never falls behind on the side of leniency: although          *)
(* NoteSuccess, RefreshToken, SyncToDir and AddAccount change the pool      *)
(* without a save under the lock, the file is at least as strict on every   *)
(* member as the memory, unless a save of AddAccount that came late has     *)
(* replaced a newer file and nothing was saved since.                       *)
FileCoversMemory ==
  ~overwritten => \A a \in members : AtLeastAsStrict(file[a], mem[a])

(* So a restart makes no account usable that was not, and forgets none of   *)
(* the errors counted against it.                                           *)
RestartForgetsNothing ==
  [][PoolRestart /\ ~overwritten =>
       \A a \in members \cap dir : /\ Healthy(mem', a) => Healthy(mem, a)
                                   /\ mem'[a].err >= mem[a].err]_poolVars
=============================================================================
