-------------------------- MODULE PoolStateProofs ---------------------------
(***************************************************************************)
(* For any number of accounts and any thresholds, without the bounds of    *)
(* the model-checked instance mattering: state.json is never more lenient  *)
(* than the memory.  Every step either saves (Saves), or only makes the    *)
(* memory more lenient and leaves file and login alone (Softens), or is    *)
(* one of the two steps of AddAccount's detached save, or a restart.  The  *)
(* strengthening is that entries collected by that save cover the memory   *)
(* too, as long as no other save came in between (SnapCovers).             *)
(***************************************************************************)
EXTENDS PoolState, TLAPS

SnapCovers ==
  login.phase = "taken" /\ ~login.late =>
    \A a \in members : AtLeastAsStrict(login.snap[a], mem[a])

IInv == PoolTypeOK /\ FileCoversMemory /\ SnapCovers

LoginType == [phase : {"idle", "added", "taken"}, snap : [Accounts -> Health],
              late : BOOLEAN]

-----------------------------------------------------------------------------
(* Health records.                                                         *)

LEMMA FreshHealth == Fresh \in Health
  BY DEF Fresh, Health

LEMMA StrictReflexive ==
  ASSUME NEW h \in Health PROVE AtLeastAsStrict(h, h)
  BY DEF AtLeastAsStrict, Health

LEMMA StrictTransitive ==
  ASSUME NEW f \in Health, NEW g \in Health, NEW h \in Health,
         AtLeastAsStrict(f, g), AtLeastAsStrict(g, h)
  PROVE  AtLeastAsStrict(f, h)
  BY DEF AtLeastAsStrict, Health

LEMMA FreshLeast ==
  ASSUME NEW h \in Health PROVE AtLeastAsStrict(h, Fresh)
  BY DEF AtLeastAsStrict, Health, Fresh

LEMMA EntriesType ==
  ASSUME NEW m \in [Accounts -> Health], NEW ms
  PROVE  Entries(m, ms) \in [Accounts -> Health]
  BY FreshHealth DEF Entries

\* The entries of the members say what the members' records say.
LEMMA EntriesOfMembers ==
  ASSUME NEW m \in [Accounts -> Health], NEW ms, NEW a \in ms, a \in Accounts
  PROVE  Entries(m, ms)[a] = m[a]
  BY DEF Entries

-----------------------------------------------------------------------------
(* The kinds of steps.                                                     *)

MemType == /\ mem \in [Accounts -> Health]
           /\ \A a \in Accounts \ members : mem[a] = Fresh

Saves == Save /\ UNCHANGED <<dir, members>>

Softens ==
  /\ \A a \in Accounts : AtLeastAsStrict(mem[a], mem'[a])
  /\ UNCHANGED <<file, overwritten>>
  /\ login' = login \/ login'.phase = "added"

\* An operation on one member keeps the types.
LEMMA UpdateType ==
  ASSUME PoolTypeOK, NEW a \in Accounts, NEW h \in Health, Update(a, h),
         members' = members
  PROVE  MemType'
  BY DEF PoolTypeOK, Update, MemType

\* Softer records of one member soften the memory.
LEMMA UpdateSoftens ==
  ASSUME PoolTypeOK, NEW a \in Accounts, NEW h \in Health, Update(a, h),
         AtLeastAsStrict(mem[a], h)
  PROVE  \A b \in Accounts : AtLeastAsStrict(mem[b], mem'[b])
<1> SUFFICES ASSUME NEW b \in Accounts PROVE AtLeastAsStrict(mem[b], mem'[b])
  OBVIOUS
<1>1. mem[b] \in Health  BY DEF PoolTypeOK
<1>2. mem'[b] = IF b = a THEN h ELSE mem[b]  BY DEF PoolTypeOK, Update
<1> QED  BY <1>1, <1>2, StrictReflexive

\* A save leaves a file that covers the memory and spoils collected entries.
LEMMA SavesCover ==
  ASSUME PoolTypeOK, MemType', Saves
  PROVE  /\ file' \in [Accounts -> Health] /\ login' \in LoginType
         /\ overwritten' \in BOOLEAN
         /\ FileCoversMemory' /\ SnapCovers'
<1>1. file' \in [Accounts -> Health]  BY EntriesType DEF Saves, Save, MemType
<1>2. login' \in LoginType /\ overwritten' \in BOOLEAN
  BY DEF PoolTypeOK, LoginType, Saves, Save
<1>3. ASSUME NEW a \in members PROVE AtLeastAsStrict(file'[a], mem'[a])
  <2>1. a \in Accounts /\ mem'[a] \in Health
    BY <1>3 DEF PoolTypeOK, MemType
  <2>2. file'[a] = mem'[a]
    BY <1>3, <2>1, EntriesOfMembers DEF Saves, Save, MemType
  <2> QED  BY <2>1, <2>2, StrictReflexive
<1>4. FileCoversMemory'  BY <1>3 DEF FileCoversMemory, Saves
<1>5. SnapCovers'
  BY DEF PoolTypeOK, SnapCovers, Saves, Save
<1> QED  BY <1>1, <1>2, <1>4, <1>5

\* A record that covers the members covers everybody.
LEMMA CoversAll ==
  ASSUME PoolTypeOK, NEW f \in [Accounts -> Health],
         \A a \in members : AtLeastAsStrict(f[a], mem[a])
  PROVE  \A a \in Accounts : AtLeastAsStrict(f[a], mem[a])
<1> SUFFICES ASSUME NEW a \in Accounts \ members
             PROVE  AtLeastAsStrict(f[a], mem[a])
  OBVIOUS
<1>1. mem[a] = Fresh /\ f[a] \in Health  BY DEF PoolTypeOK
<1> QED  BY <1>1, FreshLeast

\* So a step that only softens the memory keeps the cover, new members
\* included.
LEMMA SoftensCovers ==
  ASSUME IInv, MemType', members' \subseteq Accounts, Softens
  PROVE  FileCoversMemory' /\ SnapCovers'
<1>1. ASSUME NEW f \in [Accounts -> Health],
             \A a \in members : AtLeastAsStrict(f[a], mem[a])
      PROVE  \A a \in members' : AtLeastAsStrict(f[a], mem'[a])
  <2> SUFFICES ASSUME NEW a \in members' PROVE AtLeastAsStrict(f[a], mem'[a])
    OBVIOUS
  <2>1. a \in Accounts  OBVIOUS
  <2>2. AtLeastAsStrict(f[a], mem[a])  BY <1>1, <2>1, CoversAll DEF IInv
  <2>3. AtLeastAsStrict(mem[a], mem'[a])  BY <2>1 DEF Softens
  <2>4. f[a] \in Health /\ mem[a] \in Health /\ mem'[a] \in Health
    BY <2>1, <1>1 DEF IInv, PoolTypeOK, MemType
  <2> QED  BY <2>2, <2>3, <2>4, StrictTransitive
<1>2. FileCoversMemory'
  BY <1>1 DEF IInv, PoolTypeOK, FileCoversMemory, Softens
<1>3. SnapCovers'
  <2>1. CASE login' = login
    <3>1. login.snap \in [Accounts -> Health]  BY DEF IInv, PoolTypeOK
    <3> QED  BY <1>1, <2>1, <3>1 DEF IInv, SnapCovers
  <2>2. CASE login'.phase = "added"  BY <2>2 DEF SnapCovers
  <2> QED  BY <2>1, <2>2 DEF Softens
<1> QED  BY <1>2, <1>3

-----------------------------------------------------------------------------
(* The operations.                                                         *)

\* The records that the operations write.
LEMMA Records ==
  ASSUME PoolTypeOK, NEW a \in Accounts
  PROVE  /\ mem[a] \in Health
         /\ \A n, c \in Nat : [mem[a] EXCEPT !.err = n, !.cool = c] \in Health
         /\ \A n \in Nat : [mem[a] EXCEPT !.err = n] \in Health
         /\ \A c \in Nat : [mem[a] EXCEPT !.cool = c] \in Health
         /\ \A d \in BOOLEAN : [mem[a] EXCEPT !.dis = d] \in Health
         /\ AtLeastAsStrict(mem[a], [mem[a] EXCEPT !.err = 0])
         /\ AtLeastAsStrict(mem[a], [mem[a] EXCEPT !.dis = FALSE])
<1>1. mem[a] \in Health  BY DEF PoolTypeOK
<1>2. ASSUME NEW n \in Nat, NEW c \in Nat
      PROVE  [mem[a] EXCEPT !.err = n, !.cool = c] \in Health
  BY <1>1 DEF Health
<1>3. /\ \A n \in Nat : [mem[a] EXCEPT !.err = n] \in Health
      /\ \A c \in Nat : [mem[a] EXCEPT !.cool = c] \in Health
      /\ \A d \in BOOLEAN : [mem[a] EXCEPT !.dis = d] \in Health
  BY <1>1 DEF Health
<1>4. /\ AtLeastAsStrict(mem[a], [mem[a] EXCEPT !.err = 0])
      /\ AtLeastAsStrict(mem[a], [mem[a] EXCEPT !.dis = FALSE])
  BY <1>1 DEF Health, AtLeastAsStrict
<1> QED  BY <1>1, <1>2, <1>3, <1>4

\* Every judgement but a success saves, as every order of the panel does.
LEMMA JudgementsSave ==
  ASSUME IInv, NEW a \in Accounts,
         NoteError(a) \/ Cooldown(a) \/ Disable(a) \/ Enable(a) \/ ClearCooldown(a)
  PROVE  Saves /\ MemType' /\ now' = now
<1> USE PoolStateAssumption
<1>1. PoolTypeOK  BY DEF IInv
<1>2. now \in Nat /\ now + SoftCooldown \in Nat /\ now + ErrCooldown \in Nat
  BY <1>1 DEF PoolTypeOK
<1>3. mem[a].err + 1 \in Nat /\ mem[a].cool \in Nat
  BY <1>1 DEF PoolTypeOK, Health
<1>4. CASE NoteError(a)
  <2> DEFINE n == mem[a].err + 1
             c == IF n >= ErrThreshold THEN now + ErrCooldown ELSE mem[a].cool
             h == [mem[a] EXCEPT !.err = n, !.cool = c]
  <2>1. h \in Health  BY <1>1, <1>2, <1>3, Records
  <2>2. h = [mem[a] EXCEPT !.err = n,
               !.cool = IF n >= ErrThreshold THEN now + ErrCooldown ELSE @]
    OBVIOUS
  <2>3. Update(a, h)  BY <1>4, <2>2 DEF NoteError
  <2> QED  BY <1>1, <1>4, <2>1, <2>3, UpdateType DEF NoteError, Saves
<1>5. CASE Cooldown(a)
  BY <1>1, <1>2, <1>5, Records, UpdateType DEF Cooldown, Saves
<1>6. CASE Disable(a)
  BY <1>1, <1>6, Records, UpdateType DEF Disable, Saves
<1>7. CASE Enable(a)
  BY <1>1, <1>7, Records, UpdateType DEF Enable, Saves
<1>8. CASE ClearCooldown(a)
  BY <1>1, <1>8, Records, UpdateType DEF ClearCooldown, Saves
<1> QED  BY <1>4, <1>5, <1>6, <1>7, <1>8

\* The unsaved judgements make the memory more lenient, never stricter.
LEMMA UnsavedSoften ==
  ASSUME IInv, NEW a \in Accounts, NoteSuccess(a) \/ RefreshToken(a)
  PROVE  Softens /\ MemType' /\ UNCHANGED <<now, dir, members, login>>
<1>1. PoolTypeOK  BY DEF IInv
<1>2. CASE NoteSuccess(a)
  <2> DEFINE h == [mem[a] EXCEPT !.err = 0]
  <2>1. h \in Health /\ AtLeastAsStrict(mem[a], h)  BY <1>1, Records
  <2>2. Update(a, h) /\ UNCHANGED <<now, dir, members, file, login, overwritten>>
    BY <1>2 DEF NoteSuccess
  <2> QED  BY <1>1, <2>1, <2>2, UpdateType, UpdateSoftens DEF Softens
<1>3. CASE RefreshToken(a)
  <2> DEFINE h == [mem[a] EXCEPT !.dis = FALSE]
  <2>1. h \in Health /\ AtLeastAsStrict(mem[a], h)  BY <1>1, Records
  <2>2. Update(a, h) /\ UNCHANGED <<now, dir, members, file, login, overwritten>>
    BY <1>3 DEF RefreshToken
  <2> QED  BY <1>1, <2>1, <2>2, UpdateType, UpdateSoftens DEF Softens
<1> QED  BY <1>2, <1>3

\* A login lifts a ban, or adds a fresh account, before it saves.
LEMMA AddAccountSoftens ==
  ASSUME IInv, NEW a \in Accounts, AddAccount(a)
  PROVE  Softens /\ MemType' /\ members' \subseteq Accounts
<1>1. PoolTypeOK  BY DEF IInv
<1> DEFINE h == [mem[a] EXCEPT !.dis = FALSE]
<1>2. h \in Health /\ AtLeastAsStrict(mem[a], h)  BY <1>1, Records
<1>3. mem' = [mem EXCEPT ![a] = h]  BY DEF AddAccount
<1>4. members' = members \cup {a}  BY DEF AddAccount
<1>5. mem' \in [Accounts -> Health]  BY <1>1, <1>2, <1>3 DEF PoolTypeOK
<1>6. \A b \in Accounts \ members' : mem'[b] = Fresh
  BY <1>1, <1>3, <1>4 DEF PoolTypeOK
<1>7. ASSUME NEW b \in Accounts PROVE AtLeastAsStrict(mem[b], mem'[b])
  <2>1. mem[b] \in Health  BY <1>1 DEF PoolTypeOK
  <2>2. mem'[b] = IF b = a THEN h ELSE mem[b]  BY <1>1, <1>3 DEF PoolTypeOK
  <2> QED  BY <1>2, <2>1, <2>2, StrictReflexive
<1>8. login'.phase = "added"  BY <1>1 DEF PoolTypeOK, AddAccount
<1>9. UNCHANGED <<file, overwritten>>  BY DEF AddAccount
<1>10. members' \subseteq Accounts  BY <1>1, <1>4 DEF PoolTypeOK
<1>11. Softens  BY <1>7, <1>8, <1>9 DEF Softens
<1> QED  BY <1>5, <1>6, <1>10, <1>11 DEF MemType

\* A reload keeps the records of the accounts that stay and starts afresh with
\* the others.
LEMMA SyncToDirSoftens ==
  ASSUME IInv, SyncToDir
  PROVE  Softens /\ MemType'
<1>1. PoolTypeOK  BY DEF IInv
<1> DEFINE kept == members \cap dir
<1>2. mem' = Entries(mem, kept) /\ members' = dir /\ UNCHANGED <<file, login, overwritten>>
  BY DEF SyncToDir
<1>3. mem' \in [Accounts -> Health]  BY <1>1, <1>2, EntriesType DEF PoolTypeOK
<1>4. \A b \in Accounts \ members' : mem'[b] = Fresh
  BY <1>2 DEF Entries
<1>5. ASSUME NEW b \in Accounts PROVE AtLeastAsStrict(mem[b], mem'[b])
  <2>1. mem[b] \in Health  BY <1>1 DEF PoolTypeOK
  <2>2. mem'[b] = IF b \in kept THEN mem[b] ELSE Fresh  BY <1>2 DEF Entries
  <2> QED  BY <2>1, <2>2, StrictReflexive, FreshLeast
<1> QED  BY <1>2, <1>3, <1>4, <1>5 DEF Softens, MemType

-----------------------------------------------------------------------------
(* The invariant.                                                          *)

LEMMA InitIInv == ASSUME PoolInit PROVE IInv
<1> USE FreshHealth DEF PoolInit
<1>1. NoSnap \in [Accounts -> Health]  BY DEF NoSnap
<1>2. Idle \in LoginType /\ Idle.phase = "idle"
  BY <1>1 DEF Idle, LoginType
<1>3. PoolTypeOK  BY <1>1, <1>2 DEF PoolTypeOK, LoginType, NoSnap
<1>4. FileCoversMemory
  <2>1. ASSUME NEW a \in members PROVE AtLeastAsStrict(file[a], mem[a])
    <3>1. a \in Accounts  OBVIOUS
    <3>2. file[a] = Fresh /\ mem[a] = Fresh  BY <3>1 DEF NoSnap
    <3> QED  BY <3>2, StrictReflexive
  <2> QED  BY <2>1 DEF FileCoversMemory
<1>5. SnapCovers  BY <1>2 DEF SnapCovers
<1> QED  BY <1>3, <1>4, <1>5 DEF IInv

\* A step that saves keeps the invariant, whoever it judges.
LEMMA SavingStep ==
  ASSUME IInv, Saves, MemType', now' = now
  PROVE  IInv'
<1>1. PoolTypeOK  BY DEF IInv
<1>2. /\ file' \in [Accounts -> Health] /\ login' \in LoginType
      /\ overwritten' \in BOOLEAN
      /\ FileCoversMemory' /\ SnapCovers'
  BY <1>1, SavesCover
<1>3. PoolTypeOK'  BY <1>1, <1>2 DEF PoolTypeOK, MemType, LoginType, Saves
<1> QED  BY <1>2, <1>3 DEF IInv

\* So does one that softens the memory.
LEMMA SofteningStep ==
  ASSUME IInv, Softens, MemType', members' \subseteq Accounts, dir' \subseteq Accounts,
         now' \in Nat, login' \in LoginType
  PROVE  IInv'
<1>1. PoolTypeOK  BY DEF IInv
<1>2. PoolTypeOK'  BY <1>1 DEF PoolTypeOK, MemType, LoginType, Softens
<1>3. FileCoversMemory' /\ SnapCovers'  BY SoftensCovers
<1> QED  BY <1>2, <1>3 DEF IInv

\* Nothing happens to the memory.
LEMMA MemoryStays ==
  ASSUME IInv, UNCHANGED <<members, mem>>
  PROVE  MemType' /\ members' \subseteq Accounts
         /\ \A a \in Accounts : AtLeastAsStrict(mem[a], mem'[a])
<1>1. ASSUME NEW a \in Accounts PROVE AtLeastAsStrict(mem[a], mem'[a])
  BY StrictReflexive DEF IInv, PoolTypeOK
<1> QED  BY <1>1 DEF IInv, PoolTypeOK, MemType

LEMMA StepIInv == ASSUME IInv, [PoolNext]_poolVars PROVE IInv'
<1>1. PoolTypeOK  BY DEF IInv
<1> DEFINE covers(f) == \A a \in members : AtLeastAsStrict(f[a], mem[a])
<1>2. ASSUME NEW a \in Accounts,
             NoteError(a) \/ Cooldown(a) \/ Disable(a) \/ Enable(a) \/ ClearCooldown(a)
      PROVE  IInv'
  BY <1>2, JudgementsSave, SavingStep
<1>3. ASSUME NEW a \in Accounts, NoteSuccess(a) \/ RefreshToken(a)
      PROVE  IInv'
  <2>1. Softens /\ MemType' /\ UNCHANGED <<now, dir, members, login>>
    BY <1>3, UnsavedSoften
  <2>2. /\ members' \subseteq Accounts /\ dir' \subseteq Accounts
        /\ now' \in Nat /\ login' \in LoginType
    BY <1>1, <2>1 DEF PoolTypeOK, LoginType
  <2> QED  BY <2>1, <2>2, SofteningStep
<1>4. ASSUME NEW a \in Accounts, AddAccount(a)
      PROVE  IInv'
  <2>1. Softens /\ MemType' /\ members' \subseteq Accounts
    BY <1>4, AddAccountSoftens
  <2>2. login' \in LoginType  BY <1>1, <1>4 DEF PoolTypeOK, LoginType, AddAccount
  <2>3. dir' \subseteq Accounts /\ now' \in Nat
    BY <1>1, <1>4 DEF PoolTypeOK, AddAccount
  <2> QED  BY <2>1, <2>2, <2>3, SofteningStep
<1>5. ASSUME NEW a \in Accounts, RemoveFile(a) \/ RestoreFile(a)
      PROVE  IInv'
  <2>1. UNCHANGED <<now, members, mem, file, login, overwritten>>
    BY <1>5 DEF RemoveFile, RestoreFile
  <2>2. dir' \subseteq Accounts  BY <1>1, <1>5 DEF PoolTypeOK, RemoveFile, RestoreFile
  <2>3. now' \in Nat /\ login' \in LoginType  BY <1>1, <2>1 DEF PoolTypeOK, LoginType
  <2>4. Softens  BY <2>1, MemoryStays DEF Softens
  <2> QED  BY <2>1, <2>2, <2>3, <2>4, MemoryStays, SofteningStep
<1>6. CASE JudgeAbsent
  <2>1. Saves /\ mem' = mem /\ members' = members /\ now' = now
    BY <1>6 DEF JudgeAbsent, Saves
  <2> QED  BY <2>1, MemoryStays, SavingStep
<1>7. CASE CollectEntries
  <2>1. UNCHANGED <<now, dir, members, mem, file, overwritten>>
    BY <1>7 DEF CollectEntries
  <2>2. login' = [phase |-> "taken", snap |-> Entries(mem, members), late |-> FALSE]
    BY <1>7 DEF CollectEntries
  <2>3. Entries(mem, members) \in [Accounts -> Health]
    BY <1>1, EntriesType DEF PoolTypeOK
  <2>4. PoolTypeOK'  BY <1>1, <2>1, <2>2, <2>3 DEF PoolTypeOK
  <2>5. FileCoversMemory'  BY <2>1 DEF IInv, FileCoversMemory
  <2>6. ASSUME NEW a \in members
        PROVE  AtLeastAsStrict(Entries(mem, members)[a], mem[a])
    <3>1. a \in Accounts /\ mem[a] \in Health  BY <1>1 DEF PoolTypeOK
    <3>2. Entries(mem, members)[a] = mem[a]  BY <1>1, <3>1, EntriesOfMembers DEF PoolTypeOK
    <3> QED  BY <3>1, <3>2, StrictReflexive
  <2>7. SnapCovers'  BY <2>1, <2>2, <2>6 DEF SnapCovers
  <2> QED  BY <2>4, <2>5, <2>7 DEF IInv
<1>8. CASE WriteEntries
  <2>1. /\ login.phase = "taken" /\ file' = login.snap /\ overwritten' = login.late
        /\ login' = Idle /\ UNCHANGED <<now, dir, members, mem>>
    BY <1>8 DEF WriteEntries
  <2>2. Idle \in LoginType /\ Idle.phase = "idle"
    BY FreshHealth DEF Idle, NoSnap, LoginType
  <2>3. PoolTypeOK'  BY <1>1, <2>1, <2>2 DEF PoolTypeOK, LoginType
  <2>4. FileCoversMemory'  BY <2>1 DEF IInv, SnapCovers, FileCoversMemory
  <2>5. SnapCovers'  BY <2>1, <2>2 DEF SnapCovers
  <2> QED  BY <2>3, <2>4, <2>5 DEF IInv
<1>9. CASE SyncToDir
  <2>1. Softens /\ MemType'  BY <1>9, SyncToDirSoftens
  <2>2. /\ members' \subseteq Accounts /\ dir' \subseteq Accounts
        /\ now' \in Nat /\ login' \in LoginType
    BY <1>1, <1>9 DEF PoolTypeOK, LoginType, SyncToDir
  <2> QED  BY <2>1, <2>2, SofteningStep
<1>10. CASE PoolRestart
  <2>1. /\ members' = dir /\ mem' = Entries(file, dir) /\ login' = Idle
        /\ overwritten' = FALSE /\ UNCHANGED <<now, dir, file>>
    BY <1>10 DEF PoolRestart, LoadState
  <2>2. Idle \in LoginType /\ Idle.phase = "idle"
    BY FreshHealth DEF Idle, NoSnap, LoginType
  <2>3. mem' \in [Accounts -> Health]  BY <1>1, <2>1, EntriesType DEF PoolTypeOK
  <2>4. \A a \in Accounts \ members' : mem'[a] = Fresh  BY <2>1 DEF Entries
  <2>5. PoolTypeOK'  BY <1>1, <2>1, <2>2, <2>3, <2>4 DEF PoolTypeOK, LoginType
  <2>6. ASSUME NEW a \in members' PROVE AtLeastAsStrict(file'[a], mem'[a])
    <3>1. a \in dir /\ a \in Accounts /\ file[a] \in Health
      BY <1>1, <2>1, <2>6 DEF PoolTypeOK
    <3>2. mem'[a] = file[a]  BY <2>1, <3>1 DEF Entries
    <3> QED  BY <2>1, <3>1, <3>2, StrictReflexive
  <2>7. FileCoversMemory'  BY <2>6 DEF FileCoversMemory
  <2>8. SnapCovers'  BY <2>1, <2>2 DEF SnapCovers
  <2> QED  BY <2>5, <2>7, <2>8 DEF IInv
<1>11. CASE Tick
  <2>1. now' \in Nat /\ UNCHANGED <<dir, members, mem, file, login, overwritten>>
    BY <1>1, <1>11 DEF PoolTypeOK, Tick
  <2>2. dir' \subseteq Accounts /\ login' \in LoginType
    BY <1>1, <2>1 DEF PoolTypeOK, LoginType
  <2>3. Softens  BY <2>1, MemoryStays DEF Softens
  <2> QED  BY <2>1, <2>2, <2>3, MemoryStays, SofteningStep
<1>12. CASE UNCHANGED poolVars
  BY <1>12 DEF poolVars, IInv, PoolTypeOK, FileCoversMemory, SnapCovers, AtLeastAsStrict
<1> QED  BY <1>2, <1>3, <1>4, <1>5, <1>6, <1>7, <1>8, <1>9, <1>10, <1>11, <1>12 DEF PoolNext

LEMMA Invariant == PoolSpec => []IInv
  BY InitIInv, StepIInv, PTL DEF PoolSpec

\* In every reachable state the records have their types, and whoever is not
\* in the pool has no record that a later login could inherit.
THEOREM TypeCorrect == PoolSpec => []PoolTypeOK
<1>1. IInv => PoolTypeOK  BY DEF IInv
<1> QED  BY <1>1, Invariant, PTL

\* state.json is at least as strict on every member as the memory, unless a
\* late save of AddAccount has replaced it and nothing was saved since.
THEOREM FileIsCautious == PoolSpec => []FileCoversMemory
<1>1. IInv => FileCoversMemory  BY DEF IInv
<1> QED  BY <1>1, Invariant, PTL

\* A restart at any moment makes no account usable that was not, and forgets
\* none of the errors counted against it.
THEOREM RestartIsCautious == PoolSpec => RestartForgetsNothing
<1>1. ASSUME IInv, PoolRestart, ~overwritten, NEW a \in members \cap dir
      PROVE  /\ Healthy(mem', a) => Healthy(mem, a)
             /\ mem'[a].err >= mem[a].err
  <2>1. a \in Accounts /\ file[a] \in Health /\ mem[a] \in Health /\ now \in Nat
    BY <1>1 DEF IInv, PoolTypeOK
  <2>2. mem'[a] = file[a]  BY <1>1, <2>1 DEF PoolRestart, LoadState, Entries
  <2>3. AtLeastAsStrict(file[a], mem[a])  BY <1>1 DEF IInv, FileCoversMemory
  <2> QED  BY <2>1, <2>2, <2>3 DEF Health, Healthy, AtLeastAsStrict
<1>2. IInv => (PoolRestart /\ ~overwritten =>
        \A a \in members \cap dir : /\ Healthy(mem', a) => Healthy(mem, a)
                                    /\ mem'[a].err >= mem[a].err)
  BY <1>1
<1> QED  BY <1>2, Invariant, PTL DEF RestartForgetsNothing
=============================================================================
