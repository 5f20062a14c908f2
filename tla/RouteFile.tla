------------------------------ MODULE RouteFile -----------------------------
(***************************************************************************)
(* The sticky routes of conversations and their file (saveChats,           *)
(* loadChats): a chat notes its account under convMu, takes a snapshot     *)
(* under convMu again, and writes it outside the lock to a temporary file  *)
(* whose name all writers share, which is then renamed over the file.      *)
(* saveModelCache writes the list of models in the same way.               *)
(*                                                                         *)
(* Names and files are told apart as a file system does: a name refers to  *)
(* a file, and a writer keeps its file when the name is moved away.        *)
(***************************************************************************)
EXTENDS Serving

CONSTANTS
  Conversations, RouteAccounts, NoAcct,
  Files,       \* files on disk that may exist at a time
  NoFile

ASSUME RouteFileAssumption ==
  /\ Conversations # {} /\ NoAcct \notin RouteAccounts
  /\ NoFile \notin Files

VARIABLES
  routes,      \* convAcct
  disk,        \* what is in a file
  tmp, path,   \* the files behind the two names
  save,        \* the save a handler is at work on
  mixed,       \* history: a save overlapped another since the last lone one
  behind       \* history: no lone save succeeded since one failed, or since
               \* a start that dropped old routes

routeVars == <<routes, disk, tmp, path, save, mixed, behind>>

Routes == [Conversations -> RouteAccounts \cup {NoAcct}]
NoRoutes == [c \in Conversations |-> NoAcct]

\* A file holds a snapshot, or what does not parse.
Whole(r) == [whole |-> TRUE, routes |-> r]
Torn == [whole |-> FALSE, routes |-> NoRoutes]
Content == {Torn} \cup {Whole(r) : r \in Routes}

NoSave == [pc |-> "none", conv |-> CHOOSE c \in Conversations : TRUE,
           raw |-> NoRoutes, file |-> NoFile, alone |-> TRUE]

RoutesInit ==
  /\ routes = NoRoutes
  /\ disk = [f \in Files |-> Torn]
  /\ tmp = NoFile
  /\ path = NoFile
  /\ save = [h \in Handlers |-> NoSave]
  /\ mixed = FALSE
  /\ behind = FALSE

-----------------------------------------------------------------------------
(* storeChat and saveChats.                                                *)

AtSave(h, pc) == serving[h] = "chat" /\ save[h].pc = pc

\* storeChat: the route is noted under convMu.
NoteRoute(h, c, a) ==
  /\ Accept(h, "chat")
  /\ routes' = [routes EXCEPT ![c] = a]
  /\ save' = [g \in Handlers |->
       IF g = h THEN [NoSave EXCEPT !.pc = "snapshot", !.conv = c,
                                    !.alone = Others(h, "chat") = {}]
       ELSE [save[g] EXCEPT !.alone = FALSE]]
  /\ mixed' = (mixed \/ Others(h, "chat") # {})
  /\ UNCHANGED <<disk, tmp, path, behind>>

\* saveChats under convMu: routes not used for a week are dropped, which no
\* route of a chat under way is, and the rest is the text to write.
Prune(old) == [c \in Conversations |-> IF c \in old THEN NoAcct ELSE routes[c]]

\* Mutant: the text is made before the old routes are dropped.
SnapshotUnpruned(h) ==
  /\ AtSave(h, "snapshot")
  /\ \E old \in SUBSET {c \in Conversations :
         \A g \in Handlers : serving[g] = "chat" => save[g].conv # c} :
       /\ routes' = Prune(old)
       /\ save' = [save EXCEPT ![h].pc = "open", ![h].raw = routes]
  /\ GoOn
  /\ UNCHANGED <<disk, tmp, path, mixed, behind>>

Snapshot(h) ==
  /\ AtSave(h, "snapshot")
  /\ \E old \in SUBSET {c \in Conversations :
         \A g \in Handlers : serving[g] = "chat" => save[g].conv # c} :
       /\ routes' = Prune(old)
       /\ save' = [save EXCEPT ![h].pc = "open", ![h].raw = Prune(old)]
  /\ GoOn
  /\ UNCHANGED <<disk, tmp, path, mixed, behind>>

InUse == {tmp, path} \cup {save[h].file : h \in Handlers}

\* Mutant: the file itself is written, not a temporary one.
OpenInPlace(h) ==
  /\ AtSave(h, "open")
  /\ \E f \in Files :
       /\ IF path # NoFile THEN f = path ELSE f \notin InUse
       /\ tmp' = NoFile /\ path' = f
       /\ disk' = [disk EXCEPT ![f] = Torn]
       /\ save' = [save EXCEPT ![h].pc = "write", ![h].file = f]
  /\ GoOn
  /\ UNCHANGED <<routes, mixed, behind>>

\* os.WriteFile opens the temporary name: a file already there is emptied,
\* else there is a new one.
Open(h) ==
  /\ AtSave(h, "open")
  /\ \E f \in Files :
       /\ IF tmp # NoFile THEN f = tmp ELSE f \notin InUse
       /\ tmp' = f
       /\ disk' = [disk EXCEPT ![f] = Torn]
       /\ save' = [save EXCEPT ![h].pc = "write", ![h].file = f]
  /\ GoOn
  /\ UNCHANGED <<routes, path, mixed, behind>>

\* The text is written from the start of the file that was opened: over a
\* longer one of another writer an end of that stays.
Write(h) ==
  /\ AtSave(h, "write")
  /\ LET f == save[h].file
         new == Whole(save[h].raw) IN
     disk' \in {[disk EXCEPT ![f] = new]} \cup
       (IF disk[f] \in {Torn, new} THEN {} ELSE {[disk EXCEPT ![f] = Torn]})
  /\ save' = [save EXCEPT ![h].pc = "rename", ![h].raw = NoRoutes, ![h].file = NoFile]
  /\ GoOn
  /\ UNCHANGED <<routes, tmp, path, mixed, behind>>

\* Opening, writing or renaming fails: the save is given up without a word.
GiveUp(h) ==
  /\ \E pc \in {"open", "write", "rename"} : AtSave(h, pc)
  /\ save' = [save EXCEPT ![h] = NoSave]
  /\ behind' = TRUE
  /\ Finish(h)
  /\ UNCHANGED <<routes, disk, tmp, path, mixed>>

\* A file that lost its name is gone, unless somebody has it open.
Without(f) ==
  [g \in Files |-> IF g = f /\ \A h \in Handlers : save[h].file # f
                   THEN Torn ELSE disk[g]]

\* Whatever the temporary name refers to by now becomes the file; when
\* another save has moved it away, the rename fails.
Rename(h) ==
  /\ AtSave(h, "rename")
  /\ IF tmp = NoFile THEN UNCHANGED <<tmp, path, disk>>
     ELSE tmp' = NoFile /\ path' = tmp /\ disk' = Without(path)
  /\ save' = [save EXCEPT ![h] = NoSave]
  /\ mixed' = (mixed /\ ~save[h].alone)
  /\ behind' = (behind /\ ~save[h].alone)
  /\ Finish(h)
  /\ UNCHANGED routes

RoutesNext ==
  \E h \in Handlers :
    \/ \E c \in Conversations, a \in RouteAccounts : NoteRoute(h, c, a)
    \/ Snapshot(h) \/ Open(h) \/ Write(h) \/ GiveUp(h) \/ Rename(h)

\* loadChats: a file that does not parse leaves no routes, and old routes are
\* dropped.  The names and the files are what the exit left.
Loaded == IF path = NoFile THEN NoRoutes ELSE disk[path].routes

RoutesRestart ==
  /\ \E old \in SUBSET {c \in Conversations : Loaded[c] # NoAcct} :
       /\ routes' = [c \in Conversations |-> IF c \in old THEN NoAcct ELSE Loaded[c]]
       /\ behind' = (old # {})
  /\ save' = [h \in Handlers |-> NoSave]
  /\ disk' = [f \in Files |-> IF f \in {tmp, path} THEN disk[f] ELSE Torn]
  /\ UNCHANGED <<tmp, path, mixed>>

-----------------------------------------------------------------------------
(* Properties.                                                             *)

RoutesTypeOK ==
  /\ routes \in Routes
  /\ disk \in [Files -> Content]
  /\ tmp \in Files \cup {NoFile} /\ path \in Files \cup {NoFile}
  /\ save \in [Handlers -> [pc : {"none", "snapshot", "open", "write", "rename"},
                conv : Conversations, raw : Routes,
                file : Files \cup {NoFile}, alone : BOOLEAN]]
  /\ mixed \in BOOLEAN /\ behind \in BOOLEAN

\* The file can be read at every moment, so that an exit at that moment loses
\* no conversation's account, unless two saves have overlapped since the last
\* one that ran alone.
ReadableUnlessMixed == path # NoFile /\ ~mixed => disk[path].whole

\* When no chat is under way, and no overlap, failure or dropping at the start
\* is left to make up for, the file says what the memory says: a restart moves
\* no conversation.
QuietFileAgrees ==
  (\A h \in Handlers : serving[h] # "chat") /\ ~mixed /\ ~behind => Loaded = routes

=============================================================================
