------------------------------ MODULE Settings ------------------------------
(***************************************************************************)
(* The settings of the panel's configuration page: config.json and the     *)
(* environment give a base, PUT /admin/api/config writes an overlay in     *)
(* memory and in data/settings.json, and a start merges the two.  A PUT    *)
(* holds settings.mu for the overlay only: it applies the hot settings,    *)
(* replaces the file and brings WatchInfo up to date after the unlock, so  *)
(* two PUTs interleave there.                                              *)
(*                                                                         *)
(* A setting is a field with one value out of a small set; None stands for *)
(* a nil pointer, Bad for every value that validate() and normalize()      *)
(* refuse.                                                                 *)
(***************************************************************************)
EXTENDS Serving

CONSTANTS
  Fields,       \* the settings of the page
  Hot,          \* those that take effect at once (benefit_auto_claim)
  Announced,    \* those a start puts into WatchInfo
  Values,       \* what a field may be
  None, Bad,
  Configured,   \* config.json and CA2A_* as they are written
  Default       \* config.Default

ASSUME SettingsAssumption ==
  /\ Hot \subseteq Fields /\ Announced \subseteq Fields
  /\ None \notin Values /\ Bad \notin Values /\ None # Bad
  /\ "file" \notin Fields
  /\ Configured \in [Fields -> Values \cup {Bad}]
  /\ Default \in [Fields -> Values]

VARIABLES
  overlay,      \* settingsStore.overlay
  settings,     \* data/settings.json
  effective,    \* what the pool, the scheduler and the client run with
  watchInfo,    \* Config.WatchInfo, None where it has no value
  put,          \* the PUT a handler is at work on
  touched,      \* history: fields that a PUT has ever set
  stale         \* history: files and fields a PUT may have left behind

settingsVars == <<overlay, settings, effective, watchInfo, put, touched, stale>>

Overlay == [Fields -> Values \cup {None}]
Empty == [f \in Fields |-> None]
NoPut == [pc |-> "none", payload |-> Empty, raw |-> Empty, alone |-> TRUE]

\* Every field that is set in upper, over lower.
Over(upper, lower) ==
  [f \in Fields |-> IF upper[f] # None THEN upper[f] ELSE lower[f]]

\* GET /admin/api/config: what the page shows, None for false or empty.
Page == Over(overlay, watchInfo)

\* Load: what normalize() refuses is replaced by the default.
Base == [f \in Fields |-> IF Configured[f] = Bad THEN Default[f] ELSE Configured[f]]

\* What a start puts into WatchInfo.
AtStart(values) == [f \in Fields |-> IF f \in Announced THEN values[f] ELSE None]

SettingsInit ==
  /\ overlay = Empty
  /\ settings = Empty
  /\ effective = Base
  /\ watchInfo = AtStart(Base)
  /\ put = [h \in Handlers |-> NoPut]
  /\ touched = {}
  /\ stale = {}

-----------------------------------------------------------------------------
(* PUT /admin/api/config.                                                  *)

\* Mutant: the page's values are taken as they come.
ValidateNothing(payload) == payload # Empty

\* A request with a field that validate() refuses is answered 400 and changes
\* nothing.
Validate(payload) == payload # Empty /\ \A f \in Fields : payload[f] # Bad

\* Mutant: the overlay is filled up with what is in effect.
MergedWithAll(payload) == Over(payload, Over(overlay, effective))

Merged(payload) == Over(payload, overlay)

\* What two PUTs at once may leave behind: the file, and the hot fields.
PutStale == {"file"} \cup Hot

\* Under settings.mu: the submitted fields go into the overlay, and the text
\* for the file is made.
SaveOverlay(h, payload) ==
  /\ Validate(payload)
  /\ Accept(h, "put")
  /\ overlay' = Merged(payload)
  /\ put' = [g \in Handlers |->
       IF g = h THEN [pc |-> "live", payload |-> payload, raw |-> Merged(payload),
                      alone |-> Others(h, "put") = {}]
       ELSE [put[g] EXCEPT !.alone = FALSE]]
  /\ touched' = touched \cup {f \in Fields : payload[f] # None}
  /\ stale' = IF Others(h, "put") = {} THEN stale ELSE PutStale
  /\ UNCHANGED <<settings, effective, watchInfo>>

At(h, pc) == serving[h] = "put" /\ put[h].pc = pc

\* A hot field of the request takes effect.
SetLive(h) ==
  /\ At(h, "live")
  /\ effective' = [f \in Fields |->
       IF f \in Hot /\ put[h].payload[f] # None THEN put[h].payload[f] ELSE effective[f]]
  /\ stale' = IF put[h].alone
              THEN stale \ {f \in Hot : put[h].payload[f] # None} ELSE stale
  /\ put' = [put EXCEPT ![h].pc = "file", ![h].payload = Empty]
  /\ GoOn
  /\ UNCHANGED <<overlay, settings, watchInfo, touched>>

\* Mutant: the temporary file is not renamed.
WriteFileNowhere(h) ==
  /\ UNCHANGED settings
  /\ stale' = IF put[h].alone THEN stale \ {"file"} ELSE stale

\* A temporary file of its own is renamed over the file.
WriteFile(h) ==
  /\ settings' = put[h].raw
  /\ stale' = IF put[h].alone THEN stale \ {"file"} ELSE stale

\* Directory, temporary file or write failed: the old file stays, and the
\* request is answered as a success all the same.
WriteFails ==
  /\ stale' = stale \cup {"file"}
  /\ UNCHANGED settings

Persist(h) ==
  /\ At(h, "file")
  /\ WriteFile(h) \/ WriteFails
  /\ put' = [put EXCEPT ![h].pc = "watch", ![h].raw = Empty]
  /\ GoOn
  /\ UNCHANGED <<overlay, effective, watchInfo, touched>>

\* Mutant: nothing is brought up to date.
SyncWatchInfoNever(h) ==
  /\ At(h, "watch")
  /\ Finish(h)
  /\ put' = [put EXCEPT ![h] = NoPut]
  /\ UNCHANGED <<overlay, settings, effective, watchInfo, touched, stale>>

\* o points at the overlay, which is read without the lock by now.
SyncWatchInfo(h) ==
  /\ At(h, "watch")
  /\ watchInfo' = Over(overlay, watchInfo)
  /\ Finish(h)
  /\ put' = [put EXCEPT ![h] = NoPut]
  /\ UNCHANGED <<overlay, settings, effective, touched, stale>>

SettingsNext ==
  \E h \in Handlers :
    \/ \E payload \in [Fields -> Values \cup {None, Bad}] : SaveOverlay(h, payload)
    \/ SetLive(h) \/ Persist(h) \/ SyncWatchInfo(h)

\* A start: Load, ApplyOverlay over it, newSettingsStore.
SettingsRestart ==
  /\ overlay' = settings
  /\ effective' = Over(settings, Base)
  /\ watchInfo' = AtStart(Over(settings, Base))
  /\ put' = [h \in Handlers |-> NoPut]
  /\ stale' = {}
  /\ UNCHANGED <<settings, touched>>

-----------------------------------------------------------------------------
(* Properties.                                                             *)

SettingsTypeOK ==
  /\ overlay \in Overlay /\ settings \in Overlay /\ watchInfo \in Overlay
  /\ effective \in [Fields -> Values]
  /\ put \in [Handlers -> [pc : {"none", "live", "file", "watch"},
                           payload : Overlay, raw : Overlay, alone : BOOLEAN]]
  /\ touched \subseteq Fields
  /\ stale \subseteq PutStale

\* Nothing that validate() or normalize() refuses ever reaches the pool, the
\* scheduler or the client, whether it comes from config.json, from a PUT or,
\* after restarts, from the overlay's file, which nobody validates again.
OnlyValidInEffect == \A f \in Fields : effective[f] \in Values

NoPutUnderWay == \A h \in Handlers : serving[h] # "put"

\* A PUT that ran alone and could write leaves memory, file and, for a hot
\* setting, the running program in agreement, whatever PUTs that overlapped
\* or failed had left before: the next start changes no hot setting, and
\* shows the page what it showed.
LonePutAgrees ==
  NoPutUnderWay =>
    /\ "file" \notin stale => settings = overlay
    /\ \A f \in Hot \ stale : effective[f] = Over(overlay, Base)[f]

\* However PUTs overlap, the overview shows what the page shows when they are
\* done: each brings it up to the overlay of that moment, which holds the
\* others' fields too, and a start announces the overlay's values.
OverviewCatchesUp ==
  NoPutUnderWay =>
    \A f \in Announced : watchInfo[f] = Page[f]

\* A setting nobody has saved follows config.json for ever: saving another
\* one, alone or in overlapping PUTs, never freezes it in the overlay's file.
UntouchedFollowConfig ==
  \A f \in Fields \ touched :
    overlay[f] = None /\ settings[f] = None /\ effective[f] = Base[f]
=============================================================================
