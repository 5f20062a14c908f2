-------------------------- MODULE PersistenceProofs --------------------------
(***************************************************************************)
(* What the settings and the file of the sticky routes keep through        *)
(* overlapping requests and restarts, for any number of handlers, fields,  *)
(* conversations and restarts.                                             *)
(***************************************************************************)
EXTENDS Persistence, TLAPS

Put == [pc : {"none", "live", "file", "watch"},
        payload : Overlay, raw : Overlay, alone : BOOLEAN]
Save == [pc : {"none", "snapshot", "open", "write", "rename"},
         conv : Conversations, raw : Routes,
         file : Files \cup {NoFile}, alone : BOOLEAN]

\* A PUT under way carries no field that nobody has touched.
UntouchedStayOut ==
  \A h \in Handlers : \A f \in Fields \ touched :
    put[h].payload[f] = None /\ put[h].raw[f] = None

SettingsInv ==
  ServingTypeOK /\ SettingsTypeOK /\ UntouchedStayOut /\ UntouchedFollowConfig

\* A save that runs alone has the temporary name for itself; without an
\* overlap every save does.
LoneSaves ==
  \A h \in Handlers : serving[h] = "chat" =>
    /\ ~mixed => save[h].alone
    /\ save[h].alone =>
         /\ \A g \in Handlers \ {h} : serving[g] # "chat"
         /\ save[h].pc = "write" =>
              tmp # NoFile /\ save[h].file = tmp /\ disk[tmp] = Torn
         /\ save[h].pc = "rename" => tmp # NoFile /\ disk[tmp].whole

\* The two names refer to different files.
NamesApart == tmp # NoFile => tmp # path

RoutesInv ==
  ServingTypeOK /\ RoutesTypeOK /\ LoneSaves /\ NamesApart /\ ReadableUnlessMixed

-----------------------------------------------------------------------------
(* The settings.                                                           *)

LEMMA OverType ==
  ASSUME NEW x \in Overlay, NEW y \in Overlay
  PROVE  /\ Over(x, y) \in Overlay
         /\ \A f \in Fields : Over(x, y)[f] = IF x[f] # None THEN x[f] ELSE y[f]
BY DEF Over, Overlay

LEMMA OverBase ==
  ASSUME NEW x \in Overlay, NEW y \in [Fields -> Values]
  PROVE  Over(x, y) \in [Fields -> Values]
BY DEF Over, Overlay

LEMMA BaseType == Base \in [Fields -> Values]
BY SettingsAssumption DEF Base

LEMMA EmptyType == Empty \in Overlay /\ \A f \in Fields : Empty[f] = None
BY DEF Empty, Overlay

LEMMA AtStartType ==
  ASSUME NEW values \in [Fields -> Values] PROVE AtStart(values) \in Overlay
BY DEF AtStart, Overlay

LEMMA NoPutType == NoPut \in Put /\ NoPut.payload = Empty /\ NoPut.raw = Empty
BY EmptyType DEF NoPut, Put

LEMMA SettingsInitInv == ServingInit /\ SettingsInit => SettingsInv
<1> SUFFICES ASSUME ServingInit, SettingsInit PROVE SettingsInv
  OBVIOUS
<1>1. ServingTypeOK
  BY ServingAssumption DEF ServingInit, ServingTypeOK, Kinds
<1>2. SettingsTypeOK
  BY BaseType, EmptyType, NoPutType, AtStartType
  DEF SettingsInit, SettingsTypeOK, Put
<1>3. UntouchedStayOut /\ UntouchedFollowConfig
  BY EmptyType, NoPutType DEF SettingsInit, UntouchedStayOut, UntouchedFollowConfig
<1> QED BY <1>1, <1>2, <1>3 DEF SettingsInv

LEMMA SaveOverlayInv ==
  ASSUME SettingsInv, NEW h \in Handlers,
         NEW payload \in [Fields -> Values \cup {None, Bad}], SaveOverlay(h, payload)
  PROVE  SettingsInv'
<1> DEFINE raw == Merged(payload)
           mine == [pc |-> "live", payload |-> payload, raw |-> raw,
                    alone |-> Others(h, "put") = {}]
<1>1. payload \in Overlay
  BY DEF SaveOverlay, Validate, Overlay
<1>2. overlay \in Overlay /\ put \in [Handlers -> Put]
  BY DEF SettingsInv, SettingsTypeOK, Put
<1>3. raw \in Overlay
      /\ \A f \in Fields : raw[f] = IF payload[f] # None THEN payload[f] ELSE overlay[f]
  BY <1>1, <1>2, OverType DEF Merged
<1>4. mine \in Put /\ mine.payload = payload /\ mine.raw = raw
  BY <1>1, <1>3 DEF Put
<1> HIDE DEF mine
<1>5. /\ put'[h] = mine
      /\ \A g \in Handlers \ {h} : put'[g] = [put[g] EXCEPT !.alone = FALSE]
      /\ \A g \in Handlers : put'[g] \in Put
      /\ put' = [g \in Handlers |-> put'[g]]
  <2>1. put' = [g \in Handlers |-> IF g = h THEN mine
                                   ELSE [put[g] EXCEPT !.alone = FALSE]]
    BY DEF SaveOverlay, mine
  <2>2. \A g \in Handlers : [put[g] EXCEPT !.alone = FALSE] \in Put
    BY <1>2 DEF Put
  <2> QED BY <1>4, <2>1, <2>2
<1>6. \A g \in Handlers \ {h} : /\ put'[g].payload = put[g].payload
                                /\ put'[g].raw = put[g].raw
  BY <1>2, <1>5 DEF Put
<1>7. overlay' = raw /\ touched' = touched \cup {f \in Fields : payload[f] # None}
      /\ UNCHANGED <<settings, effective, watchInfo>>
  BY DEF SaveOverlay
<1>8. ServingTypeOK'
  <2>1. Accept(h, "put") /\ ServingTypeOK
    BY DEF SaveOverlay, SettingsInv
  <2> QED BY <2>1, ServingAssumption DEF ServingTypeOK, Accept, Kinds
<1>9. SettingsTypeOK'
  <2>1. put' \in [Handlers -> Put]
    BY <1>5
  <2>2. stale' \subseteq PutStale
    BY DEF SettingsInv, SettingsTypeOK, SaveOverlay
  <2> QED BY <1>3, <1>7, <2>1, <2>2 DEF SettingsInv, SettingsTypeOK, Put
<1>10. UntouchedStayOut'
  BY <1>3, <1>4, <1>5, <1>6, <1>7 DEF SettingsInv, UntouchedStayOut, UntouchedFollowConfig
<1>11. UntouchedFollowConfig'
  BY <1>3, <1>7 DEF SettingsInv, UntouchedFollowConfig
<1> QED BY <1>8, <1>9, <1>10, <1>11 DEF SettingsInv

LEMMA SetLiveInv ==
  ASSUME SettingsInv, NEW h \in Handlers, SetLive(h)
  PROVE  SettingsInv'
<1> DEFINE mine == [put[h] EXCEPT !.pc = "file", !.payload = Empty]
<1>1. put \in [Handlers -> Put] /\ put[h] \in Put
  BY DEF SettingsInv, SettingsTypeOK, Put
<1>2. mine \in Put /\ mine.payload = Empty /\ mine.raw = put[h].raw
  BY <1>1, EmptyType DEF Put
<1>3. put' = [put EXCEPT ![h] = mine]
  BY DEF SetLive
<1> HIDE DEF mine
<1>4. put' \in [Handlers -> Put]
  BY <1>1, <1>2, <1>3
<1>5. effective' \in [Fields -> Values]
      /\ \A f \in Fields : put[h].payload[f] = None => effective'[f] = effective[f]
  BY <1>1 DEF SetLive, SettingsInv, SettingsTypeOK, Put, Overlay
<1>6. SettingsTypeOK' /\ ServingTypeOK'
  BY <1>4, <1>5 DEF SetLive, GoOn, SettingsInv, SettingsTypeOK, ServingTypeOK, Put
<1>7. UntouchedStayOut'
  BY <1>1, <1>2, <1>3, EmptyType DEF SetLive, SettingsInv, UntouchedStayOut
<1>8. UntouchedFollowConfig'
  BY <1>5 DEF SetLive, SettingsInv, UntouchedStayOut, UntouchedFollowConfig
<1> QED BY <1>6, <1>7, <1>8 DEF SettingsInv

LEMMA PersistInv ==
  ASSUME SettingsInv, NEW h \in Handlers, Persist(h)
  PROVE  SettingsInv'
<1> DEFINE mine == [put[h] EXCEPT !.pc = "watch", !.raw = Empty]
<1>1. put \in [Handlers -> Put] /\ put[h] \in Put
  BY DEF SettingsInv, SettingsTypeOK, Put
<1>2. mine \in Put /\ mine.payload = put[h].payload /\ mine.raw = Empty
  BY <1>1, EmptyType DEF Put
<1>3. put' = [put EXCEPT ![h] = mine]
  BY DEF Persist
<1> HIDE DEF mine
<1>4. put' \in [Handlers -> Put]
  BY <1>1, <1>2, <1>3
<1>5. settings' = settings \/ settings' = put[h].raw
  BY DEF Persist, WriteFile, WriteFails
<1>6. stale' \subseteq PutStale
  BY DEF Persist, WriteFile, WriteFails, SettingsInv, SettingsTypeOK, PutStale
<1>7. put[h].raw \in Overlay
  BY <1>1 DEF Put
<1>8. SettingsTypeOK' /\ ServingTypeOK'
  BY <1>4, <1>5, <1>6, <1>7
  DEF Persist, GoOn, SettingsInv, SettingsTypeOK, ServingTypeOK, Put
<1>9. UntouchedStayOut'
  BY <1>1, <1>2, <1>3, EmptyType DEF Persist, SettingsInv, UntouchedStayOut
<1>10. UntouchedFollowConfig'
  BY <1>5 DEF Persist, SettingsInv, UntouchedStayOut, UntouchedFollowConfig
<1> QED BY <1>8, <1>9, <1>10 DEF SettingsInv

LEMMA SyncWatchInfoInv ==
  ASSUME SettingsInv, NEW h \in Handlers, SyncWatchInfo(h)
  PROVE  SettingsInv'
<1>1. put' \in [Handlers -> Put] /\ watchInfo' \in Overlay
  BY NoPutType, OverType DEF SyncWatchInfo, SettingsInv, SettingsTypeOK, Put
<1>2. SettingsTypeOK'
  BY <1>1 DEF SyncWatchInfo, SettingsInv, SettingsTypeOK, Put
<1>3. ServingTypeOK'
  BY DEF SyncWatchInfo, Finish, SettingsInv, ServingTypeOK, Kinds
<1>4. UntouchedStayOut'
  BY NoPutType, EmptyType
  DEF SyncWatchInfo, SettingsInv, SettingsTypeOK, UntouchedStayOut, Put
<1>5. UntouchedFollowConfig'
  BY DEF SyncWatchInfo, SettingsInv, UntouchedFollowConfig
<1> QED BY <1>2, <1>3, <1>4, <1>5 DEF SettingsInv

LEMMA SettingsRestartInv ==
  ASSUME SettingsInv, Restart
  PROVE  SettingsInv'
<1>1. ServingTypeOK'
  BY DEF Restart, SettingsInv, ServingTypeOK, Kinds
<1>2. settings \in Overlay
  BY DEF SettingsInv, SettingsTypeOK
<1>3. Over(settings, Base) \in [Fields -> Values]
  BY <1>2, BaseType, OverBase
<1>4. SettingsTypeOK'
  BY <1>2, <1>3, NoPutType, AtStartType
  DEF Restart, SettingsRestart, SettingsInv, SettingsTypeOK, Put
<1>5. UntouchedStayOut'
  BY NoPutType, EmptyType DEF Restart, SettingsRestart, UntouchedStayOut
<1>6. UntouchedFollowConfig'
  BY DEF Restart, SettingsRestart, SettingsInv, UntouchedFollowConfig, Over
<1> QED BY <1>1, <1>4, <1>5, <1>6 DEF SettingsInv

\* The steps of a chat leave the settings alone.
LEMMA SettingsFrame ==
  ASSUME SettingsInv, ServingTypeOK', UNCHANGED settingsVars
  PROVE  SettingsInv'
BY DEF SettingsInv, SettingsTypeOK, UntouchedStayOut, UntouchedFollowConfig, settingsVars

LEMMA ServingStep ==
  ASSUME ServingTypeOK, RoutesNext
  PROVE  ServingTypeOK'
<1>1. PICK h \in Handlers : \/ Accept(h, "chat")
                           \/ Finish(h)
                           \/ GoOn
  BY DEF RoutesNext, NoteRoute, Snapshot, Open, Write, GiveUp, Rename
<1> QED BY <1>1, ServingAssumption DEF Accept, Finish, GoOn, ServingTypeOK, Kinds

LEMMA SettingsStep == SettingsInv /\ [Next]_vars => SettingsInv'
<1> SUFFICES ASSUME SettingsInv, [Next]_vars PROVE SettingsInv'
  OBVIOUS
<1>1. CASE SettingsNext
  BY <1>1, SaveOverlayInv, SetLiveInv, PersistInv, SyncWatchInfoInv DEF SettingsNext
<1>2. CASE RoutesNext /\ UNCHANGED settingsVars
  BY <1>2, ServingStep, SettingsFrame DEF SettingsInv
<1>3. CASE Restart
  BY <1>3, SettingsRestartInv
<1>4. CASE UNCHANGED vars
  BY <1>4, SettingsFrame DEF SettingsInv, ServingTypeOK, vars
<1> QED BY <1>1, <1>2, <1>3, <1>4 DEF Next

LEMMA SettingsInvariant == Spec => []SettingsInv
<1>1. Init => SettingsInv
  BY SettingsInitInv DEF Init
<1> QED BY <1>1, SettingsStep, PTL DEF Spec

\* No value that validation refuses ever takes effect, through any PUTs and
\* restarts, although the overlay's file is not validated when it is read.
THEOREM ValidTakesEffect == Spec => []OnlyValidInEffect
<1>1. SettingsInv => OnlyValidInEffect
  BY DEF SettingsInv, SettingsTypeOK, OnlyValidInEffect
<1> QED BY <1>1, SettingsInvariant, PTL

\* Saving some settings never freezes the others.
THEOREM UntouchedSettings == Spec => []UntouchedFollowConfig
<1>1. SettingsInv => UntouchedFollowConfig
  BY DEF SettingsInv
<1> QED BY <1>1, SettingsInvariant, PTL

-----------------------------------------------------------------------------
(* What a PUT that runs alone leaves behind.                               *)

\* A PUT that runs alone is the only one; as long as another is under way,
\* everything counts as possibly left behind.
PutsApart ==
  \A h \in Handlers : serving[h] = "put" =>
    IF put[h].alone THEN \A g \in Handlers \ {h} : serving[g] # "put" ELSE stale = PutStale

HotAgrees(f) == effective[f] = Over(overlay, Base)[f]

\* How far a PUT that runs alone has brought the program and the file.
PutCarries ==
  \A h \in Handlers : serving[h] = "put" /\ put[h].alone =>
    /\ put[h].pc \in {"live", "file"} => put[h].raw = overlay
    /\ put[h].pc = "live" =>
         \A f \in Hot : /\ put[h].payload[f] # None => put[h].payload[f] = overlay[f]
                        /\ put[h].payload[f] = None /\ f \notin stale => HotAgrees(f)
    /\ put[h].pc \in {"file", "watch"} => \A f \in Hot \ stale : HotAgrees(f)
    /\ put[h].pc = "watch" /\ "file" \notin stale => settings = overlay

PutInv == PutsApart /\ PutCarries /\ LonePutAgrees

LEMMA PutInvInit == ServingInit /\ SettingsInit => PutInv
<1> SUFFICES ASSUME ServingInit, SettingsInit PROVE PutInv
  OBVIOUS
<1>1. PutsApart /\ PutCarries
  BY DEF ServingInit, PutsApart, PutCarries
<1>2. \A f \in Fields : Over(overlay, Base)[f] = Base[f]
  BY EmptyType DEF SettingsInit, Over
<1>3. LonePutAgrees
  BY <1>2, SettingsAssumption DEF SettingsInit, LonePutAgrees
<1> QED BY <1>1, <1>3 DEF PutInv

LEMMA SaveOverlayLone ==
  ASSUME SettingsInv, PutInv, NEW h \in Handlers,
         NEW payload \in [Fields -> Values \cup {None, Bad}], SaveOverlay(h, payload)
  PROVE  PutInv'
<1> DEFINE raw == Merged(payload)
           mine == [pc |-> "live", payload |-> payload, raw |-> raw,
                    alone |-> Others(h, "put") = {}]
<1>1. serving \in [Handlers -> Kinds] /\ put \in [Handlers -> Put] /\ overlay \in Overlay
  BY DEF SettingsInv, SettingsTypeOK, ServingTypeOK, Put
<1>2. /\ serving[h] = "idle" /\ serving' = [serving EXCEPT ![h] = "put"]
      /\ overlay' = raw /\ UNCHANGED <<settings, effective>>
      /\ stale' = IF Others(h, "put") = {} THEN stale ELSE PutStale
  BY DEF SaveOverlay, Accept
<1>3. put' = [g \in Handlers |-> IF g = h THEN mine ELSE [put[g] EXCEPT !.alone = FALSE]]
  BY DEF SaveOverlay
<1>4. mine.pc = "live" /\ mine.payload = payload /\ mine.raw = raw
      /\ mine.alone = (Others(h, "put") = {})
  OBVIOUS
<1>5. \A f \in Fields : raw[f] = IF payload[f] # None THEN payload[f] ELSE overlay[f]
  BY DEF Merged, Over
<1>6. \A f \in Fields : /\ Over(raw, Base)[f] = IF raw[f] # None THEN raw[f] ELSE Base[f]
                        /\ Over(overlay, Base)[f]
                             = IF overlay[f] # None THEN overlay[f] ELSE Base[f]
  BY DEF Over
<1> HIDE DEF mine, raw
<1>7. /\ serving'[h] = "put" /\ put'[h] = mine
      /\ \A g \in Handlers \ {h} : serving'[g] = serving[g] /\ put'[g].alone = FALSE
  BY <1>1, <1>2, <1>3 DEF Put
<1>8. \A g \in Handlers \ {h} : serving[g] = "put" => Others(h, "put") # {}
  BY DEF Others
<1>9. PutsApart'
  <2> SUFFICES ASSUME NEW g \in Handlers, serving'[g] = "put"
               PROVE  IF put'[g].alone THEN \A k \in Handlers \ {g} : serving'[k] # "put"
                      ELSE stale' = PutStale
    BY DEF PutsApart, PutStale
  <2>1. CASE g = h
    <3>1. put'[g].alone = (Others(h, "put") = {})
      BY <1>4, <1>7, <2>1
    <3>2. CASE Others(h, "put") = {}
      <4>1. \A k \in Handlers \ {h} : serving'[k] # "put"
        BY <1>7, <1>8, <3>2
      <4> QED BY <2>1, <3>1, <3>2, <4>1
    <3>3. CASE Others(h, "put") # {}
      BY <1>2, <3>1, <3>3
    <3> QED BY <3>2, <3>3
  <2>2. CASE g # h
    BY <1>2, <1>7, <1>8, <2>2
  <2> QED BY <2>1, <2>2
<1>10. ASSUME mine.alone PROVE \A f \in Hot \ stale : HotAgrees(f)
  <2>1. NoPutUnderWay
    BY <1>2, <1>4, <1>10 DEF NoPutUnderWay, Others
  <2> QED BY <2>1 DEF PutInv, LonePutAgrees, HotAgrees
<1>11. ASSUME mine.alone, NEW f \in Hot
       PROVE  /\ payload[f] # None => payload[f] = overlay'[f]
              /\ payload[f] = None /\ f \notin stale' => HotAgrees(f)'
  <2>1. f \in Fields /\ stale' = stale
    BY <1>2, <1>4, <1>11, SettingsAssumption
  <2> QED BY <1>2, <1>5, <1>6, <1>10, <1>11, <2>1 DEF HotAgrees
<1>12. PutCarries'
  <2> SUFFICES ASSUME NEW g \in Handlers, serving'[g] = "put", put'[g].alone
               PROVE  /\ put'[g].pc \in {"live", "file"} => put'[g].raw = overlay'
                      /\ put'[g].pc = "live" =>
                           \A f \in Hot :
                             /\ put'[g].payload[f] # None => put'[g].payload[f] = overlay'[f]
                             /\ put'[g].payload[f] = None /\ f \notin stale' => HotAgrees(f)'
                      /\ put'[g].pc \in {"file", "watch"} => \A f \in Hot \ stale' : HotAgrees(f)'
                      /\ put'[g].pc = "watch" /\ "file" \notin stale' => settings' = overlay'
    BY DEF PutCarries
  <2>1. g = h
    BY <1>7
  <2> QED BY <1>2, <1>4, <1>7, <1>11, <2>1
<1>13. LonePutAgrees'
  BY <1>7 DEF LonePutAgrees, NoPutUnderWay
<1> QED BY <1>9, <1>12, <1>13 DEF PutInv

\* A step of handler h within its PUT, which takes h no further than stated
\* and makes nothing count as up to date unless h is alone.
LEMMA PutOwnStep ==
  ASSUME SettingsInv, PutInv, NEW h \in Handlers, serving[h] = "put",
         UNCHANGED <<serving, overlay>>,
         \A g \in Handlers \ {h} : put'[g] = put[g],
         put'[h].alone = put[h].alone,
         ~put[h].alone /\ stale = PutStale => stale' = PutStale,
         put[h].alone =>
           /\ put'[h].pc = "watch" \/ (put'[h].pc = "file" /\ put'[h].raw = overlay)
           /\ \A f \in Hot \ stale' : HotAgrees(f)'
           /\ put'[h].pc = "watch" /\ "file" \notin stale' => settings' = overlay
  PROVE  PutInv'
<1>1. PutsApart'
  <2> SUFFICES ASSUME NEW g \in Handlers, serving'[g] = "put"
               PROVE  IF put'[g].alone THEN \A k \in Handlers \ {g} : serving'[k] # "put"
                      ELSE stale' = PutStale
    BY DEF PutsApart, PutStale
  <2>1. CASE g = h
    BY <2>1 DEF PutInv, PutsApart
  <2>2. CASE g # h
    <3>1. put'[g] = put[g] /\ serving[g] = "put" /\ h \in Handlers \ {g}
      BY <2>2
    <3>2. ~put[g].alone /\ ~put[h].alone /\ stale = PutStale
      BY <3>1 DEF PutInv, PutsApart
    <3> QED BY <3>1, <3>2
  <2> QED BY <2>1, <2>2
<1>2. PutCarries'
  <2> SUFFICES ASSUME NEW g \in Handlers, serving'[g] = "put", put'[g].alone
               PROVE  /\ put'[g].pc \in {"live", "file"} => put'[g].raw = overlay'
                      /\ put'[g].pc = "live" =>
                           \A f \in Hot :
                             /\ put'[g].payload[f] # None => put'[g].payload[f] = overlay'[f]
                             /\ put'[g].payload[f] = None /\ f \notin stale' => HotAgrees(f)'
                      /\ put'[g].pc \in {"file", "watch"} => \A f \in Hot \ stale' : HotAgrees(f)'
                      /\ put'[g].pc = "watch" /\ "file" \notin stale' => settings' = overlay'
    BY DEF PutCarries
  <2>1. g = h
    <3>1. ASSUME g # h PROVE FALSE
      <4>1. put[g].alone /\ serving[g] = "put" /\ h \in Handlers \ {g}
        BY <3>1
      <4> QED BY <4>1 DEF PutInv, PutsApart
    <3> QED BY <3>1
  <2> QED BY <2>1
<1>3. LonePutAgrees'
  BY DEF LonePutAgrees, NoPutUnderWay
<1> QED BY <1>1, <1>2, <1>3 DEF PutInv

LEMMA SetLiveLone ==
  ASSUME SettingsInv, PutInv, NEW h \in Handlers, SetLive(h)
  PROVE  PutInv'
<1>1. put \in [Handlers -> Put] /\ put[h] \in Put /\ overlay \in Overlay
      /\ effective \in [Fields -> Values]
  BY DEF SettingsInv, SettingsTypeOK, Put
<1>2. /\ serving[h] = "put" /\ put[h].pc = "live" /\ UNCHANGED <<serving, overlay>>
      /\ effective' = [f \in Fields |->
           IF f \in Hot /\ put[h].payload[f] # None THEN put[h].payload[f] ELSE effective[f]]
      /\ stale' = IF put[h].alone
                  THEN stale \ {f \in Hot : put[h].payload[f] # None} ELSE stale
      /\ put' = [put EXCEPT ![h].pc = "file", ![h].payload = Empty]
  BY DEF SetLive, At, GoOn
<1>3. /\ put'[h].pc = "file" /\ put'[h].alone = put[h].alone /\ put'[h].raw = put[h].raw
      /\ \A g \in Handlers \ {h} : put'[g] = put[g]
  BY <1>1, <1>2 DEF Put
<1>4. ASSUME put[h].alone, NEW f \in Hot \ stale' PROVE HotAgrees(f)'
  <2>1. /\ f \in Fields
        /\ put[h].payload[f] # None => put[h].payload[f] = overlay[f]
        /\ put[h].payload[f] = None /\ f \notin stale => HotAgrees(f)
    BY <1>2, <1>4, SettingsAssumption DEF PutInv, PutCarries
  <2>2. CASE put[h].payload[f] # None
    <3>1. effective'[f] = overlay[f] /\ overlay[f] # None
      BY <1>2, <1>4, <2>1, <2>2
    <3> QED BY <1>2, <2>1, <3>1 DEF HotAgrees, Over
  <2>3. CASE put[h].payload[f] = None
    <3>1. effective'[f] = effective[f] /\ f \notin stale
      BY <1>2, <1>4, <2>1, <2>3
    <3> QED BY <1>2, <2>1, <2>3, <3>1 DEF HotAgrees
  <2> QED BY <2>2, <2>3
<1>5. put[h].alone => put'[h].raw = overlay
  BY <1>2, <1>3 DEF PutInv, PutCarries
<1> QED BY <1>2, <1>3, <1>4, <1>5, PutOwnStep

LEMMA PersistLone ==
  ASSUME SettingsInv, PutInv, NEW h \in Handlers, Persist(h)
  PROVE  PutInv'
<1>1. put \in [Handlers -> Put] /\ put[h] \in Put
  BY DEF SettingsInv, SettingsTypeOK, Put
<1>2. /\ serving[h] = "put" /\ put[h].pc = "file" /\ UNCHANGED <<serving, overlay, effective>>
      /\ put' = [put EXCEPT ![h].pc = "watch", ![h].raw = Empty]
      /\ \/ /\ settings' = put[h].raw
            /\ stale' = IF put[h].alone THEN stale \ {"file"} ELSE stale
         \/ stale' = stale \cup {"file"} /\ settings' = settings
  BY DEF Persist, At, GoOn, WriteFile, WriteFails
<1>3. /\ put'[h].pc = "watch" /\ put'[h].alone = put[h].alone
      /\ \A g \in Handlers \ {h} : put'[g] = put[g]
  BY <1>1, <1>2 DEF Put
<1>4. ASSUME put[h].alone, NEW f \in Hot \ stale' PROVE HotAgrees(f)'
  <2>1. f # "file"
    BY SettingsAssumption
  <2>2. f \notin stale
    BY <1>2, <1>4, <2>1
  <2>3. HotAgrees(f)
    BY <1>2, <1>4, <2>2 DEF PutInv, PutCarries
  <2> QED BY <1>2, <2>3 DEF HotAgrees
<1>5. put[h].alone => put[h].raw = overlay
  BY <1>2 DEF PutInv, PutCarries
<1>6. ~put[h].alone /\ stale = PutStale => stale' = PutStale
  BY <1>2 DEF PutStale
<1>7. put[h].alone /\ "file" \notin stale' => settings' = overlay
  BY <1>2, <1>5
<1> QED BY <1>2, <1>3, <1>4, <1>6, <1>7, PutOwnStep

LEMMA SyncWatchInfoLone ==
  ASSUME SettingsInv, PutInv, NEW h \in Handlers, SyncWatchInfo(h)
  PROVE  PutInv'
<1>1. serving \in [Handlers -> Kinds] /\ put \in [Handlers -> Put]
  BY DEF SettingsInv, SettingsTypeOK, ServingTypeOK, Put
<1>2. /\ serving[h] = "put" /\ put[h].pc = "watch" /\ serving' = [serving EXCEPT ![h] = "idle"]
      /\ put' = [put EXCEPT ![h] = NoPut]
      /\ UNCHANGED <<overlay, settings, effective, stale>>
  BY DEF SyncWatchInfo, At, Finish
<1>3. serving'[h] = "idle" /\ \A g \in Handlers \ {h} : serving'[g] = serving[g] /\ put'[g] = put[g]
  BY <1>1, <1>2
<1>4. ASSUME NEW g \in Handlers, serving'[g] = "put"
      PROVE  ~put[h].alone /\ ~put'[g].alone /\ stale' = PutStale
  <2>1. g # h /\ serving[g] = "put" /\ put'[g] = put[g] /\ h \in Handlers \ {g}
    BY <1>3, <1>4
  <2> QED BY <1>2, <2>1 DEF PutInv, PutsApart
<1>5. PutsApart' /\ PutCarries'
  BY <1>4 DEF PutsApart, PutCarries, PutStale
<1>6. LonePutAgrees'
  <2>1. CASE put[h].alone
    <3>1. /\ \A f \in Hot \ stale : HotAgrees(f)
          /\ "file" \notin stale => settings = overlay
      BY <1>2, <2>1 DEF PutInv, PutCarries
    <3> QED BY <1>2, <3>1 DEF LonePutAgrees, HotAgrees
  <2>2. CASE ~put[h].alone
    <3>1. stale = PutStale
      BY <1>2, <2>2 DEF PutInv, PutsApart
    <3> QED BY <1>2, <3>1 DEF LonePutAgrees, PutStale
  <2> QED BY <2>1, <2>2
<1> QED BY <1>5, <1>6 DEF PutInv

LEMMA SettingsRestartLone ==
  ASSUME SettingsInv, Restart
  PROVE  PutInv'
<1>1. /\ serving' = [g \in Handlers |-> "idle"]
      /\ overlay' = settings /\ settings' = settings /\ effective' = Over(settings, Base)
  BY DEF Restart, SettingsRestart
<1>2. \A g \in Handlers : serving'[g] # "put"
  BY <1>1
<1>3. PutsApart' /\ PutCarries'
  BY <1>2 DEF PutsApart, PutCarries
<1>4. LonePutAgrees'
  BY <1>1 DEF LonePutAgrees
<1> QED BY <1>3, <1>4 DEF PutInv

\* The steps of a chat: no PUT starts or ends, the settings stay.
LEMMA PutFrame ==
  ASSUME PutInv, UNCHANGED settingsVars,
         \A g \in Handlers : serving'[g] = "put" <=> serving[g] = "put"
  PROVE  PutInv'
BY DEF PutInv, PutsApart, PutCarries, LonePutAgrees, NoPutUnderWay, HotAgrees, settingsVars

LEMMA ChatStep ==
  ASSUME ServingTypeOK, RoutesNext
  PROVE  \A g \in Handlers : serving'[g] = "put" <=> serving[g] = "put"
<1>1. ASSUME NEW h \in Handlers, NEW c, NEW a, NoteRoute(h, c, a)
      PROVE  \A g \in Handlers : serving'[g] = "put" <=> serving[g] = "put"
  BY <1>1 DEF NoteRoute, Accept, ServingTypeOK
<1>2. ASSUME NEW h \in Handlers, Snapshot(h) \/ Open(h) \/ Write(h)
      PROVE  \A g \in Handlers : serving'[g] = "put" <=> serving[g] = "put"
  BY <1>2 DEF Snapshot, Open, Write, GoOn
<1>3. ASSUME NEW h \in Handlers, GiveUp(h) \/ Rename(h)
      PROVE  \A g \in Handlers : serving'[g] = "put" <=> serving[g] = "put"
  <2>1. serving[h] = "chat" /\ serving' = [serving EXCEPT ![h] = "idle"]
    BY <1>3 DEF GiveUp, Rename, AtSave, Finish
  <2> QED BY <2>1 DEF ServingTypeOK
<1> QED BY <1>1, <1>2, <1>3 DEF RoutesNext

LEMMA PutInvStep == SettingsInv /\ PutInv /\ [Next]_vars => PutInv'
<1> SUFFICES ASSUME SettingsInv, PutInv, [Next]_vars PROVE PutInv'
  OBVIOUS
<1>1. CASE SettingsNext
  BY <1>1, SaveOverlayLone, SetLiveLone, PersistLone, SyncWatchInfoLone DEF SettingsNext
<1>2. CASE RoutesNext /\ UNCHANGED settingsVars
  BY <1>2, ChatStep, PutFrame DEF SettingsInv
<1>3. CASE Restart
  BY <1>3, SettingsRestartLone
<1>4. CASE UNCHANGED vars
  BY <1>4, PutFrame DEF vars
<1> QED BY <1>1, <1>2, <1>3, <1>4 DEF Next

\* admin_config.go:203-278: after a PUT that ran alone and could write, the
\* memory, the file and, for a hot setting, the running program agree,
\* whatever overlapping or failed PUTs had left before.
THEOREM LonePutLeavesAgreement == Spec => []LonePutAgrees
<1>1. Init => PutInv
  BY PutInvInit DEF Init
<1>2. PutInv => LonePutAgrees
  BY DEF PutInv
<1> QED BY <1>1, <1>2, PutInvStep, SettingsInvariant, PTL DEF Spec

-----------------------------------------------------------------------------
(* The overview.                                                           *)

LEMMA PageFollows ==
  ASSUME NEW x \in Overlay, NEW y \in Overlay
  PROVE  Over(x, Over(x, y)) = Over(x, y)
BY DEF Over, Overlay

LEMMA OverviewStep == SettingsInv /\ OverviewCatchesUp /\ [Next]_vars => OverviewCatchesUp'
<1> SUFFICES ASSUME SettingsInv, OverviewCatchesUp, [Next]_vars,
                    NoPutUnderWay', NEW f \in Announced
             PROVE  watchInfo'[f] = Page[f]'
  BY DEF OverviewCatchesUp
<1>0. /\ serving \in [Handlers -> Kinds] /\ f \in Fields
      /\ overlay \in Overlay /\ watchInfo \in Overlay /\ settings \in Overlay
  BY SettingsAssumption DEF SettingsInv, SettingsTypeOK, ServingTypeOK
<1>1. ASSUME NEW h \in Handlers, NEW payload \in [Fields -> Values \cup {None, Bad}],
             SaveOverlay(h, payload)
      PROVE  FALSE
  BY <1>0, <1>1 DEF SaveOverlay, Accept, NoPutUnderWay
<1>2. ASSUME NEW h \in Handlers, SetLive(h) \/ Persist(h)
      PROVE  FALSE
  BY <1>2 DEF SetLive, Persist, At, GoOn, NoPutUnderWay
<1>3. ASSUME NEW h \in Handlers, SyncWatchInfo(h)
      PROVE  watchInfo'[f] = Page[f]'
  <2>1. overlay' = overlay /\ watchInfo' = Over(overlay, watchInfo)
    BY <1>3 DEF SyncWatchInfo
  <2> QED BY <1>0, <2>1, PageFollows DEF Page
<1>4. CASE Restart
  <2>1. overlay' = settings /\ watchInfo' = AtStart(Over(settings, Base))
    BY <1>4 DEF Restart, SettingsRestart
  <2> QED BY <1>0, <2>1 DEF AtStart, Page, Over
<1>5. CASE \/ RoutesNext /\ UNCHANGED settingsVars
           \/ UNCHANGED vars
  <2>1. UNCHANGED <<overlay, watchInfo>>
    BY <1>5 DEF vars, settingsVars
  <2>2. \A g \in Handlers : serving'[g] = "put" <=> serving[g] = "put"
    BY <1>5, ChatStep DEF SettingsInv, vars
  <2>3. NoPutUnderWay
    BY <2>2 DEF NoPutUnderWay
  <2>4. Page' = Page
    BY <2>1 DEF Page, Over
  <2> QED BY <2>1, <2>3, <2>4 DEF OverviewCatchesUp
<1> QED BY <1>1, <1>2, <1>3, <1>4, <1>5 DEF Next, SettingsNext

\* admin_config.go:253-278: however PUTs and restarts overlap, the overview
\* shows what the page shows when they are done.
THEOREM OverviewShowsPage == Spec => []OverviewCatchesUp
<1>1. Init => OverviewCatchesUp
  <2> SUFFICES ASSUME Init, NEW f \in Announced PROVE watchInfo[f] = Page[f]
    BY DEF OverviewCatchesUp
  <2>1. f \in Fields /\ overlay[f] = None
    BY SettingsAssumption, EmptyType DEF Init, SettingsInit
  <2> QED BY <2>1 DEF Page, Over
<1> QED BY <1>1, OverviewStep, SettingsInvariant, PTL DEF Spec

-----------------------------------------------------------------------------
(* The file of the sticky routes.                                          *)

LEMMA NoRoutesType == NoRoutes \in Routes
BY DEF NoRoutes, Routes

LEMMA NoSaveType == NoSave \in Save
BY RouteFileAssumption, NoRoutesType DEF NoSave, Save

LEMMA TornType == Torn \in Content /\ ~Torn.whole
BY DEF Content, Torn

LEMMA WholeType ==
  ASSUME NEW r \in Routes PROVE Whole(r) \in Content /\ Whole(r).whole
BY DEF Content, Whole

LEMMA ContentRoutes ==
  ASSUME NEW x \in Content PROVE x.routes \in Routes
BY NoRoutesType DEF Content, Torn, Whole

LEMMA RoutesInitInv == ServingInit /\ RoutesInit => RoutesInv
<1> SUFFICES ASSUME ServingInit, RoutesInit PROVE RoutesInv
  OBVIOUS
<1>1. ServingTypeOK
  BY ServingAssumption DEF ServingInit, ServingTypeOK, Kinds
<1>2. RoutesTypeOK
  BY NoRoutesType, NoSaveType, TornType DEF RoutesInit, RoutesTypeOK, Save
<1>3. LoneSaves /\ NamesApart /\ ReadableUnlessMixed
  BY DEF ServingInit, RoutesInit, LoneSaves, NamesApart, ReadableUnlessMixed
<1> QED BY <1>1, <1>2, <1>3 DEF RoutesInv

LEMMA NoteRouteInv ==
  ASSUME RoutesInv, ServingTypeOK', NEW h \in Handlers, NEW c \in Conversations,
         NEW a \in RouteAccounts, NoteRoute(h, c, a)
  PROVE  RoutesInv'
<1> DEFINE mine == [NoSave EXCEPT !.pc = "snapshot", !.conv = c,
                                  !.alone = Others(h, "chat") = {}]
<1>1. routes \in Routes /\ save \in [Handlers -> Save] /\ serving \in [Handlers -> Kinds]
  BY DEF RoutesInv, RoutesTypeOK, ServingTypeOK, Save
<1>2. /\ mine \in Save /\ mine.pc = "snapshot"
      /\ mine.alone <=> Others(h, "chat") = {}
  BY NoSaveType DEF Save
<1> HIDE DEF mine
<1>3. /\ save' = [g \in Handlers |-> IF g = h THEN mine ELSE [save[g] EXCEPT !.alone = FALSE]]
      /\ serving[h] = "idle" /\ serving' = [serving EXCEPT ![h] = "chat"]
      /\ routes' = [routes EXCEPT ![c] = a]
      /\ mixed' = (mixed \/ Others(h, "chat") # {})
      /\ UNCHANGED <<disk, tmp, path, behind>>
  BY DEF NoteRoute, Accept, mine
<1>4. \A g \in Handlers \ {h} : /\ save'[g] = [save[g] EXCEPT !.alone = FALSE]
                                /\ [save[g] EXCEPT !.alone = FALSE] \in Save
                                /\ [save[g] EXCEPT !.alone = FALSE].alone = FALSE
  BY <1>1, <1>3 DEF Save
<1>5. RoutesTypeOK'
  <2>1. save' \in [Handlers -> Save]
    BY <1>2, <1>3, <1>4
  <2>2. routes' \in Routes
    BY <1>1, <1>3 DEF Routes
  <2>3. mixed' \in BOOLEAN
    BY <1>3
  <2> QED BY <1>3, <2>1, <2>2, <2>3 DEF RoutesInv, RoutesTypeOK, Save
<1>6. LoneSaves'
  <2> SUFFICES ASSUME NEW g \in Handlers, serving'[g] = "chat"
               PROVE  /\ ~mixed' => save'[g].alone
                      /\ save'[g].alone =>
                           /\ \A k \in Handlers \ {g} : serving'[k] # "chat"
                           /\ save'[g].pc = "write" =>
                                tmp' # NoFile /\ save'[g].file = tmp' /\ disk'[tmp'] = Torn
                           /\ save'[g].pc = "rename" => tmp' # NoFile /\ disk'[tmp'].whole
    BY DEF LoneSaves
  <2>1. CASE g = h
    BY <1>1, <1>2, <1>3, <2>1 DEF Others
  <2>2. CASE g # h
    <3>1. ~save'[g].alone
      BY <1>4, <2>2
    <3>2. g \in Others(h, "chat")
      BY <1>1, <1>3, <2>2 DEF Others
    <3> QED BY <1>3, <3>1, <3>2
  <2> QED BY <2>1, <2>2
<1>7. NamesApart' /\ ReadableUnlessMixed'
  BY <1>3 DEF RoutesInv, NamesApart, ReadableUnlessMixed
<1> QED BY <1>5, <1>6, <1>7 DEF RoutesInv

\* A step of handler h within its save: the others' saves and places stay,
\* and so does what they rely on when h is alone.
LEMMA OwnStep ==
  ASSUME RoutesInv, ServingTypeOK', NEW h \in Handlers, serving[h] = "chat",
         UNCHANGED <<serving, mixed>>, RoutesTypeOK',
         \A g \in Handlers \ {h} : save'[g] = save[g],
         save'[h].alone = save[h].alone,
         save[h].alone =>
           /\ save'[h].pc = "write" =>
                tmp' # NoFile /\ save'[h].file = tmp' /\ disk'[tmp'] = Torn
           /\ save'[h].pc = "rename" => tmp' # NoFile /\ disk'[tmp'].whole,
         NamesApart', ReadableUnlessMixed'
  PROVE  RoutesInv'
<1>1. LoneSaves'
  <2> SUFFICES ASSUME NEW g \in Handlers, serving'[g] = "chat"
               PROVE  /\ ~mixed' => save'[g].alone
                      /\ save'[g].alone =>
                           /\ \A k \in Handlers \ {g} : serving'[k] # "chat"
                           /\ save'[g].pc = "write" =>
                                tmp' # NoFile /\ save'[g].file = tmp' /\ disk'[tmp'] = Torn
                           /\ save'[g].pc = "rename" => tmp' # NoFile /\ disk'[tmp'].whole
    BY DEF LoneSaves
  <2>1. CASE g = h
    BY <2>1 DEF RoutesInv, LoneSaves
  <2>2. CASE g # h
    <3>1. save'[g] = save[g] /\ serving[g] = "chat" /\ h \in Handlers \ {g}
      BY <2>2
    <3> QED BY <3>1 DEF RoutesInv, LoneSaves
  <2> QED BY <2>1, <2>2
<1> QED BY <1>1 DEF RoutesInv

LEMMA SnapshotInv ==
  ASSUME RoutesInv, ServingTypeOK', NEW h \in Handlers, Snapshot(h)
  PROVE  RoutesInv'
<1>1. PICK old \in SUBSET Conversations :
        /\ routes' = Prune(old)
        /\ save' = [save EXCEPT ![h].pc = "open", ![h].raw = Prune(old)]
  BY DEF Snapshot
<1>2. routes \in Routes /\ save \in [Handlers -> Save]
  BY DEF RoutesInv, RoutesTypeOK, Save
<1>3. Prune(old) \in Routes
  BY <1>2 DEF Prune, Routes
<1> DEFINE mine == [save[h] EXCEPT !.pc = "open", !.raw = Prune(old)]
<1>4. mine \in Save /\ mine.pc = "open" /\ mine.alone = save[h].alone
  BY <1>2, <1>3 DEF Save
<1>5. save' = [save EXCEPT ![h] = mine]
  BY <1>1, <1>2 DEF Save
<1> HIDE DEF mine
<1>6. save' \in [Handlers -> Save] /\ save'[h] = mine
      /\ \A g \in Handlers \ {h} : save'[g] = save[g]
  BY <1>2, <1>4, <1>5
<1>7. UNCHANGED <<serving, disk, tmp, path, mixed, behind>> /\ serving[h] = "chat"
  BY DEF Snapshot, GoOn, AtSave
<1>8. RoutesTypeOK'
  BY <1>1, <1>3, <1>6, <1>7 DEF RoutesInv, RoutesTypeOK, Save
<1>9. NamesApart' /\ ReadableUnlessMixed'
  BY <1>7 DEF RoutesInv, NamesApart, ReadableUnlessMixed
<1> QED BY <1>4, <1>6, <1>7, <1>8, <1>9, OwnStep

LEMMA OpenInv ==
  ASSUME RoutesInv, ServingTypeOK', NEW h \in Handlers, Open(h)
  PROVE  RoutesInv'
<1>1. PICK f \in Files :
        /\ IF tmp # NoFile THEN f = tmp ELSE f \notin InUse
        /\ tmp' = f
        /\ disk' = [disk EXCEPT ![f] = Torn]
        /\ save' = [save EXCEPT ![h].pc = "write", ![h].file = f]
  BY DEF Open
<1>2. /\ save \in [Handlers -> Save] /\ disk \in [Files -> Content]
      /\ path \in Files \cup {NoFile}
  BY DEF RoutesInv, RoutesTypeOK, Save
<1> DEFINE mine == [save[h] EXCEPT !.pc = "write", !.file = f]
<1>3. /\ mine \in Save /\ mine.pc = "write" /\ mine.file = f
      /\ mine.alone = save[h].alone
  BY <1>2 DEF Save
<1>4. save' = [save EXCEPT ![h] = mine]
  BY <1>1, <1>2 DEF Save
<1> HIDE DEF mine
<1>5. save' \in [Handlers -> Save] /\ save'[h] = mine
      /\ \A g \in Handlers \ {h} : save'[g] = save[g]
  BY <1>2, <1>3, <1>4
<1>6. UNCHANGED <<serving, routes, path, mixed, behind>> /\ serving[h] = "chat"
  BY DEF Open, GoOn, AtSave
<1>7. f # path /\ f # NoFile
  BY <1>1, RouteFileAssumption DEF InUse, RoutesInv, NamesApart
<1>8. RoutesTypeOK' /\ disk'[f] = Torn
  BY <1>1, <1>2, <1>5, <1>6, TornType DEF RoutesInv, RoutesTypeOK, Save
<1>9. NamesApart' /\ ReadableUnlessMixed'
  BY <1>1, <1>2, <1>6, <1>7 DEF RoutesInv, NamesApart, ReadableUnlessMixed
<1> QED BY <1>1, <1>3, <1>5, <1>6, <1>7, <1>8, <1>9, OwnStep

LEMMA WriteInv ==
  ASSUME RoutesInv, ServingTypeOK', NEW h \in Handlers, Write(h)
  PROVE  RoutesInv'
<1> DEFINE f == save[h].file
           new == Whole(save[h].raw)
           mine == [save[h] EXCEPT !.pc = "rename", !.raw = NoRoutes, !.file = NoFile]
<1>1. /\ save \in [Handlers -> Save] /\ disk \in [Files -> Content]
      /\ tmp \in Files \cup {NoFile} /\ path \in Files \cup {NoFile}
  BY DEF RoutesInv, RoutesTypeOK, Save
<1>2. mine \in Save /\ mine.pc = "rename" /\ mine.alone = save[h].alone
  BY <1>1, NoRoutesType DEF Save
<1>3. save' = [save EXCEPT ![h] = mine]
  BY <1>1 DEF Write, Save
<1>4. new \in Content /\ new.whole
  BY <1>1, WholeType DEF Save
<1>5. \/ disk' = [disk EXCEPT ![f] = new]
      \/ disk[f] # Torn /\ disk' = [disk EXCEPT ![f] = Torn]
  BY DEF Write
<1>6. UNCHANGED <<serving, routes, tmp, path, mixed, behind>> /\ serving[h] = "chat"
      /\ save[h].pc = "write"
  BY DEF Write, GoOn, AtSave
<1>7. save[h].alone => tmp # NoFile /\ f = tmp /\ disk[tmp] = Torn
  BY <1>6 DEF RoutesInv, LoneSaves
<1> HIDE DEF mine, new, f
<1>8. save' \in [Handlers -> Save] /\ save'[h] = mine
      /\ \A g \in Handlers \ {h} : save'[g] = save[g]
  BY <1>1, <1>2, <1>3
<1>9. RoutesTypeOK'
  BY <1>1, <1>4, <1>5, <1>6, <1>8, TornType DEF RoutesInv, RoutesTypeOK, Save
<1>10. save[h].alone => tmp' # NoFile /\ disk'[tmp'].whole
  BY <1>1, <1>4, <1>5, <1>6, <1>7
<1>11. NamesApart'
  BY <1>6 DEF RoutesInv, NamesApart
<1>12. ReadableUnlessMixed'
  <2> SUFFICES ASSUME path # NoFile, ~mixed PROVE disk'[path].whole
    BY <1>6 DEF ReadableUnlessMixed
  <2>1. save[h].alone
    BY <1>6 DEF RoutesInv, LoneSaves
  <2>2. f # path
    BY <1>7, <2>1 DEF RoutesInv, NamesApart
  <2> QED BY <1>1, <1>5, <2>2 DEF RoutesInv, ReadableUnlessMixed
<1> QED BY <1>2, <1>6, <1>8, <1>9, <1>10, <1>11, <1>12, OwnStep

\* The end of a save: its handler is idle, the others' saves go on.
LEMMA EndOfSave ==
  ASSUME RoutesInv, NEW h \in Handlers, serving[h] = "chat", Finish(h),
         save' = [save EXCEPT ![h] = NoSave],
         mixed' = mixed \/ (mixed' = FALSE /\ save[h].alone),
         (\E g \in Handlers \ {h} : serving[g] = "chat") /\ ~save[h].alone
            => \A g \in Handlers \ {h} : serving[g] = "chat" => ~save[g].alone
  PROVE  LoneSaves'
<1> SUFFICES ASSUME NEW g \in Handlers, serving'[g] = "chat"
             PROVE  /\ ~mixed' => save'[g].alone
                    /\ save'[g].alone =>
                         /\ \A k \in Handlers \ {g} : serving'[k] # "chat"
                         /\ save'[g].pc = "write" =>
                              tmp' # NoFile /\ save'[g].file = tmp' /\ disk'[tmp'] = Torn
                         /\ save'[g].pc = "rename" => tmp' # NoFile /\ disk'[tmp'].whole
  BY DEF LoneSaves
<1>1. serving \in [Handlers -> Kinds] /\ save \in [Handlers -> Save]
  BY DEF RoutesInv, ServingTypeOK, RoutesTypeOK, Save
<1>2. g # h /\ serving[g] = "chat" /\ save'[g] = save[g]
  BY <1>1 DEF Finish
<1>3. ~save[h].alone /\ ~save[g].alone
  BY <1>2 DEF RoutesInv, LoneSaves
<1>4. mixed
  BY <1>2, <1>3 DEF RoutesInv, LoneSaves
<1> QED BY <1>2, <1>3, <1>4

LEMMA GiveUpInv ==
  ASSUME RoutesInv, ServingTypeOK', NEW h \in Handlers, GiveUp(h)
  PROVE  RoutesInv'
<1>1. serving[h] = "chat" /\ Finish(h) /\ save' = [save EXCEPT ![h] = NoSave]
      /\ UNCHANGED <<routes, disk, tmp, path, mixed>> /\ behind' = TRUE
  BY DEF GiveUp, AtSave
<1>2. LoneSaves'
  BY <1>1, EndOfSave DEF RoutesInv, LoneSaves
<1>3. RoutesTypeOK'
  BY <1>1, NoSaveType DEF RoutesInv, RoutesTypeOK, Save
<1>4. NamesApart' /\ ReadableUnlessMixed'
  BY <1>1 DEF RoutesInv, NamesApart, ReadableUnlessMixed
<1> QED BY <1>2, <1>3, <1>4 DEF RoutesInv

LEMMA RenameInv ==
  ASSUME RoutesInv, ServingTypeOK', NEW h \in Handlers, Rename(h)
  PROVE  RoutesInv'
<1>1. /\ serving[h] = "chat" /\ save[h].pc = "rename"
      /\ Finish(h) /\ save' = [save EXCEPT ![h] = NoSave]
      /\ mixed' = (mixed /\ ~save[h].alone) /\ behind' = (behind /\ ~save[h].alone)
      /\ UNCHANGED routes
  BY DEF Rename, AtSave
<1>2. \/ tmp = NoFile /\ UNCHANGED <<tmp, path, disk>>
      \/ tmp # NoFile /\ tmp' = NoFile /\ path' = tmp /\ disk' = Without(path)
  BY DEF Rename
<1>3. disk \in [Files -> Content] /\ tmp \in Files \cup {NoFile}
      /\ save[h].alone \in BOOLEAN /\ mixed \in BOOLEAN
  BY DEF RoutesInv, RoutesTypeOK
<1>4. LoneSaves'
  BY <1>1, <1>3, EndOfSave DEF RoutesInv, LoneSaves
<1>5. disk' \in [Files -> Content]
  BY <1>2, <1>3, TornType DEF Without
<1>6. RoutesTypeOK'
  BY <1>1, <1>2, <1>5, NoSaveType DEF RoutesInv, RoutesTypeOK, Save
<1>7. NamesApart'
  BY <1>2 DEF RoutesInv, NamesApart
<1>8. ReadableUnlessMixed'
  <2> SUFFICES ASSUME path' # NoFile, ~mixed' PROVE disk'[path'].whole
    BY DEF ReadableUnlessMixed
  <2>1. save[h].alone
    BY <1>1, <1>3 DEF RoutesInv, LoneSaves
  <2>2. tmp # NoFile /\ disk[tmp].whole
    BY <1>1, <2>1 DEF RoutesInv, LoneSaves
  <2>3. disk'[tmp] = disk[tmp]
    BY <1>2, <1>3, <2>2 DEF Without, RoutesInv, NamesApart
  <2> QED BY <1>2, <2>2, <2>3
<1> QED BY <1>4, <1>6, <1>7, <1>8 DEF RoutesInv

LEMMA RoutesRestartInv ==
  ASSUME RoutesInv, Restart
  PROVE  RoutesInv'
<1>1. ServingTypeOK'
  BY DEF Restart, RoutesInv, ServingTypeOK, Kinds
<1>2. /\ save' = [g \in Handlers |-> NoSave]
      /\ disk' = [f \in Files |-> IF f \in {tmp, path} THEN disk[f] ELSE Torn]
      /\ UNCHANGED <<tmp, path, mixed>>
      /\ serving' = [g \in Handlers |-> "idle"]
  BY DEF Restart, RoutesRestart
<1>3. /\ disk \in [Files -> Content]
      /\ tmp \in Files \cup {NoFile} /\ path \in Files \cup {NoFile}
  BY DEF RoutesInv, RoutesTypeOK
<1>4. Loaded \in Routes
  BY <1>3, ContentRoutes, NoRoutesType DEF Loaded
<1>5. routes' \in Routes /\ behind' \in BOOLEAN
  <2>1. PICK old \in SUBSET Conversations :
          /\ routes' = [c \in Conversations |-> IF c \in old THEN NoAcct ELSE Loaded[c]]
          /\ behind' = (old # {})
    BY DEF Restart, RoutesRestart
  <2> QED BY <2>1, <1>4 DEF Routes
<1>6. RoutesTypeOK'
  BY <1>2, <1>3, <1>5, NoSaveType, TornType DEF RoutesInv, RoutesTypeOK, Save
<1>7. LoneSaves'
  BY <1>2 DEF LoneSaves
<1>8. NamesApart' /\ ReadableUnlessMixed'
  BY <1>2, <1>3 DEF RoutesInv, NamesApart, ReadableUnlessMixed
<1> QED BY <1>1, <1>6, <1>7, <1>8 DEF RoutesInv

\* The steps of a PUT: no chat starts or ends, the route file stays.
LEMMA RoutesFrame ==
  ASSUME RoutesInv, ServingTypeOK', UNCHANGED routeVars,
         \A g \in Handlers : serving'[g] = "chat" <=> serving[g] = "chat"
  PROVE  RoutesInv'
<1>1. RoutesTypeOK' /\ NamesApart' /\ ReadableUnlessMixed'
  BY DEF RoutesInv, RoutesTypeOK, NamesApart, ReadableUnlessMixed, routeVars
<1>2. LoneSaves'
  BY DEF RoutesInv, LoneSaves, routeVars
<1> QED BY <1>1, <1>2 DEF RoutesInv

LEMMA PutStep ==
  ASSUME ServingTypeOK, SettingsNext
  PROVE  /\ ServingTypeOK'
         /\ \A g \in Handlers : serving'[g] = "chat" <=> serving[g] = "chat"
<1>1. PICK h \in Handlers : \/ Accept(h, "put")
                            \/ Finish(h) /\ serving[h] = "put"
                            \/ GoOn
  BY DEF SettingsNext, SaveOverlay, SetLive, Persist, SyncWatchInfo, At
<1> QED BY <1>1, ServingAssumption DEF Accept, Finish, GoOn, ServingTypeOK, Kinds

LEMMA RoutesStep == RoutesInv /\ [Next]_vars => RoutesInv'
<1> SUFFICES ASSUME RoutesInv, [Next]_vars PROVE RoutesInv'
  OBVIOUS
<1>1. CASE RoutesNext
  BY <1>1, ServingStep, NoteRouteInv, SnapshotInv, OpenInv, WriteInv, GiveUpInv, RenameInv
  DEF RoutesNext, RoutesInv
<1>2. CASE SettingsNext /\ UNCHANGED routeVars
  BY <1>2, PutStep, RoutesFrame DEF RoutesInv
<1>3. CASE Restart
  BY <1>3, RoutesRestartInv
<1>4. CASE UNCHANGED vars
  BY <1>4, RoutesFrame DEF RoutesInv, ServingTypeOK, vars
<1> QED BY <1>1, <1>2, <1>3, <1>4 DEF Next

\* The file of the routes can be read at every moment, unless saves have
\* overlapped since the last one that ran alone.
THEOREM RouteFileReadable == Spec => []ReadableUnlessMixed
<1>1. Init => RoutesInv
  BY RoutesInitInv DEF Init
<1>2. RoutesInv => ReadableUnlessMixed
  BY DEF RoutesInv
<1> QED BY <1>1, <1>2, RoutesStep, PTL DEF Spec
-----------------------------------------------------------------------------
(* What a quiet file of the routes says.                                   *)

\* What a save that runs alone is about to leave in the file.
SaveCarries ==
  \A h \in Handlers : serving[h] = "chat" /\ save[h].alone =>
    /\ save[h].pc \in {"open", "write"} => save[h].raw = routes
    /\ save[h].pc = "rename" => disk[tmp].routes = routes

QuietInv == SaveCarries /\ QuietFileAgrees

\* A step of handler h within its save, during which the file never is quiet.
LEMMA QuietOwnStep ==
  ASSUME RoutesInv, QuietInv, NEW h \in Handlers, serving[h] = "chat", serving' = serving,
         \A g \in Handlers \ {h} : save'[g] = save[g],
         save'[h].alone = save[h].alone,
         save[h].alone =>
           /\ save'[h].pc \in {"open", "write"} => save'[h].raw = routes'
           /\ save'[h].pc = "rename" => disk'[tmp'].routes = routes'
  PROVE  QuietInv'
<1>1. SaveCarries'
  <2> SUFFICES ASSUME NEW g \in Handlers, serving'[g] = "chat", save'[g].alone
               PROVE  /\ save'[g].pc \in {"open", "write"} => save'[g].raw = routes'
                      /\ save'[g].pc = "rename" => disk'[tmp'].routes = routes'
    BY DEF SaveCarries
  <2>1. ASSUME g # h PROVE FALSE
    <3>1. save[g].alone /\ serving[g] = "chat" /\ h \in Handlers \ {g}
      BY <2>1
    <3> QED BY <3>1 DEF RoutesInv, LoneSaves
  <2> QED BY <2>1
<1>2. QuietFileAgrees'
  BY DEF QuietFileAgrees
<1> QED BY <1>1, <1>2 DEF QuietInv

LEMMA QuietNext ==
  ASSUME RoutesInv, QuietInv, [Next]_vars
  PROVE  QuietInv'
<1>0. /\ serving \in [Handlers -> Kinds] /\ save \in [Handlers -> Save]
      /\ disk \in [Files -> Content]
      /\ tmp \in Files \cup {NoFile} /\ path \in Files \cup {NoFile}
  BY DEF RoutesInv, RoutesTypeOK, ServingTypeOK, Save
<1>1. ASSUME NEW h \in Handlers, NEW c \in Conversations, NEW a \in RouteAccounts,
             NoteRoute(h, c, a)
      PROVE  QuietInv'
  <2> DEFINE mine == [NoSave EXCEPT !.pc = "snapshot", !.conv = c,
                                    !.alone = Others(h, "chat") = {}]
  <2>1. mine.pc = "snapshot"
    BY DEF NoSave
  <2>2. /\ serving' = [serving EXCEPT ![h] = "chat"]
        /\ save' = [g \in Handlers |-> IF g = h THEN mine
                                       ELSE [save[g] EXCEPT !.alone = FALSE]]
    BY <1>1 DEF NoteRoute, Accept
  <2> HIDE DEF mine
  <2>3. serving'[h] = "chat" /\ save'[h].pc = "snapshot"
        /\ \A g \in Handlers \ {h} : ~save'[g].alone
    BY <1>0, <2>1, <2>2 DEF Save
  <2> QED BY <2>3 DEF QuietInv, SaveCarries, QuietFileAgrees
<1>2. ASSUME NEW h \in Handlers, Snapshot(h) PROVE QuietInv'
  <2>1. PICK old \in SUBSET Conversations :
          /\ routes' = Prune(old)
          /\ save' = [save EXCEPT ![h].pc = "open", ![h].raw = Prune(old)]
    BY <1>2 DEF Snapshot
  <2>2. /\ save'[h].pc = "open" /\ save'[h].raw = routes' /\ save'[h].alone = save[h].alone
        /\ \A g \in Handlers \ {h} : save'[g] = save[g]
    BY <1>0, <2>1 DEF Save
  <2>3. serving[h] = "chat" /\ serving' = serving
    BY <1>2 DEF Snapshot, AtSave, GoOn
  <2> QED BY <2>2, <2>3, QuietOwnStep
<1>3. ASSUME NEW h \in Handlers, Open(h) PROVE QuietInv'
  <2>1. PICK f \in Files : save' = [save EXCEPT ![h].pc = "write", ![h].file = f]
    BY <1>3 DEF Open
  <2>2. /\ save'[h].pc = "write" /\ save'[h].raw = save[h].raw
        /\ save'[h].alone = save[h].alone
        /\ \A g \in Handlers \ {h} : save'[g] = save[g]
    BY <1>0, <2>1 DEF Save
  <2>3. serving[h] = "chat" /\ save[h].pc = "open" /\ UNCHANGED <<serving, routes>>
    BY <1>3 DEF Open, AtSave, GoOn
  <2>4. save[h].alone => save'[h].raw = routes'
    BY <2>2, <2>3 DEF QuietInv, SaveCarries
  <2> QED BY <2>2, <2>3, <2>4, QuietOwnStep
<1>4. ASSUME NEW h \in Handlers, Write(h) PROVE QuietInv'
  <2>1. /\ serving[h] = "chat" /\ save[h].pc = "write" /\ UNCHANGED <<serving, routes, tmp>>
        /\ save' = [save EXCEPT ![h].pc = "rename", ![h].raw = NoRoutes, ![h].file = NoFile]
    BY <1>4 DEF Write, AtSave, GoOn
  <2>2. /\ save'[h].pc = "rename" /\ save'[h].alone = save[h].alone
        /\ \A g \in Handlers \ {h} : save'[g] = save[g]
    BY <1>0, <2>1 DEF Save
  <2>3. ASSUME save[h].alone PROVE disk'[tmp'].routes = routes'
    <3>1. tmp # NoFile /\ save[h].file = tmp /\ disk[tmp] = Torn
      BY <2>1, <2>3 DEF RoutesInv, LoneSaves
    <3>2. save[h].raw = routes
      BY <2>1, <2>3 DEF QuietInv, SaveCarries
    <3>3. disk' = [disk EXCEPT ![tmp] = Whole(routes)]
      BY <1>4, <3>1, <3>2 DEF Write
    <3> QED BY <1>0, <2>1, <3>1, <3>3 DEF Whole
  <2> QED BY <2>1, <2>2, <2>3, QuietOwnStep
<1>5. ASSUME NEW h \in Handlers, GiveUp(h) PROVE QuietInv'
  <2>1. /\ serving[h] = "chat" /\ serving' = [serving EXCEPT ![h] = "idle"]
        /\ save' = [save EXCEPT ![h] = NoSave] /\ UNCHANGED <<routes, disk, tmp>>
        /\ behind'
    BY <1>5 DEF GiveUp, AtSave, Finish
  <2>2. \A g \in Handlers : serving'[g] = "chat" => serving[g] = "chat" /\ save'[g] = save[g]
    BY <1>0, <2>1
  <2> QED BY <2>1, <2>2 DEF QuietInv, SaveCarries, QuietFileAgrees
<1>6. ASSUME NEW h \in Handlers, Rename(h) PROVE QuietInv'
  <2>1. /\ serving[h] = "chat" /\ save[h].pc = "rename"
        /\ serving' = [serving EXCEPT ![h] = "idle"]
        /\ save' = [save EXCEPT ![h] = NoSave] /\ UNCHANGED routes
        /\ mixed' = (mixed /\ ~save[h].alone)
    BY <1>6 DEF Rename, AtSave, Finish
  <2>2. CASE save[h].alone
    <3>1. tmp # NoFile /\ disk[tmp].whole /\ \A g \in Handlers \ {h} : serving[g] # "chat"
      BY <2>1, <2>2 DEF RoutesInv, LoneSaves
    <3>2. disk[tmp].routes = routes
      BY <2>1, <2>2 DEF QuietInv, SaveCarries
    <3>3. path' = tmp /\ disk' = Without(path)
      BY <1>6, <3>1 DEF Rename
    <3>4. disk'[tmp] = disk[tmp]
      BY <1>0, <3>1, <3>3 DEF Without, RoutesInv, NamesApart
    <3>5. Loaded' = routes
      BY <3>1, <3>2, <3>3, <3>4 DEF Loaded
    <3>6. \A g \in Handlers : serving'[g] # "chat"
      BY <1>0, <2>1, <3>1
    <3> QED BY <2>1, <3>5, <3>6 DEF QuietInv, SaveCarries, QuietFileAgrees
  <2>3. CASE ~save[h].alone
    <3>1. mixed /\ mixed'
      BY <2>1, <2>3 DEF RoutesInv, LoneSaves
    <3>2. \A g \in Handlers : serving'[g] = "chat" => ~save'[g].alone
      <4> SUFFICES ASSUME NEW g \in Handlers, serving'[g] = "chat", save'[g].alone
                   PROVE  FALSE
        OBVIOUS
      <4>1. g # h /\ serving[g] = "chat" /\ save[g].alone /\ h \in Handlers \ {g}
        BY <1>0, <2>1
      <4> QED BY <2>1, <4>1 DEF RoutesInv, LoneSaves
    <3> QED BY <3>1, <3>2 DEF QuietInv, SaveCarries, QuietFileAgrees
  <2> QED BY <2>2, <2>3
<1>7. CASE Restart
  <2>1. PICK old \in SUBSET Conversations :
          /\ routes' = [c \in Conversations |-> IF c \in old THEN NoAcct ELSE Loaded[c]]
          /\ behind' = (old # {})
    BY <1>7 DEF Restart, RoutesRestart
  <2>2. /\ serving' = [g \in Handlers |-> "idle"] /\ UNCHANGED <<tmp, path>>
        /\ disk' = [f \in Files |-> IF f \in {tmp, path} THEN disk[f] ELSE Torn]
    BY <1>7 DEF Restart, RoutesRestart
  <2>3. Loaded' = Loaded
    BY <1>0, <2>2 DEF Loaded
  <2>4. Loaded \in Routes
    BY <1>0, ContentRoutes, NoRoutesType DEF Loaded
  <2>5. ~behind' => Loaded' = routes'
    BY <2>1, <2>3, <2>4 DEF Routes
  <2> QED BY <2>2, <2>5 DEF SaveCarries, QuietFileAgrees, QuietInv
<1>8. CASE \/ SettingsNext /\ UNCHANGED routeVars
           \/ UNCHANGED vars
  <2>1. UNCHANGED routeVars
    BY <1>8 DEF vars
  <2>2. \A g \in Handlers : serving'[g] = "chat" <=> serving[g] = "chat"
    BY <1>8, PutStep DEF RoutesInv, vars
  <2> QED BY <2>1, <2>2 DEF QuietInv, SaveCarries, QuietFileAgrees, Loaded, routeVars
<1> QED BY <1>1, <1>2, <1>3, <1>4, <1>5, <1>6, <1>7, <1>8 DEF Next, RoutesNext

\* handler.go:1385-1433: when no chat is under way and no overlap, failure or
\* dropping is left to make up for, the file says what the memory says, so
\* that a restart moves no conversation.
THEOREM QuietFileIsMemory == Spec => []QuietFileAgrees
<1>1. Init => RoutesInv /\ QuietInv
  <2>1. Init => QuietInv
    BY DEF Init, ServingInit, RoutesInit, QuietInv, SaveCarries, QuietFileAgrees, Loaded
  <2> QED BY <2>1, RoutesInitInv DEF Init
<1>2. QuietInv => QuietFileAgrees
  BY DEF QuietInv
<1>3. RoutesInv /\ QuietInv /\ [Next]_vars => QuietInv'
  BY QuietNext
<1> QED BY <1>1, <1>2, <1>3, RoutesStep, PTL DEF Spec

-----------------------------------------------------------------------------
\* Every variable keeps its type: no refused value in the overlay or its
\* file, a snapshot or what does not parse in every file of the routes.
THEOREM TypeCorrect == Spec => []TypeOK
<1> DEFINE R == restarts \in 0 .. MaxRestarts
<1>1. Init => RoutesInv /\ R
  BY RoutesInitInv, RestartsAssumption DEF Init
<1>2. R /\ [Next]_vars => R'
  BY RestartsAssumption DEF Next, Restart, vars
<1>3. SettingsInv /\ RoutesInv /\ R => TypeOK
  BY DEF SettingsInv, RoutesInv, TypeOK
<1> HIDE DEF R
<1> QED BY <1>1, <1>2, <1>3, SettingsInvariant, RoutesStep, PTL DEF Spec
=============================================================================
