--------------------------- MODULE CatalogueProofs ---------------------------
(***************************************************************************)
(* The header maas_type follows the rounds of model discovery, for any     *)
(* number of accounts, models and discovering requests.                    *)
(***************************************************************************)
EXTENDS Catalogue, TLAPS

\* A round that has not heard the benefit source has no benefit models.
HeardOnly ==
  \A d \in Discoverers : "benefit" \notin loc[d].ok => loc[d].benefit = {}

\* What the benefit source reported when it last worked is remembered in the
\* account's catalogue, and that catalogue knows what the round listed.
Remembered ==
  \A a \in Accounts :
    /\ round[a].confirmed \subseteq cat[a].last
    /\ round[a].listed \subseteq cat[a].known

\* A discovery at work on an account is at one that exists.
AtAccount ==
  \A d \in Discoverers :
    at[d] \in {"builtin", "benefit", "commit"} => loc[d].acct \in Accounts

IInv == TypeOK /\ HeardOnly /\ Remembered /\ AtAccount
          /\ ConfirmedKeepsHeader /\ PromotedLosesHeader

\* The two invariants read nothing but the catalogues and the rounds.
LEMMA HeaderFrame ==
  ASSUME IInv, UNCHANGED <<cat, round>>
  PROVE  Remembered' /\ ConfirmedKeepsHeader' /\ PromotedLosesHeader'
BY DEF IInv, Remembered, ConfirmedKeepsHeader, PromotedLosesHeader, IsBenefitModel

\* The conjuncts about discoverers read nothing but their places and locals.
LEMMA LocalFrame ==
  ASSUME IInv, UNCHANGED <<at, loc>>
  PROVE  HeardOnly' /\ AtAccount'
BY DEF IInv, HeardOnly, AtAccount

LEMMA InitIInv == Init => IInv
<1> SUFFICES ASSUME Init PROVE IInv
  OBVIOUS
<1> USE CatalogueAssumption
<1>1. TypeOK
  BY DEF Init, TypeOK, Accounts, Sources, Blockable, Listing, Empty,
         NoCatalogue, NoRound, Blank, Turn
<1>2. HeardOnly /\ AtAccount
  BY DEF Init, HeardOnly, AtAccount, Blank, Turn
<1>3. Remembered /\ ConfirmedKeepsHeader /\ PromotedLosesHeader
  BY DEF Init, Remembered, ConfirmedKeepsHeader, PromotedLosesHeader, NoRound,
         NoCatalogue
<1> QED BY <1>1, <1>2, <1>3 DEF IInv

\* Asking a source: the locals keep their type and hear only what answers.
LEMMA QueryLemma ==
  ASSUME IInv, NEW d \in Discoverers, NEW s \in Sources, NEW place,
         place \in {"builtin", "benefit", "commit"},
         loc[d].acct \in Accounts, Query(d, s, place),
         UNCHANGED <<offer, healthy, cat, list, saved, round>>
  PROVE  IInv'
<1> USE CatalogueAssumption
<1> DEFINE a == loc[d].acct
<1>0. loc[d] \in [role : {"list", "reload"}, acct : 1 .. NumAccounts + 1,
                  plain : SUBSET Models, benefit : SUBSET Models,
                  ok : SUBSET Blockable, sum : Listing]
  BY DEF IInv, TypeOK
<1>1. offer[a][s] \in SUBSET Models
  BY DEF IInv, TypeOK
<1>2. at' = [at EXCEPT ![d] = place]
  BY DEF Query, Goto
<1>3. blocked' \subseteq Accounts \X Blockable
  <2>1. s \in Blockable => <<a, s>> \in Accounts \X Blockable
    OBVIOUS
  <2>2. blocked \subseteq Accounts \X Blockable
    BY DEF IInv, TypeOK
  <2> QED BY <2>1, <2>2 DEF Query, Answered, Failed
<1>4. events' \in 0 .. MaxEvents
  BY DEF IInv, TypeOK, Query, Answered, Failed, Intervene
<1>5. loc' \in [Discoverers -> [role : {"list", "reload"},
                  acct : 1 .. NumAccounts + 1,
                  plain : SUBSET Models, benefit : SUBSET Models,
                  ok : SUBSET Blockable, sum : Listing]]
      /\ HeardOnly'
      /\ loc'[d].acct = loc[d].acct /\ \A e \in Discoverers \ {d} : loc'[e] = loc[e]
  <2>1. CASE UNCHANGED loc
    BY <2>1 DEF IInv, TypeOK, HeardOnly
  <2>2. CASE Answered(d, s)
    <3> DEFINE l == [loc[d] EXCEPT !.ok = @ \cup ({s} \cap Blockable),
                       !.plain = IF s = "benefit" THEN @ ELSE @ \cup offer[a][s],
                       !.benefit = IF s = "benefit" THEN offer[a][s] ELSE @]
    <3>1. loc' = [loc EXCEPT ![d] = l]
      BY <2>2 DEF Answered, SetLoc
    <3>2. /\ l.ok = loc[d].ok \cup ({s} \cap Blockable)
          /\ l.benefit = IF s = "benefit" THEN offer[a][s] ELSE loc[d].benefit
          /\ l.acct = loc[d].acct
      BY <1>0
    <3>3. l \in [role : {"list", "reload"}, acct : 1 .. NumAccounts + 1,
                 plain : SUBSET Models, benefit : SUBSET Models,
                 ok : SUBSET Blockable, sum : Listing]
      BY <1>0, <1>1
    <3>4. "benefit" \notin l.ok => l.benefit = {}
      BY <3>2 DEF IInv, HeardOnly, Blockable
    <3> HIDE DEF l
    <3>5. /\ loc'[d] = l /\ \A e \in Discoverers \ {d} : loc'[e] = loc[e]
          /\ loc' \in [Discoverers -> [role : {"list", "reload"},
                        acct : 1 .. NumAccounts + 1,
                        plain : SUBSET Models, benefit : SUBSET Models,
                        ok : SUBSET Blockable, sum : Listing]]
      BY <3>1, <3>3 DEF IInv, TypeOK
    <3>6. HeardOnly'
      BY <3>4, <3>5 DEF IInv, HeardOnly
    <3> QED BY <3>2, <3>5, <3>6
  <2> QED BY <2>1, <2>2 DEF Query, Failed
<1>6. TypeOK'
  BY <1>2, <1>3, <1>4, <1>5 DEF IInv, TypeOK
<1>7. AtAccount'
  BY <1>2, <1>5 DEF IInv, TypeOK, AtAccount
<1> QED BY <1>5, <1>6, <1>7, HeaderFrame DEF IInv

LEMMA AskInv ==
  ASSUME IInv, NEW d \in Discoverers, NEW role \in Roles[d], Ask(d, role)
  PROVE  IInv'
<1> USE CatalogueAssumption
<1>1. loc' = [loc EXCEPT ![d] = Turn(role, 1, Empty)]
      /\ at' = [at EXCEPT ![d] = "visit"]
  BY DEF Ask, SetLoc, Goto
<1>2. Turn(role, 1, Empty) \in
        [role : {"list", "reload"}, acct : 1 .. NumAccounts + 1,
         plain : SUBSET Models, benefit : SUBSET Models,
         ok : SUBSET Blockable, sum : Listing]
      /\ Turn(role, 1, Empty).benefit = {}
  BY DEF Blank, Turn, Empty, Listing
<1>3. TypeOK'
  BY <1>1, <1>2 DEF IInv, TypeOK, Ask
<1>4. HeardOnly' /\ AtAccount'
  BY <1>1, <1>2 DEF IInv, TypeOK, HeardOnly, AtAccount
<1> QED BY <1>3, <1>4, HeaderFrame DEF IInv, Ask

LEMMA VisitInv ==
  ASSUME IInv, NEW d \in Discoverers, Visit(d)
  PROVE  IInv'
<1> USE CatalogueAssumption
<1> DEFINE a == loc[d].acct
           next == [loc[d] EXCEPT !.acct = @ + 1]
           sum == Merge(next.sum, [known |-> cat[a].known, benefit |-> cat[a].benefit])
           Loc == [role : {"list", "reload"}, acct : 1 .. NumAccounts + 1,
                   plain : SUBSET Models, benefit : SUBSET Models,
                   ok : SUBSET Blockable, sum : Listing]
<1>1. a \in Accounts /\ at[d] = "visit"
  BY DEF Visit
<1>2. loc[d] \in Loc
  BY DEF IInv, TypeOK
<1>3. next \in Loc /\ next.benefit = loc[d].benefit /\ next.ok = loc[d].ok
  BY <1>1, <1>2 DEF Accounts
<1>4. sum \in Listing
  BY <1>1, <1>3 DEF IInv, TypeOK, Merge, Listing
<1>5. ASSUME NEW l \in Loc, loc' = [loc EXCEPT ![d] = l], l.benefit = loc[d].benefit,
             l.ok = loc[d].ok, UNCHANGED <<at, blocked, events>>
      PROVE  IInv'
  <2>1. TypeOK'
    BY <1>5 DEF IInv, TypeOK, Visit
  <2>2. HeardOnly' /\ AtAccount'
    BY <1>1, <1>5 DEF IInv, TypeOK, HeardOnly, AtAccount
  <2> QED BY <2>1, <2>2, HeaderFrame DEF IInv, Visit
<1>6. CASE loc' = [loc EXCEPT ![d] = next] /\ UNCHANGED <<at, blocked, events>>
  BY <1>3, <1>5, <1>6
<1>7. CASE loc' = [loc EXCEPT ![d] = [next EXCEPT !.sum = sum]]
             /\ UNCHANGED <<at, blocked, events>>
  <2>1. [next EXCEPT !.sum = sum] \in Loc
        /\ [next EXCEPT !.sum = sum].benefit = next.benefit
        /\ [next EXCEPT !.sum = sum].ok = next.ok
    BY <1>3, <1>4
  <2> QED BY <1>3, <1>5, <1>7, <2>1
<1>8. CASE Query(d, "agent", "builtin")
  BY <1>1, <1>8, QueryLemma DEF Visit, Sources
<1>9. \/ loc' = [loc EXCEPT ![d] = next] /\ UNCHANGED <<at, blocked, events>>
      \/ (loc' = [loc EXCEPT ![d] = [next EXCEPT !.sum = sum]]
            /\ UNCHANGED <<at, blocked, events>>)
      \/ Query(d, "agent", "builtin")
  BY DEF Visit, SetLoc, FetchAgentModels
<1> QED BY <1>6, <1>7, <1>8, <1>9

LEMMA FetchInv ==
  ASSUME IInv, NEW d \in Discoverers, FetchBuiltinModels(d) \/ FetchBenefitModels(d)
  PROVE  IInv'
<1>1. loc[d].acct \in Accounts
  BY DEF IInv, AtAccount, FetchBuiltinModels, FetchBenefitModels
<1> QED BY <1>1, QueryLemma DEF FetchBuiltinModels, FetchBenefitModels, Sources

\* A round that is committed: the catalogue and the record of the round agree.
LEMMA CommitInv ==
  ASSUME IInv, NEW d \in Discoverers, Commit(d)
  PROVE  IInv'
<1> USE CatalogueAssumption
<1> DEFINE a == loc[d].acct
           ids == loc[d].plain \cup loc[d].benefit
           keep == "builtin" \in loc[d].ok /\ "benefit" \notin loc[d].ok
           last == cat[a].last \cup loc[d].benefit
           kept == IF keep THEN last \ ids ELSE {}
           C == [fresh |-> TRUE, known |-> ids \cup kept,
                 benefit |-> loc[d].benefit \cup kept, last |-> last]
           R == NextRound(round[a], loc[d])
           sum == Merge(loc[d].sum, [known |-> ids, benefit |-> loc[d].benefit])
           l == Turn(loc[d].role, a + 1, sum)
<1>1. a \in Accounts
  BY DEF IInv, AtAccount, Commit
<1>2. loc[d] \in [role : {"list", "reload"}, acct : 1 .. NumAccounts + 1,
                  plain : SUBSET Models, benefit : SUBSET Models,
                  ok : SUBSET Blockable, sum : Listing]
  BY DEF IInv, TypeOK
<1>3. l \in [role : {"list", "reload"}, acct : 1 .. NumAccounts + 1,
             plain : SUBSET Models, benefit : SUBSET Models,
             ok : SUBSET Blockable, sum : Listing]
  BY <1>1, <1>2 DEF Accounts, Merge, Listing, Turn
<1>4. loc' = [loc EXCEPT ![d] = l] /\ at' = [at EXCEPT ![d] = "visit"]
  BY DEF Commit, SetLoc, Goto
<1>5. C \in [fresh : BOOLEAN, known : SUBSET Models, benefit : SUBSET Models,
             last : SUBSET Models]
      /\ C.benefit \subseteq C.known
  BY <1>1, <1>2 DEF IInv, TypeOK
<1>6. R \in [kind : {"none", "full", "kept", "agent"},
             confirmed : SUBSET Models, listed : SUBSET Models]
      /\ R.confirmed \subseteq C.last /\ R.listed \subseteq C.known
  BY <1>1, <1>2 DEF IInv, TypeOK, NextRound, Remembered
<1>7. \/ UNCHANGED <<cat, round>>
      \/ cat' = [cat EXCEPT ![a] = C] /\ round' = [round EXCEPT ![a] = R]
  BY DEF Commit, SetAccountModels
<1>8. TypeOK'
  <2>1. cat' \in [Accounts -> [fresh : BOOLEAN, known : SUBSET Models,
                    benefit : SUBSET Models, last : SUBSET Models]]
        /\ \A b \in Accounts : cat'[b].benefit \subseteq cat'[b].known
    <3> HIDE DEF C, R
    <3>1. cat' = cat \/ cat' = [cat EXCEPT ![a] = C]
      BY <1>7
    <3>2. cat' \in [Accounts -> [fresh : BOOLEAN, known : SUBSET Models,
                      benefit : SUBSET Models, last : SUBSET Models]]
      BY <1>1, <1>5, <3>1 DEF IInv, TypeOK
    <3>3. ASSUME NEW b \in Accounts
          PROVE  cat'[b].benefit \subseteq cat'[b].known
      BY <1>1, <1>5, <3>1 DEF IInv, TypeOK
    <3> QED BY <3>2, <3>3
  <2>2. round' \in [Accounts -> [kind : {"none", "full", "kept", "agent"},
                      confirmed : SUBSET Models, listed : SUBSET Models]]
    <3> HIDE DEF C, R
    <3>1. round' = round \/ round' = [round EXCEPT ![a] = R]
      BY <1>7
    <3> QED BY <1>6, <3>1 DEF IInv, TypeOK
  <2>3. loc' \in [Discoverers -> [role : {"list", "reload"},
                    acct : 1 .. NumAccounts + 1,
                    plain : SUBSET Models, benefit : SUBSET Models,
                    ok : SUBSET Blockable, sum : Listing]]
    <3> HIDE DEF l
    <3> QED BY <1>3, <1>4 DEF IInv, TypeOK
  <2> QED BY <1>4, <2>1, <2>2, <2>3 DEF IInv, TypeOK, Commit
<1>9. HeardOnly' /\ AtAccount'
  <2>1. l.benefit = {}
    BY DEF Turn
  <2> HIDE DEF l
  <2> QED BY <1>4, <2>1 DEF IInv, TypeOK, HeardOnly, AtAccount
<1>10. CASE UNCHANGED <<cat, round>>
  BY <1>8, <1>9, <1>10, HeaderFrame DEF IInv
<1>11. CASE cat' = [cat EXCEPT ![a] = C] /\ round' = [round EXCEPT ![a] = R]
  <2>1. cat'[a] = C /\ round'[a] = R
        /\ \A b \in Accounts \ {a} : cat'[b] = cat[b] /\ round'[b] = round[b]
    <3> HIDE DEF C, R
    <3> QED BY <1>1, <1>11 DEF IInv, TypeOK
  <2>2. "benefit" \notin loc[d].ok => loc[d].benefit = {}
    BY DEF IInv, HeardOnly
  <2>3. ASSUME R.kind \in {"full", "kept"}, NEW m \in R.confirmed \ R.listed
        PROVE  m \in C.benefit
    <3>1. CASE "benefit" \in loc[d].ok
      BY <2>3, <3>1 DEF NextRound
    <3>2. CASE "benefit" \notin loc[d].ok
      <4>1. keep /\ R.confirmed = round[a].confirmed /\ R.listed = loc[d].plain
        BY <2>3, <3>2 DEF NextRound
      <4>2. round[a].confirmed \subseteq cat[a].last
        BY <1>1 DEF IInv, Remembered
      <4> QED BY <2>2, <2>3, <3>2, <4>1, <4>2
    <3> QED BY <3>1, <3>2
  <2>4. ASSUME NEW m \in R.listed, R.kind = "full" => m \notin R.confirmed
        PROVE  m \notin C.benefit
    <3>1. m \in ids /\ m \notin kept
      BY <2>4 DEF NextRound
    <3>2. m \notin loc[d].benefit
      BY <2>2, <2>4 DEF NextRound
    <3> QED BY <3>1, <3>2
  <2>5. Remembered'
    <3> HIDE DEF C, R
    <3> QED BY <1>6, <2>1 DEF IInv, Remembered
  <2>6. ConfirmedKeepsHeader'
    <3> HIDE DEF C, R
    <3> QED BY <1>5, <2>1, <2>3 DEF IInv, ConfirmedKeepsHeader, IsBenefitModel
  <2>7. PromotedLosesHeader'
    <3> HIDE DEF C, R
    <3> QED BY <1>6, <2>1, <2>4 DEF IInv, PromotedLosesHeader, IsBenefitModel
  <2> QED BY <1>8, <1>9, <2>5, <2>6, <2>7 DEF IInv
<1> QED BY <1>7, <1>10, <1>11

LEMMA PublishInv ==
  ASSUME IInv, NEW d \in Discoverers, Publish(d)
  PROVE  IInv'
<1> USE CatalogueAssumption
<1>1. loc' = [loc EXCEPT ![d] = Blank] /\ at' = [at EXCEPT ![d] = "idle"]
      /\ UNCHANGED <<offer, healthy, blocked, cat, round, events>>
  BY DEF Publish, Return, SetLoc, Goto
<1>2. Blank \in [role : {"list", "reload"}, acct : 1 .. NumAccounts + 1,
                 plain : SUBSET Models, benefit : SUBSET Models,
                 ok : SUBSET Blockable, sum : Listing]
      /\ Blank.benefit = {}
  BY DEF Blank, Turn, Empty, Listing
<1>3. list' \in [models : Listing, fresh : BOOLEAN, failed : BOOLEAN]
      /\ saved' \in Listing
  <2>1. loc[d].sum \in Listing /\ saved \in Listing
        /\ list \in [models : Listing, fresh : BOOLEAN, failed : BOOLEAN]
    BY DEF IInv, TypeOK
  <2>2. [list EXCEPT !.failed = TRUE] \in
          [models : Listing, fresh : BOOLEAN, failed : BOOLEAN]
    BY <2>1
  <2>3. [models |-> loc[d].sum, fresh |-> TRUE, failed |-> FALSE] \in
          [models : Listing, fresh : BOOLEAN, failed : BOOLEAN]
    BY <2>1
  <2>5. CASE list' = [list EXCEPT !.failed = TRUE] /\ UNCHANGED saved
    BY <2>1, <2>2, <2>5
  <2>6. CASE list' = [models |-> loc[d].sum, fresh |-> TRUE, failed |-> FALSE]
               /\ saved' = loc[d].sum
    BY <2>1, <2>3, <2>6
  <2> QED BY <2>5, <2>6 DEF Publish
<1>4. TypeOK'
  BY <1>1, <1>2, <1>3 DEF IInv, TypeOK
<1>5. HeardOnly' /\ AtAccount'
  BY <1>1, <1>2 DEF IInv, TypeOK, HeardOnly, AtAccount
<1> QED BY <1>1, <1>4, <1>5, HeaderFrame DEF IInv

\* Time ends the lifetime of a list, of a failure, of a catalogue.
LEMMA ClockInv ==
  ASSUME IInv, Clock
  PROVE  IInv'
<1> USE CatalogueAssumption
<1>1. CASE ExpireList \/ ExpireFailure \/ \E a \in Accounts, s \in Blockable : Unblock(a, s)
  <2>0. [list EXCEPT !.fresh = FALSE] \in
          [models : Listing, fresh : BOOLEAN, failed : BOOLEAN]
        /\ [list EXCEPT !.failed = FALSE] \in
          [models : Listing, fresh : BOOLEAN, failed : BOOLEAN]
    BY DEF IInv, TypeOK
  <2>1. TypeOK'
    BY <1>1, <2>0 DEF IInv, TypeOK, ExpireList, ExpireFailure, Unblock
  <2>2. UNCHANGED <<at, loc, cat, round>>
    BY <1>1 DEF ExpireList, ExpireFailure, Unblock
  <2> QED BY <2>1, <2>2, HeaderFrame, LocalFrame DEF IInv
<1>2. ASSUME NEW a \in Accounts, ExpireCatalogue(a)
      PROVE  IInv'
  <2>1. \A b \in Accounts : /\ cat'[b].known = cat[b].known
                            /\ cat'[b].benefit = cat[b].benefit
                            /\ cat'[b].last = cat[b].last
    BY <1>2 DEF IInv, TypeOK, ExpireCatalogue
  <2>2. TypeOK'
    <3>1. cat' \in [Accounts -> [fresh : BOOLEAN, known : SUBSET Models,
                      benefit : SUBSET Models, last : SUBSET Models]]
      <4> DEFINE c == [cat[a] EXCEPT !.fresh = FALSE]
      <4>1. c \in [fresh : BOOLEAN, known : SUBSET Models,
                   benefit : SUBSET Models, last : SUBSET Models]
        <5>1. cat[a] \in [fresh : BOOLEAN, known : SUBSET Models,
                           benefit : SUBSET Models, last : SUBSET Models]
          BY DEF IInv, TypeOK
        <5> QED BY <5>1
      <4>2. cat' = [cat EXCEPT ![a] = c]
        BY <1>2 DEF ExpireCatalogue
      <4> HIDE DEF c
      <4> QED BY <4>1, <4>2 DEF IInv, TypeOK
    <3> QED BY <1>2, <2>1, <3>1 DEF IInv, TypeOK, ExpireCatalogue
  <2>3. UNCHANGED <<at, loc, round>>
    BY <1>2 DEF ExpireCatalogue
  <2>4. Remembered' /\ ConfirmedKeepsHeader' /\ PromotedLosesHeader'
    BY <2>1, <2>3 DEF IInv, Remembered, ConfirmedKeepsHeader,
                      PromotedLosesHeader, IsBenefitModel
  <2> QED BY <2>2, <2>3, <2>4, LocalFrame DEF IInv
<1> QED BY <1>1, <1>2 DEF Clock

LEMMA EnvironmentInv ==
  ASSUME IInv, Environment
  PROVE  IInv'
<1> USE CatalogueAssumption
<1>1. ASSUME NEW a \in Accounts, OfferChanges(a) \/ AccountToggles(a)
      PROVE  IInv'
  <2>0. offer \in [Accounts -> [Sources -> SUBSET Models]] /\ healthy \subseteq Accounts
    BY DEF IInv, TypeOK
  <2>1. offer' \in [Accounts -> [Sources -> SUBSET Models]] /\ healthy' \subseteq Accounts
    <3>1. CASE OfferChanges(a)
      <4>1. PICK o \in Offers : offer' = [offer EXCEPT ![a] = o]
        BY <3>1 DEF OfferChanges
      <4>2. o \in [Sources -> SUBSET Models]
        OBVIOUS
      <4> QED BY <2>0, <3>1, <4>1, <4>2 DEF OfferChanges
    <3>2. CASE AccountToggles(a)
      BY <2>0, <3>2 DEF AccountToggles
    <3> QED BY <1>1, <3>1, <3>2
  <2>2. events' \in 0 .. MaxEvents
    BY <1>1 DEF IInv, TypeOK, OfferChanges, AccountToggles, Intervene
  <2>3. UNCHANGED <<blocked, cat, list, saved, at, loc, round>>
    BY <1>1 DEF OfferChanges, AccountToggles
  <2>4. TypeOK'
    BY <2>1, <2>2, <2>3 DEF IInv, TypeOK
  <2> QED BY <2>3, <2>4, HeaderFrame, LocalFrame DEF IInv
<1>2. CASE Restart
  <2>1. cat' = [a \in Accounts |-> NoCatalogue] /\ round' = [a \in Accounts |-> NoRound]
        /\ loc' = [d \in Discoverers |-> Blank] /\ at' = [d \in Discoverers |-> "idle"]
    BY <1>2 DEF Restart
  <2>2. TypeOK'
    BY <1>2, <2>1 DEF IInv, TypeOK, Restart, Intervene, NoCatalogue, NoRound, Blank, Turn,
                      Accounts, Listing, Empty
  <2>3. HeardOnly' /\ AtAccount'
    BY <2>1 DEF HeardOnly, AtAccount, Blank, Turn
  <2>4. Remembered' /\ ConfirmedKeepsHeader' /\ PromotedLosesHeader'
    BY <2>1 DEF Remembered, ConfirmedKeepsHeader, PromotedLosesHeader, NoCatalogue,
                NoRound
  <2> QED BY <2>2, <2>3, <2>4 DEF IInv
<1> QED BY <1>1, <1>2 DEF Environment

LEMMA StepIInv == IInv /\ [Next]_vars => IInv'
<1> SUFFICES ASSUME IInv, [Next]_vars PROVE IInv'
  OBVIOUS
<1>1. CASE UNCHANGED vars
  <2>1. TypeOK'
    BY <1>1 DEF IInv, TypeOK, vars
  <2> QED BY <1>1, <2>1, HeaderFrame, LocalFrame DEF IInv, vars
<1>2. ASSUME NEW d \in Discoverers, Discover(d)
      PROVE  IInv'
  BY <1>2, VisitInv, FetchInv, CommitInv, PublishInv DEF Discover
<1>3. ASSUME NEW d \in Discoverers, NEW role \in Roles[d], Ask(d, role)
      PROVE  IInv'
  BY <1>3, AskInv
<1> QED BY <1>1, <1>2, <1>3, ClockInv, EnvironmentInv DEF Next

LEMMA Invariance == Spec => []IInv
BY InitIInv, StepIInv, PTL DEF Spec

\* Every variable keeps its type, and a catalogue marks only models it lists.
THEOREM TypeCorrect == Spec => []TypeOK
<1>1. IInv => TypeOK
  BY DEF IInv
<1> QED BY <1>1, Invariance, PTL

\* Rounds without the benefit source do not cost a benefit model its header.
THEOREM ConfirmedModelsKeepHeader == Spec => []ConfirmedKeepsHeader
<1>1. IInv => ConfirmedKeepsHeader
  BY DEF IInv
<1> QED BY <1>1, Invariance, PTL

\* A model that became an ordinary one is not sent with the header.
THEOREM PromotedModelsLoseHeader == Spec => []PromotedLosesHeader
<1>1. IInv => PromotedLosesHeader
  BY DEF IInv
<1> QED BY <1>1, Invariance, PTL
=============================================================================
