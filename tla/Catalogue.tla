------------------------------ MODULE Catalogue ------------------------------
(***************************************************************************)
(* Model discovery: what GET /v1/models and the panel's refresh button do  *)
(* (discoverModels), and what they leave behind: one catalogue per         *)
(* account, with the benefit models that need the header maas_type, and    *)
(* one merged list for all accounts.  Three sources answer for an account, *)
(* each may fail, and two of them are then left alone for a while.         *)
(* Several requests discover at once: nothing in the code joins them, so   *)
(* their queries and commits interleave.                                   *)
(*                                                                         *)
(* Time is abstract: whatever has a lifetime may reach its end at any      *)
(* moment.  Model ids are model values, without letter case, and a model   *)
(* has no other attribute than its benefit mark.                           *)
(***************************************************************************)
EXTENDS Integers, FiniteSets

CONSTANTS
  NumAccounts,   \* accounts are 1..NumAccounts, in pool order
  Models,        \* model ids
  Seed,          \* seedBenefit: models taken for benefit models at a cold start
  Discoverers,   \* requests that may discover at the same time
  Roles,         \* what each of them may ask for
  FirstOffer,    \* what the sources list for every account at the start
  Offers,        \* what the upstream's sources may list for an account
  MaxEvents      \* bound on the environment's changes and on restarts

Accounts == 1 .. NumAccounts
Sources == {"agent", "builtin", "benefit"}
Blockable == {"builtin", "benefit"}

ASSUME CatalogueAssumption ==
  /\ NumAccounts \in Nat
  /\ Seed \subseteq Models
  /\ Roles \in [Discoverers -> SUBSET {"list", "reload"}]
  /\ Offers \subseteq [Sources -> SUBSET Models]
  /\ FirstOffer \in Offers
  /\ MaxEvents \in Nat

VARIABLES
  offer,    \* what the upstream's sources list for an account
  healthy,  \* Pool.Healthy
  blocked,  \* Client.srcFail: sources of an account left alone for now
  cat,      \* catalog.accounts
  list,     \* dynamicModelsCache: the merged list, and its two lifetimes
  saved,    \* the list in the model cache file
  at,       \* where a discoverer is
  loc,      \* its locals
  round,    \* how the sources fared in the last round committed for an account
  events    \* interventions of the environment so far

vars == <<offer, healthy, blocked, cat, list, saved, at, loc, round,
          events>>

Listing == [known : SUBSET Models, benefit : SUBSET Models]
Empty == [known |-> {}, benefit |-> {}]
Merge(x, y) == [known |-> x.known \cup y.known, benefit |-> x.benefit \cup y.benefit]

NoCatalogue == [fresh |-> FALSE, known |-> {},
                benefit |-> {}, last |-> {}]
NoRound == [kind |-> "none", confirmed |-> {}, listed |-> {}]
Turn(role, acct, sum) ==
  [role |-> role, acct |-> acct, plain |-> {}, benefit |-> {}, ok |-> {}, sum |-> sum]
Blank == Turn("list", 1, Empty)

Init ==
  /\ offer = [a \in Accounts |-> FirstOffer]
  /\ healthy = Accounts
  /\ blocked = {}
  /\ cat = [a \in Accounts |-> NoCatalogue]
  /\ list = [models |-> Empty, fresh |-> FALSE, failed |-> FALSE]
  /\ saved = Empty
  /\ at = [d \in Discoverers |-> "idle"]
  /\ loc = [d \in Discoverers |-> Blank]
  /\ round = [a \in Accounts |-> NoRound]
  /\ events = 0

-----------------------------------------------------------------------------
(* The catalogue of one account.                                           *)

\* Mutant: the memory of benefit models starts afresh with every round.
SetAccountModelsForgets(c, ids, benefit, keepBenefit) ==
  LET kept == IF keepBenefit THEN c.benefit \ ids ELSE {} IN
  [fresh |-> TRUE, known |-> ids \cup kept,
   benefit |-> benefit \cup kept, last |-> benefit]

\* Mutant: a model that a working source registers keeps its benefit mark.
SetAccountModelsSticky(c, ids, benefit, keepBenefit) ==
  LET last == c.last \cup benefit
      kept == IF keepBenefit THEN last ELSE {} IN
  [fresh |-> TRUE, known |-> ids \cup kept,
   benefit |-> benefit \cup kept, last |-> last]

\* Mutant: the kept models get their mark but are not registered.
SetAccountModelsHalf(c, ids, benefit, keepBenefit) ==
  LET last == c.last \cup benefit
      kept == IF keepBenefit THEN last \ ids ELSE {} IN
  [fresh |-> TRUE, known |-> ids,
   benefit |-> benefit \cup kept, last |-> last]

\* The catalogue that replaces c.  With keepBenefit (the benefit source
\* failed, the builtin one did not) the benefit models of earlier rounds stay
\* as far as no source lists them as ordinary models.
SetAccountModels(c, ids, benefit, keepBenefit) ==
  LET last == c.last \cup benefit
      kept == IF keepBenefit THEN last \ ids ELSE {} IN
  [fresh |-> TRUE, known |-> ids \cup kept,
   benefit |-> benefit \cup kept, last |-> last]

\* Whether a chat request for m sends the header maas_type: benefit.
IsBenefitModel(a, m) ==
  IF m \in cat[a].known THEN m \in cat[a].benefit ELSE m \in Seed

AccountCatalogStale(a) == ~cat[a].fresh

-----------------------------------------------------------------------------
(* discoverModels, one action per query and per critical section.          *)

Intervene == events < MaxEvents /\ events' = events + 1

Goto(d, place) == at' = [at EXCEPT ![d] = place]
SetLoc(d, l) == loc' = [loc EXCEPT ![d] = l]

Return(d) ==
  /\ Goto(d, "idle")
  /\ SetLoc(d, Blank)

\* Mutant: a list that has expired is served all the same.
ServedFromCacheForEver == list.models.known # {} \/ list.failed

\* The list is there and recent, or the last discovery failed a moment ago.
ServedFromCache == (list.models.known # {} /\ list.fresh) \/ list.failed

\* GET /v1/models with a list in the cache or a recent failure changes
\* nothing; otherwise the accounts are visited.  The panel's refresh (reload)
\* ignores both.
Ask(d, role) ==
  /\ at[d] = "idle"
  /\ role = "list" => ~ServedFromCache
  /\ Goto(d, "visit")
  /\ SetLoc(d, Turn(role, 1, Empty))
  /\ UNCHANGED <<offer, healthy, blocked, cat, list, saved, round, events>>

\* The source answers: its models are noted, its failure is forgotten.
Answered(d, s) ==
  LET a == loc[d].acct IN
  /\ SetLoc(d, [loc[d] EXCEPT !.ok = @ \cup ({s} \cap Blockable),
       !.plain = IF s = "benefit" THEN @ ELSE @ \cup offer[a][s],
       !.benefit = IF s = "benefit" THEN offer[a][s] ELSE @])
  /\ blocked' = blocked \ {<<a, s>>}
  /\ UNCHANGED events

\* It does not answer, or not well: of the two that are watched it is not
\* asked again for srcFailCooldown.
Failed(d, s) ==
  /\ Intervene
  /\ blocked' = IF s \in Blockable THEN blocked \cup {<<loc[d].acct, s>>} ELSE blocked
  /\ UNCHANGED loc

Query(d, s, place) ==
  /\ Goto(d, place)
  /\ IF <<loc[d].acct, s>> \in blocked THEN UNCHANGED <<blocked, loc, events>>
     ELSE Answered(d, s) \/ Failed(d, s)

FetchAgentModels(d) == Query(d, "agent", "builtin")

\* The next account: skipped when it is not healthy, answered from its
\* catalogue when that is recent, queried otherwise, the agents first.
Visit(d) ==
  /\ at[d] = "visit" /\ loc[d].acct \in Accounts
  /\ LET a == loc[d].acct
         query == a \in healthy /\ (loc[d].role = "reload" \/ AccountCatalogStale(a))
         next == [loc[d] EXCEPT !.acct = @ + 1] IN
     \/ /\ a \notin healthy
        /\ SetLoc(d, next)
        /\ UNCHANGED <<at, blocked, events>>
     \/ /\ a \in healthy /\ ~query
        /\ SetLoc(d, [next EXCEPT !.sum =
             Merge(@, [known |-> cat[a].known, benefit |-> cat[a].benefit])])
        /\ UNCHANGED <<at, blocked, events>>
     \/ /\ query
        /\ FetchAgentModels(d)
  /\ UNCHANGED <<offer, healthy, cat, list, saved, round>>

FetchBuiltinModels(d) ==
  /\ at[d] = "builtin"
  /\ Query(d, "builtin", "benefit")
  /\ UNCHANGED <<offer, healthy, cat, list, saved, round>>

FetchBenefitModels(d) ==
  /\ at[d] = "benefit"
  /\ Query(d, "benefit", "commit")
  /\ UNCHANGED <<offer, healthy, cat, list, saved, round>>

\* What the round says, for the properties: which source answered, what the
\* benefit source reported when it last worked, what the others listed.
NextRound(r, l) ==
  [kind |-> IF "benefit" \in l.ok THEN "full"
            ELSE IF "builtin" \in l.ok THEN "kept" ELSE "agent",
   confirmed |-> IF "benefit" \in l.ok THEN l.benefit ELSE r.confirmed,
   listed |-> l.plain]

\* FetchModels merges what it has got and replaces the account's catalogue;
\* with nothing at all the catalogue stays and the account adds no models.
Commit(d) ==
  /\ at[d] = "commit"
  /\ LET a == loc[d].acct
         ids == loc[d].plain \cup loc[d].benefit
         got == [known |-> ids, benefit |-> loc[d].benefit] IN
     /\ IF ids = {} THEN UNCHANGED <<cat, round>>
        ELSE /\ cat' = [cat EXCEPT ![a] = SetAccountModels(@, ids, loc[d].benefit,
                          "builtin" \in loc[d].ok /\ "benefit" \notin loc[d].ok)]
             /\ round' = [round EXCEPT ![a] = NextRound(@, loc[d])]
     /\ SetLoc(d, Turn(loc[d].role, a + 1, Merge(loc[d].sum, got)))
     /\ Goto(d, "visit")
  /\ UNCHANGED <<offer, healthy, blocked, list, saved, events>>

\* After the last account: nothing found is remembered as a failure, a list
\* replaces the one in memory and the one in the file.
Publish(d) ==
  /\ at[d] = "visit" /\ loc[d].acct > NumAccounts
  /\ IF loc[d].sum.known = {}
     THEN list' = [list EXCEPT !.failed = TRUE] /\ UNCHANGED saved
     ELSE /\ list' = [models |-> loc[d].sum, fresh |-> TRUE, failed |-> FALSE]
          /\ saved' = loc[d].sum
  /\ Return(d)
  /\ UNCHANGED <<offer, healthy, blocked, cat, round, events>>

Discover(d) ==
  \/ Visit(d) \/ FetchBuiltinModels(d) \/ FetchBenefitModels(d)
  \/ Commit(d) \/ Publish(d)

-----------------------------------------------------------------------------
(* The passing of time.                                                    *)

ExpireList ==
  /\ list.fresh
  /\ list' = [list EXCEPT !.fresh = FALSE]
  /\ UNCHANGED <<offer, healthy, blocked, cat, saved, at, loc, round, events>>

ExpireFailure ==
  /\ list.failed
  /\ list' = [list EXCEPT !.failed = FALSE]
  /\ UNCHANGED <<offer, healthy, blocked, cat, saved, at, loc, round, events>>

ExpireCatalogue(a) ==
  /\ cat[a].fresh
  /\ cat' = [cat EXCEPT ![a].fresh = FALSE]
  /\ UNCHANGED <<offer, healthy, blocked, list, saved, at, loc, round, events>>

Unblock(a, s) ==
  /\ <<a, s>> \in blocked
  /\ blocked' = blocked \ {<<a, s>>}
  /\ UNCHANGED <<offer, healthy, cat, list, saved, at, loc, round, events>>

Clock ==
  \/ ExpireList \/ ExpireFailure
  \/ \E a \in Accounts : ExpireCatalogue(a) \/ \E s \in Blockable : Unblock(a, s)

-----------------------------------------------------------------------------
(* The environment: the upstream's plans change, accounts are banned and   *)
(* revived, the process restarts.                                          *)

OfferChanges(a) ==
  /\ Intervene
  /\ \E o \in Offers \ {offer[a]} : offer' = [offer EXCEPT ![a] = o]
  /\ UNCHANGED <<healthy, blocked, cat, list, saved, at, loc, round>>

AccountToggles(a) ==
  /\ Intervene
  /\ healthy' = (healthy \ {a}) \cup ({a} \ healthy)
  /\ UNCHANGED <<offer, blocked, cat, list, saved, at, loc, round>>

\* Everything but the file is lost; a list loaded from it is taken for one
\* that expires shortly (loadModelCache).
Restart ==
  /\ Intervene
  /\ blocked' = {}
  /\ cat' = [a \in Accounts |-> NoCatalogue]
  /\ list' = [models |-> saved, fresh |-> saved.known # {}, failed |-> FALSE]
  /\ at' = [d \in Discoverers |-> "idle"]
  /\ loc' = [d \in Discoverers |-> Blank]
  /\ round' = [a \in Accounts |-> NoRound]
  /\ UNCHANGED <<offer, healthy, saved>>

Environment ==
  \/ \E a \in Accounts : OfferChanges(a) \/ AccountToggles(a)
  \/ Restart

Next ==
  \/ \E d \in Discoverers : Discover(d) \/ \E role \in Roles[d] : Ask(d, role)
  \/ Clock
  \/ Environment

Spec == Init /\ [][Next]_vars

\* A discovery under way goes on: its queries have timeouts of 30 s.  What
\* has a lifetime reaches its end.  Nobody needs to ask.
Fairness ==
  /\ \A d \in Discoverers : WF_vars(Discover(d))
  /\ WF_vars(ExpireList) /\ WF_vars(ExpireFailure)
  /\ \A a \in Accounts : WF_vars(ExpireCatalogue(a))
  /\ \A a \in Accounts, s \in Blockable : WF_vars(Unblock(a, s))

FairSpec == Spec /\ Fairness

-----------------------------------------------------------------------------
(* Properties.                                                             *)

\* Every variable has its type, and a catalogue marks only models it lists.
TypeOK ==
  /\ offer \in [Accounts -> [Sources -> SUBSET Models]]
  /\ healthy \subseteq Accounts
  /\ blocked \subseteq Accounts \X Blockable
  /\ cat \in [Accounts -> [fresh : BOOLEAN,
                known : SUBSET Models, benefit : SUBSET Models,
                last : SUBSET Models]]
  /\ \A a \in Accounts : cat[a].benefit \subseteq cat[a].known
  /\ list \in [models : Listing, fresh : BOOLEAN, failed : BOOLEAN]
  /\ saved \in Listing
  /\ at \in [Discoverers -> {"idle", "visit", "builtin", "benefit", "commit"}]
  /\ loc \in [Discoverers -> [role : {"list", "reload"},
                acct : 1 .. NumAccounts + 1,
                plain : SUBSET Models, benefit : SUBSET Models,
                ok : SUBSET Blockable, sum : Listing]]
  /\ round \in [Accounts -> [kind : {"none", "full", "kept", "agent"},
                confirmed : SUBSET Models, listed : SUBSET Models]]
  /\ events \in 0 .. MaxEvents

\* Through any number of rounds in which the benefit source fails, a model
\* that it reported when it last worked keeps the header, until the round's
\* other sources list it: losing it turns every chat with it into a 404.
ConfirmedKeepsHeader ==
  \A a \in Accounts : round[a].kind \in {"full", "kept"} =>
    \A m \in round[a].confirmed \ round[a].listed : IsBenefitModel(a, m)

\* A benefit model that has become an ordinary one loses the header with the
\* first round whose working sources list it without the benefit source
\* naming it, whatever earlier rounds remembered and the seeds say.
PromotedLosesHeader ==
  \A a \in Accounts : \A m \in round[a].listed :
    (round[a].kind = "full" => m \notin round[a].confirmed)
      /\ round[a].kind # "none" => ~IsBenefitModel(a, m)

\* What GET /v1/models should list: the union over the healthy accounts.
Truth ==
  [known |-> UNION {UNION {offer[a][s] : s \in Sources} : a \in healthy},
   benefit |-> UNION {offer[a]["benefit"] : a \in healthy}]

\* Once the upstream answers and stays as it is (its failures and changes are
\* bounded), and as long as clients go on asking whenever a question would
\* start a discovery, the list comes to be the upstream's and stays so.
\* Neither the two caches, nor the failure mark, nor a source left alone, nor
\* an answer that a slower request commits late, nor the remembered benefit
\* models keep it wrong for ever, without anybody pressing the panel's button.
ListConverges ==
  WF_vars(\E d \in Discoverers : "list" \in Roles[d] /\ Ask(d, "list"))
    => <>[](Truth.known = {} \/ list.models = Truth)
=============================================================================
