---------------------------- MODULE LoginSessions ----------------------------
(***************************************************************************)
(* The web login (internal/server/oauth.go, and oauthCallback and          *)
(* saveLoginResult of handler.go).  A session waits in the store for one   *)
(* of three ends, which may be under way at the same time: the panel polls *)
(* the ticket, the browser calls back with an authorization code, or the   *)
(* operator pastes the address of such a callback.                         *)
(*                                                                         *)
(* A code exchanged for credentials brings a refresh_token, bound to the   *)
(* DPoP key of the exchange; a ticket brings credentials without one.  All *)
(* sessions here log the same account in, so they write the same file.     *)
(*                                                                         *)
(* Handlers keep a pointer to their session: what they write to it has no  *)
(* lock, and still reaches it after the store has dropped it.              *)
(***************************************************************************)
EXTENDS Integers, FiniteSets

CONSTANTS
  LastSession, \* how many logins are started
  Workers,     \* goroutines of HTTP handlers
  NoCred       \* no file, or no account in the pool

ASSUME LoginAssumption == LastSession \in Nat \ {0} /\ IsFiniteSet(Workers)

\* Numbered in the order of CreatedAt.
Sessions == 1 .. LastSession
None == 0

\* token and key: the session whose code gave the refresh_token, and whose
\* DPoP key is stored with it; None for the credentials of a ticket.
Creds == [token : Sessions \cup {None}, key : Sessions \cup {None}]

VARIABLES
  started,   \* sessions created so far
  live,      \* sessions in the store
  done, err, \* sessions with Done set, and with Err set
  fallback,  \* sessions with TicketFallback
  code,      \* upstream: the code of each session, "none", "issued" or "used"
  file, pool, \* the account's credentials on disk and in the pool
  saved,     \* history: sessions whose credentials were written
  op         \* for each worker what it handles, as what kind of request, for which
             \* session sess; a callback also whose code it carries (own), whether
             \* that session was waiting for it, the candidates left, and whether
             \* all refusals were clean

store == <<started, live, fallback>>
marks == <<done, err>>
creds == <<file, pool, saved>>
vars == <<store, marks, code, creds, op>>

Idle == [step |-> "idle"]

Init ==
  /\ started = 0
  /\ live = {} /\ done = {} /\ err = {} /\ fallback = {}
  /\ code = [s \in Sessions |-> "none"]
  /\ file = NoCred /\ pool = NoCred
  /\ saved = {}
  /\ op = [w \in Workers |-> Idle]

Become(w, o) == op' = [op EXCEPT ![w] = o]
Goto(w, step) == op' = [op EXCEPT ![w].step = step]

-----------------------------------------------------------------------------
(* The store, the portal and the clock.                                    *)

\* adminOAuthStart.
StartLogin ==
  /\ started < LastSession
  /\ started' = started + 1
  /\ live' = live \cup {started'}
  /\ UNCHANGED <<fallback, marks, code, creds, op>>

\* The portal's first callback, received or pasted: the session may be polled.
PortalSecret(s) ==
  /\ s \in live
  /\ fallback' = fallback \cup {s}
  /\ UNCHANGED <<started, live, marks, code, creds, op>>

\* The user authorises the login on the portal.
Authorise(s) ==
  /\ s <= started /\ code[s] = "none"
  /\ code' = [code EXCEPT ![s] = "issued"]
  /\ UNCHANGED <<store, marks, creds, op>>

\* gcLocked: the oldest session is past oauthSessionTTL.
Expire ==
  /\ live # {}
  /\ \E s \in live : (\A t \in live : s <= t) /\ live' = live \ {s}
  /\ UNCHANGED <<started, fallback, marks, code, creds, op>>

\* Sessions live in memory only; the pool is loaded from the files.
Restart ==
  /\ live' = {}
  /\ pool' = file
  /\ op' = [w \in Workers |-> Idle]
  /\ UNCHANGED <<started, fallback, marks, code, file, saved>>

-----------------------------------------------------------------------------
(* adminOAuthPoll.                                                         *)

BeginPoll(w, s) ==
  /\ op[w] = Idle
  /\ s \in live \ done /\ s \in fallback
  /\ Become(w, [kind |-> "poll", step |-> "ask", sess |-> s])
  /\ UNCHANGED <<store, marks, code, creds>>

\* PollTicket: nothing yet, or the credentials of an authorised login.
PollAnswer(w) ==
  /\ op[w].step = "ask"
  /\ \/ Become(w, Idle)
     \/ code[op[w].sess] # "none" /\ Goto(w, "write")
  /\ UNCHANGED <<store, marks, code, creds>>

-----------------------------------------------------------------------------
(* oauthCallback and adminOAuthImportCallback.                             *)

Newest(S) == CHOOSE s \in S : \A t \in S : t <= s

\* Mutant: only the newest session is tried.
FirstCandidate(own, hint) ==
  LET open == live \ done IN
  CASE hint = "code" -> IF open = {} THEN {} ELSE {Newest(open)}
    [] hint = "ticket" -> open \cap {own}
    [] hint = "secret" -> open \cap fallback \cap {own}

\* codeSessionCandidates, for a callback that carries the ticket_id or the
\* portal's secret of the session own, or nothing but the code.
CodeSessionCandidates(own, hint) ==
  LET open == live \ done IN
  CASE hint = "code" -> open
    [] hint = "ticket" -> open \cap {own}
    [] hint = "secret" -> open \cap fallback \cap {own}

\* A browser may call back more than once with one code.
BeginCallback(w, own) ==
  /\ op[w] = Idle
  /\ code[own] # "none"
  /\ \E hint \in {"code", "ticket", "secret"} :
       LET cands == CodeSessionCandidates(own, hint) IN
       /\ cands # {}
       /\ Become(w, [kind |-> "callback", step |-> "exchange", sess |-> None, key |-> None,
                     own |-> own, waiting |-> own \in live \ done, left |-> cands, clean |-> TRUE])
  /\ UNCHANGED <<store, marks, code, creds>>

\* The operator pastes the callback of own into the dialogue of s, whether
\* s is done or not.
BeginImport(w, s, own) ==
  /\ op[w] = Idle
  /\ s \in live /\ code[own] # "none"
  /\ Become(w, [kind |-> "import", step |-> "exchange", sess |-> None, key |-> None,
                own |-> own, waiting |-> own = s, left |-> {s}, clean |-> TRUE])
  /\ UNCHANGED <<store, marks, code, creds>>

\* Mutant: the code is taken for one of the login started last.
ExchangedForLast(w, cand) ==
  op' = [op EXCEPT ![w].step = "write", ![w].sess = cand, ![w].key = started]

\* tok and sess of the successful exchange.
Exchanged(w, cand) ==
  op' = [op EXCEPT ![w].step = "write", ![w].sess = cand, ![w].key = cand]

\* ExchangeCode with the verifier of the newest candidate left.  A verifier
\* of another session is refused and spends nothing; the answer to the right
\* one may be lost after the code was spent, or the call before it.
Exchange(w) ==
  /\ op[w].step = "exchange" /\ op[w].left # {}
  /\ LET cand == Newest(op[w].left)
         own == op[w].own
         refused(clean) == op' = [op EXCEPT ![w].left = @ \ {cand}, ![w].clean = @ /\ clean]
         accepted == cand = own /\ code[own] = "issued"
     IN \/ accepted /\ Exchanged(w, cand) /\ code' = [code EXCEPT ![own] = "used"]
        \/ accepted /\ refused(FALSE) /\ code' = [code EXCEPT ![own] = "used"]
        \/ ~accepted /\ refused(TRUE) /\ UNCHANGED code
        \/ refused(FALSE) /\ UNCHANGED code
  /\ UNCHANGED <<store, marks, creds>>

\* Every candidate was refused.
ExchangeFails(w) ==
  /\ op[w].step = "exchange" /\ op[w].left = {}
  /\ Become(w, Idle)
  /\ UNCHANGED <<store, marks, code, creds>>

-----------------------------------------------------------------------------
(* saveLoginResult, and what follows it.                                   *)

Credential(o) ==
  IF o.kind = "poll" THEN [token |-> None, key |-> None] ELSE [token |-> o.own, key |-> o.key]

\* auth.SaveNew.
WriteFile(w) ==
  /\ op[w].step = "write"
  /\ file' = Credential(op[w])
  /\ saved' = saved \cup {op[w].sess}
  /\ Goto(w, "add")
  /\ UNCHANGED <<store, marks, code, pool>>

\* Mutant: the handlers go on after a failed save.
WriteIgnored(w) ==
  /\ op[w].step = "write"
  /\ Goto(w, "add")
  /\ UNCHANGED <<store, marks, code, creds>>

\* The file cannot be written: only a poll marks its session, Done first.
WriteFails(w) ==
  /\ op[w].step = "write"
  /\ \/ /\ op[w].kind = "poll"
        /\ done' = done \cup {op[w].sess} /\ Goto(w, "fail")
     \/ op[w].kind # "poll" /\ Become(w, Idle) /\ UNCHANGED done
  /\ UNCHANGED <<store, err, code, creds>>

\* Then Err.
MarkFailed(w) ==
  /\ op[w].step = "fail"
  /\ err' = err \cup {op[w].sess}
  /\ Become(w, Idle)
  /\ UNCHANGED <<store, done, code, creds>>

\* Pool.AddAccount.
AddAccount(w) ==
  /\ op[w].step = "add"
  /\ pool' = Credential(op[w])
  /\ Goto(w, "mark")
  /\ UNCHANGED <<store, marks, code, file, saved>>

\* A callback completes a session that is still in the store; a poll and an
\* import set Done on theirs and take it out.
Finish(w) ==
  /\ op[w].step = "mark"
  /\ LET s == op[w].sess IN
     \/ /\ op[w].kind = "callback"
        /\ done' = IF s \in live THEN done \cup {s} ELSE done
        /\ err' = IF s \in live THEN err \ {s} ELSE err
        /\ UNCHANGED live
     \/ /\ op[w].kind # "callback"
        /\ done' = done \cup {s} /\ live' = live \ {s}
        /\ UNCHANGED err
  /\ Become(w, Idle)
  /\ UNCHANGED <<started, fallback, code, creds>>

-----------------------------------------------------------------------------

Next ==
  \/ StartLogin \/ Expire \/ Restart
  \/ \E s \in Sessions : PortalSecret(s) \/ Authorise(s)
  \/ \E w \in Workers :
       \/ \E s \in Sessions : BeginPoll(w, s) \/ BeginCallback(w, s)
       \/ \E s, own \in Sessions : BeginImport(w, s, own)
       \/ PollAnswer(w) \/ Exchange(w) \/ ExchangeFails(w)
       \/ WriteFile(w) \/ WriteFails(w) \/ MarkFailed(w) \/ AddAccount(w) \/ Finish(w)

Spec == Init /\ [][Next]_vars

-----------------------------------------------------------------------------
(* However logins overlap and whichever of several sessions a bare code     *)
(* turns out to belong to, a refresh_token is never kept with the DPoP key  *)
(* of another session, on disk or in the pool: it could not be used.        *)
KeyMatches == \A c \in {file, pool} : c # NoCred => c.token = c.key

(* A poll that finds its session done without an error tells the panel that *)
(* the login succeeded.  Then credentials of that session were written,     *)
(* unless a failing poll is just between setting Done and setting Err.      *)
DoneMeansSaved ==
  \A s \in (live \cap done) \ err :
    s \in saved \/ \E w \in Workers : op[w].step = "fail" /\ op[w].sess = s

(* A callback gives up only when its code cannot be used: after a clean     *)
(* refusal by all candidates, either somebody else has spent the code, or   *)
(* the session it belongs to was not waiting when the callback came.        *)
CallbackReachesSession ==
  \A w \in Workers :
    op[w].step = "exchange" /\ op[w].kind = "callback" /\ op[w].left = {} /\ op[w].clean
      => code[op[w].own] = "used" \/ ~op[w].waiting

(* oauth.go:272-274: a poll waits for the code, lest a parallel poll keeps  *)
(* credentials without a refresh_token.  So it never replaces those of its  *)
(* own session's code by such.                                              *)
PollKeepsRefreshToken ==
  [][\A w \in Workers :
       WriteFile(w) /\ op[w].kind = "poll" => file = NoCred \/ file.token # op[w].sess]_vars
=============================================================================
