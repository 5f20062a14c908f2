----------------------------- MODULE ChatGateway -----------------------------
(***************************************************************************)
(* The life of POST /v1/chat/completions: concurrent requests rotate over  *)
(* the account pool, each taking an account's session slot, validating its *)
(* token, calling the upstream, queueing, repairing a 401, and finally     *)
(* giving the slot back and rewarding or punishing the account.  The       *)
(* availability prober competes for the same slots.  One action is one     *)
(* critical section of the pool (p.mu) or one answer of the upstream, so   *)
(* steps of different requests interleave as the goroutines do.            *)
(*                                                                         *)
(* Times are abstract: a wait ends by timeout whenever the code may time   *)
(* out; a cooldown, a cached verdict or an idle period ends at any moment. *)
(* All requests ask for one model, the one the verdicts avail are about.   *)
(***************************************************************************)
EXTENDS Integers, FiniteSets

CONSTANTS
  Requests,          \* chat requests, each served once
  Prober,            \* the availability sweep (at most one runs at a time)
  NumAccounts,       \* accounts are 1..NumAccounts, in pool order
  MaxConcurrent,     \* slots per account (pool.Config.MaxConcurrent)
  MaxRotate,         \* accounts a request may try (server.Config.MaxRotate)
  QueueMaxAttempts,  \* upstream calls per account (server.Config.QueueMaxAttempts)
  ErrThreshold,      \* errors that freeze an account (server.Config.ErrThreshold)
  Answers,           \* the kinds of upstream answer considered
  Refreshable,       \* accounts that own a refresh_token
  Serves,            \* accounts on which the upstream registers the model
  Streaming,         \* requests with "stream": true
  Conversations,     \* explicit conversation ids
  ConvOf,            \* the conversation of a request, or NoConv
  NoConv,
  MaxEvents          \* bound on the environment's interventions

Accounts == 1 .. NumAccounts
NoAcct == 0
Clients == Requests \cup {Prober}

\* What ChatStreamWithOptions can return, as handleUpstreamError and the
\* retry loop tell it apart.  "queue400" is TM.00001041, "queue429" a 429,
\* "queue500" a TPM limit wrapped in a 5xx, "network" no ApiError at all.
AnswerKinds == {"ok", "unauth", "queue429", "queue400", "queue500",
                "unusable", "server", "client", "network", "cancelled"}
IsQueueLimit(x) == x \in {"queue429", "queue400", "queue500"}

ASSUME GatewayAssumption ==
  /\ IsFiniteSet(Requests)
  /\ Prober \notin Requests
  /\ NumAccounts \in Nat
  /\ MaxConcurrent \in Nat \ {0}
  /\ MaxRotate \in Nat \ {0}
  /\ QueueMaxAttempts \in Nat \ {0}
  /\ ErrThreshold \in Nat \ {0}
  /\ MaxEvents \in Nat
  /\ Answers \subseteq AnswerKinds
  /\ NoConv \notin Conversations
  /\ ConvOf \in [Requests -> Conversations \cup {NoConv}]

VARIABLES
  pc,        \* where each client is
  acct,      \* the account it works on, or NoAcct
  loc,       \* the other locals of a request's handler
  gone,      \* requests whose client has disconnected
  active,    \* Account.activeConcurrent
  errCount,  \* Account.errCount, counted up to ErrThreshold
  cooling,   \* now is before Account.coolUntil
  disabled,  \* Account.disabled
  avail,     \* the cached verdict on the model, per account
  route,     \* convAcct: the sticky account of a conversation, or NoAcct
  events     \* interventions of the environment so far

health == <<errCount, cooling, disabled>>
vars == <<pc, acct, loc, gone, active, errCount, cooling, disabled,
          avail, route, events>>

\* Where a client owns a slot; where it is busy with an account.
Holding == {"validate", "drop", "send", "refresh", "fail", "respond", "probing"}
Engaged == Holding \cup {"wait", "backoff", "reacquire", "blame", "reward",
                         "noteerr", "checked"}
Terminal == {"replied", "notfound", "unavailable", "disconnected"}
Places == Engaged \cup Terminal \cup {"idle", "rotate"}

Verdicts == {"unknown", "usable", "unusable"}
Locals == [tried : SUBSET Accounts, rot : 0 .. MaxRotate,
           retry : 0 .. QueueMaxAttempts, authRetried : BOOLEAN,
           err : AnswerKinds, sticky : Accounts \cup {NoAcct}]
\* No local of a handler that has not started or has returned matters.
Blank == [tried |-> {}, rot |-> 0, retry |-> 0, authRetried |-> FALSE,
          err |-> "ok", sticky |-> NoAcct]

Init ==
  /\ pc = [c \in Clients |-> "idle"]
  /\ acct = [c \in Clients |-> NoAcct]
  /\ loc = [r \in Requests |-> Blank]
  /\ gone = {}
  /\ active = [a \in Accounts |-> 0]
  /\ errCount = [a \in Accounts |-> 0]
  /\ cooling = [a \in Accounts |-> FALSE]
  /\ disabled = [a \in Accounts |-> FALSE]
  /\ avail = [a \in Accounts |-> "unknown"]
  /\ route = [c \in Conversations |-> NoAcct]
  /\ events = 0

-----------------------------------------------------------------------------
(* The pool's operations.                                                  *)

Healthy(a) == ~disabled[a] /\ ~cooling[a]

Candidates(tried) == {a \in Accounts \ tried : Healthy(a)}

\* Mutant: the accounts already tried are not excluded.
PickAny(tried) == {a \in Candidates({}) : \A b \in Candidates({}) : a <= b}

\* The first healthy account, in pool order, among those not yet tried; no
\* account at all when there is none.
PickExcluding(tried) ==
  {a \in Candidates(tried) : \A b \in Candidates(tried) : a <= b}

\* Mutant: the slot count is not compared with the limit.
AcquireLockUnguarded(a) == active' = [active EXCEPT ![a] = @ + 1]

AcquireLock(a) ==
  /\ active[a] < MaxConcurrent
  /\ active' = [active EXCEPT ![a] = @ + 1]

ReleaseLock(a) ==
  active' = [active EXCEPT ![a] = IF @ > 0 THEN @ - 1 ELSE @]

NoteError(a) ==
  /\ errCount' = [errCount EXCEPT ![a] = IF @ < ErrThreshold THEN @ + 1 ELSE @]
  /\ cooling' = [cooling EXCEPT ![a] = @ \/ errCount[a] + 1 >= ErrThreshold]
  /\ UNCHANGED disabled

NoteSuccess(a) ==
  /\ errCount' = [errCount EXCEPT ![a] = 0]
  /\ UNCHANGED <<cooling, disabled>>

Cooldown(a) ==
  /\ cooling' = [cooling EXCEPT ![a] = TRUE]
  /\ UNCHANGED <<errCount, disabled>>

Disable(a) ==
  /\ disabled' = [disabled EXCEPT ![a] = TRUE]
  /\ UNCHANGED <<errCount, cooling>>

\* Enable, a re-login through AddAccount and a successful RefreshToken all
\* lift the ban and leave the error count and the cooldown alone.
Enable(a) ==
  /\ disabled' = [disabled EXCEPT ![a] = FALSE]
  /\ UNCHANGED <<errCount, cooling>>

ClearCooldown(a) ==
  /\ cooling' = [cooling EXCEPT ![a] = FALSE]
  /\ UNCHANGED <<errCount, disabled>>

\* Mutant: one account that does not serve the model is enough.
ModelSomewhereUnusable == \E a \in Candidates({}) : avail[a] = "unusable"

\* Every healthy account is known not to serve the model, and there is one.
ModelKnownUnusable ==
  /\ Candidates({}) # {}
  /\ \A a \in Candidates({}) : avail[a] = "unusable"

-----------------------------------------------------------------------------
(* A request's control flow.                                               *)

Goto(c, place) == pc' = [pc EXCEPT ![c] = place]
SetLoc(r, l) == loc' = [loc EXCEPT ![r] = l]

\* The handler returns; its locals are gone.
Reply(r, place) ==
  /\ Goto(r, place)
  /\ acct' = [acct EXCEPT ![r] = NoAcct]
  /\ SetLoc(r, Blank)

\* `continue` of the rotation loop.
NextAccount(r) ==
  /\ Goto(r, "rotate")
  /\ acct' = [acct EXCEPT ![r] = NoAcct]
  /\ SetLoc(r, [loc[r] EXCEPT !.rot = @ + 1, !.retry = 0,
                              !.authRetried = FALSE, !.err = "ok"])

\* `continue` of the retry loop with a slot held; when the attempts are used
\* up the loop ends with the last error still set.
NextAttempt(r) ==
  Goto(r, IF loc[r].retry + 1 < QueueMaxAttempts THEN "send" ELSE "fail")

UseAccount(r, a, sticky) ==
  /\ Goto(r, "wait")
  /\ acct' = [acct EXCEPT ![r] = a]
  /\ SetLoc(r, [loc[r] EXCEPT !.tried = @ \cup {a}, !.sticky = sticky])

\* Sticky-route lookup and the fast failure for a model nobody can serve.
Arrive(r) ==
  /\ pc[r] = "idle"
  /\ IF ModelKnownUnusable
     THEN Reply(r, "notfound")
     ELSE /\ Goto(r, "rotate")
          /\ SetLoc(r, [Blank EXCEPT !.sticky = IF ConvOf[r] = NoConv
                                               THEN NoAcct ELSE route[ConvOf[r]]])
          /\ UNCHANGED acct
  /\ UNCHANGED <<gone, active, health, avail, route, events>>

\* A continued conversation stays on its account while that is healthy,
\* whether or not it was tried before.
PickSticky(r) ==
  /\ pc[r] = "rotate" /\ loc[r].rot < MaxRotate /\ loc[r].sticky # NoAcct
  /\ IF Healthy(loc[r].sticky)
     THEN UseAccount(r, loc[r].sticky, loc[r].sticky)
     ELSE /\ SetLoc(r, [loc[r] EXCEPT !.sticky = NoAcct])
          /\ UNCHANGED <<pc, acct>>
  /\ UNCHANGED <<gone, active, health, avail, route, events>>

PickNext(r) ==
  /\ pc[r] = "rotate" /\ loc[r].rot < MaxRotate /\ loc[r].sticky = NoAcct
  /\ \E a \in PickExcluding(loc[r].tried) : UseAccount(r, a, NoAcct)
  /\ UNCHANGED <<gone, active, health, avail, route, events>>

GiveUp(r) ==
  /\ pc[r] = "rotate"
  /\ \/ loc[r].rot = MaxRotate
     \/ loc[r].sticky = NoAcct /\ PickExcluding(loc[r].tried) = {}
  /\ Reply(r, "unavailable")
  /\ UNCHANGED <<gone, active, health, avail, route, events>>

\* AcquireLockWait polls until a slot is free or its deadline has passed.
Acquire(r) ==
  /\ pc[r] = "wait"
  /\ AcquireLock(acct[r])
  /\ Goto(r, "validate")
  /\ UNCHANGED <<acct, loc, gone, health, avail, route, events>>

AcquireTimeout(r) ==
  /\ pc[r] = "wait"
  /\ active[acct[r]] >= MaxConcurrent
  /\ NextAccount(r)
  /\ UNCHANGED <<gone, active, health, avail, route, events>>

\* Pool.Validate under the slot.  How old the token is is left open: it is
\* good, or refreshed, or beyond repair, or the refresh failed for now.
Validate(r) ==
  /\ pc[r] = "validate"
  /\ \/ /\ UNCHANGED health
        /\ Goto(r, "send")
     \/ /\ acct[r] \in Refreshable /\ Enable(acct[r])
        /\ Goto(r, "send")
     \/ /\ Disable(acct[r])
        /\ Goto(r, "drop")
     \/ /\ acct[r] \in Refreshable /\ UNCHANGED health
        /\ Goto(r, "drop")
  /\ UNCHANGED <<acct, loc, gone, active, avail, route, events>>

\* Mutant: an early `continue` that forgets the slot.
DropInvalidLeaks(r) ==
  /\ pc[r] = "drop"
  /\ NextAccount(r)
  /\ UNCHANGED <<gone, active, health, avail, route, events>>

DropInvalid(r) ==
  /\ pc[r] = "drop"
  /\ ReleaseLock(acct[r])
  /\ NextAccount(r)
  /\ UNCHANGED <<gone, health, avail, route, events>>

\* One upstream call.  The upstream serves the model only on the accounts
\* of Serves; a call ends with "cancelled" only if the client has gone.
Answer(r) ==
  /\ pc[r] = "send"
  /\ \E x \in Answers :
       LET a == acct[r]
           repair == x = "unauth" /\ ~loc[r].authRetried /\ a \in Refreshable IN
       /\ x = "ok" => a \in Serves
       /\ x = "unusable" => a \notin Serves
       /\ x = "cancelled" => r \in gone
       /\ SetLoc(r, [loc[r] EXCEPT !.err = x])
       /\ \/ /\ x = "ok" /\ Goto(r, "respond")
             /\ avail' = [avail EXCEPT ![a] = "usable"]
             /\ UNCHANGED active
          \/ /\ repair /\ Goto(r, "refresh")
             /\ UNCHANGED <<active, avail>>
          \/ /\ IsQueueLimit(x) /\ Goto(r, "backoff")
             /\ ReleaseLock(a)
             /\ UNCHANGED avail
          \/ /\ x # "ok" /\ ~repair /\ ~IsQueueLimit(x) /\ Goto(r, "fail")
             /\ UNCHANGED <<active, avail>>
  /\ UNCHANGED <<acct, gone, health, route, events>>

\* The 401 repair: Pool.RefreshToken, then `continue`; a failed refresh
\* falls through to the end of the loop with the 401.
RefreshAfter401(r) ==
  /\ pc[r] = "refresh"
  /\ \/ /\ Enable(acct[r])
        /\ NextAttempt(r)
        /\ SetLoc(r, [loc[r] EXCEPT !.retry = @ + 1, !.authRetried = TRUE])
     \/ /\ Goto(r, "fail")
        /\ UNCHANGED <<health, loc>>
  /\ UNCHANGED <<acct, gone, active, avail, route, events>>

\* The queue wait, without a slot: the delay elapses or the client goes.
BackoffElapsed(r) ==
  /\ pc[r] = "backoff"
  /\ Goto(r, "reacquire")
  /\ UNCHANGED <<acct, loc, gone, active, health, avail, route, events>>

BackoffCancelled(r) ==
  /\ pc[r] = "backoff" /\ r \in gone
  /\ Reply(r, "disconnected")
  /\ UNCHANGED <<gone, active, health, avail, route, events>>

\* Mutant: waiting in the queue does not use up an attempt.
ReacquireForFree(r) ==
  /\ pc[r] = "reacquire"
  /\ AcquireLock(acct[r])
  /\ Goto(r, "send")
  /\ UNCHANGED <<acct, loc, gone, health, avail, route, events>>

Reacquire(r) ==
  /\ pc[r] = "reacquire"
  /\ AcquireLock(acct[r])
  /\ NextAttempt(r)
  /\ SetLoc(r, [loc[r] EXCEPT !.retry = @ + 1])
  /\ UNCHANGED <<acct, gone, health, avail, route, events>>

\* Mutant: lockHeld is still true when no slot came back.
ReacquireTimeoutHeld(r) ==
  /\ pc[r] = "reacquire"
  /\ active[acct[r]] >= MaxConcurrent
  /\ Goto(r, "fail")
  /\ UNCHANGED <<acct, loc, gone, active, health, avail, route, events>>

\* No slot came back in time: leave the loop without one (lockHeld = false).
ReacquireTimeout(r) ==
  /\ pc[r] = "reacquire"
  /\ active[acct[r]] >= MaxConcurrent
  /\ Goto(r, "blame")
  /\ UNCHANGED <<acct, loc, gone, active, health, avail, route, events>>

\* The loop ended with an error and the slot still held.
ReleaseFailed(r) ==
  /\ pc[r] = "fail"
  /\ ReleaseLock(acct[r])
  /\ Goto(r, "blame")
  /\ UNCHANGED <<acct, loc, gone, health, avail, route, events>>

\* handleUpstreamError, then either the 404 or the next account.
Blame(r) ==
  /\ pc[r] = "blame"
  /\ LET a == acct[r]
         e == loc[r].err IN
     \/ /\ e = "unusable"
        /\ avail' = [avail EXCEPT ![a] = "unusable"]
        /\ Reply(r, "notfound")
        /\ UNCHANGED health
     \/ /\ \/ e = "unauth" /\ Disable(a)
           \/ e = "queue429" /\ Cooldown(a)
           \/ e \in {"server", "queue500", "network", "cancelled"} /\ NoteError(a)
           \/ e \in {"queue400", "client"} /\ UNCHANGED health
        /\ NextAccount(r)
        /\ UNCHANGED avail
  /\ UNCHANGED <<gone, active, route, events>>

StoreChat(r) ==
  route' = IF ConvOf[r] = NoConv THEN route
           ELSE [route EXCEPT ![ConvOf[r]] = acct[r]]

\* The body is relayed or aggregated, then the slot is released.  A finished
\* stream stores the route first; a stream cut by the client is not judged.
Respond(r) ==
  /\ pc[r] = "respond"
  /\ ReleaseLock(acct[r])
  /\ \/ /\ Goto(r, "reward")
        /\ IF r \in Streaming THEN StoreChat(r) ELSE UNCHANGED route
        /\ UNCHANGED <<acct, loc>>
     \/ Goto(r, "noteerr") /\ UNCHANGED <<acct, loc, route>>
     \/ /\ r \in gone /\ r \in Streaming
        /\ Reply(r, "replied")
        /\ UNCHANGED route
  /\ UNCHANGED <<gone, health, avail, events>>

Reward(r) ==
  /\ pc[r] = "reward"
  /\ IF r \in Streaming THEN UNCHANGED route ELSE StoreChat(r)
  /\ NoteSuccess(acct[r])
  /\ Reply(r, "replied")
  /\ UNCHANGED <<gone, active, avail, events>>

\* A broken stream has already been answered; a failed aggregation rotates.
BodyFailed(r) ==
  /\ pc[r] = "noteerr"
  /\ NoteError(acct[r])
  /\ IF r \in Streaming THEN Reply(r, "replied") ELSE NextAccount(r)
  /\ UNCHANGED <<gone, active, avail, route, events>>

Progress(r) ==
  \/ PickSticky(r) \/ PickNext(r) \/ GiveUp(r)
  \/ Acquire(r) \/ AcquireTimeout(r)
  \/ Validate(r) \/ DropInvalid(r)
  \/ Answer(r) \/ RefreshAfter401(r)
  \/ BackoffElapsed(r) \/ BackoffCancelled(r)
  \/ Reacquire(r) \/ ReacquireTimeout(r)
  \/ ReleaseFailed(r) \/ Blame(r)
  \/ Respond(r) \/ Reward(r) \/ BodyFailed(r)

Disconnect(r) ==
  /\ pc[r] \notin Terminal \cup {"idle"} /\ r \notin gone
  /\ gone' = gone \cup {r}
  /\ UNCHANGED <<pc, acct, loc, active, health, avail, route, events>>

-----------------------------------------------------------------------------
(* The availability sweep: list a pending model, yield to real traffic,    *)
(* take a slot without waiting, probe, give the slot back.                 *)

\* A healthy account with an undecided model, not busy.  That its last real
\* traffic is probeIdleBefore ago is a matter of clocks and is left open.
ProbePick(a) ==
  /\ pc[Prober] = "idle"
  /\ Healthy(a) /\ avail[a] = "unknown" /\ active[a] = 0
  /\ Goto(Prober, "checked") /\ acct' = [acct EXCEPT ![Prober] = a]
  /\ UNCHANGED <<loc, gone, active, health, avail, route, events>>

SkipProbe ==
  Goto(Prober, "idle") /\ acct' = [acct EXCEPT ![Prober] = NoAcct]

ProbeLock ==
  /\ pc[Prober] = "checked"
  /\ \/ AcquireLock(acct[Prober]) /\ Goto(Prober, "probing") /\ UNCHANGED acct
     \/ active[acct[Prober]] >= MaxConcurrent /\ SkipProbe /\ UNCHANGED active
  /\ UNCHANGED <<loc, gone, health, avail, route, events>>

\* A probe proves the model usable or unusable, or stays inconclusive.
ProbeEnd ==
  /\ pc[Prober] = "probing"
  /\ ReleaseLock(acct[Prober])
  /\ \/ UNCHANGED avail
     \/ avail' = [avail EXCEPT ![acct[Prober]] =
                    IF acct[Prober] \in Serves THEN "usable" ELSE "unusable"]
  /\ SkipProbe
  /\ UNCHANGED <<loc, gone, health, route, events>>

ProberStep == (\E a \in Accounts : ProbePick(a)) \/ ProbeLock \/ ProbeEnd

-----------------------------------------------------------------------------
(* The passing of time, the administrator and the token watchdog.          *)

Intervene == events < MaxEvents /\ events' = events + 1

\* A cooldown runs out, or the panel clears it.
CooldownEnds(a) ==
  /\ Intervene /\ cooling[a] /\ ClearCooldown(a)
  /\ UNCHANGED <<pc, acct, loc, gone, active, avail, route>>

\* The panel or the watchdog's Validate bans an account.
Ban(a) ==
  /\ Intervene /\ ~disabled[a] /\ Disable(a)
  /\ UNCHANGED <<pc, acct, loc, gone, active, avail, route>>

\* The panel, a re-login or the watchdog's refresh lifts the ban.
Unban(a) ==
  /\ Intervene /\ disabled[a] /\ Enable(a)
  /\ UNCHANGED <<pc, acct, loc, gone, active, avail, route>>

VerdictExpires(a) ==
  /\ Intervene /\ avail[a] # "unknown"
  /\ avail' = [avail EXCEPT ![a] = "unknown"]
  /\ UNCHANGED <<pc, acct, loc, gone, active, health, route>>

\* pruneConvRoutes drops a route older than convStateTTL.
ForgetRoute(c) ==
  /\ Intervene /\ route[c] # NoAcct
  /\ route' = [route EXCEPT ![c] = NoAcct]
  /\ UNCHANGED <<pc, acct, loc, gone, active, health, avail>>

Environment ==
  \/ \E a \in Accounts : \/ CooldownEnds(a) \/ Ban(a) \/ Unban(a)
                         \/ VerdictExpires(a)
  \/ \E c \in Conversations : ForgetRoute(c)

Next ==
  \/ \E r \in Requests : Arrive(r) \/ Progress(r) \/ Disconnect(r)
  \/ ProberStep
  \/ Environment

Spec == Init /\ [][Next]_vars

-----------------------------------------------------------------------------
(* Type invariant of the state described above.                            *)
TypeOK ==
  /\ pc \in [Clients -> Places]
  /\ acct \in [Clients -> Accounts \cup {NoAcct}]
  /\ loc \in [Requests -> Locals]
  /\ gone \subseteq Requests
  /\ active \in [Accounts -> 0 .. MaxConcurrent]
  /\ errCount \in [Accounts -> 0 .. ErrThreshold]
  /\ cooling \in [Accounts -> BOOLEAN]
  /\ disabled \in [Accounts -> BOOLEAN]
  /\ avail \in [Accounts -> Verdicts]
  /\ route \in [Conversations -> Accounts \cup {NoAcct}]
  /\ events \in 0 .. MaxEvents

Holders(a) == {c \in Clients : acct[c] = a /\ pc[c] \in Holding}

(* activeConcurrent is exactly the number of requests and probes that still *)
(* own a slot of the account, on every path through the handler's six       *)
(* releases, the queue wait and the failed re-acquisition: no slot leaks    *)
(* and none is released twice.                                              *)
SlotsAccounted == \A a \in Accounts : active[a] = Cardinality(Holders(a))

(* A request outside any conversation spends each turn of the rotation on   *)
(* an account it has not tried before.                                      *)
RotationSpendsNewAccounts ==
  \A r \in Requests :
    ConvOf[r] = NoConv => Cardinality(loc[r].tried)
                          = loc[r].rot + (IF pc[r] \in Engaged THEN 1 ELSE 0)

(* A request is refused at once only if somebody healthy is known not to    *)
(* serve the model and nobody healthy serves it: a missing or outdated      *)
(* verdict never hides an account that could have answered.                 *)
FastFailSound ==
  [][\A r \in Requests :
       pc[r] = "idle" /\ pc'[r] = "notfound" =>
         Candidates({}) # {} /\ Candidates({}) \cap Serves = {}]_vars

(* The counter implements the slot pool: only the owner gives a slot back,  *)
(* nobody owns two, and no account has more than MaxConcurrent owners.      *)
Slots == INSTANCE SlotPool WITH
           Cap <- MaxConcurrent, holders <- [a \in Accounts |-> Holders(a)]
ImplementsSlotPool == Slots!Spec
=============================================================================
