------------------------- MODULE ChatGatewayProofs -------------------------
(***************************************************************************)
(* What ChatGateway guarantees for every number of requests, accounts,     *)
(* slots, turns and attempts: its type invariant, the slot accounting,     *)
(* that the counters implement the slot pool, how a request spends the     *)
(* turns of its rotation, and that it is refused at once only when nobody  *)
(* healthy serves its model.                                               *)
(***************************************************************************)
EXTENDS ChatGateway, FiniteSetTheorems, TLAPS

\* The part of the type invariant about everything but a client's position.
RestOK ==
  /\ gone \subseteq Requests
  /\ active \in [Accounts -> 0 .. MaxConcurrent]
  /\ errCount \in [Accounts -> 0 .. ErrThreshold]
  /\ cooling \in [Accounts -> BOOLEAN]
  /\ disabled \in [Accounts -> BOOLEAN]
  /\ avail \in [Accounts -> Verdicts]
  /\ route \in [Conversations -> Accounts \cup {NoAcct}]
  /\ events \in 0 .. MaxEvents

\* A client that is busy with an account has one.
AcctOK == \A c \in Clients : pc[c] \in Engaged => acct[c] \in Accounts

\* A request busy with an account is in a turn of its rotation.
RotOK == \A r \in Requests : pc[r] \in Engaged => loc[r].rot < MaxRotate

\* A request that may still call the upstream has an attempt left.
Trying == {"rotate", "wait", "validate", "send", "refresh", "backoff", "reacquire"}
RetryOK ==
  \A r \in Requests : pc[r] \in Trying => loc[r].retry < QueueMaxAttempts

IInv == TypeOK /\ AcctOK /\ RotOK /\ RetryOK

\* Where a step takes a request: to a place, an account and new locals.
Position(r, p, b, l) ==
  /\ pc' = [pc EXCEPT ![r] = p]
  /\ acct' = [acct EXCEPT ![r] = b]
  /\ loc' = [loc EXCEPT ![r] = l]

-----------------------------------------------------------------------------
(* Types: the inductive invariant IInv.                                    *)

LEMMA InitIInv == Init => IInv
  BY GatewayAssumption
  DEF Init, IInv, TypeOK, AcctOK, RotOK, RetryOK, Clients, Places, Engaged,
      Holding, Terminal, Locals, Blank, AnswerKinds, Verdicts, Trying,
      Accounts, NoAcct

\* Every judgement of the pool leaves the health of the accounts well typed.
LEMMA HealthTyped ==
  ASSUME RestOK, NEW a \in Accounts,
         \/ NoteError(a) \/ NoteSuccess(a) \/ Cooldown(a) \/ Disable(a)
         \/ Enable(a) \/ ClearCooldown(a) \/ UNCHANGED health
  PROVE  /\ errCount' \in [Accounts -> 0 .. ErrThreshold]
         /\ cooling' \in [Accounts -> BOOLEAN]
         /\ disabled' \in [Accounts -> BOOLEAN]
<1> USE GatewayAssumption DEF RestOK
<1>1. CASE NoteError(a)  BY <1>1 DEF NoteError
<1>2. CASE NoteSuccess(a)  BY <1>2 DEF NoteSuccess
<1>3. CASE Cooldown(a)  BY <1>3 DEF Cooldown
<1>4. CASE Disable(a)  BY <1>4 DEF Disable
<1>5. CASE Enable(a)  BY <1>5 DEF Enable
<1>6. CASE ClearCooldown(a)  BY <1>6 DEF ClearCooldown
<1>7. CASE UNCHANGED health  BY <1>7 DEF health
<1>8. QED  BY <1>1, <1>2, <1>3, <1>4, <1>5, <1>6, <1>7

\* Taking or giving back a slot keeps the counter within its bounds.
LEMMA ActiveTyped ==
  ASSUME RestOK, NEW a \in Accounts,
         AcquireLock(a) \/ ReleaseLock(a) \/ UNCHANGED active
  PROVE  active' \in [Accounts -> 0 .. MaxConcurrent]
  BY GatewayAssumption DEF RestOK, AcquireLock, ReleaseLock

\* The one lemma about a request's move: the invariant holds of the new
\* position if it fits the place.
LEMMA Advance ==
  ASSUME IInv, RestOK', NEW r \in Requests, NEW p \in Places,
         NEW b \in Accounts \cup {NoAcct}, NEW l \in Locals,
         Position(r, p, b, l),
         p \in Engaged => b \in Accounts /\ l.rot < MaxRotate,
         p \in Trying => l.retry < QueueMaxAttempts
  PROVE  IInv'
<1>1. TypeOK'
  BY DEF IInv, TypeOK, RestOK, Position, Clients
<1>2. AcctOK'
  BY DEF IInv, TypeOK, AcctOK, Position, Clients
<1>3. RotOK'
  BY DEF IInv, TypeOK, RotOK, Position, Clients
<1>4. RetryOK'
  BY DEF IInv, TypeOK, RetryOK, Position, Clients
<1>5. QED
  BY <1>1, <1>2, <1>3, <1>4 DEF IInv

LEMMA ReplyMoves ==
  ASSUME IInv, RestOK', NEW r \in Requests, NEW p \in Terminal, Reply(r, p)
  PROVE  IInv'
<1>1. Blank \in Locals
  BY GatewayAssumption DEF Blank, Locals, AnswerKinds
<1>2. Position(r, p, NoAcct, Blank)
  BY DEF Reply, Goto, SetLoc, Position
<1>3. p \in Places /\ p \notin Engaged /\ p \notin Trying
  BY DEF Terminal, Places, Engaged, Holding, Trying
<1>4. QED
  BY <1>1, <1>2, <1>3, Advance

LEMMA NextAccountMoves ==
  ASSUME IInv, RestOK', NEW r \in Requests, pc[r] \in Engaged, NextAccount(r)
  PROVE  IInv'
<1> DEFINE l == [loc[r] EXCEPT !.rot = @ + 1, !.retry = 0,
                               !.authRetried = FALSE, !.err = "ok"]
<1>1. loc[r] \in Locals /\ loc[r].rot < MaxRotate
  BY DEF IInv, TypeOK, RotOK
<1>2. l \in Locals
  <2>1. loc[r].rot + 1 \in 0 .. MaxRotate /\ 0 \in 0 .. QueueMaxAttempts
    BY <1>1, GatewayAssumption DEF Locals
  <2>2. "ok" \in AnswerKinds
    BY DEF AnswerKinds
  <2>3. QED
    BY <1>1, <2>1, <2>2 DEF Locals
<1>3. Position(r, "rotate", NoAcct, l) /\ l.retry < QueueMaxAttempts
  BY <1>1, GatewayAssumption DEF NextAccount, Goto, SetLoc, Position, Locals
<1>4. "rotate" \in Places /\ "rotate" \notin Engaged
  BY DEF Places, Engaged, Holding
<1> HIDE DEF l
<1>5. QED
  BY <1>2, <1>3, <1>4, Advance

\* A step to another place with the same account, and perhaps new locals.
LEMMA LocMoves ==
  ASSUME IInv, RestOK', NEW r \in Requests, NEW p \in Places, NEW l \in Locals,
         pc' = [pc EXCEPT ![r] = p], UNCHANGED acct, SetLoc(r, l),
         p \in Engaged => pc[r] \in Engaged /\ l.rot = loc[r].rot,
         p \in Trying => l.retry < QueueMaxAttempts
  PROVE  IInv'
<1>1. acct[r] \in Accounts \cup {NoAcct}
  BY DEF IInv, TypeOK, Clients
<1>2. acct' = [acct EXCEPT ![r] = acct[r]]
  BY DEF IInv, TypeOK
<1>3. Position(r, p, acct[r], l)
  BY <1>2 DEF SetLoc, Position
<1>4. p \in Engaged => acct[r] \in Accounts /\ l.rot < MaxRotate
  BY DEF IInv, AcctOK, RotOK, Clients
<1>5. QED
  BY <1>1, <1>3, <1>4, Advance

LEMMA GotoMoves ==
  ASSUME IInv, RestOK', NEW r \in Requests, NEW p \in Places,
         Goto(r, p), UNCHANGED <<acct, loc>>,
         p \in Engaged => pc[r] \in Engaged,
         p \in Trying => loc[r].retry < QueueMaxAttempts
  PROVE  IInv'
<1>1. loc[r] \in Locals
  BY DEF IInv, TypeOK
<1>2. SetLoc(r, loc[r])
  BY DEF SetLoc, IInv, TypeOK
<1>3. QED
  BY <1>1, <1>2, LocMoves DEF Goto

LEMMA UseAccountMoves ==
  ASSUME IInv, RestOK', NEW r \in Requests, pc[r] = "rotate",
         loc[r].rot < MaxRotate, NEW a \in Accounts,
         NEW s \in Accounts \cup {NoAcct}, UseAccount(r, a, s)
  PROVE  IInv'
<1> DEFINE l == [loc[r] EXCEPT !.tried = @ \cup {a}, !.sticky = s]
<1>1. loc[r] \in Locals /\ loc[r].retry < QueueMaxAttempts
  BY DEF IInv, TypeOK, RetryOK, Trying
<1>2. l \in Locals /\ l.rot = loc[r].rot /\ l.retry = loc[r].retry
  BY <1>1 DEF Locals
<1>3. Position(r, "wait", a, l)
  BY DEF UseAccount, Goto, SetLoc, Position
<1>4. "wait" \in Places
  BY DEF Places, Engaged
<1> HIDE DEF l
<1>5. QED
  BY <1>1, <1>2, <1>3, <1>4, Advance
\* A request's own steps, one by one.
LEMMA ProgressKeepsIInv ==
  ASSUME IInv, NEW r \in Requests, Arrive(r) \/ Progress(r) \/ Disconnect(r)
  PROVE  IInv'
<1> DEFINE a == acct[r]
<1>a. RestOK
  BY DEF IInv, TypeOK, RestOK
<1>b. r \in Clients /\ loc[r] \in Locals /\ a \in Accounts \cup {NoAcct}
  BY DEF Clients, IInv, TypeOK
<1>c. pc[r] \in Engaged => a \in Accounts
  BY <1>b DEF IInv, AcctOK
<1>d. pc[r] \in Trying => loc[r].retry < QueueMaxAttempts
  BY DEF IInv, RetryOK
<1> HIDE DEF a
<1>1. CASE Arrive(r)
  <2>1. RestOK'
    BY <1>1, <1>a DEF Arrive, RestOK, health
  <2>2. CASE Reply(r, "notfound")
    BY <2>1, <2>2, ReplyMoves DEF Terminal
  <2>3. CASE ~ModelKnownUnusable
    <3> DEFINE s == IF ConvOf[r] = NoConv THEN NoAcct ELSE route[ConvOf[r]]
               l == [Blank EXCEPT !.sticky = s]
    <3>1. s \in Accounts \cup {NoAcct}
      BY <1>a, GatewayAssumption DEF RestOK
    <3>2. Goto(r, "rotate") /\ SetLoc(r, l) /\ UNCHANGED acct
      BY <1>1, <2>3 DEF Arrive
    <3> HIDE DEF s
    <3>3. l \in Locals /\ l.retry < QueueMaxAttempts
      <4>1. Blank \in Locals /\ Blank.retry = 0
        BY GatewayAssumption DEF Blank, Locals, AnswerKinds
      <4>2. QED
        BY <3>1, <4>1, GatewayAssumption DEF Locals
    <3> HIDE DEF l
    <3>4. "rotate" \in Places /\ "rotate" \notin Engaged
      BY DEF Places, Engaged, Holding
    <3>5. QED
      BY <2>1, <3>2, <3>3, <3>4, LocMoves DEF Goto
  <2>4. QED
    BY <1>1, <2>2, <2>3 DEF Arrive
<1>2. CASE PickSticky(r)
  <2>1. RestOK'
    BY <1>2, <1>a DEF PickSticky, RestOK, health
  <2>2. CASE UseAccount(r, loc[r].sticky, loc[r].sticky)
    BY <1>2, <1>b, <2>1, <2>2, UseAccountMoves DEF PickSticky, Locals
  <2>3. CASE /\ SetLoc(r, [loc[r] EXCEPT !.sticky = NoAcct])
             /\ UNCHANGED <<pc, acct>>
    <3> DEFINE l == [loc[r] EXCEPT !.sticky = NoAcct]
    <3>1. l \in Locals /\ l.retry = loc[r].retry /\ l.rot = loc[r].rot
      BY <1>b DEF Locals
    <3>2. pc' = [pc EXCEPT ![r] = "rotate"] /\ "rotate" \in Places
      BY <1>2, <2>3 DEF PickSticky, IInv, TypeOK, Places
    <3>3. pc[r] \in Trying
      BY <1>2 DEF PickSticky, Trying
    <3> HIDE DEF l
    <3>4. QED
      BY <1>d, <2>1, <2>3, <3>1, <3>2, <3>3, LocMoves
      DEF l, Engaged, Holding
  <2>4. QED
    BY <1>2, <2>2, <2>3 DEF PickSticky
<1>3. CASE PickNext(r)
  <2>1. RestOK'
    BY <1>3, <1>a DEF PickNext, RestOK, health
  <2>2. PICK b \in PickExcluding(loc[r].tried) : UseAccount(r, b, NoAcct)
    BY <1>3 DEF PickNext
  <2>3. b \in Accounts
    BY DEF PickExcluding, Candidates
  <2>4. QED
    BY <1>3, <2>1, <2>2, <2>3, UseAccountMoves DEF PickNext
<1>4. CASE GiveUp(r)
  BY <1>4, <1>a, ReplyMoves DEF GiveUp, RestOK, health, Terminal
<1>5. CASE Acquire(r)
  <2>1. RestOK'
    BY <1>5, <1>a, <1>c, ActiveTyped
    DEF a, Acquire, RestOK, health, Engaged
  <2>2. QED
    BY <1>5, <1>d, <2>1, GotoMoves
    DEF Acquire, Places, Engaged, Holding, Trying
<1>6. CASE AcquireTimeout(r)
  BY <1>6, <1>a, NextAccountMoves
  DEF AcquireTimeout, RestOK, health, Engaged
<1>7. CASE Validate(r)
  <2>1. \/ Enable(a) \/ Disable(a) \/ UNCHANGED health
    BY <1>7 DEF Validate, a
  <2>2. RestOK'
    BY <1>7, <1>a, <1>c, <2>1, HealthTyped
    DEF Validate, RestOK, Engaged, Holding
  <2>3. QED
    BY <1>7, <1>d, <2>2, GotoMoves
    DEF Validate, Places, Engaged, Holding, Trying
<1>8. CASE DropInvalid(r)
  <2>1. RestOK'
    BY <1>8, <1>a, <1>c, ActiveTyped
    DEF a, DropInvalid, RestOK, health, Engaged, Holding
  <2>2. QED
    BY <1>8, <2>1, NextAccountMoves DEF DropInvalid, Engaged, Holding
<1>9. CASE Answer(r)
  <2>1. PICK x \in Answers :
          /\ SetLoc(r, [loc[r] EXCEPT !.err = x])
          /\ \/ Goto(r, "respond") \/ Goto(r, "refresh")
             \/ Goto(r, "backoff") \/ Goto(r, "fail")
          /\ ReleaseLock(a) \/ UNCHANGED active
          /\ avail' = [avail EXCEPT ![a] = "usable"] \/ UNCHANGED avail
    BY <1>9 DEF Answer, a
  <2>2. a \in Accounts /\ pc[r] \in Engaged /\ pc[r] \in Trying
    BY <1>9, <1>c DEF Answer, Engaged, Holding, Trying
  <2>3. RestOK'
    BY <1>9, <1>a, <2>1, <2>2, ActiveTyped
    DEF Answer, RestOK, health, Verdicts
  <2> DEFINE l == [loc[r] EXCEPT !.err = x]
  <2>4. l \in Locals /\ l.retry = loc[r].retry /\ l.rot = loc[r].rot
    BY <1>b, GatewayAssumption DEF Locals
  <2>5. SetLoc(r, l) /\ UNCHANGED acct
    BY <1>9, <2>1 DEF Answer
  <2>6. {"respond", "refresh", "backoff", "fail"} \subseteq Places
    BY DEF Places, Engaged, Holding
  <2> HIDE DEF l
  <2>7. QED
    BY <1>d, <2>1, <2>2, <2>3, <2>4, <2>5, <2>6, LocMoves DEF Goto
<1>10. CASE RefreshAfter401(r)
  <2>1. a \in Accounts /\ pc[r] \in Engaged /\ pc[r] \in Trying
    BY <1>10, <1>c DEF RefreshAfter401, Engaged, Holding, Trying
  <2>2. Enable(a) \/ UNCHANGED health
    BY <1>10 DEF RefreshAfter401, a
  <2>3. RestOK'
    BY <1>10, <1>a, <2>1, <2>2, HealthTyped DEF RefreshAfter401, RestOK
  <2>4. CASE Goto(r, "fail") /\ UNCHANGED loc
    BY <1>10, <2>1, <2>3, <2>4, GotoMoves
    DEF RefreshAfter401, Places, Engaged, Holding, Trying
  <2> DEFINE l == [loc[r] EXCEPT !.retry = @ + 1, !.authRetried = TRUE]
  <2>5. CASE NextAttempt(r) /\ SetLoc(r, l)
    <3>1. l \in Locals /\ l.retry = loc[r].retry + 1 /\ l.rot = loc[r].rot
      <4>1. loc[r].retry + 1 \in 0 .. QueueMaxAttempts
        BY <1>b, <1>d, <2>1, GatewayAssumption DEF Locals
      <4>2. QED
        BY <1>b, <4>1 DEF Locals
    <3> DEFINE p == IF loc[r].retry + 1 < QueueMaxAttempts THEN "send" ELSE "fail"
    <3>2. /\ p \in Places
          /\ p \in Trying => l.retry < QueueMaxAttempts
          /\ pc' = [pc EXCEPT ![r] = p]
      BY <2>5, <3>1 DEF NextAttempt, Goto, Places, Engaged, Holding, Trying
    <3> HIDE DEF l, p
    <3>3. SetLoc(r, l) /\ UNCHANGED acct
      BY <1>10, <2>5 DEF RefreshAfter401
    <3>4. QED
      BY <2>1, <2>3, <3>1, <3>2, <3>3, LocMoves
  <2>6. QED
    BY <1>10, <2>4, <2>5 DEF RefreshAfter401
<1>11. CASE BackoffElapsed(r)
  <2>1. RestOK'
    BY <1>11, <1>a DEF BackoffElapsed, RestOK, health
  <2>2. QED
    BY <1>11, <1>d, <2>1, GotoMoves DEF BackoffElapsed, Places, Engaged, Trying
<1>12. CASE BackoffCancelled(r)
  BY <1>12, <1>a, ReplyMoves DEF BackoffCancelled, RestOK, health, Terminal
<1>13. CASE Reacquire(r)
  <2>1. a \in Accounts /\ pc[r] \in Engaged /\ pc[r] \in Trying
    BY <1>13, <1>c DEF Reacquire, Engaged, Holding, Trying
  <2>2. RestOK'
    BY <1>13, <1>a, <2>1, ActiveTyped DEF a, Reacquire, RestOK, health
  <2> DEFINE l == [loc[r] EXCEPT !.retry = @ + 1]
             p == IF loc[r].retry + 1 < QueueMaxAttempts THEN "send" ELSE "fail"
  <2>3. l \in Locals /\ l.retry = loc[r].retry + 1 /\ l.rot = loc[r].rot
    <3>1. loc[r].retry + 1 \in 0 .. QueueMaxAttempts
      BY <1>b, <1>d, <2>1, GatewayAssumption DEF Locals
    <3>2. QED
      BY <1>b, <3>1 DEF Locals
  <2>4. /\ p \in Places
        /\ p \in Trying => l.retry < QueueMaxAttempts
        /\ pc' = [pc EXCEPT ![r] = p]
    BY <1>13, <2>3
    DEF Reacquire, NextAttempt, Goto, Places, Engaged, Holding, Trying
  <2>5. SetLoc(r, l) /\ UNCHANGED acct
    BY <1>13 DEF Reacquire
  <2> HIDE DEF l, p
  <2>6. QED
    BY <2>1, <2>2, <2>3, <2>4, <2>5, LocMoves
<1>14. CASE ReacquireTimeout(r)
  <2>1. RestOK'
    BY <1>14, <1>a DEF ReacquireTimeout, RestOK, health
  <2>2. QED
    BY <1>14, <2>1, GotoMoves
    DEF ReacquireTimeout, Places, Engaged, Holding, Trying
<1>15. CASE ReleaseFailed(r)
  <2>1. RestOK'
    BY <1>15, <1>a, <1>c, ActiveTyped
    DEF a, ReleaseFailed, RestOK, health, Engaged, Holding
  <2>2. QED
    BY <1>15, <2>1, GotoMoves
    DEF ReleaseFailed, Places, Engaged, Holding, Trying
<1>16. CASE Blame(r)
  <2>1. a \in Accounts /\ pc[r] \in Engaged
    BY <1>16, <1>c DEF Blame, Engaged
  <2>2. /\ Disable(a) \/ Cooldown(a) \/ NoteError(a) \/ UNCHANGED health
        /\ avail' = [avail EXCEPT ![a] = "unusable"] \/ UNCHANGED avail
        /\ Reply(r, "notfound") \/ NextAccount(r)
    BY <1>16 DEF Blame, a
  <2>3. RestOK'
    BY <1>16, <1>a, <2>1, <2>2, HealthTyped DEF Blame, RestOK, Verdicts
  <2>4. QED
    BY <2>1, <2>2, <2>3, ReplyMoves, NextAccountMoves DEF Terminal
<1>17. CASE Respond(r)
  <2>1. a \in Accounts /\ pc[r] \in Engaged
    BY <1>17, <1>c DEF Respond, Engaged, Holding
  <2>2. route' \in [Conversations -> Accounts \cup {NoAcct}]
    BY <1>17, <1>a, <2>1, GatewayAssumption DEF Respond, StoreChat, RestOK, a
  <2>3. RestOK'
    BY <1>17, <1>a, <2>1, <2>2, ActiveTyped DEF Respond, RestOK, health, a
  <2>4. CASE (Goto(r, "reward") \/ Goto(r, "noteerr")) /\ UNCHANGED <<acct, loc>>
    BY <2>1, <2>3, <2>4, GotoMoves DEF Places, Engaged, Holding, Trying
  <2>5. CASE Reply(r, "replied")
    BY <2>3, <2>5, ReplyMoves DEF Terminal
  <2>6. QED
    BY <1>17, <2>4, <2>5 DEF Respond
<1>18. CASE Reward(r)
  <2>1. a \in Accounts
    BY <1>18, <1>c DEF Reward, Engaged
  <2>2. route' \in [Conversations -> Accounts \cup {NoAcct}]
    BY <1>18, <1>a, <2>1, GatewayAssumption DEF Reward, StoreChat, RestOK, a
  <2>3. RestOK'
    BY <1>18, <1>a, <2>1, <2>2, HealthTyped DEF Reward, RestOK, a
  <2>4. QED
    BY <1>18, <2>3, ReplyMoves DEF Reward, Terminal
<1>19. CASE BodyFailed(r)
  <2>1. a \in Accounts /\ pc[r] \in Engaged
    BY <1>19, <1>c DEF BodyFailed, Engaged
  <2>2. RestOK'
    BY <1>19, <1>a, <2>1, HealthTyped DEF BodyFailed, RestOK, a
  <2>3. QED
    BY <1>19, <2>1, <2>2, ReplyMoves, NextAccountMoves DEF BodyFailed, Terminal
<1>20. CASE Disconnect(r)
  BY <1>20
  DEF Disconnect, health, IInv, TypeOK, AcctOK, RotOK, RetryOK
<1>21. QED
  BY <1>1, <1>2, <1>3, <1>4, <1>5, <1>6, <1>7, <1>8, <1>9, <1>10, <1>11,
     <1>12, <1>13, <1>14, <1>15, <1>16, <1>17, <1>18, <1>19, <1>20
  DEF Progress

LEMMA ProberKeepsIInv ==
  ASSUME IInv, ProberStep
  PROVE  IInv'
<1> USE DEF IInv, TypeOK, AcctOK, RotOK, RetryOK, Clients
<1>a. RestOK /\ Prober \notin Requests
  BY GatewayAssumption DEF RestOK
<1>1. ASSUME NEW a \in Accounts, ProbePick(a) PROVE IInv'
  BY <1>1, <1>a
  DEF ProbePick, Goto, health, Places, Engaged, Holding
<1>2. CASE ProbeLock
  <2>1. acct[Prober] \in Accounts
    BY <1>2 DEF ProbeLock, Engaged
  <2>2. active' \in [Accounts -> 0 .. MaxConcurrent]
    BY <1>2, <1>a, <2>1, ActiveTyped DEF ProbeLock
  <2>3. QED
    BY <1>2, <1>a, <2>1, <2>2
    DEF ProbeLock, SkipProbe, Goto, health, Places, Engaged, Holding
<1>3. CASE ProbeEnd
  <2>1. acct[Prober] \in Accounts
    BY <1>3 DEF ProbeEnd, Engaged, Holding
  <2>2. active' \in [Accounts -> 0 .. MaxConcurrent]
    BY <1>3, <1>a, <2>1, ActiveTyped DEF ProbeEnd
  <2>3. avail' \in [Accounts -> Verdicts]
    BY <1>3 DEF ProbeEnd, Verdicts
  <2>4. QED
    BY <1>3, <1>a, <2>1, <2>2, <2>3
    DEF ProbeEnd, SkipProbe, Goto, health, Places, Engaged, Holding
<1>4. QED
  BY <1>1, <1>2, <1>3 DEF ProberStep

LEMMA EnvironmentKeepsIInv ==
  ASSUME IInv, Environment
  PROVE  IInv'
<1>a. RestOK
  BY DEF IInv, TypeOK, RestOK
<1>b. Intervene => events' \in 0 .. MaxEvents
  BY <1>a, GatewayAssumption DEF Intervene, RestOK
<1>1. UNCHANGED <<pc, acct, loc, gone, active>>
  BY DEF Environment, CooldownEnds, Ban, Unban, VerdictExpires, ForgetRoute
<1>2. RestOK'
  <2>1. ASSUME NEW a \in Accounts,
               CooldownEnds(a) \/ Ban(a) \/ Unban(a)
        PROVE  RestOK'
    BY <1>a, <1>b, <2>1, HealthTyped
    DEF CooldownEnds, Ban, Unban, RestOK
  <2>2. ASSUME NEW a \in Accounts, VerdictExpires(a) PROVE RestOK'
    BY <1>a, <1>b, <2>2 DEF VerdictExpires, RestOK, health, Verdicts
  <2>3. ASSUME NEW c \in Conversations, ForgetRoute(c) PROVE RestOK'
    BY <1>a, <1>b, <2>3 DEF ForgetRoute, RestOK, health
  <2>4. QED
    BY <2>1, <2>2, <2>3 DEF Environment
<1>3. QED
  BY <1>1, <1>2 DEF IInv, TypeOK, RestOK, AcctOK, RotOK, RetryOK

LEMMA NextIInv == IInv /\ [Next]_vars => IInv'
<1> SUFFICES ASSUME IInv, [Next]_vars PROVE IInv'
  OBVIOUS
<1>1. CASE UNCHANGED vars
  BY <1>1 DEF vars, IInv, TypeOK, AcctOK, RotOK, RetryOK
<1>2. CASE Next
  BY <1>2, ProgressKeepsIInv, ProberKeepsIInv, EnvironmentKeepsIInv DEF Next
<1>3. QED
  BY <1>1, <1>2

(* The state of the gateway is always well typed: no slot count leaves      *)
(* 0 .. MaxConcurrent, no rotation and no retry loop exceeds its bound, and *)
(* whoever is busy with an account has one.                                 *)
THEOREM TypeCorrect == Spec => []TypeOK
<1>1. Spec => []IInv
  BY InitIInv, NextIInv, PTL DEF Spec
<1>2. IInv => TypeOK
  BY DEF IInv
<1>3. QED
  BY <1>1, <1>2, PTL

-----------------------------------------------------------------------------
(* Slots: every step keeps, takes or gives back one client's slot.         *)

Others(c) ==
  \A d \in Clients \ {c} : pc'[d] = pc[d] /\ acct'[d] = acct[d]

Keeps(c) ==
  /\ Others(c)
  /\ UNCHANGED active
  /\ \/ pc[c] \in Holding /\ pc'[c] \in Holding /\ acct'[c] = acct[c]
     \/ pc[c] \notin Holding /\ pc'[c] \notin Holding

Takes(c) ==
  /\ Others(c)
  /\ pc[c] \notin Holding /\ pc'[c] \in Holding
  /\ acct'[c] \in Accounts /\ AcquireLock(acct'[c])

Gives(c) ==
  /\ Others(c)
  /\ pc[c] \in Holding /\ pc'[c] \notin Holding
  /\ acct[c] \in Accounts /\ ReleaseLock(acct[c])

SlotStep == \E c \in Clients : Keeps(c) \/ Takes(c) \/ Gives(c)

LEMMA ProgressIsSlotStep ==
  ASSUME IInv, NEW r \in Requests, Arrive(r) \/ Progress(r) \/ Disconnect(r)
  PROVE  SlotStep
<1> USE DEF Keeps, Takes, Gives, Others, Goto, Holding
<1>a. r \in Clients /\ pc \in [Clients -> Places]
      /\ acct \in [Clients -> Accounts \cup {NoAcct}]
  BY DEF Clients, IInv, TypeOK
<1>b. pc[r] \in Engaged => acct[r] \in Accounts
  BY <1>a DEF IInv, AcctOK
<1>1. CASE Arrive(r)
  <2>1. Keeps(r)
    BY <1>a, <1>1 DEF Arrive, Reply
  <2>2. QED
    BY <1>a, <2>1 DEF SlotStep
<1>2. CASE PickSticky(r) \/ PickNext(r) \/ GiveUp(r)
  <2>1. Keeps(r)
    BY <1>a, <1>2 DEF PickSticky, PickNext, GiveUp, UseAccount, Reply
  <2>2. QED
    BY <1>a, <2>1 DEF SlotStep
<1>3. CASE Acquire(r) \/ Reacquire(r)
  <2>1. Takes(r)
    BY <1>a, <1>b, <1>3 DEF Acquire, Reacquire, NextAttempt, Engaged
  <2>2. QED
    BY <1>a, <2>1 DEF SlotStep
<1>4. CASE AcquireTimeout(r) \/ Validate(r) \/ RefreshAfter401(r)
  <2>1. Keeps(r)
    BY <1>a, <1>4
    DEF AcquireTimeout, Validate, RefreshAfter401, NextAccount, NextAttempt
  <2>2. QED
    BY <1>a, <2>1 DEF SlotStep
<1>5. CASE DropInvalid(r) \/ ReleaseFailed(r)
  <2>1. Gives(r)
    BY <1>a, <1>b, <1>5 DEF DropInvalid, ReleaseFailed, NextAccount, Engaged
  <2>2. QED
    BY <1>a, <2>1 DEF SlotStep
<1>6. CASE Answer(r)
  <2>1. Keeps(r) \/ Gives(r)
    BY <1>a, <1>b, <1>6 DEF Answer, Engaged
  <2>2. QED
    BY <1>a, <2>1 DEF SlotStep
<1>7. CASE BackoffElapsed(r) \/ BackoffCancelled(r) \/ ReacquireTimeout(r)
  <2>1. Keeps(r)
    BY <1>a, <1>7 DEF BackoffElapsed, BackoffCancelled, ReacquireTimeout, Reply
  <2>2. QED
    BY <1>a, <2>1 DEF SlotStep
<1>8. CASE Blame(r) \/ Reward(r) \/ BodyFailed(r)
  <2>1. Keeps(r)
    BY <1>a, <1>8 DEF Blame, Reward, BodyFailed, Reply, NextAccount
  <2>2. QED
    BY <1>a, <2>1 DEF SlotStep
<1>9. CASE Respond(r)
  <2>1. Gives(r)
    BY <1>a, <1>b, <1>9 DEF Respond, Reply, Engaged
  <2>2. QED
    BY <1>a, <2>1 DEF SlotStep
<1>10. CASE Disconnect(r)
  <2>1. Keeps(r)
    BY <1>a, <1>10 DEF Disconnect
  <2>2. QED
    BY <1>a, <2>1 DEF SlotStep
<1>11. QED
  BY <1>1, <1>2, <1>3, <1>4, <1>5, <1>6, <1>7, <1>8, <1>9, <1>10 DEF Progress

LEMMA NextIsSlotStep ==
  ASSUME IInv, [Next]_vars
  PROVE  SlotStep
<1> USE DEF Keeps, Takes, Gives, Others, Holding
<1>a. Prober \in Clients /\ pc \in [Clients -> Places]
      /\ acct \in [Clients -> Accounts \cup {NoAcct}]
  BY DEF Clients, IInv, TypeOK
<1>b. pc[Prober] \in Engaged => acct[Prober] \in Accounts
  BY <1>a DEF IInv, AcctOK
<1>1. CASE UNCHANGED vars \/ Environment
  <2>1. Keeps(Prober)
    BY <1>a, <1>1
    DEF vars, Environment, CooldownEnds, Ban, Unban, VerdictExpires, ForgetRoute
  <2>2. QED
    BY <1>a, <2>1 DEF SlotStep
<1>2. ASSUME NEW a \in Accounts, ProbePick(a) PROVE SlotStep
  <2>1. Keeps(Prober)
    BY <1>a, <1>2 DEF ProbePick, Goto
  <2>2. QED
    BY <1>a, <2>1 DEF SlotStep
<1>3. CASE ProbeLock
  <2>1. Keeps(Prober) \/ Takes(Prober)
    BY <1>a, <1>b, <1>3 DEF ProbeLock, SkipProbe, Goto, Engaged
  <2>2. QED
    BY <1>a, <2>1 DEF SlotStep
<1>4. CASE ProbeEnd
  <2>1. Gives(Prober)
    BY <1>a, <1>b, <1>4 DEF ProbeEnd, SkipProbe, Goto, Engaged
  <2>2. QED
    BY <1>a, <2>1 DEF SlotStep
<1>5. QED
  BY <1>1, <1>2, <1>3, <1>4, ProgressIsSlotStep DEF Next, ProberStep

LEMMA HoldersFinite ==
  ASSUME NEW a \in Accounts
  PROVE  IsFiniteSet(Holders(a))
<1>1. IsFiniteSet(Clients)
  BY GatewayAssumption, FS_AddElement DEF Clients
<1>2. Holders(a) \subseteq Clients
  BY DEF Holders
<1>3. QED
  BY <1>1, <1>2, FS_Subset

\* What the three kinds of step do to the holders of an account.
LEMMA HoldersChange ==
  ASSUME NEW c \in Clients, NEW a \in Accounts
  PROVE  /\ Keeps(c) => Holders(a)' = Holders(a)
         /\ Takes(c) => IF acct'[c] = a
                        THEN Holders(a)' = Holders(a) \cup {c} /\ c \notin Holders(a)
                        ELSE Holders(a)' = Holders(a)
         /\ Gives(c) => IF acct[c] = a
                        THEN Holders(a)' = Holders(a) \ {c} /\ c \in Holders(a)
                        ELSE Holders(a)' = Holders(a)
  BY DEF Keeps, Takes, Gives, Others, Holders

LEMMA SlotStepAccounted ==
  ASSUME IInv, SlotsAccounted, SlotStep
  PROVE  SlotsAccounted'
<1> SUFFICES ASSUME NEW a \in Accounts
             PROVE  active'[a] = Cardinality(Holders(a)')
  BY DEF SlotsAccounted
<1>1. PICK c \in Clients : Keeps(c) \/ Takes(c) \/ Gives(c)
  BY DEF SlotStep
<1>2. /\ IsFiniteSet(Holders(a))
      /\ active[a] = Cardinality(Holders(a)) /\ active[a] \in Nat
  <2>1. active[a] \in 0 .. MaxConcurrent
    BY DEF IInv, TypeOK
  <2>2. QED
    BY <2>1, HoldersFinite, GatewayAssumption DEF SlotsAccounted
<1>3. active \in [Accounts -> 0 .. MaxConcurrent]
  BY DEF IInv, TypeOK
<1>4. CASE Keeps(c)
  BY <1>2, <1>4, HoldersChange DEF Keeps
<1>5. CASE Takes(c)
  <2>1. CASE acct'[c] = a
    <3>1. Cardinality(Holders(a)') = Cardinality(Holders(a)) + 1
      BY <1>2, <1>5, <2>1, HoldersChange, FS_AddElement
    <3>2. active'[a] = active[a] + 1
      BY <1>3, <1>5, <2>1 DEF Takes, AcquireLock
    <3>3. QED
      BY <1>2, <3>1, <3>2
  <2>2. CASE acct'[c] # a
    BY <1>2, <1>3, <1>5, <2>2, HoldersChange DEF Takes, AcquireLock
  <2>3. QED
    BY <2>1, <2>2
<1>6. CASE Gives(c)
  <2>1. CASE acct[c] = a
    <3>1. /\ Cardinality(Holders(a)') = Cardinality(Holders(a)) - 1
          /\ Cardinality(Holders(a)) # 0
      <4>1. Holders(a)' = Holders(a) \ {c} /\ c \in Holders(a)
        BY <1>6, <2>1, HoldersChange
      <4>2. QED
        BY <1>2, <4>1, FS_RemoveElement, FS_EmptySet
    <3>2. active[a] # 0 => active'[a] = active[a] - 1
      BY <1>2, <1>3, <1>6, <2>1 DEF Gives, ReleaseLock
    <3>3. QED
      BY <1>2, <3>1, <3>2
  <2>2. CASE acct[c] # a
    BY <1>2, <1>3, <1>6, <2>2, HoldersChange DEF Gives, ReleaseLock
  <2>3. QED
    BY <2>1, <2>2
<1>7. QED
  BY <1>1, <1>4, <1>5, <1>6

(* Account.activeConcurrent is exactly the number of requests and probes    *)
(* that own a slot of the account, whatever path each took through the      *)
(* handler.                                                                 *)
THEOREM SlotsAreAccounted == Spec => []SlotsAccounted
<1>1. Init => SlotsAccounted
  <2> SUFFICES ASSUME Init, NEW a \in Accounts
               PROVE  active[a] = Cardinality(Holders(a))
    BY DEF SlotsAccounted
  <2>1. Holders(a) = {}
    BY DEF Init, Holders, Holding
  <2>2. QED
    BY <2>1, FS_EmptySet DEF Init
<1>2. IInv /\ SlotsAccounted /\ [Next]_vars => SlotsAccounted'
  BY NextIsSlotStep, SlotStepAccounted
<1>3. QED
  BY <1>1, <1>2, InitIInv, NextIInv, PTL DEF Spec

-----------------------------------------------------------------------------
(* Refinement: the holders of the slots behave as SlotPool says.           *)

HolderMap == [a \in Accounts |-> Holders(a)]

\* SlotPool's Cardinality is that of this module.
LEMMA SameCardinality ==
  ASSUME NEW S
  PROVE  Slots!Cardinality(S) = Cardinality(S)
  BY DEF Slots!Cardinality, Cardinality

LEMMA SlotStepRefines ==
  ASSUME IInv, SlotsAccounted, SlotStep
  PROVE  Slots!Next \/ UNCHANGED HolderMap
<1>1. PICK c \in Clients : Keeps(c) \/ Takes(c) \/ Gives(c)
  BY DEF SlotStep
<1>2. CASE Keeps(c)
  BY <1>2, HoldersChange DEF HolderMap
<1>3. CASE Takes(c)
  <2> DEFINE b == acct'[c]
  <2>1. b \in Accounts /\ active[b] < MaxConcurrent
    BY <1>3 DEF Takes, AcquireLock
  <2>2. Slots!Idle(c)
    BY <1>3 DEF Slots!Idle, Takes, Holders
  <2>3. Cardinality(HolderMap[b]) < MaxConcurrent
    BY <2>1 DEF SlotsAccounted, HolderMap
  <2>4. HolderMap' = [HolderMap EXCEPT ![b] = @ \cup {c}]
    BY <1>3, <2>1, HoldersChange DEF HolderMap
  <2>5. Slots!Take(c, b)
    BY <2>2, <2>3, <2>4, SameCardinality DEF Slots!Take, HolderMap
  <2>6. QED
    BY <2>1, <2>5 DEF Slots!Next
<1>4. CASE Gives(c)
  <2> DEFINE b == acct[c]
  <2>1. b \in Accounts /\ c \in HolderMap[b]
    BY <1>4, HoldersChange DEF Gives, HolderMap
  <2>2. HolderMap' = [HolderMap EXCEPT ![b] = @ \ {c}]
    BY <1>4, <2>1, HoldersChange DEF HolderMap
  <2>3. Slots!GiveBack(c, b)
    BY <2>1, <2>2 DEF Slots!GiveBack, HolderMap
  <2>4. QED
    BY <2>1, <2>3 DEF Slots!Next
<1>5. QED
  BY <1>1, <1>2, <1>3, <1>4

(* The counters implement the slot pool: a slot is given back by the client *)
(* that took it, nobody owns two, and no account is ever held by more than  *)
(* MaxConcurrent requests and probes.                                       *)
THEOREM GatewayImplementsSlotPool == Spec => ImplementsSlotPool
<1>1. Init => Slots!Init
  <2> SUFFICES ASSUME Init PROVE Slots!Init
    OBVIOUS
  <2>1. \A a \in Accounts : Holders(a) = {}
    BY DEF Init, Holders, Holding
  <2>2. QED
    BY <2>1 DEF Slots!Init
<1>2. IInv /\ SlotsAccounted /\ [Next]_vars => [Slots!Next]_HolderMap
  BY NextIsSlotStep, SlotStepRefines
<1>3. Spec => [](IInv /\ SlotsAccounted)
  BY SlotsAreAccounted, InitIInv, NextIInv, PTL DEF Spec
<1>4. QED
  BY <1>1, <1>2, <1>3, PTL DEF ImplementsSlotPool, Slots!Spec, Spec, HolderMap

-----------------------------------------------------------------------------
(* Rotation: how a request spends its turns.                               *)

\* A step that moves one request's handler, to a place and to new locals.
Moves(r, p, l) ==
  /\ pc' = [pc EXCEPT ![r] = p]
  /\ loc' = [loc EXCEPT ![r] = l]

\* Locals that say the same of the rotation.
SameTurn(l, k) == l.tried = k.tried /\ l.rot = k.rot /\ l.sticky = k.sticky

\* What a step may do with the rotation of the request it moves.
Starts(r) ==
  /\ pc[r] = "idle"
  /\ \E s : /\ ConvOf[r] = NoConv => s = NoAcct
            /\ Moves(r, "rotate", [Blank EXCEPT !.sticky = s])
Ends(r) == \E p \in Terminal : Moves(r, p, Blank)
Unsticks(r) ==
  pc[r] = "rotate" /\ Moves(r, "rotate", [loc[r] EXCEPT !.sticky = NoAcct])
Tries(r) ==
  /\ pc[r] = "rotate"
  /\ \E a \in Accounts :
       /\ loc[r].sticky = NoAcct => a \notin loc[r].tried
       /\ Moves(r, "wait", [loc[r] EXCEPT !.tried = @ \cup {a}])
Turns(r) ==
  /\ pc[r] \in Engaged
  /\ \E l \in Locals :
       /\ Moves(r, "rotate", l)
       /\ l.tried = loc[r].tried /\ l.sticky = loc[r].sticky /\ l.rot = loc[r].rot + 1
Stays(r) ==
  /\ pc[r] \in Engaged
  /\ \E p \in Engaged, l \in Locals : Moves(r, p, l) /\ SameTurn(l, loc[r])

RotationStep(r) ==
  Starts(r) \/ Ends(r) \/ Unsticks(r) \/ Tries(r) \/ Turns(r) \/ Stays(r)

LEMMA TurnsOver ==
  ASSUME IInv, IInv', NEW r \in Requests, pc[r] \in Engaged, NextAccount(r)
  PROVE  Turns(r)
<1> DEFINE l == [loc[r] EXCEPT !.rot = @ + 1, !.retry = 0,
                               !.authRetried = FALSE, !.err = "ok"]
<1>1. Moves(r, "rotate", l)
  BY DEF NextAccount, Goto, SetLoc, Moves
<1>2. l = loc'[r] /\ loc'[r] \in Locals /\ loc[r] \in Locals
  BY <1>1 DEF Moves, IInv, TypeOK
<1>3. l.tried = loc[r].tried /\ l.sticky = loc[r].sticky /\ l.rot = loc[r].rot + 1
  BY <1>2 DEF Locals
<1> HIDE DEF l
<1>4. QED
  BY <1>1, <1>2, <1>3 DEF Turns

LEMMA Replies ==
  ASSUME NEW r \in Requests, NEW p \in Terminal, Reply(r, p)
  PROVE  Ends(r)
  BY DEF Reply, Goto, SetLoc, Ends, Moves

\* A step that leaves the locals alone.
LEMMA GoesOn ==
  ASSUME IInv, NEW r \in Requests, NEW p \in Engaged, pc[r] \in Engaged,
         Goto(r, p), UNCHANGED loc
  PROVE  Stays(r)
<1>1. loc[r] \in Locals /\ loc' = [loc EXCEPT ![r] = loc[r]]
  BY DEF IInv, TypeOK
<1>2. QED
  BY <1>1 DEF Stays, Moves, SameTurn, Goto

LEMMA GoesOnWith ==
  ASSUME IInv, IInv', NEW r \in Requests, NEW p \in Engaged, pc[r] \in Engaged,
         Goto(r, p), NEW l, SetLoc(r, l), SameTurn(l, loc[r])
  PROVE  Stays(r)
<1>1. l = loc'[r] /\ loc'[r] \in Locals
  BY DEF SetLoc, IInv, TypeOK
<1>2. Moves(r, p, l)
  BY DEF Goto, SetLoc, Moves
<1>3. QED
  BY <1>1, <1>2 DEF Stays

LEMMA ProgressRotates ==
  ASSUME IInv, NEW r \in Requests, Arrive(r) \/ Progress(r)
  PROVE  RotationStep(r)
<1> USE DEF RotationStep
<1>a. IInv'
  BY ProgressKeepsIInv
<1>b. loc[r] \in Locals
  BY DEF IInv, TypeOK
<1>1. CASE Arrive(r)
  <2>1. CASE Reply(r, "notfound")
    BY <2>1, Replies DEF Terminal
  <2>2. CASE ~ModelKnownUnusable
    <3> DEFINE s == IF ConvOf[r] = NoConv THEN NoAcct ELSE route[ConvOf[r]]
    <3>1. Moves(r, "rotate", [Blank EXCEPT !.sticky = s]) /\ pc[r] = "idle"
      BY <1>1, <2>2 DEF Arrive, Moves, Goto, SetLoc
    <3>2. ConvOf[r] = NoConv => s = NoAcct
      OBVIOUS
    <3> HIDE DEF s
    <3>3. QED
      BY <3>1, <3>2 DEF Starts
  <2>3. QED
    BY <1>1, <2>1, <2>2 DEF Arrive
<1>2. CASE PickSticky(r)
  <2>1. CASE UseAccount(r, loc[r].sticky, loc[r].sticky)
    <3> DEFINE a == loc[r].sticky
    <3>1. a \in Accounts
      BY <1>2, <1>b DEF PickSticky, Locals
    <3>2. [loc[r] EXCEPT !.tried = @ \cup {a}, !.sticky = a]
            = [loc[r] EXCEPT !.tried = @ \cup {a}]
      BY <1>b DEF Locals
    <3>3. Moves(r, "wait", [loc[r] EXCEPT !.tried = @ \cup {a}])
      BY <2>1, <3>2 DEF UseAccount, Goto, SetLoc, Moves
    <3>4. pc[r] = "rotate" /\ loc[r].sticky # NoAcct
      BY <1>2 DEF PickSticky
    <3>5. QED
      BY <3>1, <3>3, <3>4 DEF Tries
  <2>2. CASE SetLoc(r, [loc[r] EXCEPT !.sticky = NoAcct]) /\ UNCHANGED pc
    <3>1. pc' = [pc EXCEPT ![r] = "rotate"] /\ pc[r] = "rotate"
      BY <1>2, <2>2 DEF PickSticky, IInv, TypeOK
    <3>2. QED
      BY <2>2, <3>1 DEF Unsticks, Moves, SetLoc
  <2>3. QED
    BY <1>2, <2>1, <2>2 DEF PickSticky
<1>3. CASE PickNext(r)
  <2>1. PICK a \in PickExcluding(loc[r].tried) : UseAccount(r, a, NoAcct)
    BY <1>3 DEF PickNext
  <2>2. a \in Accounts /\ a \notin loc[r].tried
    BY DEF PickExcluding, Candidates
  <2>3. [loc[r] EXCEPT !.tried = @ \cup {a}, !.sticky = NoAcct]
          = [loc[r] EXCEPT !.tried = @ \cup {a}]
    BY <1>3, <1>b DEF PickNext, Locals
  <2>4. Moves(r, "wait", [loc[r] EXCEPT !.tried = @ \cup {a}])
    BY <2>1, <2>3 DEF UseAccount, Goto, SetLoc, Moves
  <2>5. QED
    BY <1>3, <2>2, <2>4 DEF Tries, PickNext
<1>4. CASE GiveUp(r)
  BY <1>4, Replies DEF GiveUp, Terminal
<1>5. CASE Acquire(r)
  BY <1>5, GoesOn DEF Acquire, Engaged, Holding
<1>6. CASE AcquireTimeout(r)
  BY <1>6, <1>a, TurnsOver DEF AcquireTimeout, Engaged
<1>7. CASE Validate(r)
  BY <1>7, GoesOn DEF Validate, Engaged, Holding
<1>8. CASE DropInvalid(r)
  BY <1>8, <1>a, TurnsOver DEF DropInvalid, Engaged, Holding
<1>9. CASE Answer(r)
  <2>1. PICK x \in Answers :
          /\ SetLoc(r, [loc[r] EXCEPT !.err = x])
          /\ \/ Goto(r, "respond") \/ Goto(r, "refresh")
             \/ Goto(r, "backoff") \/ Goto(r, "fail")
    BY <1>9 DEF Answer
  <2> DEFINE l == [loc[r] EXCEPT !.err = x]
  <2>2. SameTurn(l, loc[r]) /\ SetLoc(r, l)
    BY <1>b, <2>1 DEF SameTurn, Locals
  <2>3. pc[r] \in Engaged /\ {"respond", "refresh", "backoff", "fail"} \subseteq Engaged
    BY <1>9 DEF Answer, Engaged, Holding
  <2> HIDE DEF l
  <2>4. QED
    BY <1>a, <2>1, <2>2, <2>3, GoesOnWith
<1>10. CASE RefreshAfter401(r)
  <2>1. pc[r] \in Engaged /\ {"send", "fail"} \subseteq Engaged
    BY <1>10 DEF RefreshAfter401, Engaged, Holding
  <2>2. CASE Goto(r, "fail") /\ UNCHANGED loc
    BY <2>1, <2>2, GoesOn
  <2> DEFINE l == [loc[r] EXCEPT !.retry = @ + 1, !.authRetried = TRUE]
  <2>3. CASE NextAttempt(r) /\ SetLoc(r, l)
    <3>1. SameTurn(l, loc[r])
      BY <1>b DEF SameTurn, Locals
    <3> HIDE DEF l
    <3>2. QED
      BY <1>a, <2>1, <2>3, <3>1, GoesOnWith DEF NextAttempt
  <2>4. QED
    BY <1>10, <2>2, <2>3 DEF RefreshAfter401
<1>11. CASE BackoffElapsed(r)
  BY <1>11, GoesOn DEF BackoffElapsed, Engaged
<1>12. CASE BackoffCancelled(r)
  BY <1>12, Replies DEF BackoffCancelled, Terminal
<1>13. CASE Reacquire(r)
  <2>1. pc[r] \in Engaged /\ {"send", "fail"} \subseteq Engaged
    BY <1>13 DEF Reacquire, Engaged, Holding
  <2> DEFINE l == [loc[r] EXCEPT !.retry = @ + 1]
  <2>2. SameTurn(l, loc[r]) /\ SetLoc(r, l) /\ NextAttempt(r)
    BY <1>b, <1>13 DEF SameTurn, Locals, Reacquire
  <2> HIDE DEF l
  <2>3. QED
    BY <1>a, <2>1, <2>2, GoesOnWith DEF NextAttempt
<1>14. CASE ReacquireTimeout(r)
  BY <1>14, GoesOn DEF ReacquireTimeout, Engaged
<1>15. CASE ReleaseFailed(r)
  BY <1>15, GoesOn DEF ReleaseFailed, Engaged, Holding
<1>16. CASE Blame(r)
  <2>1. pc[r] \in Engaged /\ (Reply(r, "notfound") \/ NextAccount(r))
    BY <1>16 DEF Blame, Engaged
  <2>2. QED
    BY <1>a, <2>1, Replies, TurnsOver DEF Terminal
<1>17. CASE Respond(r)
  <2>1. \/ Goto(r, "reward") /\ UNCHANGED loc
        \/ Goto(r, "noteerr") /\ UNCHANGED loc
        \/ Reply(r, "replied")
    BY <1>17 DEF Respond
  <2>2. pc[r] \in Engaged /\ {"reward", "noteerr"} \subseteq Engaged
    BY <1>17 DEF Respond, Engaged, Holding
  <2>3. QED
    BY <2>1, <2>2, GoesOn, Replies DEF Terminal
<1>18. CASE Reward(r)
  BY <1>18, Replies DEF Reward, Terminal
<1>19. CASE BodyFailed(r)
  <2>1. pc[r] \in Engaged /\ (Reply(r, "replied") \/ NextAccount(r))
    BY <1>19 DEF BodyFailed, Engaged
  <2>2. QED
    BY <1>a, <2>1, Replies, TurnsOver DEF Terminal
<1>20. QED
  BY <1>1, <1>2, <1>3, <1>4, <1>5, <1>6, <1>7, <1>8, <1>9, <1>10, <1>11, <1>12,
     <1>13, <1>14, <1>15, <1>16, <1>17, <1>18, <1>19 DEF Progress

-----------------------------------------------------------------------------
(* Turns: each is spent on a new account.                                  *)

\* A request outside any conversation is never bound to an account.
NeverSticky == \A r \in Requests : ConvOf[r] = NoConv => loc[r].sticky = NoAcct


RInv == IInv /\ NeverSticky /\ RotationSpendsNewAccounts

LEMMA AccountsFinite ==
  ASSUME NEW S, S \subseteq Accounts
  PROVE  IsFiniteSet(S)
<1>1. IsFiniteSet(Accounts)
  BY GatewayAssumption, FS_Interval DEF Accounts
<1>2. QED
  BY <1>1, FS_Subset

\* The count of turns and of accounts agree for one request.
Balanced(p, l) ==
  Cardinality(l.tried) = l.rot + (IF p \in Engaged THEN 1 ELSE 0)

LEMMA BlankBalanced ==
  ASSUME NEW p, p \notin Engaged, NEW s
  PROVE  Balanced(p, [Blank EXCEPT !.sticky = s]) /\ Balanced(p, Blank)
  BY FS_EmptySet DEF Balanced, Blank

LEMMA StepBalances ==
  ASSUME RInv, NEW r \in Requests, ConvOf[r] = NoConv, RotationStep(r)
  PROVE  Balanced(pc'[r], loc'[r]) /\ loc'[r].sticky = NoAcct
<1>a. /\ loc[r] \in Locals /\ loc[r].sticky = NoAcct /\ Balanced(pc[r], loc[r])
      /\ loc \in [Requests -> Locals] /\ pc \in [Clients -> Places] /\ r \in Clients
  BY DEF RInv, IInv, TypeOK, NeverSticky, RotationSpendsNewAccounts, Balanced, Clients
<1>b. \A p, l : Moves(r, p, l) => pc'[r] = p /\ loc'[r] = l
  BY <1>a DEF Moves
<1>c. "rotate" \notin Engaged /\ "wait" \in Engaged /\ Terminal \cap Engaged = {}
  BY DEF Engaged, Holding, Terminal
<1>d. loc[r].rot \in Nat /\ loc[r].tried \subseteq Accounts
  BY <1>a, GatewayAssumption DEF Locals
<1>1. CASE Starts(r)
  <2>1. PICK s : (ConvOf[r] = NoConv => s = NoAcct)
                 /\ Moves(r, "rotate", [Blank EXCEPT !.sticky = s])
    BY <1>1 DEF Starts
  <2>2. [Blank EXCEPT !.sticky = s].sticky = s
    BY DEF Blank
  <2>3. QED
    BY <1>b, <1>c, <2>1, <2>2, BlankBalanced
<1>2. CASE Ends(r)
  <2>1. PICK p \in Terminal : Moves(r, p, Blank)
    BY <1>2 DEF Ends
  <2>2. Balanced(p, Blank) /\ Blank.sticky = NoAcct
    BY <1>c, BlankBalanced DEF Blank
  <2>3. QED
    BY <1>b, <2>1, <2>2
<1>3. CASE Unsticks(r)
  <2> DEFINE l == [loc[r] EXCEPT !.sticky = NoAcct]
  <2>1. l.tried = loc[r].tried /\ l.rot = loc[r].rot /\ l.sticky = NoAcct
    BY <1>a DEF Locals
  <2>2. pc[r] = "rotate" /\ Moves(r, "rotate", l)
    BY <1>3 DEF Unsticks
  <2> HIDE DEF l
  <2>3. QED
    BY <1>a, <1>b, <2>1, <2>2 DEF Balanced
<1>4. CASE Tries(r)
  <2>1. PICK a \in Accounts :
          /\ a \notin loc[r].tried
          /\ Moves(r, "wait", [loc[r] EXCEPT !.tried = @ \cup {a}])
    BY <1>4, <1>a DEF Tries
  <2> DEFINE l == [loc[r] EXCEPT !.tried = @ \cup {a}]
  <2>2. l.tried = loc[r].tried \cup {a} /\ l.rot = loc[r].rot /\ l.sticky = loc[r].sticky
    BY <1>a DEF Locals
  <2>3. Cardinality(loc[r].tried \cup {a}) = Cardinality(loc[r].tried) + 1
    BY <1>d, <2>1, AccountsFinite, FS_AddElement
  <2>4. Cardinality(loc[r].tried) = loc[r].rot
    BY <1>4, <1>a, <1>c, <1>d DEF Tries, Balanced
  <2>5. Moves(r, "wait", l)
    BY <2>1
  <2> HIDE DEF l
  <2>6. QED
    BY <1>a, <1>b, <1>c, <2>2, <2>3, <2>4, <2>5 DEF Balanced
<1>5. CASE Turns(r)
  <2>1. PICK l \in Locals :
          /\ Moves(r, "rotate", l)
          /\ l.tried = loc[r].tried /\ l.sticky = loc[r].sticky /\ l.rot = loc[r].rot + 1
    BY <1>5 DEF Turns
  <2>2. Cardinality(loc[r].tried) = loc[r].rot + 1
    BY <1>5, <1>a DEF Turns, Balanced
  <2>3. QED
    BY <1>a, <1>b, <1>c, <1>d, <2>1, <2>2 DEF Balanced
<1>6. CASE Stays(r)
  <2>1. PICK p \in Engaged, l \in Locals : Moves(r, p, l) /\ SameTurn(l, loc[r])
    BY <1>6 DEF Stays
  <2>2. Cardinality(loc[r].tried) = loc[r].rot + 1
    BY <1>6, <1>a DEF Stays, Balanced
  <2>3. QED
    BY <1>a, <1>b, <2>1, <2>2 DEF Balanced, SameTurn
<1>7. QED
  BY <1>1, <1>2, <1>3, <1>4, <1>5, <1>6 DEF RotationStep

\* Nobody else's handler is touched.
LEMMA StepMovesOne ==
  ASSUME RInv, NEW r \in Requests, RotationStep(r), NEW q \in Requests, q # r
  PROVE  pc'[q] = pc[q] /\ loc'[q] = loc[q]
<1>1. pc \in [Clients -> Places] /\ loc \in [Requests -> Locals] /\ q \in Clients
  BY DEF RInv, IInv, TypeOK, Clients
<1>2. PICK p, l : Moves(r, p, l)
  BY DEF RotationStep, Starts, Ends, Unsticks, Tries, Turns, Stays
<1>3. QED
  BY <1>1, <1>2 DEF Moves

\* The prober's place is not a request's.
LEMMA OthersLeaveRequests ==
  ASSUME IInv, ProberStep \/ Environment \/ UNCHANGED vars
  PROVE  UNCHANGED loc /\ \A r \in Requests : pc'[r] = pc[r]
<1>1. pc \in [Clients -> Places] /\ Prober \notin Requests
  BY GatewayAssumption DEF IInv, TypeOK
<1>2. CASE ProberStep
  BY <1>1, <1>2 DEF ProberStep, ProbePick, ProbeLock, ProbeEnd, SkipProbe, Goto, Clients
<1>3. CASE Environment \/ UNCHANGED vars
  BY <1>3 DEF vars, Environment, CooldownEnds, Ban, Unban, VerdictExpires, ForgetRoute
<1>4. QED
  BY <1>2, <1>3

LEMMA NextRInv == RInv /\ [Next]_vars => RInv'
<1> SUFFICES ASSUME RInv, [Next]_vars PROVE RInv'
  OBVIOUS
<1>1. IInv /\ IInv'
  BY NextIInv DEF RInv
<1>2. ASSUME NEW r \in Requests, Arrive(r) \/ Progress(r)
      PROVE  NeverSticky' /\ RotationSpendsNewAccounts'
  <2>1. RotationStep(r)
    BY <1>1, <1>2, ProgressRotates
  <2>2. \A q \in Requests : q # r => pc'[q] = pc[q] /\ loc'[q] = loc[q]
    BY <2>1, StepMovesOne
  <2>3. ConvOf[r] = NoConv => Balanced(pc'[r], loc'[r]) /\ loc'[r].sticky = NoAcct
    BY <2>1, StepBalances
  <2>4. NeverSticky'
    BY <2>2, <2>3 DEF RInv, NeverSticky
  <2>5. RotationSpendsNewAccounts'
    BY <2>2, <2>3 DEF RInv, RotationSpendsNewAccounts, Balanced
  <2>6. QED
    BY <2>4, <2>5
<1>3. ASSUME UNCHANGED loc, \A r \in Requests : pc'[r] = pc[r]
      PROVE  NeverSticky' /\ RotationSpendsNewAccounts'
  BY <1>3 DEF RInv, NeverSticky, RotationSpendsNewAccounts
<1>4. ASSUME NEW r \in Requests, Disconnect(r)
      PROVE  UNCHANGED loc /\ \A q \in Requests : pc'[q] = pc[q]
  BY <1>4 DEF Disconnect
<1>5. QED
  BY <1>1, <1>2, <1>3, <1>4, OthersLeaveRequests DEF RInv, Next

LEMMA InitRInv == Init => RInv
<1> SUFFICES ASSUME Init PROVE RInv
  OBVIOUS
<1>1. IInv
  BY InitIInv
<1>2. "idle" \notin Engaged /\ Cardinality({}) = 0
  BY FS_EmptySet DEF Engaged, Holding
<1>3. \A r \in Requests : pc[r] = "idle" /\ loc[r] = Blank
  BY DEF Init, Clients
<1>4. QED
  BY <1>1, <1>2, <1>3 DEF RInv, NeverSticky, RotationSpendsNewAccounts, Blank

(* handler.go:879-898: a request outside any conversation spends every turn *)
(* of its rotation on an account it has not tried before, so MaxRotate      *)
(* turns reach MaxRotate accounts.                                          *)
THEOREM RotationIsSpent == Spec => []RotationSpendsNewAccounts
<1>1. RInv => RotationSpendsNewAccounts
  BY DEF RInv
<1>2. QED
  BY <1>1, InitRInv, NextRInv, PTL DEF Spec

-----------------------------------------------------------------------------
(* Verdicts: "unusable" is only ever said of accounts that do not serve    *)
(* the model.                                                              *)

\* An upstream refusal of the model that a handler has in hand is about the
\* account it works on; it is dropped with the account.
ErrOK ==
  \A r \in Requests : loc[r].err = "unusable" => pc[r] # "rotate" /\ acct[r] \notin Serves

VerdictOK == \A a \in Accounts : avail[a] = "unusable" => a \notin Serves

VInv == IInv /\ ErrOK /\ VerdictOK

\* One request's move respects ErrOK if its own refusal does.
LEMMA MoveKeepsErr ==
  ASSUME VInv, NEW r \in Requests, NEW p, NEW b, NEW l, Position(r, p, b, l),
         l.err = "unusable" => p # "rotate" /\ b \notin Serves
  PROVE  ErrOK'
  BY DEF VInv, IInv, TypeOK, ErrOK, Position, Clients

LEMMA NextAccountErr ==
  ASSUME VInv, NEW r \in Requests, NextAccount(r)
  PROVE  ErrOK'
<1> DEFINE l == [loc[r] EXCEPT !.rot = @ + 1, !.retry = 0,
                               !.authRetried = FALSE, !.err = "ok"]
<1>1. Position(r, "rotate", NoAcct, l)
  BY DEF NextAccount, Goto, SetLoc, Position
<1>2. loc[r] \in Locals
  BY DEF VInv, IInv, TypeOK
<1>3. l.err = "ok"
  BY <1>2 DEF Locals
<1> HIDE DEF l
<1>4. QED
  BY <1>1, <1>3, MoveKeepsErr

LEMMA ReplyErr ==
  ASSUME VInv, NEW r \in Requests, NEW p, Reply(r, p)
  PROVE  ErrOK'
<1>1. Position(r, p, NoAcct, Blank) /\ Blank.err = "ok"
  BY DEF Reply, Goto, SetLoc, Position, Blank
<1>2. QED
  BY <1>1, MoveKeepsErr

\* A step with the same account and the same refusal, not to "rotate".
LEMMA KeepErr ==
  ASSUME VInv, NEW r \in Requests, NEW p, Goto(r, p), p # "rotate", UNCHANGED acct,
         NEW l, SetLoc(r, l), l.err = loc[r].err
  PROVE  ErrOK'
<1>1. Position(r, p, acct[r], l)
  BY DEF Goto, SetLoc, Position, VInv, IInv, TypeOK
<1>2. QED
  BY <1>1, MoveKeepsErr DEF VInv, ErrOK

LEMMA GotoErr ==
  ASSUME VInv, NEW r \in Requests, NEW p, Goto(r, p), p # "rotate", UNCHANGED <<acct, loc>>
  PROVE  ErrOK'
<1>1. SetLoc(r, loc[r])
  BY DEF SetLoc, VInv, IInv, TypeOK
<1>2. QED
  BY <1>1, KeepErr

LEMMA UseAccountErr ==
  ASSUME VInv, NEW r \in Requests, pc[r] = "rotate", NEW a, NEW s, UseAccount(r, a, s)
  PROVE  ErrOK'
<1> DEFINE l == [loc[r] EXCEPT !.tried = @ \cup {a}, !.sticky = s]
<1>1. Position(r, "wait", a, l)
  BY DEF UseAccount, Goto, SetLoc, Position
<1>2. loc[r] \in Locals /\ loc[r].err # "unusable"
  BY DEF VInv, IInv, TypeOK, ErrOK
<1>3. l.err # "unusable"
  BY <1>2 DEF Locals
<1> HIDE DEF l
<1>4. QED
  BY <1>1, <1>3, MoveKeepsErr

LEMMA ProgressKeepsErr ==
  ASSUME VInv, NEW r \in Requests, Arrive(r) \/ Progress(r)
  PROVE  ErrOK'
<1>b. loc[r] \in Locals
  BY DEF VInv, IInv, TypeOK
<1>1. CASE Arrive(r)
  <2>1. CASE ~ModelKnownUnusable
    <3> DEFINE s == IF ConvOf[r] = NoConv THEN NoAcct ELSE route[ConvOf[r]]
    <3>1. Position(r, "rotate", acct[r], [Blank EXCEPT !.sticky = s])
      BY <1>1, <2>1 DEF Arrive, Position, Goto, SetLoc, VInv, IInv, TypeOK
    <3> HIDE DEF s
    <3>2. [Blank EXCEPT !.sticky = s].err = "ok"
      BY DEF Blank
    <3>3. QED
      BY <3>1, <3>2, MoveKeepsErr
  <2>2. QED
    BY <1>1, <2>1, ReplyErr DEF Arrive
<1>2. CASE PickSticky(r)
  <2>1. CASE SetLoc(r, [loc[r] EXCEPT !.sticky = NoAcct]) /\ UNCHANGED <<pc, acct>>
    <3> DEFINE l == [loc[r] EXCEPT !.sticky = NoAcct]
    <3>1. Position(r, pc[r], acct[r], l)
      BY <2>1 DEF Position, SetLoc, VInv, IInv, TypeOK
    <3>2. l.err = loc[r].err
      BY <1>b DEF Locals
    <3> HIDE DEF l
    <3>3. QED
      BY <3>1, <3>2, MoveKeepsErr DEF VInv, ErrOK
  <2>2. QED
    BY <1>2, <2>1, UseAccountErr DEF PickSticky
<1>3. CASE PickNext(r)
  BY <1>3, UseAccountErr DEF PickNext
<1>4. CASE GiveUp(r) \/ BackoffCancelled(r) \/ Reward(r)
  BY <1>4, ReplyErr DEF GiveUp, BackoffCancelled, Reward
<1>5. CASE Acquire(r) \/ Validate(r) \/ BackoffElapsed(r) \/ ReacquireTimeout(r) \/ ReleaseFailed(r)
  BY <1>5, GotoErr DEF Acquire, Validate, BackoffElapsed, ReacquireTimeout, ReleaseFailed
<1>6. CASE AcquireTimeout(r) \/ DropInvalid(r)
  BY <1>6, NextAccountErr DEF AcquireTimeout, DropInvalid
<1>7. CASE Answer(r)
  <2>1. PICK x \in Answers :
          /\ x = "unusable" => acct[r] \notin Serves
          /\ SetLoc(r, [loc[r] EXCEPT !.err = x])
          /\ \/ Goto(r, "respond") \/ Goto(r, "refresh")
             \/ Goto(r, "backoff") \/ Goto(r, "fail")
    BY <1>7 DEF Answer
  <2> DEFINE l == [loc[r] EXCEPT !.err = x]
  <2>2. PICK p \in {"respond", "refresh", "backoff", "fail"} : Goto(r, p)
    BY <2>1
  <2>3. Position(r, p, acct[r], l)
    BY <1>7, <2>1, <2>2 DEF Answer, Position, Goto, SetLoc, VInv, IInv, TypeOK
  <2>4. l.err = x
    BY <1>b DEF Locals
  <2> HIDE DEF l
  <2>5. QED
    BY <2>1, <2>3, <2>4, MoveKeepsErr
<1>8. CASE RefreshAfter401(r)
  <2> DEFINE l == [loc[r] EXCEPT !.retry = @ + 1, !.authRetried = TRUE]
  <2>1. CASE NextAttempt(r) /\ SetLoc(r, l)
    <3>1. l.err = loc[r].err
      BY <1>b DEF Locals
    <3> HIDE DEF l
    <3>2. QED
      BY <1>8, <2>1, <3>1, KeepErr DEF RefreshAfter401, NextAttempt
  <2>2. QED
    BY <1>8, <2>1, GotoErr DEF RefreshAfter401
<1>9. CASE Reacquire(r)
  <2> DEFINE l == [loc[r] EXCEPT !.retry = @ + 1]
  <2>1. l.err = loc[r].err /\ SetLoc(r, l) /\ NextAttempt(r) /\ UNCHANGED acct
    BY <1>9, <1>b DEF Reacquire, Locals
  <2> HIDE DEF l
  <2>2. QED
    BY <2>1, KeepErr DEF NextAttempt
<1>10. CASE Blame(r) \/ BodyFailed(r)
  BY <1>10, ReplyErr, NextAccountErr DEF Blame, BodyFailed
<1>11. CASE Respond(r)
  BY <1>11, ReplyErr, GotoErr DEF Respond
<1>12. QED
  BY <1>1, <1>2, <1>3, <1>4, <1>5, <1>6, <1>7, <1>8, <1>9, <1>10, <1>11 DEF Progress

\* Only a refusal in hand and a probe say "unusable".
LEMMA NextKeepsVerdicts ==
  ASSUME VInv, [Next]_vars
  PROVE  VerdictOK'
<1> USE DEF VerdictOK, VInv, IInv, TypeOK
<1>1. ASSUME NEW r \in Requests, Blame(r) PROVE VerdictOK'
  BY <1>1 DEF Blame, ErrOK
<1>2. ASSUME NEW r \in Requests, Answer(r) PROVE VerdictOK'
  BY <1>2 DEF Answer
<1>3. CASE ProbeEnd
  BY <1>3 DEF ProbeEnd
<1>4. ASSUME NEW a \in Accounts, VerdictExpires(a) PROVE VerdictOK'
  BY <1>4 DEF VerdictExpires
<1>5. CASE UNCHANGED avail
  BY <1>5
<1>6. ASSUME NEW r \in Requests, Arrive(r) \/ Progress(r) \/ Disconnect(r), ~Blame(r), ~Answer(r)
      PROVE  UNCHANGED avail
  BY <1>6 DEF Progress, Arrive, Disconnect, PickSticky, PickNext, GiveUp, Acquire, AcquireTimeout,
     Validate, DropInvalid, RefreshAfter401, BackoffElapsed, BackoffCancelled, Reacquire,
     ReacquireTimeout, ReleaseFailed, Respond, Reward, BodyFailed
<1>7. CASE ProberStep
  BY <1>3, <1>5, <1>7 DEF ProberStep, ProbePick, ProbeLock
<1>8. CASE Environment
  BY <1>4, <1>5, <1>8 DEF Environment, CooldownEnds, Ban, Unban, ForgetRoute
<1>9. QED
  BY <1>1, <1>2, <1>5, <1>6, <1>7, <1>8 DEF Next, vars

LEMMA NextVInv == VInv /\ [Next]_vars => VInv'
<1> SUFFICES ASSUME VInv, [Next]_vars PROVE VInv'
  OBVIOUS
<1>1. IInv' /\ VerdictOK'
  BY NextIInv, NextKeepsVerdicts DEF VInv
<1>2. CASE ProberStep \/ Environment \/ UNCHANGED vars
  <2>1. UNCHANGED loc /\ \A r \in Requests : pc'[r] = pc[r]
    BY <1>2, OthersLeaveRequests DEF VInv
  <2>2. \A r \in Requests : acct'[r] = acct[r]
    BY <1>2, GatewayAssumption
    DEF VInv, IInv, TypeOK, Clients, ProberStep, ProbePick, ProbeLock, ProbeEnd, SkipProbe, vars,
        Environment, CooldownEnds, Ban, Unban, VerdictExpires, ForgetRoute
  <2>3. QED
    BY <1>1, <2>1, <2>2 DEF VInv, ErrOK
<1>3. ASSUME NEW r \in Requests, Disconnect(r) PROVE ErrOK'
  BY <1>3 DEF Disconnect, VInv, ErrOK
<1>4. QED
  BY <1>1, <1>2, <1>3, ProgressKeepsErr DEF VInv, Next

LEMMA InitVInv == Init => VInv
  BY InitIInv DEF Init, VInv, ErrOK, VerdictOK, Blank

\* A handler is refused straight away only by Arrive.
LEMMA RefusedOnArrival ==
  ASSUME IInv, [Next]_vars, NEW r \in Requests, pc[r] = "idle", pc'[r] = "notfound"
  PROVE  ModelKnownUnusable
<1>1. Arrive(r)
  <2>1. ~(ProberStep \/ Environment \/ UNCHANGED vars)
    BY OthersLeaveRequests
  <2>2. ASSUME NEW q \in Requests, Arrive(q) \/ Progress(q), q # r PROVE pc'[r] = pc[r]
    <3>1. PICK p, l : Moves(q, p, l)
      BY <2>2, ProgressRotates
      DEF RotationStep, Starts, Ends, Unsticks, Tries, Turns, Stays
    <3>2. QED
      BY <2>2, <3>1 DEF Moves, IInv, TypeOK, Clients
  <2>3. ~Progress(r)
    BY DEF Progress, PickSticky, PickNext, GiveUp, Acquire, AcquireTimeout, Validate, DropInvalid,
       Answer, RefreshAfter401, BackoffElapsed, BackoffCancelled, Reacquire, ReacquireTimeout,
       ReleaseFailed, Blame, Respond, Reward, BodyFailed
  <2>4. \A q \in Requests : ~Disconnect(q)
    BY DEF Disconnect
  <2>5. QED
    BY <2>1, <2>2, <2>3, <2>4 DEF Next
<1>2. CASE Goto(r, "rotate")
  BY <1>2 DEF Goto, IInv, TypeOK, Clients
<1>3. QED
  BY <1>1, <1>2 DEF Arrive

(* handler.go:581-597 and 870-876: a request is refused at once             *)
(* only if some account is healthy and no healthy one serves the model,     *)
(* whatever the probes and other requests learn meanwhile.                  *)
THEOREM RefusalIsSound == Spec => FastFailSound
<1> DEFINE Sound ==
      \A r \in Requests :
        pc[r] = "idle" /\ pc'[r] = "notfound" =>
          Candidates({}) # {} /\ Candidates({}) \cap Serves = {}
<1>1. VInv /\ [Next]_vars => [Sound]_vars
  <2> SUFFICES ASSUME VInv, [Next]_vars, NEW r \in Requests, pc[r] = "idle", pc'[r] = "notfound"
               PROVE  Candidates({}) # {} /\ Candidates({}) \cap Serves = {}
    OBVIOUS
  <2>1. ModelKnownUnusable
    BY RefusedOnArrival DEF VInv
  <2>2. Candidates({}) \subseteq Accounts
    BY DEF Candidates
  <2>3. QED
    BY <2>1, <2>2 DEF ModelKnownUnusable, VInv, VerdictOK
<1>2. QED
  BY <1>1, InitVInv, NextVInv, PTL DEF Spec, FastFailSound
=============================================================================
