------------------------ MODULE LoginSessionsProofs ------------------------
(* Proofs about LoginSessions, for any number of logins and of workers: a   *)
(* refresh_token is always kept with the DPoP key it is bound to, and a     *)
(* session that shows as done has had its credentials written, and a        *)
(* callback with a good code reaches the session that waits for it.         *)
EXTENDS LoginSessions, TLAPS

Polls == [kind : {"poll"}, step : {"ask", "write", "fail", "add", "mark"}, sess : Sessions]

Exchanges ==
  [kind : {"callback", "import"}, step : {"exchange", "write", "add", "mark"},
   sess : Sessions \cup {None}, key : Sessions \cup {None}, own : Sessions,
   waiting : BOOLEAN, left : SUBSET Sessions, clean : BOOLEAN]

Requests == {Idle} \cup Polls \cup Exchanges

\* Once a code is exchanged, the key in hand is that of the code's session:
\* only its verifier is accepted.
KeyInHand(o) == o \in Exchanges /\ o.step # "exchange" => o.key = o.own

IInv ==
  /\ live \subseteq Sessions
  /\ started \in Nat /\ started <= LastSession
  /\ op \in [Workers -> Requests]
  /\ \A w \in Workers : KeyInHand(op[w])
  /\ KeyMatches

\* A step of one worker that leaves it with a request in good order keeps
\* all workers so.
LEMMA BecomeKeeps ==
  ASSUME IInv, NEW w \in Workers, NEW o \in Requests, KeyInHand(o),
         op' = [op EXCEPT ![w] = o]
  PROVE  op' \in [Workers -> Requests] /\ \A v \in Workers : KeyInHand(op'[v])
  BY DEF IInv

\* A worker that goes from one step of its request to the next.
LEMMA GotoKeeps ==
  ASSUME IInv, NEW w \in Workers, NEW step \in {"write", "add", "mark", "fail"}, Goto(w, step),
         \/ op[w] \in Polls
         \/ op[w] \in Exchanges /\ op[w].step # "exchange" /\ step # "fail"
  PROVE  op' \in [Workers -> Requests] /\ \A v \in Workers : KeyInHand(op'[v])
  <1> DEFINE o == [op[w] EXCEPT !.step = step]
  <1>1. op' = [op EXCEPT ![w] = o]
    BY DEF Goto
  <1>2. CASE op[w] \in Polls
    <2>1. o \in Polls
      BY <1>2 DEF Polls
    <2>2. KeyInHand(o)
      BY <2>1 DEF KeyInHand, Polls, Exchanges
    <2> QED
      BY <1>1, <2>1, <2>2, BecomeKeeps DEF Requests
  <1>3. CASE op[w] \in Exchanges /\ op[w].step # "exchange" /\ step # "fail"
    <2>1. o \in Exchanges /\ o.key = op[w].key /\ o.own = op[w].own
      BY <1>3 DEF Exchanges
    <2>2. KeyInHand(o)
      BY <1>3, <2>1 DEF KeyInHand, IInv
    <2> QED
      BY <1>1, <2>1, <2>2, BecomeKeeps DEF Requests
  <1> QED
    BY <1>2, <1>3

\* What is being written or added has been asked for or exchanged.
LEMMA Handling ==
  ASSUME IInv, NEW w \in Workers, op[w].step \in {"write", "add"}
  PROVE  /\ op[w] \in Polls \/ (op[w] \in Exchanges /\ op[w].step # "exchange")
         /\ Credential(op[w]).token = Credential(op[w]).key
  <1>1. op[w] \in Polls \/ (op[w] \in Exchanges /\ op[w].step # "exchange")
    BY DEF IInv, Requests, Idle
  <1>2. CASE op[w] \in Polls
    BY <1>2 DEF Polls, Credential
  <1>3. CASE op[w] \in Exchanges /\ op[w].step # "exchange"
    <2>1. op[w].key = op[w].own
      BY <1>3 DEF IInv, KeyInHand
    <2> QED
      BY <1>3, <2>1 DEF Exchanges, Credential
  <1> QED
    BY <1>1, <1>2, <1>3

LEMMA IdleKeeps ==
  ASSUME IInv, NEW w \in Workers, Become(w, Idle)
  PROVE  op' \in [Workers -> Requests] /\ \A v \in Workers : KeyInHand(op'[v])
  <1>1. KeyInHand(Idle) /\ Idle \in Requests
    BY DEF KeyInHand, Idle, Exchanges, Requests
  <1> QED
    BY <1>1, BecomeKeeps DEF Become

LEMMA InitHolds == Init => IInv
  BY LoginAssumption DEF Init, IInv, KeyInHand, Idle, Exchanges, Requests, KeyMatches

LEMMA Inductive == IInv /\ [Next]_vars => IInv'
  <1> SUFFICES ASSUME IInv, [Next]_vars PROVE IInv'
    OBVIOUS
  <1> USE DEF store, marks, creds
  <1>1. CASE StartLogin
    BY <1>1, LoginAssumption DEF StartLogin, IInv, KeyMatches, Sessions
  <1>2. CASE Expire
    BY <1>2 DEF Expire, IInv, KeyMatches
  <1>3. CASE Restart
    BY <1>3 DEF Restart, IInv, KeyMatches, KeyInHand, Idle, Exchanges, Requests
  <1>4. ASSUME NEW s \in Sessions, PortalSecret(s) \/ Authorise(s) PROVE IInv'
    BY <1>4 DEF PortalSecret, Authorise, IInv, KeyMatches
  <1>5. ASSUME NEW w \in Workers, NEW s \in Sessions, BeginPoll(w, s) PROVE IInv'
    <2> DEFINE o == [kind |-> "poll", step |-> "ask", sess |-> s]
    <2>1. o \in Requests /\ KeyInHand(o)
      BY DEF Requests, Polls, Exchanges, KeyInHand
    <2> QED
      BY <1>5, <2>1, BecomeKeeps DEF BeginPoll, Become, IInv, KeyMatches
  <1>6. ASSUME NEW w \in Workers, NEW own \in Sessions, BeginCallback(w, own) PROVE IInv'
    <2>1. PICK hint \in {"code", "ticket", "secret"} :
            Become(w, [kind |-> "callback", step |-> "exchange", sess |-> None, key |-> None,
                       own |-> own, waiting |-> own \in live \ done,
                       left |-> CodeSessionCandidates(own, hint), clean |-> TRUE])
      BY <1>6 DEF BeginCallback
    <2>2. CodeSessionCandidates(own, hint) \subseteq Sessions
      BY DEF CodeSessionCandidates, IInv
    <2> DEFINE o == [kind |-> "callback", step |-> "exchange", sess |-> None, key |-> None,
                     own |-> own, waiting |-> own \in live \ done,
                     left |-> CodeSessionCandidates(own, hint), clean |-> TRUE]
    <2>3. (own \in live \ done) \in BOOLEAN
      OBVIOUS
    <2>4. o \in Requests /\ KeyInHand(o)
      BY <2>2, <2>3 DEF Requests, Exchanges, KeyInHand
    <2> QED
      BY <1>6, <2>1, <2>4, BecomeKeeps DEF BeginCallback, Become, IInv, KeyMatches
  <1>7. ASSUME NEW w \in Workers, NEW s \in Sessions, NEW own \in Sessions, BeginImport(w, s, own)
        PROVE IInv'
    <2> DEFINE o == [kind |-> "import", step |-> "exchange", sess |-> None, key |-> None,
                     own |-> own, waiting |-> own = s, left |-> {s}, clean |-> TRUE]
    <2>1. o \in Requests /\ KeyInHand(o)
      BY DEF Requests, Exchanges, KeyInHand
    <2> QED
      BY <1>7, <2>1, BecomeKeeps DEF BeginImport, Become, IInv, KeyMatches
  <1>8. ASSUME NEW w \in Workers, PollAnswer(w) PROVE IInv'
    <2>1. op[w] \in Polls
      BY <1>8 DEF PollAnswer, IInv, Requests, Idle, Exchanges
    <2> QED
      BY <1>8, <2>1, IdleKeeps, GotoKeeps DEF PollAnswer, IInv, KeyMatches
  <1>9. ASSUME NEW w \in Workers, Exchange(w) PROVE IInv'
    <2> DEFINE cand == Newest(op[w].left)
    <2>1. op[w] \in Exchanges
      BY <1>9 DEF Exchange, IInv, Requests, Idle, Polls
    <2>2. CASE cand = op[w].own /\ Exchanged(w, cand)
      <3> DEFINE o == [op[w] EXCEPT !.step = "write", !.sess = cand, !.key = cand]
      <3>1. o \in Exchanges /\ o.key = o.own
        BY <2>1, <2>2 DEF Exchanges
      <3>2. op' = [op EXCEPT ![w] = o]
        BY <2>2 DEF Exchanged
      <3> QED
        BY <1>9, <3>1, <3>2, BecomeKeeps DEF Exchange, IInv, KeyMatches, Requests, KeyInHand
    <2>3. ASSUME NEW clean \in BOOLEAN,
                 op' = [op EXCEPT ![w].left = @ \ {cand}, ![w].clean = @ /\ clean]
          PROVE IInv'
      <3> DEFINE o == [op[w] EXCEPT !.left = @ \ {cand}, !.clean = @ /\ clean]
      <3>1. o \in Exchanges /\ o.step = "exchange"
        BY <1>9, <2>1 DEF Exchange, Exchanges
      <3>2. op' = [op EXCEPT ![w] = o]
        BY <2>3
      <3> QED
        BY <1>9, <3>1, <3>2, BecomeKeeps DEF Exchange, IInv, KeyMatches, Requests, KeyInHand
    <2> QED
      BY <1>9, <2>2, <2>3 DEF Exchange
  <1>10. ASSUME NEW w \in Workers, ExchangeFails(w) PROVE IInv'
    BY <1>10, IdleKeeps DEF ExchangeFails, IInv, KeyMatches
  <1>11. ASSUME NEW w \in Workers, WriteFile(w) PROVE IInv'
    <2>1. op' \in [Workers -> Requests] /\ \A v \in Workers : KeyInHand(op'[v])
      BY <1>11, Handling, GotoKeeps DEF WriteFile
    <2> QED
      BY <1>11, <2>1, Handling DEF WriteFile, IInv, KeyMatches
  <1>12. ASSUME NEW w \in Workers, WriteFails(w) PROVE IInv'
    <2>1. CASE op[w].kind = "poll" /\ Goto(w, "fail")
      <3>1. op[w] \in Polls
        BY <1>12, <2>1, Handling DEF WriteFails, Exchanges
      <3> QED
        BY <1>12, <2>1, <3>1, GotoKeeps DEF WriteFails, IInv, KeyMatches
    <2>2. CASE Become(w, Idle)
      BY <1>12, <2>2, IdleKeeps DEF WriteFails, IInv, KeyMatches
    <2> QED
      BY <1>12, <2>1, <2>2 DEF WriteFails
  <1>13. ASSUME NEW w \in Workers, MarkFailed(w) PROVE IInv'
    BY <1>13, IdleKeeps DEF MarkFailed, IInv, KeyMatches
  <1>14. ASSUME NEW w \in Workers, AddAccount(w) PROVE IInv'
    <2>1. op' \in [Workers -> Requests] /\ \A v \in Workers : KeyInHand(op'[v])
      BY <1>14, Handling, GotoKeeps DEF AddAccount
    <2> QED
      BY <1>14, <2>1, Handling DEF AddAccount, IInv, KeyMatches
  <1>15. ASSUME NEW w \in Workers, Finish(w) PROVE IInv'
    BY <1>15, IdleKeeps DEF Finish, IInv, KeyMatches
  <1>16. CASE UNCHANGED vars
    BY <1>16 DEF vars, IInv, KeyMatches
  <1> QED
    BY <1>1, <1>2, <1>3, <1>4, <1>5, <1>6, <1>7, <1>8, <1>9, <1>10, <1>11, <1>12,
       <1>13, <1>14, <1>15, <1>16 DEF Next

(* handler.go:371-397 and oauth.go:344-349: however logins overlap, every *)
(* refresh_token on disk or in the pool is kept with the DPoP key of the    *)
(* session whose code brought it.                                           *)
THEOREM KeysMatch == Spec => []KeyMatches
  <1>1. IInv => KeyMatches
    BY DEF IInv
  <1> QED
    BY <1>1, InitHolds, Inductive, PTL DEF Spec

-----------------------------------------------------------------------------
(* Done means saved.                                                       *)

\* A request is about a session that was started (st of them), and one past
\* the write has written that session's credentials (sv).
Handled(o, st, sv) ==
  /\ o \in Polls => o.sess \in 1 .. st
  /\ o \in Exchanges => /\ o.own \in 1 .. st
                        /\ o.step # "exchange" => o.sess \in 1 .. st
  /\ o.step \in {"add", "mark"} => o.sess \in sv

AllHandled == \A w \in Workers : Handled(op[w], started, saved)

\* A session not yet started is in no store, done by nobody, and has no code.
OnlyStarted ==
  /\ live \subseteq 1 .. started
  /\ done \subseteq 1 .. started
  /\ code \in [Sessions -> {"none", "issued", "used"}]
  /\ \A s \in Sessions : code[s] # "none" => s <= started

DInv == IInv /\ OnlyStarted /\ AllHandled /\ DoneMeansSaved

\* A worker that is not about to fail a poll takes no excuse away by moving
\* on, and leaves the others' requests as they are.
LEMMA MoveKeeps ==
  ASSUME DInv, NEW w \in Workers, NEW o, op' = [op EXCEPT ![w] = o],
         op[w].step # "fail", Handled(o, started, saved'),
         saved \subseteq saved', started' = started
  PROVE  /\ AllHandled'
         /\ \A v \in Workers : op[v].step = "fail" => op'[v] = op[v]
  <1>1. \A v \in Workers : op'[v] = IF v = w THEN o ELSE op[v]
    BY DEF DInv, IInv
  <1>2. ASSUME NEW v \in Workers, v # w PROVE Handled(op[v], started, saved')
    BY <1>2 DEF DInv, AllHandled, Handled
  <1> QED
    BY <1>1, <1>2 DEF AllHandled

\* So a step that changes only the request of such a worker, and perhaps
\* writes, keeps the invariant.
LEMMA MoveOnly ==
  ASSUME DInv, IInv', NEW w \in Workers, NEW o, op' = [op EXCEPT ![w] = o],
         op[w].step # "fail", Handled(o, started, saved'), saved \subseteq saved',
         UNCHANGED <<started, live, done, err, code>>
  PROVE  DInv'
  <1>1. AllHandled' /\ \A v \in Workers : op[v].step = "fail" => op'[v] = op[v]
    BY MoveKeeps
  <1>2. DoneMeansSaved'
    BY <1>1 DEF DInv, DoneMeansSaved
  <1> QED
    BY <1>1, <1>2 DEF DInv, OnlyStarted

LEMMA IdleHandled == Handled(Idle, started, saved')
  BY DEF Handled, Idle, Polls, Exchanges

\* A request that has got past the exchange goes on about the same session.
LEMMA GotoHandled ==
  ASSUME DInv, NEW w \in Workers, NEW step \in {"write", "add", "mark", "fail"},
         op[w] \in Polls \/ (op[w] \in Exchanges /\ op[w].step # "exchange"),
         step \in {"add", "mark"} => op[w].sess \in saved'
  PROVE  Handled([op[w] EXCEPT !.step = step], started, saved')
  <1> DEFINE o == [op[w] EXCEPT !.step = step]
  <1>1. o.step = step /\ o.sess = op[w].sess
    BY DEF Polls, Exchanges
  <1>2. Handled(op[w], started, saved)
    BY DEF DInv, AllHandled
  <1>3. CASE op[w] \in Polls
    <2>1. o \notin Exchanges /\ op[w].sess \in 1 .. started
      BY <1>2, <1>3 DEF Polls, Exchanges, Handled
    <2> QED
      BY <1>1, <2>1 DEF Handled
  <1>4. CASE op[w] \in Exchanges /\ op[w].step # "exchange"
    <2>1. /\ o \notin Polls /\ o.own = op[w].own
          /\ op[w].own \in 1 .. started /\ op[w].sess \in 1 .. started
      BY <1>2, <1>4 DEF Polls, Exchanges, Handled
    <2> QED
      BY <1>1, <2>1 DEF Handled
  <1> QED
    BY <1>3, <1>4

\* A step that takes such a request on, and perhaps writes.
LEMMA GotoOnly ==
  ASSUME DInv, IInv', NEW w \in Workers, NEW step \in {"write", "add", "mark"}, Goto(w, step),
         op[w] \in Polls \/ (op[w] \in Exchanges /\ op[w].step # "exchange"),
         op[w].step # "fail", step \in {"add", "mark"} => op[w].sess \in saved',
         saved \subseteq saved', UNCHANGED <<started, live, done, err, code>>
  PROVE  DInv'
  <1> DEFINE o == [op[w] EXCEPT !.step = step]
  <1>1. op' = [op EXCEPT ![w] = o]
    BY DEF Goto
  <1>2. Handled(o, started, saved')
    BY GotoHandled
  <1> HIDE DEF o
  <1> QED
    BY <1>1, <1>2, MoveOnly

LEMMA DInit == Init => DInv
  <1> SUFFICES ASSUME Init PROVE DInv
    OBVIOUS
  <1>1. IInv
    BY InitHolds
  <1>2. OnlyStarted /\ DoneMeansSaved
    BY DEF Init, OnlyStarted, DoneMeansSaved
  <1>3. AllHandled
    BY DEF Init, AllHandled, Handled, Idle, Polls, Exchanges
  <1> QED
    BY <1>1, <1>2, <1>3 DEF DInv

LEMMA DInductive == DInv /\ [Next]_vars => DInv'
  <1> SUFFICES ASSUME DInv, [Next]_vars PROVE DInv'
    OBVIOUS
  <1>0. IInv /\ IInv'
    BY Inductive DEF DInv
  <1> USE DEF store, marks, creds
  <1>1. CASE StartLogin
    <2>1. started' = started + 1 /\ live' = live \cup {started'} /\ started \in Nat
          /\ UNCHANGED <<done, err, saved, op, code>>
      BY <1>0, <1>1 DEF StartLogin, IInv
    <2>2. OnlyStarted'
      BY <2>1 DEF DInv, OnlyStarted, Sessions
    <2>3. AllHandled'
      <3>1. ASSUME NEW w \in Workers PROVE Handled(op[w], started', saved)
        <4>1. 1 .. started \subseteq 1 .. started'
          BY <2>1
        <4> QED
          BY <4>1 DEF DInv, AllHandled, Handled
      <3> QED
        BY <2>1, <3>1 DEF AllHandled
    <2>4. DoneMeansSaved'
      <3>1. started' \notin done
        BY <2>1 DEF DInv, OnlyStarted
      <3> QED
        BY <2>1, <3>1 DEF DInv, DoneMeansSaved
    <2> QED
      BY <1>0, <2>2, <2>3, <2>4 DEF DInv
  <1>2. CASE Expire
    <2>1. live' \subseteq live /\ UNCHANGED <<started, done, err, code, saved, op>>
      BY <1>2 DEF Expire
    <2> QED
      BY <1>0, <2>1 DEF DInv, OnlyStarted, AllHandled, DoneMeansSaved
  <1>3. CASE Restart
    <2>1. live' = {} /\ UNCHANGED <<started, done, err, code, saved>>
          /\ op' = [w \in Workers |-> Idle]
      BY <1>3 DEF Restart
    <2>2. AllHandled'
      BY <2>1, IdleHandled DEF AllHandled
    <2> QED
      BY <1>0, <2>1, <2>2 DEF DInv, OnlyStarted, DoneMeansSaved
  <1>4. ASSUME NEW s \in Sessions, PortalSecret(s) PROVE DInv'
    BY <1>0, <1>4 DEF PortalSecret, DInv, OnlyStarted, AllHandled, DoneMeansSaved
  <1>5. ASSUME NEW s \in Sessions, Authorise(s) PROVE DInv'
    <2>1. OnlyStarted'
      BY <1>5 DEF Authorise, DInv, OnlyStarted
    <2> QED
      BY <1>0, <1>5, <2>1 DEF Authorise, DInv, AllHandled, DoneMeansSaved
  <1>6. ASSUME NEW w \in Workers, NEW s \in Sessions, BeginPoll(w, s) PROVE DInv'
    <2> DEFINE o == [kind |-> "poll", step |-> "ask", sess |-> s]
    <2>1. Handled(o, started, saved')
      BY <1>6 DEF BeginPoll, Handled, Polls, Exchanges, DInv, OnlyStarted
    <2>2. op' = [op EXCEPT ![w] = o]
      BY <1>6 DEF BeginPoll, Become
    <2>3. op[w].step # "fail" /\ saved \subseteq saved' /\ UNCHANGED <<started, live, done, err, code>>
      BY <1>6 DEF BeginPoll, Idle
    <2> HIDE DEF o
    <2> QED
      BY <1>0, <2>1, <2>2, <2>3, MoveOnly
  <1>7. ASSUME NEW w \in Workers, NEW own \in Sessions, BeginCallback(w, own) PROVE DInv'
    <2>1. PICK hint \in {"code", "ticket", "secret"} :
            Become(w, [kind |-> "callback", step |-> "exchange", sess |-> None, key |-> None,
                       own |-> own, waiting |-> own \in live \ done,
                       left |-> CodeSessionCandidates(own, hint), clean |-> TRUE])
      BY <1>7 DEF BeginCallback
    <2> DEFINE o == [kind |-> "callback", step |-> "exchange", sess |-> None, key |-> None,
                     own |-> own, waiting |-> own \in live \ done,
                     left |-> CodeSessionCandidates(own, hint), clean |-> TRUE]
    <2>2. own \in 1 .. started
      BY <1>7 DEF BeginCallback, DInv, OnlyStarted, IInv, Sessions
    <2>3. o.own = own /\ o.step = "exchange" /\ o.kind = "callback"
      OBVIOUS
    <2>4. o \notin Polls
      BY <2>3 DEF Polls
    <2>5. Handled(o, started, saved')
      BY <2>2, <2>3, <2>4 DEF Handled
    <2> HIDE DEF o
    <2>6. op' = [op EXCEPT ![w] = o]
      BY <2>1 DEF Become, o
    <2>7. op[w].step # "fail" /\ saved \subseteq saved' /\ UNCHANGED <<started, live, done, err, code>>
      BY <1>7 DEF BeginCallback, Idle
    <2> QED
      BY <1>0, <2>5, <2>6, <2>7, MoveOnly
  <1>8. ASSUME NEW w \in Workers, NEW s \in Sessions, NEW own \in Sessions, BeginImport(w, s, own)
        PROVE DInv'
    <2> DEFINE o == [kind |-> "import", step |-> "exchange", sess |-> None, key |-> None,
                     own |-> own, waiting |-> own = s, left |-> {s}, clean |-> TRUE]
    <2>1. own \in 1 .. started
      BY <1>8 DEF BeginImport, DInv, OnlyStarted, IInv, Sessions
    <2>2. Handled(o, started, saved')
      BY <2>1 DEF Handled, Polls
    <2>3. op' = [op EXCEPT ![w] = o]
      BY <1>8 DEF BeginImport, Become
    <2>4. op[w].step # "fail" /\ saved \subseteq saved' /\ UNCHANGED <<started, live, done, err, code>>
      BY <1>8 DEF BeginImport, Idle
    <2> HIDE DEF o
    <2> QED
      BY <1>0, <2>2, <2>3, <2>4, MoveOnly
  <1>9. ASSUME NEW w \in Workers, PollAnswer(w) PROVE DInv'
    <2>1. op[w].step # "fail" /\ saved \subseteq saved' /\ UNCHANGED <<started, live, done, err, code>>
      BY <1>9 DEF PollAnswer
    <2>2. CASE Become(w, Idle)
      BY <1>0, <2>1, <2>2, IdleHandled, MoveOnly DEF Become
    <2>3. CASE Goto(w, "write")
      <3>1. op[w] \in Polls
        BY <1>0, <1>9 DEF PollAnswer, IInv, Requests, Idle, Exchanges
      <3> QED
        BY <1>0, <2>1, <2>3, <3>1, GotoOnly
    <2> QED
      BY <1>9, <2>2, <2>3 DEF PollAnswer
  <1>10. ASSUME NEW w \in Workers, Exchange(w) PROVE DInv'
    <2> DEFINE cand == Newest(op[w].left)
    <2>1. op[w] \in Exchanges /\ op[w].own \in 1 .. started
      BY <1>0, <1>10 DEF Exchange, IInv, Requests, Idle, Polls, DInv, AllHandled, Handled
    <2>2. op[w].step = "exchange" /\ UNCHANGED <<started, live, done, err, saved>>
      BY <1>10 DEF Exchange
    <2>3. OnlyStarted'
      <3>1. code' = code \/ (code[op[w].own] = "issued" /\ code' = [code EXCEPT ![op[w].own] = "used"])
        BY <1>10 DEF Exchange
      <3> QED
        BY <2>2, <3>1 DEF DInv, OnlyStarted
    <2>4. ASSUME NEW o, Handled(o, started, saved'), op' = [op EXCEPT ![w] = o]
          PROVE  DInv'
      <3>1. AllHandled' /\ \A v \in Workers : op[v].step = "fail" => op'[v] = op[v]
        BY <2>2, <2>4, MoveKeeps
      <3>2. DoneMeansSaved'
        BY <2>2, <3>1 DEF DInv, DoneMeansSaved
      <3> QED
        BY <1>0, <2>3, <3>1, <3>2 DEF DInv
    <2>5. CASE cand = op[w].own /\ Exchanged(w, cand)
      <3> DEFINE o == [op[w] EXCEPT !.step = "write", !.sess = cand, !.key = cand]
      <3>1. o \notin Polls /\ o.own = op[w].own /\ o.sess = cand /\ o.step = "write"
        BY <2>1 DEF Exchanges, Polls
      <3>2. Handled(o, started, saved')
        BY <2>1, <2>5, <3>1 DEF Handled
      <3>3. op' = [op EXCEPT ![w] = o]
        BY <2>5 DEF Exchanged
      <3> HIDE DEF o
      <3> QED
        BY <2>4, <3>2, <3>3
    <2>6. ASSUME NEW clean \in BOOLEAN,
                 op' = [op EXCEPT ![w].left = @ \ {cand}, ![w].clean = @ /\ clean]
          PROVE DInv'
      <3> DEFINE o == [op[w] EXCEPT !.left = @ \ {cand}, !.clean = @ /\ clean]
      <3>1. o \notin Polls /\ o.own = op[w].own /\ o.step = "exchange"
        BY <2>1, <2>2 DEF Exchanges, Polls
      <3>2. Handled(o, started, saved')
        BY <2>1, <3>1 DEF Handled
      <3>3. op' = [op EXCEPT ![w] = o]
        BY <2>6
      <3> HIDE DEF o
      <3> QED
        BY <2>4, <3>2, <3>3
    <2> QED
      BY <1>10, <2>5, <2>6 DEF Exchange
  <1>11. ASSUME NEW w \in Workers, ExchangeFails(w) PROVE DInv'
    <2>1. op[w].step # "fail" /\ saved \subseteq saved' /\ UNCHANGED <<started, live, done, err, code>>
      BY <1>11 DEF ExchangeFails
    <2> QED
      BY <1>0, <1>11, <2>1, IdleHandled, MoveOnly DEF ExchangeFails, Become
  <1>12. ASSUME NEW w \in Workers, WriteFile(w) PROVE DInv'
    <2>1. op[w].step = "write" /\ saved' = saved \cup {op[w].sess} /\ Goto(w, "add")
          /\ UNCHANGED <<started, live, done, err, code>>
      BY <1>12 DEF WriteFile
    <2>2. op[w] \in Polls \/ (op[w] \in Exchanges /\ op[w].step # "exchange")
      BY <1>0, <2>1, Handling
    <2> QED
      BY <1>0, <2>1, <2>2, GotoOnly
  <1>13. ASSUME NEW w \in Workers, WriteFails(w) PROVE DInv'
    <2>1. op[w].step = "write" /\ UNCHANGED <<started, live, err, saved, code>>
      BY <1>13 DEF WriteFails
    <2>2. op[w] \in Polls \/ (op[w] \in Exchanges /\ op[w].step # "exchange")
      BY <1>0, <2>1, Handling
    <2>3. CASE done' = done \cup {op[w].sess} /\ Goto(w, "fail")
      <3> DEFINE o == [op[w] EXCEPT !.step = "fail"]
      <3>1. op' = [op EXCEPT ![w] = o]
        BY <2>3 DEF Goto
      <3>2. Handled(o, started, saved')
        BY <2>2, GotoHandled
      <3>3. o.step = "fail" /\ o.sess = op[w].sess
        BY <2>2 DEF Polls, Exchanges
      <3> HIDE DEF o
      <3>4. AllHandled' /\ \A v \in Workers : op[v].step = "fail" => op'[v] = op[v]
        BY <2>1, <3>1, <3>2, MoveKeeps
      <3>5. op'[w] = o
        BY <1>0, <3>1 DEF IInv
      <3>6. DoneMeansSaved'
        BY <2>1, <2>3, <3>3, <3>4, <3>5 DEF DInv, DoneMeansSaved
      <3>7. op[w].sess \in 1 .. started
        BY <2>1, <2>2 DEF DInv, AllHandled, Handled
      <3> QED
        BY <1>0, <2>1, <2>3, <3>4, <3>6, <3>7 DEF DInv, OnlyStarted
    <2>4. CASE Become(w, Idle) /\ UNCHANGED done
      BY <1>0, <2>1, <2>4, IdleHandled, MoveOnly DEF Become
    <2> QED
      BY <1>13, <2>3, <2>4 DEF WriteFails
  <1>14. ASSUME NEW w \in Workers, MarkFailed(w) PROVE DInv'
    <2>1. /\ op[w].step = "fail" /\ err' = err \cup {op[w].sess} /\ op' = [op EXCEPT ![w] = Idle]
          /\ UNCHANGED <<started, live, done, saved, code>>
      BY <1>14 DEF MarkFailed, Become
    <2>2. \A v \in Workers : op'[v] = IF v = w THEN Idle ELSE op[v]
      BY <1>0, <2>1 DEF IInv
    <2>3. AllHandled'
      BY <2>1, <2>2, IdleHandled DEF DInv, AllHandled
    <2>4. DoneMeansSaved'
      BY <2>1, <2>2 DEF DInv, DoneMeansSaved
    <2> QED
      BY <1>0, <2>1, <2>3, <2>4 DEF DInv, OnlyStarted
  <1>15. ASSUME NEW w \in Workers, AddAccount(w) PROVE DInv'
    <2>1. /\ op[w].step = "add" /\ Goto(w, "mark")
          /\ UNCHANGED <<started, live, done, err, code, saved>>
      BY <1>15 DEF AddAccount
    <2>2. op[w] \in Polls \/ (op[w] \in Exchanges /\ op[w].step # "exchange")
      BY <1>0, <2>1, Handling
    <2>3. op[w].sess \in saved
      BY <2>1 DEF DInv, AllHandled, Handled
    <2> QED
      BY <1>0, <2>1, <2>2, <2>3, GotoOnly
  <1>16. ASSUME NEW w \in Workers, Finish(w) PROVE DInv'
    <2> DEFINE s == op[w].sess
    <2>1. /\ op[w].step = "mark" /\ op' = [op EXCEPT ![w] = Idle]
          /\ live' \subseteq live /\ done' \subseteq done \cup {s} /\ err \subseteq err' \cup {s}
          /\ UNCHANGED <<started, saved, code>>
      BY <1>16 DEF Finish, Become
    <2>2. AllHandled' /\ \A v \in Workers : op[v].step = "fail" => op'[v] = op[v]
      BY <2>1, IdleHandled, MoveKeeps
    <2>3. s \in saved /\ s \in 1 .. started
      BY <1>0, <2>1 DEF DInv, AllHandled, Handled, IInv, Requests, Idle
    <2>4. DoneMeansSaved'
      BY <2>1, <2>2, <2>3 DEF DInv, DoneMeansSaved
    <2>5. OnlyStarted'
      BY <2>1, <2>3 DEF DInv, OnlyStarted
    <2> QED
      BY <1>0, <2>2, <2>4, <2>5 DEF DInv
  <1>17. CASE UNCHANGED vars
    BY <1>0, <1>17 DEF vars, DInv, OnlyStarted, AllHandled, DoneMeansSaved
  <1> QED
    BY <1>1, <1>2, <1>3, <1>4, <1>5, <1>6, <1>7, <1>8, <1>9, <1>10, <1>11, <1>12,
       <1>13, <1>14, <1>15, <1>16, <1>17 DEF Next

(* oauth.go:293-332 and 344-384: a poll that finds its session done and     *)
(* without an error, and so tells the panel that the login succeeded, is    *)
(* right: credentials of that session were written, however polls,          *)
(* callbacks, imports and restarts overlap.                                 *)
THEOREM DoneIsSaved == Spec => []DoneMeansSaved
  <1>1. DInv => DoneMeansSaved
    BY DEF DInv
  <1> QED
    BY <1>1, DInit, DInductive, PTL DEF Spec

-----------------------------------------------------------------------------
(* A callback finds its session.                                           *)

\* What a callback's request o may count on, with c the codes: its code was
\* issued, and its session, if waiting for it, is out of the candidates only
\* when a refusal was unclear or the code is spent.
ReachesOwn(o, c) ==
  o.step = "exchange" /\ o.kind = "callback" =>
    /\ c[o.own] # "none"
    /\ o.clean /\ o.waiting => o.own \in o.left \/ c[o.own] = "used"

AllReach == \A w \in Workers : ReachesOwn(op[w], code)

\* A code only goes from issued to used.
CodesGoOn ==
  \A s \in Sessions : /\ code[s] # "none" => code'[s] # "none"
                      /\ code[s] = "used" => code'[s] = "used"

\* A step that gives one worker such a request keeps the others' such.
LEMMA ReachKeeps ==
  ASSUME DInv, AllReach, CodesGoOn, NEW w \in Workers, NEW o,
         op' = [op EXCEPT ![w] = o], ReachesOwn(o, code')
  PROVE  AllReach'
  <1>1. ASSUME NEW v \in Workers, v # w PROVE ReachesOwn(op[v], code')
    <2>1. CASE op[v].step = "exchange" /\ op[v].kind = "callback"
      <3>1. op[v].own \in Sessions
        BY <2>1 DEF DInv, IInv, Requests, Idle, Polls, Exchanges
      <3> QED
        BY <2>1, <3>1 DEF AllReach, ReachesOwn, CodesGoOn
    <2> QED
      BY <2>1 DEF ReachesOwn
  <1>2. \A v \in Workers : op'[v] = IF v = w THEN o ELSE op[v]
    BY DEF DInv, IInv
  <1> QED
    BY <1>1, <1>2 DEF AllReach

\* A request that is not a callback's exchange counts on nothing.
LEMMA GotoReaches ==
  ASSUME DInv, AllReach, CodesGoOn, NEW w \in Workers,
         NEW step \in {"write", "add", "mark", "fail"}, Goto(w, step)
  PROVE  AllReach'
  <1> DEFINE o == [op[w] EXCEPT !.step = step]
  <1>1. op[w] \in Requests
    BY DEF DInv, IInv
  <1>2. o.step = step
    BY <1>1 DEF Requests, Idle, Polls, Exchanges
  <1>3. ReachesOwn(o, code')
    BY <1>2 DEF ReachesOwn
  <1>4. op' = [op EXCEPT ![w] = o]
    BY DEF Goto
  <1> HIDE DEF o
  <1> QED
    BY <1>3, <1>4, ReachKeeps

LEMMA IdleReaches ==
  ASSUME DInv, AllReach, CodesGoOn, NEW w \in Workers, Become(w, Idle)
  PROVE  AllReach'
  <1>1. ReachesOwn(Idle, code')
    BY DEF ReachesOwn, Idle
  <1> QED
    BY <1>1, ReachKeeps DEF Become

LEMMA ReachInit == Init => AllReach
  BY DEF Init, AllReach, ReachesOwn, Idle

LEMMA ReachNext == DInv /\ AllReach /\ [Next]_vars => AllReach'
  <1> SUFFICES ASSUME DInv, AllReach, [Next]_vars PROVE AllReach'
    OBVIOUS
  <1> USE DEF store, marks, creds
  <1>a. code' = code => CodesGoOn
    BY DEF CodesGoOn
  <1>b. code' = code /\ op' = op => AllReach'
    BY DEF AllReach, ReachesOwn
  <1>1. CASE StartLogin \/ Expire
    BY <1>1, <1>b DEF StartLogin, Expire
  <1>2. CASE Restart
    BY <1>2 DEF Restart, AllReach, ReachesOwn, Idle
  <1>3. ASSUME NEW s \in Sessions, PortalSecret(s) PROVE AllReach'
    BY <1>3, <1>b DEF PortalSecret
  <1>4. ASSUME NEW s \in Sessions, Authorise(s) PROVE AllReach'
    <2>1. \A t \in Sessions : code'[t] = IF t = s THEN "issued" ELSE code[t]
      BY <1>4 DEF Authorise, DInv, OnlyStarted
    <2>2. code[s] = "none" /\ op' = op
      BY <1>4 DEF Authorise
    <2>3. ASSUME NEW w \in Workers PROVE ReachesOwn(op[w], code')
      <3>1. CASE op[w].step = "exchange" /\ op[w].kind = "callback"
        <4>1. op[w].own \in Sessions /\ ReachesOwn(op[w], code)
          BY <3>1 DEF AllReach, DInv, IInv, Requests, Idle, Polls, Exchanges
        <4> QED
          BY <2>1, <2>2, <3>1, <4>1 DEF ReachesOwn
      <3> QED
        BY <3>1 DEF ReachesOwn
    <2> QED
      BY <2>2, <2>3 DEF AllReach
  <1>5. ASSUME NEW w \in Workers, NEW s \in Sessions, BeginPoll(w, s) PROVE AllReach'
    <2> DEFINE o == [kind |-> "poll", step |-> "ask", sess |-> s]
    <2>1. op' = [op EXCEPT ![w] = o] /\ code' = code
      BY <1>5 DEF BeginPoll, Become
    <2>2. ReachesOwn(o, code')
      BY DEF ReachesOwn
    <2> HIDE DEF o
    <2> QED
      BY <1>a, <2>1, <2>2, ReachKeeps
  <1>6. ASSUME NEW w \in Workers, NEW own \in Sessions, BeginCallback(w, own) PROVE AllReach'
    <2>1. PICK hint \in {"code", "ticket", "secret"} :
            /\ CodeSessionCandidates(own, hint) # {}
            /\ Become(w, [kind |-> "callback", step |-> "exchange", sess |-> None, key |-> None,
                          own |-> own, waiting |-> own \in live \ done,
                          left |-> CodeSessionCandidates(own, hint), clean |-> TRUE])
      BY <1>6 DEF BeginCallback
    <2> DEFINE o == [kind |-> "callback", step |-> "exchange", sess |-> None, key |-> None,
                     own |-> own, waiting |-> own \in live \ done,
                     left |-> CodeSessionCandidates(own, hint), clean |-> TRUE]
    <2>2. own \in live \ done => own \in CodeSessionCandidates(own, hint)
      BY <2>1 DEF CodeSessionCandidates
    <2>3. o.own = own /\ o.waiting = (own \in live \ done)
          /\ o.left = CodeSessionCandidates(own, hint)
      OBVIOUS
    <2>4. code[own] # "none" /\ code' = code
      BY <1>6 DEF BeginCallback
    <2> HIDE DEF o
    <2>5. ReachesOwn(o, code')
      BY <2>2, <2>3, <2>4 DEF ReachesOwn
    <2>6. op' = [op EXCEPT ![w] = o]
      BY <2>1 DEF Become, o
    <2> QED
      BY <1>a, <2>4, <2>5, <2>6, ReachKeeps
  <1>7. ASSUME NEW w \in Workers, NEW s \in Sessions, NEW own \in Sessions, BeginImport(w, s, own)
        PROVE AllReach'
    <2> DEFINE o == [kind |-> "import", step |-> "exchange", sess |-> None, key |-> None,
                     own |-> own, waiting |-> own = s, left |-> {s}, clean |-> TRUE]
    <2>1. op' = [op EXCEPT ![w] = o] /\ code' = code
      BY <1>7 DEF BeginImport, Become
    <2>2. ReachesOwn(o, code')
      BY DEF ReachesOwn
    <2> HIDE DEF o
    <2> QED
      BY <1>a, <2>1, <2>2, ReachKeeps
  <1>8. ASSUME NEW w \in Workers, PollAnswer(w) PROVE AllReach'
    BY <1>8, <1>a, IdleReaches, GotoReaches DEF PollAnswer
  <1>9. ASSUME NEW w \in Workers, Exchange(w) PROVE AllReach'
    <2> DEFINE own == op[w].own
               cand == Newest(op[w].left)
    <2>1. op[w] \in Exchanges /\ own \in Sessions /\ op[w].step = "exchange"
      BY <1>9 DEF Exchange, DInv, IInv, Requests, Idle, Polls, Exchanges
    <2>2. code \in [Sessions -> {"none", "issued", "used"}]
      BY DEF DInv, OnlyStarted
    <2>3. \/ code' = code
          \/ code[own] = "issued" /\ code' = [code EXCEPT ![own] = "used"]
      BY <1>9 DEF Exchange
    <2>4. CodesGoOn
      BY <2>1, <2>2, <2>3 DEF CodesGoOn
    <2>5. CASE Exchanged(w, cand)
      <3> DEFINE o == [op[w] EXCEPT !.step = "write", !.sess = cand, !.key = cand]
      <3>1. o.step = "write"
        BY <2>1 DEF Exchanges
      <3>2. ReachesOwn(o, code')
        BY <3>1 DEF ReachesOwn
      <3>3. op' = [op EXCEPT ![w] = o]
        BY <2>5 DEF Exchanged
      <3> HIDE DEF o
      <3> QED
        BY <2>4, <3>2, <3>3, ReachKeeps
    <2>6. ASSUME NEW clean \in BOOLEAN,
                 op' = [op EXCEPT ![w].left = @ \ {cand}, ![w].clean = @ /\ clean],
                 clean => ~(cand = own /\ code[own] = "issued")
          PROVE AllReach'
      <3> DEFINE o == [op[w] EXCEPT !.left = @ \ {cand}, !.clean = @ /\ clean]
      <3>1. /\ o.own = own /\ o.step = "exchange" /\ o.kind = op[w].kind
            /\ o.waiting = op[w].waiting
            /\ o.left = op[w].left \ {cand} /\ o.clean = (op[w].clean /\ clean)
        BY <2>1 DEF Exchanges
      <3>2. op' = [op EXCEPT ![w] = o]
        BY <2>6
      <3>3. ReachesOwn(op[w], code)
        BY DEF AllReach
      <3> HIDE DEF o, cand
      <3>4. CASE op[w].kind = "callback"
        <4>1. code[own] # "none"
          BY <2>1, <3>3, <3>4 DEF ReachesOwn
        <4>2. code'[own] # "none" /\ (code[own] = "used" => code'[own] = "used")
          BY <2>1, <2>4, <4>1 DEF CodesGoOn
        <4>3. ASSUME o.clean, o.waiting PROVE own \in o.left \/ code'[own] = "used"
          <5>1. own \in op[w].left \/ code[own] = "used"
            BY <2>1, <3>1, <3>3, <3>4, <4>3 DEF ReachesOwn
          <5>2. CASE own = cand
            <6>1. code[own] # "issued"
              BY <2>6, <3>1, <4>3, <5>2
            <6>2. code[own] \in {"none", "issued", "used"}
              BY <2>1, <2>2
            <6> QED
              BY <4>1, <4>2, <6>1, <6>2
          <5> QED
            BY <3>1, <4>2, <5>1, <5>2
        <4> QED
          BY <3>1, <4>2, <4>3, <2>4, <3>2, ReachKeeps DEF ReachesOwn
      <3>5. CASE op[w].kind # "callback"
        <4>1. ReachesOwn(o, code')
          BY <3>1, <3>5 DEF ReachesOwn
        <4> QED
          BY <2>4, <3>2, <4>1, ReachKeeps
      <3> QED
        BY <3>4, <3>5
    <2> QED
      BY <1>9, <2>5, <2>6 DEF Exchange
  <1>10. ASSUME NEW w \in Workers, ExchangeFails(w) PROVE AllReach'
    BY <1>10, <1>a, IdleReaches DEF ExchangeFails
  <1>11. ASSUME NEW w \in Workers, WriteFile(w) PROVE AllReach'
    BY <1>11, <1>a, GotoReaches DEF WriteFile
  <1>12. ASSUME NEW w \in Workers, WriteFails(w) PROVE AllReach'
    BY <1>12, <1>a, IdleReaches, GotoReaches DEF WriteFails
  <1>13. ASSUME NEW w \in Workers, MarkFailed(w) PROVE AllReach'
    BY <1>13, <1>a, IdleReaches DEF MarkFailed
  <1>14. ASSUME NEW w \in Workers, AddAccount(w) PROVE AllReach'
    BY <1>14, <1>a, GotoReaches DEF AddAccount
  <1>15. ASSUME NEW w \in Workers, Finish(w) PROVE AllReach'
    BY <1>15, <1>a, IdleReaches DEF Finish
  <1>16. CASE UNCHANGED vars
    BY <1>16, <1>b DEF vars
  <1> QED
    BY <1>1, <1>2, <1>3, <1>4, <1>5, <1>6, <1>7, <1>8, <1>9, <1>10, <1>11, <1>12,
       <1>13, <1>14, <1>15, <1>16 DEF Next

(* oauth.go:104-144 and handler.go:361-396: a callback that every           *)
(* candidate has refused for sure has a code somebody else has spent, or    *)
(* belongs to a session that was not waiting when it came, however many     *)
(* sessions are open and whatever identifies the callback.                  *)
THEOREM CallbackFindsSession == Spec => []CallbackReachesSession
  <1>1. AllReach => CallbackReachesSession
    BY DEF AllReach, ReachesOwn, CallbackReachesSession
  <1>2. Init => DInv /\ AllReach
    BY DInit, ReachInit
  <1>3. DInv /\ AllReach /\ [Next]_vars => DInv' /\ AllReach'
    BY DInductive, ReachNext
  <1> QED
    BY <1>1, <1>2, <1>3, PTL DEF Spec
=============================================================================
