------------------------- MODULE TokenRefreshProofs -------------------------
(* Proofs about TokenRefresh, for any number of workers, tokens and client  *)
(* ids: under any faults, no token on its way into the pool has been used;  *)
(* with logins and orderly restarts alone, none is ever used twice.         *)
EXTENDS TokenRefresh, TLAPS

\* Whoever refreshes holds the lock, so that at most one worker does.
LockHeld == \A w \in Workers : pc[w] # "idle" => refreshMu = w

\* No token is known anywhere before it is issued.
OnlyIssued ==
  /\ spent \subseteq 1 .. issued
  /\ cur.tok <= issued /\ disk.tok <= issued /\ incoming.tok <= issued
  /\ \A w \in Workers : own[w].tok <= issued /\ answer[w] <= issued

\* The token of a login on its way into the pool is known to nobody who could
\* use it, or put it into the pool, before it arrives.
LoginApart ==
  pending = "login" =>
    /\ incoming.tok # cur.tok
    /\ \A w \in Workers : /\ pc[w] = "calling" => own[w].tok # incoming.tok
                          /\ pc[w] = "saving" => answer[w] # incoming.tok

IInv == TypeOK /\ LockHeld /\ OnlyIssued /\ LoginApart /\ IncomingTokensUnspent

\* A worker presents the pool's token, unless a login has replaced it: then
\* it presents another one.
OwnOrReplaced ==
  \A w \in Workers : pc[w] = "calling" =>
    IF w \in detached THEN own[w].tok # cur.tok ELSE own[w] = cur

\* The pool's token can be used, unless the worker that is about to replace
\* it has spent it.
PoolTokenUnspent ==
  (\A w \in Workers : pc[w] = "saving" => w \in detached) => cur.tok \notin spent

Alive ==
  pending # "reload" /\ OwnOrReplaced /\ PoolTokenUnspent /\ SentTokensUnspent /\ DiskTokenUnspent

GInv == IInv /\ (Gentle => Alive)

LEMMA InitHolds == Init => GInv
<1> SUFFICES ASSUME Init PROVE GInv
  OBVIOUS
<1>1. 1 \in Tokens /\ issued = 1
  BY TokenRefreshAssumption DEF Init, Tokens
<1>2. PICK k \in ClientIds : boundTo = [t \in Tokens |-> IF t = 1 THEN k ELSE PoolClient]
  BY DEF Init
<1>3. boundTo \in [Tokens -> ClientIds]
  BY <1>2, TokenRefreshAssumption
<1>4. disk \in Auths /\ disk.tok = 1
  BY <1>1, <1>3 DEF Init, Auths
<1>5. TypeOK
  BY <1>1, <1>3, <1>4 DEF Init, TypeOK
<1>6. LockHeld /\ OnlyIssued /\ LoginApart /\ IncomingTokensUnspent
  BY <1>1, <1>4 DEF Init, LockHeld, OnlyIssued, LoginApart, IncomingTokensUnspent
<1>7. Alive
  BY DEF Init, Alive, OwnOrReplaced, PoolTokenUnspent, SentTokensUnspent, DiskTokenUnspent
<1> QED
  BY <1>5, <1>6, <1>7 DEF GInv, IInv

-----------------------------------------------------------------------------
(* The lock: a worker that is at work is the only one.                     *)

LEMMA OnlyOne ==
  ASSUME IInv, NEW w \in Workers, pc[w] # "idle"
  PROVE  \A v \in Workers \ {w} : pc[v] = "idle"
  BY DEF IInv, LockHeld

LEMMA FreeMeansIdle ==
  ASSUME IInv, refreshMu = NoWorker
  PROVE  \A v \in Workers : pc[v] = "idle"
  BY TokenRefreshAssumption DEF IInv, LockHeld

\* A token about to be issued is new, whoever it goes to.
LEMMA IssueIsNew ==
  ASSUME IInv, Issue
  PROVE  /\ issued \in Nat /\ issued + 1 \in Tokens /\ issued' = issued + 1
         /\ boundTo' \in [Tokens -> ClientIds]
         /\ issued + 1 \notin spent
         /\ cur.tok # issued + 1 /\ incoming.tok # issued + 1
         /\ \A w \in Workers : own[w].tok # issued + 1 /\ answer[w] # issued + 1
<1>1. issued \in Tokens /\ issued < MaxTokens /\ issued' = issued + 1
  BY DEF Issue, IInv, TypeOK
<1>2. issued \in Nat /\ issued + 1 \in Tokens
  BY <1>1, TokenRefreshAssumption DEF Tokens
<1>3. boundTo' \in [Tokens -> ClientIds]
  BY TokenRefreshAssumption DEF Issue, IInv, TypeOK
<1>4. cur.tok \in Nat /\ incoming.tok \in Nat /\ \A w \in Workers : own[w].tok \in Nat /\ answer[w] \in Nat
  BY DEF IInv, TypeOK, Auths, Tokens
<1> QED
  BY <1>1, <1>2, <1>3, <1>4 DEF IInv, OnlyIssued

\* Who knows only issued tokens before still does after another is issued.
LEMMA IssueKeepsOld ==
  ASSUME IInv, Issue
  PROVE  /\ spent \subseteq 1 .. issued'
         /\ cur.tok <= issued' /\ disk.tok <= issued' /\ incoming.tok <= issued'
         /\ \A w \in Workers : own[w].tok <= issued' /\ answer[w] <= issued'
<1>1. issued \in Nat /\ issued' = issued + 1
  BY IssueIsNew
<1>2. cur.tok \in Nat /\ disk.tok \in Nat /\ incoming.tok \in Nat
      /\ \A w \in Workers : own[w].tok \in Nat /\ answer[w] \in Nat
  BY DEF IInv, TypeOK, Auths, Tokens
<1>3. 1 .. issued \subseteq 1 .. issued'
  BY <1>1
<1> QED
  BY <1>1, <1>2, <1>3 DEF IInv, OnlyIssued

-----------------------------------------------------------------------------
(* One lemma per action: what it keeps of IInv, and of Alive.              *)

LEMMA BeginRefreshKeeps ==
  ASSUME GInv, NEW w \in Workers, BeginRefresh(w)
  PROVE  GInv'
<1> USE DEF upstream, pool
<1>1. IInv /\ \A v \in Workers : pc[v] = "idle"
  BY FreeMeansIdle DEF GInv, BeginRefresh
<1>2. /\ pc' = [pc EXCEPT ![w] = "calling"] /\ own' = [own EXCEPT ![w] = cur]
      /\ detached' = detached \ {w} /\ refreshMu' = w
      /\ UNCHANGED <<faults, issued, spent, boundTo, disk, cur, pending, incoming, answer>>
  BY DEF BeginRefresh
<1>3. TypeOK'
  BY <1>1, <1>2 DEF IInv, TypeOK
<1>4. \A v \in Workers : /\ pc'[v] = IF v = w THEN "calling" ELSE "idle"
                         /\ own'[v] = IF v = w THEN cur ELSE own[v]
  BY <1>1, <1>2 DEF IInv, TypeOK
<1>5. LockHeld' /\ OnlyIssued'
  BY <1>1, <1>2, <1>4 DEF IInv, LockHeld, OnlyIssued
<1>6. LoginApart' /\ IncomingTokensUnspent'
  BY <1>1, <1>2, <1>4 DEF IInv, LoginApart, IncomingTokensUnspent
<1>7. Gentle' => Alive'
  BY <1>1, <1>2, <1>4
  DEF GInv, Gentle, Alive, OwnOrReplaced, PoolTokenUnspent, SentTokensUnspent, DiskTokenUnspent
<1> QED
  BY <1>3, <1>5, <1>6, <1>7 DEF GInv, IInv

LEMMA RotateKeeps ==
  ASSUME GInv, NEW w \in Workers, Rotate(w)
  PROVE  GInv'
<1> USE DEF upstream, pool
<1>1. IInv /\ \A v \in Workers \ {w} : pc[v] = "idle"
  BY OnlyOne DEF GInv, Rotate
<1>2. /\ pc[w] = "calling" /\ Issue /\ own[w].tok \notin spent
      /\ spent' = spent \cup {own[w].tok} /\ pc' = [pc EXCEPT ![w] = "saving"]
      /\ answer' = [answer EXCEPT ![w] = issued + 1]
      /\ UNCHANGED <<faults, disk, cur, pending, incoming, refreshMu, own, detached>>
  BY DEF Rotate, Accepted
<1>3. own[w].tok \in Tokens /\ own[w].tok <= issued
  BY <1>1 DEF IInv, TypeOK, Auths, OnlyIssued
<1>4. TypeOK'
  BY <1>1, <1>2, <1>3, IssueIsNew DEF IInv, TypeOK
<1>5. \A v \in Workers : /\ pc'[v] = IF v = w THEN "saving" ELSE "idle"
                         /\ answer'[v] = IF v = w THEN issued + 1 ELSE answer[v]
  BY <1>1, <1>2 DEF IInv, TypeOK
<1>6. LockHeld'
  BY <1>1, <1>2, <1>5 DEF IInv, LockHeld
<1>7. OnlyIssued'
  <2>1. own[w].tok \in 1 .. issued'
    BY <1>1, <1>2, <1>3, IssueIsNew DEF Tokens
  <2>2. issued + 1 <= issued'
    BY <1>1, <1>2, IssueIsNew
  <2> QED
    BY <1>1, <1>2, <1>5, <2>1, <2>2, IssueKeepsOld DEF OnlyIssued
<1>8. LoginApart'
  BY <1>1, <1>2, <1>5, IssueIsNew DEF IInv, LoginApart
<1>9. IncomingTokensUnspent'
  <2>1. answer'[w] \notin spent'
    BY <1>1, <1>2, <1>5, IssueIsNew
  <2>2. pending = "login" => incoming.tok \notin spent'
    BY <1>1, <1>2 DEF IInv, LoginApart, IncomingTokensUnspent
  <2> QED
    BY <1>2, <1>5, <2>1, <2>2 DEF IncomingTokensUnspent
<1>10. Gentle' => Alive'
  <2> SUFFICES ASSUME Alive PROVE Alive'
    BY <1>2 DEF GInv, Gentle
  <2>1. pc'[w] = "saving" /\ \A v \in Workers : pc'[v] # "calling"
    BY <1>5
  <2>2. PoolTokenUnspent'
    <3> SUFFICES ASSUME w \in detached PROVE cur.tok \notin spent'
      BY <1>2, <2>1 DEF PoolTokenUnspent
    <3>1. cur.tok # own[w].tok
      BY <1>2 DEF Alive, OwnOrReplaced
    <3>2. cur.tok \notin spent
      BY <1>1, <1>2 DEF Alive, PoolTokenUnspent
    <3> QED
      BY <1>2, <3>1, <3>2
  <2> QED
    BY <1>2, <2>1, <2>2 DEF Alive, OwnOrReplaced, SentTokensUnspent, DiskTokenUnspent
<1> QED
  BY <1>4, <1>6, <1>7, <1>8, <1>9, <1>10 DEF GInv, IInv

\* A worker that goes back empty-handed leaves everything to the others.
LEMMA ReturnKeeps ==
  ASSUME GInv, NEW w \in Workers, pc[w] = "calling", Return(w),
         UNCHANGED <<faults, upstream, pool, own, detached, answer>>
  PROVE  GInv'
<1> USE DEF upstream, pool
<1>1. IInv /\ \A v \in Workers \ {w} : pc[v] = "idle"
  BY OnlyOne DEF GInv
<1>2. \A v \in Workers : pc'[v] = "idle"
  BY <1>1 DEF Return, IInv, TypeOK
<1>3. TypeOK'
  BY <1>1 DEF Return, IInv, TypeOK
<1>4. LockHeld' /\ OnlyIssued' /\ LoginApart' /\ IncomingTokensUnspent'
  BY <1>1, <1>2 DEF IInv, LockHeld, OnlyIssued, LoginApart, IncomingTokensUnspent
<1>5. Gentle' => Alive'
  BY <1>1, <1>2
  DEF GInv, Gentle, Alive, OwnOrReplaced, PoolTokenUnspent, SentTokensUnspent, DiskTokenUnspent
<1> QED
  BY <1>3, <1>4, <1>5 DEF GInv, IInv

LEMMA RotateLostKeeps ==
  ASSUME GInv, NEW w \in Workers, RotateLost(w)
  PROVE  GInv'
<1> USE DEF upstream, pool
<1>1. IInv /\ \A v \in Workers \ {w} : pc[v] = "idle"
  BY OnlyOne DEF GInv, RotateLost
<1>2. /\ pc[w] = "calling" /\ Issue /\ spent' = spent \cup {own[w].tok}
      /\ pc' = [pc EXCEPT ![w] = "idle"] /\ refreshMu' = NoWorker
      /\ UNCHANGED <<faults, disk, cur, pending, incoming, own, detached, answer>>
  BY DEF RotateLost, Return
<1>3. own[w].tok \in Tokens /\ own[w].tok <= issued
  BY <1>1 DEF IInv, TypeOK, Auths, OnlyIssued
<1>4. TypeOK'
  BY <1>1, <1>2, <1>3, IssueIsNew DEF IInv, TypeOK
<1>5. \A v \in Workers : pc'[v] = "idle"
  BY <1>1, <1>2 DEF IInv, TypeOK
<1>6. OnlyIssued'
  <2>1. own[w].tok \in 1 .. issued'
    BY <1>1, <1>2, <1>3, IssueIsNew DEF Tokens
  <2> QED
    BY <1>1, <1>2, <2>1, IssueKeepsOld DEF OnlyIssued
<1>7. LockHeld' /\ LoginApart' /\ IncomingTokensUnspent'
  BY <1>1, <1>2, <1>5 DEF IInv, LockHeld, LoginApart, IncomingTokensUnspent
<1>8. ~Gentle'
  BY <1>2 DEF RotateLost, Gentle
<1> QED
  BY <1>4, <1>6, <1>7, <1>8 DEF GInv, IInv

LEMMA SaveKeeps ==
  ASSUME GInv, NEW w \in Workers, Save(w)
  PROVE  GInv'
<1> USE DEF upstream, pool
<1>1. IInv /\ \A v \in Workers \ {w} : pc[v] = "idle"
  BY OnlyOne DEF GInv, Save
<1>2. /\ pc[w] = "saving" /\ pc' = [pc EXCEPT ![w] = "idle"] /\ refreshMu' = NoWorker
      /\ cur' = IF w \in detached THEN cur ELSE [cur EXCEPT !.tok = answer[w]]
      /\ UNCHANGED <<faults, issued, spent, boundTo, pending, incoming, own, detached, answer>>
  BY DEF Save, Return
<1>3. \/ disk' = [own[w] EXCEPT !.tok = answer[w]]
      \/ "unsaved" \in faults /\ UNCHANGED disk
  BY DEF Save
<1>4. answer[w] \in Tokens /\ answer[w] <= issued /\ answer[w] \notin spent
  BY <1>1, <1>2 DEF IInv, TypeOK, OnlyIssued, IncomingTokensUnspent
<1>5. /\ cur' \in Auths /\ cur'.tok = IF w \in detached THEN cur.tok ELSE answer[w]
      /\ disk' \in Auths /\ disk'.tok \in {disk.tok, answer[w]}
      /\ "unsaved" \notin faults => disk'.tok = answer[w]
  BY <1>1, <1>2, <1>3, <1>4 DEF IInv, TypeOK, Auths
<1>6. TypeOK'
  BY <1>1, <1>2, <1>5 DEF IInv, TypeOK
<1>7. \A v \in Workers : pc'[v] = "idle"
  BY <1>1, <1>2 DEF IInv, TypeOK
<1>8. OnlyIssued'
  BY <1>1, <1>2, <1>4, <1>5 DEF IInv, OnlyIssued
<1>9. LockHeld' /\ IncomingTokensUnspent'
  BY <1>1, <1>2, <1>7 DEF IInv, LockHeld, IncomingTokensUnspent
<1>10. LoginApart'
  BY <1>1, <1>2, <1>5, <1>7 DEF IInv, LoginApart
<1>11. Gentle' => Alive'
  <2> SUFFICES ASSUME Alive, "unsaved" \notin faults PROVE Alive'
    BY <1>2 DEF GInv, Gentle
  <2>1. PoolTokenUnspent'
    <3>1. CASE w \in detached
      BY <1>1, <1>2, <1>5, <3>1 DEF Alive, PoolTokenUnspent
    <3>2. CASE w \notin detached
      BY <1>2, <1>4, <1>5, <3>2 DEF PoolTokenUnspent
    <3> QED
      BY <3>1, <3>2
  <2> QED
    BY <1>2, <1>4, <1>5, <1>7, <2>1
    DEF Alive, OwnOrReplaced, SentTokensUnspent, DiskTokenUnspent
<1> QED
  BY <1>6, <1>8, <1>9, <1>10, <1>11 DEF GInv, IInv

LEMMA LoginSaveKeeps ==
  ASSUME GInv, LoginSave
  PROVE  GInv'
<1> USE DEF upstream, work
<1>1. IInv
  BY DEF GInv
<1>2. /\ Issue /\ pending = "none" /\ pending' = "login"
      /\ incoming' = [tok |-> issued + 1, client |-> PoolClient] /\ disk' = incoming'
      /\ UNCHANGED <<faults, spent, cur, refreshMu, pc, own, detached, answer>>
  BY DEF LoginSave
<1>3. incoming' \in Auths /\ incoming'.tok = issued + 1
  BY <1>1, <1>2, IssueIsNew, TokenRefreshAssumption DEF Auths
<1>4. TypeOK'
  BY <1>1, <1>2, <1>3, IssueIsNew DEF IInv, TypeOK
<1>5. OnlyIssued'
  BY <1>1, <1>2, <1>3, IssueIsNew, IssueKeepsOld DEF OnlyIssued
<1>6. LockHeld' /\ LoginApart' /\ IncomingTokensUnspent'
  BY <1>1, <1>2, <1>3, IssueIsNew DEF IInv, LockHeld, LoginApart, IncomingTokensUnspent
<1>7. Gentle' => Alive'
  BY <1>1, <1>2, <1>3, IssueIsNew
  DEF GInv, Gentle, Alive, OwnOrReplaced, PoolTokenUnspent, SentTokensUnspent, DiskTokenUnspent
<1> QED
  BY <1>4, <1>5, <1>6, <1>7 DEF GInv, IInv

LEMMA ReloadReadKeeps ==
  ASSUME GInv, ReloadRead
  PROVE  GInv'
<1> USE DEF upstream, work
<1>1. TypeOK' /\ LockHeld' /\ OnlyIssued' /\ LoginApart' /\ IncomingTokensUnspent'
  BY DEF ReloadRead, GInv, IInv, TypeOK, LockHeld, OnlyIssued, LoginApart, IncomingTokensUnspent
<1>2. ~Gentle'
  BY DEF ReloadRead, Gentle
<1> QED
  BY <1>1, <1>2 DEF GInv, IInv

LEMMA SwapInKeeps ==
  ASSUME GInv, SwapIn
  PROVE  GInv'
<1> USE DEF upstream
<1>1. IInv
  BY DEF GInv
<1>2. /\ pending # "none" /\ pending' = "none" /\ cur' = incoming /\ detached' = Busy
      /\ UNCHANGED <<faults, issued, spent, boundTo, disk, incoming, refreshMu, pc, own, answer>>
  BY DEF SwapIn
<1>3. TypeOK'
  BY <1>1, <1>2 DEF IInv, TypeOK, Busy
<1>4. LockHeld' /\ OnlyIssued' /\ LoginApart' /\ IncomingTokensUnspent'
  BY <1>1, <1>2 DEF IInv, LockHeld, OnlyIssued, LoginApart, IncomingTokensUnspent
<1>5. Gentle' => Alive'
  <2> SUFFICES ASSUME Alive PROVE Alive'
    BY <1>2 DEF GInv, Gentle
  <2>1. pending = "login"
    BY <1>1, <1>2 DEF IInv, TypeOK, Alive
  <2>2. cur'.tok \notin spent'
    BY <1>1, <1>2, <2>1 DEF IInv, IncomingTokensUnspent
  <2>3. OwnOrReplaced'
    BY <1>1, <1>2, <2>1 DEF IInv, LoginApart, OwnOrReplaced, Busy
  <2> QED
    BY <1>2, <2>2, <2>3 DEF Alive, PoolTokenUnspent, SentTokensUnspent, DiskTokenUnspent
<1> QED
  BY <1>3, <1>4, <1>5 DEF GInv, IInv

LEMMA RestartKeeps ==
  ASSUME GInv, Restart
  PROVE  GInv'
<1> USE DEF upstream
<1>1. IInv
  BY DEF GInv
<1>2. /\ cur' = disk /\ pending' = "none" /\ refreshMu' = NoWorker
      /\ pc' = [w \in Workers |-> "idle"]
      /\ UNCHANGED <<faults, issued, spent, boundTo, disk, incoming, own, detached, answer>>
  BY DEF Restart
<1>3. TypeOK'
  BY <1>1, <1>2 DEF IInv, TypeOK
<1>4. LockHeld' /\ OnlyIssued' /\ LoginApart' /\ IncomingTokensUnspent'
  BY <1>1, <1>2 DEF IInv, LockHeld, OnlyIssued, LoginApart, IncomingTokensUnspent
<1>5. Gentle' => Alive'
  <2> SUFFICES ASSUME Alive, "crash" \notin faults PROVE Alive'
    BY <1>2 DEF GInv, Gentle
  <2>1. \A w \in Workers : pc[w] = "idle"
    BY <1>1, FreeMeansIdle DEF Restart
  <2>2. disk.tok \notin spent
    BY <2>1 DEF Alive, DiskTokenUnspent
  <2> QED
    BY <1>2, <2>2
    DEF Alive, OwnOrReplaced, PoolTokenUnspent, SentTokensUnspent, DiskTokenUnspent
<1> QED
  BY <1>3, <1>4, <1>5 DEF GInv, IInv

LEMMA Inductive == GInv /\ [Next]_vars => GInv'
<1> SUFFICES ASSUME GInv, [Next]_vars PROVE GInv'
  OBVIOUS
<1>1. ASSUME NEW w \in Workers, RefreshFails(w) PROVE GInv'
  BY <1>1, ReturnKeeps DEF RefreshFails
<1>2. CASE UNCHANGED vars
  BY <1>2 DEF vars, upstream, pool, work, GInv, IInv, TypeOK, LockHeld, OnlyIssued, LoginApart,
     IncomingTokensUnspent, Gentle, Alive, OwnOrReplaced, PoolTokenUnspent, SentTokensUnspent,
     DiskTokenUnspent
<1> QED
  BY <1>1, <1>2, BeginRefreshKeeps, RotateKeeps, RotateLostKeeps, SaveKeeps, LoginSaveKeeps,
     ReloadReadKeeps, SwapInKeeps, RestartKeeps DEF Next

LEMMA Invariance == Spec => []GInv
  BY InitHolds, Inductive, PTL DEF Spec

-----------------------------------------------------------------------------

(* pool.go:613-661 and handler.go:418-463: whatever is lost, crashes or     *)
(* cannot be written, no token that is on its way into the pool, by an      *)
(* answered refresh or by a login, has been used.                           *)
THEOREM IncomingUnspent == Spec => []IncomingTokensUnspent
<1>1. GInv => IncomingTokensUnspent
  BY DEF GInv, IInv
<1> QED
  BY <1>1, Invariance, PTL

(* pool.go:613-661: with logins and orderly restarts, in any number and any *)
(* order, no refresh presents a used token, and between refreshes the       *)
(* credential file holds one that can be used.                              *)
THEOREM GentleSurvives == Spec => []GentleKeepsAccountAlive
<1>1. GInv => GentleKeepsAccountAlive
  BY DEF GInv, Alive, GentleKeepsAccountAlive
<1> QED
  BY <1>1, Invariance, PTL
=============================================================================
