---------------------------- MODULE TokenRefresh ----------------------------
(***************************************************************************)
(* The refresh_token of one account: every refresh spends it upstream and  *)
(* brings a new one, which must reach both the pool's Auth and the         *)
(* credential file before the next refresh, the next reload of the auth    *)
(* directory or the next start of the program.                             *)
(*                                                                         *)
(* Workers are the goroutines that refresh: requests that repair a 401 or  *)
(* validate, the watchdog, the panel.  Account.refreshMu lets one of them  *)
(* refresh at a time; a login and a reload take no notice of it and        *)
(* replace Account.Auth meanwhile.  When tokens expire is left open.       *)
(***************************************************************************)
EXTENDS Integers, FiniteSets

CONSTANTS
  Workers,     \* goroutines that may refresh
  NoWorker,    \* refreshMu is free
  ClientIds,   \* OAuth client ids
  PoolClient,  \* pool.Config.LoginConfig.ClientID
  MaxTokens,   \* bound on the tokens ever issued
  Regimes      \* the sets of faults under which the account is studied

AllFaults == {"login",    \* the user logs in again
              "reload",   \* POST /admin/api/reload
              "restart",  \* the program restarts while nobody refreshes
              "crash",    \* ... at any moment
              "lost",     \* the answer to a refresh is lost
              "unsaved"}  \* the credential file cannot be written

ASSUME TokenRefreshAssumption ==
  /\ NoWorker \notin Workers
  /\ PoolClient \in ClientIds
  /\ MaxTokens \in Nat \ {0}
  /\ Regimes \subseteq SUBSET AllFaults

Tokens == 1 .. MaxTokens
\* What an Auth knows: its refresh_token and the client_id recorded with it.
Auths == [tok : Tokens, client : ClientIds]

VARIABLES
  faults,     \* what the surroundings may do, the same throughout
  issued,     \* upstream: tokens issued so far
  spent,      \* upstream: tokens that have been used
  boundTo,    \* upstream: the client_id a token was issued to
  disk,       \* the credential file
  cur,        \* Account.Auth
  pending,    \* an Auth on its way into the pool: "login", "reload" or "none"
  incoming,   \* that Auth
  refreshMu,  \* the worker that holds the lock, or NoWorker
  pc,         \* "idle", "calling" (request under way) or "saving" (answered)
  own,        \* the Auth a worker refreshes
  detached,   \* workers whose Auth the pool has replaced
  answer      \* the new token a worker got

upstream == <<issued, spent, boundTo>>
pool == <<disk, cur, pending, incoming>>
work == <<refreshMu, pc, own, detached, answer>>
vars == <<faults, upstream, pool, work>>

Busy == {w \in Workers : pc[w] # "idle"}

\* The first token was issued to whatever client the login tool used.
Init ==
  /\ faults \in Regimes
  /\ issued = 1 /\ spent = {}
  /\ \E k \in ClientIds :
       boundTo = [t \in Tokens |-> IF t = 1 THEN k ELSE PoolClient]
  /\ disk = [tok |-> 1, client |-> boundTo[1]]
  /\ cur = disk
  /\ pending = "none" /\ incoming = disk
  /\ refreshMu = NoWorker
  /\ pc = [w \in Workers |-> "idle"]
  /\ own = [w \in Workers |-> disk]
  /\ detached = {}
  /\ answer = [w \in Workers |-> 1]

\* The upstream issues a token to the client that asked.
Issue ==
  /\ issued < MaxTokens
  /\ issued' = issued + 1
  /\ boundTo' = [boundTo EXCEPT ![issued + 1] = PoolClient]

-----------------------------------------------------------------------------
(* Pool.RefreshToken.                                                      *)

\* Mutant: refreshMu is not taken.
BeginRefreshUnlocked(w) ==
  /\ pc[w] = "idle"
  /\ refreshMu' = w
  /\ pc' = [pc EXCEPT ![w] = "calling"]
  /\ own' = [own EXCEPT ![w] = cur]
  /\ detached' = detached \ {w}
  /\ UNCHANGED <<faults, upstream, pool, answer>>

BeginRefresh(w) ==
  /\ pc[w] = "idle" /\ refreshMu = NoWorker
  /\ refreshMu' = w
  /\ pc' = [pc EXCEPT ![w] = "calling"]
  /\ own' = [own EXCEPT ![w] = cur]
  /\ detached' = detached \ {w}
  /\ UNCHANGED <<faults, upstream, pool, answer>>

Return(w) ==
  /\ refreshMu' = NoWorker
  /\ pc' = [pc EXCEPT ![w] = "idle"]

\* The request carries the pool's client_id, whatever the Auth records.
Accepted(w) == own[w].tok \notin spent /\ boundTo[own[w].tok] = PoolClient

\* Mutant: the refresh_token of the answer is not read.
RotateKeepsToken(w) ==
  /\ pc[w] = "calling" /\ Accepted(w)
  /\ Issue
  /\ spent' = spent \cup {own[w].tok}
  /\ pc' = [pc EXCEPT ![w] = "saving"]
  /\ answer' = [answer EXCEPT ![w] = own[w].tok]
  /\ UNCHANGED <<faults, pool, refreshMu, own, detached>>

Rotate(w) ==
  /\ pc[w] = "calling" /\ Accepted(w)
  /\ Issue
  /\ spent' = spent \cup {own[w].tok}
  /\ pc' = [pc EXCEPT ![w] = "saving"]
  /\ answer' = [answer EXCEPT ![w] = issued + 1]
  /\ UNCHANGED <<faults, pool, refreshMu, own, detached>>

RotateLost(w) ==
  /\ "lost" \in faults
  /\ pc[w] = "calling" /\ Accepted(w)
  /\ Issue
  /\ spent' = spent \cup {own[w].tok}
  /\ Return(w)
  /\ UNCHANGED <<faults, pool, own, detached, answer>>

\* Refused for good, or not reached at all.
RefreshFails(w) ==
  /\ pc[w] = "calling"
  /\ Return(w)
  /\ UNCHANGED <<faults, upstream, pool, own, detached, answer>>

\* Mutant: the rotated token stays in memory.
SaveMemoryOnly(w) ==
  /\ pc[w] = "saving"
  /\ cur' = IF w \in detached THEN cur ELSE [cur EXCEPT !.tok = answer[w]]
  /\ Return(w)
  /\ UNCHANGED <<faults, upstream, disk, pending, incoming, own, detached, answer>>

\* Auth.UpdateCredentials changes the Auth the worker began with, which need
\* not be the pool's any more, and writes it to the one credential file.
Save(w) ==
  /\ pc[w] = "saving"
  /\ cur' = IF w \in detached THEN cur ELSE [cur EXCEPT !.tok = answer[w]]
  /\ \/ disk' = [own[w] EXCEPT !.tok = answer[w]]
     \/ "unsaved" \in faults /\ UNCHANGED disk
  /\ Return(w)
  /\ UNCHANGED <<faults, upstream, pending, incoming, own, detached, answer>>

-----------------------------------------------------------------------------
(* Logins, reloads and restarts.                                           *)

\* saveLoginResult: the file is written, then AddAccount swaps the Auth in.
LoginSave ==
  /\ "login" \in faults /\ pending = "none"
  /\ Issue
  /\ incoming' = [tok |-> issued + 1, client |-> PoolClient]
  /\ disk' = incoming'
  /\ pending' = "login"
  /\ UNCHANGED <<faults, spent, cur, work>>

\* adminReload: LoadDir reads the file, then SyncToDir swaps the Auth in.
ReloadRead ==
  /\ "reload" \in faults /\ pending = "none"
  /\ incoming' = disk
  /\ pending' = "reload"
  /\ UNCHANGED <<faults, upstream, disk, cur, work>>

SwapIn ==
  /\ pending # "none"
  /\ cur' = incoming
  /\ pending' = "none"
  /\ detached' = Busy
  /\ UNCHANGED <<faults, upstream, disk, incoming, refreshMu, pc, own, answer>>

Restart ==
  /\ \/ "restart" \in faults /\ refreshMu = NoWorker
     \/ "crash" \in faults
  /\ cur' = disk
  /\ pending' = "none"
  /\ refreshMu' = NoWorker
  /\ pc' = [w \in Workers |-> "idle"]
  /\ UNCHANGED <<faults, upstream, disk, incoming, own, detached, answer>>

Next ==
  \/ \E w \in Workers : \/ BeginRefresh(w) \/ Rotate(w) \/ RotateLost(w)
                        \/ RefreshFails(w) \/ Save(w)
  \/ LoginSave \/ ReloadRead \/ SwapIn \/ Restart

Spec == Init /\ [][Next]_vars

-----------------------------------------------------------------------------
TypeOK ==
  /\ faults \in Regimes
  /\ issued \in Tokens
  /\ spent \subseteq Tokens
  /\ boundTo \in [Tokens -> ClientIds]
  /\ disk \in Auths
  /\ cur \in Auths
  /\ pending \in {"none", "login", "reload"}
  /\ incoming \in Auths
  /\ refreshMu \in Workers \cup {NoWorker}
  /\ pc \in [Workers -> {"idle", "calling", "saving"}]
  /\ own \in [Workers -> Auths]
  /\ detached \subseteq Workers
  /\ answer \in [Workers -> Tokens]

(* A refresh_token is good for one use (docs/reverse-engineering.md:62), so *)
(* no refresh under way presents a token that has been used.                *)
SentTokensUnspent ==
  \A w \in Workers : pc[w] = "calling" => own[w].tok \notin spent

\* Outside the moment between the upstream's answer and its save, the
\* credential file holds a token that can still be used.
DiskTokenUnspent ==
  (\A w \in Workers : pc[w] # "saving") => disk.tok \notin spent

(* However refreshes, logins and orderly restarts interleave, no used token *)
(* is presented and every restart finds a token that can be refreshed.      *)
Gentle == faults \subseteq {"login", "restart"}
GentleKeepsAccountAlive == Gentle => SentTokensUnspent /\ DiskTokenUnspent

(* Whatever else goes wrong, a crash, a reload in the middle of a refresh,  *)
(* a lost answer, an unwritable file: a token on its way into the pool, by  *)
(* an answered refresh or by a login, has been used by nobody.  So a new    *)
(* login always revives the account, and a save never keeps a dead token.   *)
IncomingTokensUnspent ==
  /\ \A w \in Workers : pc[w] = "saving" => answer[w] \notin spent
  /\ pending = "login" => incoming.tok \notin spent
=============================================================================
