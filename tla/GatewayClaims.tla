--------------------------- MODULE GatewayClaims ---------------------------
(* What the repository's documents and comments say of the chat route, and  *)
(* ChatGateway does not do: each property here is refuted by a run.         *)
EXTENDS MCChatGateway

(* availability.go:25 and docs/reverse-engineering.md:156-160: the chat     *)
(* route avoids accounts on which the model is known not to work, sticky    *)
(* ones too.  So no request turns to such an account while a healthy one    *)
(* that it has not tried is known to serve the model.                       *)
RoutingAvoidsUnusableAccounts ==
  [][\A r \in Requests :
       pc[r] = "rotate" /\ pc'[r] = "wait" /\ avail[acct'[r]] = "unusable" =>
         \A a \in Candidates(loc[r].tried) : avail[a] # "usable"]_vars

(* handler.go:1041: a client that goes away is not the account's fault and  *)
(* is not counted.  So no account is frozen by the step that judges a call  *)
(* its own client cancelled.                                                *)
DisconnectsFreezeNoAccount ==
  [][\A r \in Requests :
       pc[r] = "blame" /\ pc'[r] # "blame" /\ loc[r].err = "cancelled" =>
         UNCHANGED cooling]_vars
=============================================================================
