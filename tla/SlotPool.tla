------------------------------ MODULE SlotPool ------------------------------
(***************************************************************************)
(* What the account pool promises about upstream session slots, without    *)
(* saying how: every account has Cap slots, a slot is taken by one client  *)
(* and given back by that same client, and a client holds at most one slot *)
(* at a time.  internal/pool keeps only a counter per account, so this     *)
(* specification is what the counter must implement (see ChatGateway).     *)
(***************************************************************************)
EXTENDS Integers, FiniteSets

CONSTANTS Clients,   \* whoever takes slots: chat requests and model probes
          Accounts,  \* the accounts of the pool
          Cap        \* slots per account

VARIABLE holders     \* holders[a] = the clients that hold a slot of account a

Init == holders = [a \in Accounts |-> {}]

Idle(c) == \A a \in Accounts : c \notin holders[a]

Take(c, a) ==
  /\ Idle(c)
  /\ Cardinality(holders[a]) < Cap
  /\ holders' = [holders EXCEPT ![a] = @ \cup {c}]

GiveBack(c, a) ==
  /\ c \in holders[a]
  /\ holders' = [holders EXCEPT ![a] = @ \ {c}]

Next == \E c \in Clients, a \in Accounts : Take(c, a) \/ GiveBack(c, a)

Spec == Init /\ [][Next]_holders
=============================================================================
