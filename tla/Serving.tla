------------------------------ MODULE Serving -------------------------------
(* The goroutines of the HTTP server as Settings and RouteFile see them:    *)
(* each handler serves one request at a time, of one kind or another.       *)
EXTENDS Naturals

CONSTANTS
  Handlers,    \* requests that may be served at the same time
  MaxCalls     \* bound on the requests served

ASSUME ServingAssumption == MaxCalls \in Nat

VARIABLES
  serving,     \* what a handler is at work on
  calls        \* requests accepted so far

Kinds == {"idle", "put", "chat"}

ServingInit ==
  /\ serving = [h \in Handlers |-> "idle"]
  /\ calls = 0

Accept(h, kind) ==
  /\ serving[h] = "idle" /\ calls < MaxCalls
  /\ serving' = [serving EXCEPT ![h] = kind]
  /\ calls' = calls + 1

Finish(h) ==
  /\ serving' = [serving EXCEPT ![h] = "idle"]
  /\ UNCHANGED calls

GoOn == UNCHANGED <<serving, calls>>

\* Other handlers at work on a request of that kind.
Others(h, kind) == {g \in Handlers \ {h} : serving[g] = kind}

ServingTypeOK ==
  /\ serving \in [Handlers -> Kinds]
  /\ calls \in 0 .. MaxCalls
=============================================================================
