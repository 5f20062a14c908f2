--------------------------- MODULE MCChatGateway ---------------------------
(* A small instance of ChatGateway for TLC: which requests stream, which    *)
(* belong to a conversation, and who is promised to run.                    *)
EXTENDS ChatGateway

CONSTANTS r1, r2, c1

MCConvOf == [r \in Requests |-> IF r = r1 THEN NoConv ELSE c1]
SharedConvOf == [r \in Requests |-> c1]

\* Only r1 is promised to run, to have its upstream calls answered and its
\* body ended; the others may hold their slots forever.
FairSpec == Spec /\ WF_vars(Progress(r1))

(* Whatever the other requests, the probes, the administrator and time do,  *)
(* a request whose own upstream calls end is itself answered: the rotation, *)
(* the retry loop and the slot waits are all bounded.                       *)
RequestEnds == (pc[r1] # "idle") ~> (pc[r1] \in Terminal)
=============================================================================
