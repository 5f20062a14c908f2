----------------------------- MODULE MCChatData ------------------------------
(* Model checking what becomes of a chat's data: a history on its way to    *)
(* the upstream, a body on its way back, and the tool calls in a text.  The *)
(* three share no state and are looked at side by side, each while the      *)
(* others are where they start.                                             *)
EXTENDS StreamRelay, Messages, ToolCalls

CONSTANTS call1, call2

MCWrapperCalls == <<call1, call2>>

MCVars == <<vars, history, text>>

MCInit == Init /\ HistoryInit /\ TextInit

\* One of the initial states of the body is enough for the others.
NoBody == Init /\ dialect = "openai" /\ ~relay.includeUsage

MCNext ==
  \/ HistoryInit /\ TextInit /\ Next /\ UNCHANGED <<history, text>>
  \/ NoBody /\ TextInit /\ AddMessage /\ UNCHANGED <<vars, text>>
  \/ NoBody /\ HistoryInit /\ Generate /\ UNCHANGED <<vars, history>>

MCSpec == MCInit /\ [][MCNext]_MCVars
=============================================================================
