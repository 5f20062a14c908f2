------------------------------ MODULE Messages ------------------------------
(***************************************************************************)
(* What becomes of the messages of a chat request: which of them go on to  *)
(* the upstream (buildUpstreamMessages), which refuses a tool call without *)
(* its result and a result without its call, and which conversation the    *)
(* request belongs to (conversationIDFor).  A client sends its whole       *)
(* history each time and adds to it in between, so that the history at     *)
(* every length is a request.                                              *)
(*                                                                         *)
(* A text is one of a few; the calls of an assistant message are their     *)
(* ids, NoId for an empty one.                                             *)
(***************************************************************************)
EXTENDS Integers, Sequences

CONSTANTS
  Ids, NoId,     \* ids of tool calls
  Texts,         \* texts of user messages
  NoChat,        \* no conversation
  Explicit,      \* conversation_id or affinity header of the client, or NoChat
  Tools,         \* whether the requests offer tools
  MaxLen         \* bound on the messages of a history

ASSUME MessagesAssumption ==
  /\ NoId \notin Ids
  /\ Tools \in BOOLEAN
  /\ MaxLen \in Nat

VARIABLE history

\* text, calls and answers are read for one role each.
User(t) == [role |-> "user", text |-> t, calls |-> {}, answers |-> NoId]
Assistant(calls) == [role |-> "assistant", text |-> NoId, calls |-> calls, answers |-> NoId]
Tool(id) == [role |-> "tool", text |-> NoId, calls |-> {}, answers |-> id]
NoText(role) == [role |-> role, text |-> NoId, calls |-> {}, answers |-> NoId]

\* What parseMessage makes of a client's message.
Parsed ==
  {User(t) : t \in Texts} \cup {NoText("system"), NoText("other")}
    \cup {Assistant(calls) : calls \in SUBSET (Ids \cup {NoId})}
    \cup {Tool(id) : id \in Ids \cup {NoId}}

HistoryInit == history = <<>>

AddMessage ==
  /\ Len(history) < MaxLen
  /\ \E m \in Parsed : history' = Append(history, m)

HistorySpec == HistoryInit /\ [][AddMessage]_history

-----------------------------------------------------------------------------
(* pairedToolMessages.                                                     *)

Results(h, id) ==
  {i \in DOMAIN h : h[i].role = "tool" /\ h[i].answers = id /\ id # NoId}

\* The result of a call: the last one that names its id.
ResultIndex(h, id) ==
  CHOOSE i \in Results(h, id) : \A j \in Results(h, id) : j <= i

\* Mutant: the results must follow right behind.
CompleteNext(h, i) ==
  \A id \in h[i].calls : id # NoId /\ i + 1 \in Results(h, id)

\* Every call of the message has an id and a result.
Complete(h, i) == \A id \in h[i].calls : id # NoId /\ Results(h, id) # {}

KeepCalls(h) ==
  {i \in DOMAIN h : h[i].role = "assistant" /\ h[i].calls # {} /\ Complete(h, i)}

\* Mutant: a result is kept before the other calls of its message are seen.
KeepResultsEarly(h) ==
  {i \in DOMAIN h : \E k \in DOMAIN h : \E id \in h[k].calls : i \in Results(h, id)}

KeepResults(h) ==
  {ResultIndex(h, id) : id \in UNION {h[i].calls : i \in KeepCalls(h)}}

-----------------------------------------------------------------------------
(* buildUpstreamMessages: the indexes of the messages that are sent, in     *)
(* their order, and the calls that an assistant message is sent with.       *)

Sent(h) ==
  {i \in DOMAIN h : \/ h[i].role \in {"system", "user", "assistant"}
                    \/ h[i].role = "tool" /\ i \in KeepResults(h)}

SentCalls(h, i) == IF i \in KeepCalls(h) THEN h[i].calls ELSE {}

-----------------------------------------------------------------------------
(* conversationIDFor: what the client says, else a hash of the first user   *)
(* message, which differs with and without tools.                           *)

UserTurns(h) == {i \in DOMAIN h : h[i].role = "user"}

\* Mutant: the last user message is the anchor.
AnchorLast(h) == CHOOSE i \in UserTurns(h) : \A j \in UserTurns(h) : j <= i

Anchor(h) == CHOOSE i \in UserTurns(h) : \A j \in UserTurns(h) : i <= j

ChatId(h) ==
  IF Explicit # NoChat THEN Explicit
  ELSE IF UserTurns(h) = {} THEN NoChat
  ELSE <<h[Anchor(h)].text, Tools>>

-----------------------------------------------------------------------------
(* Properties.                                                             *)

\* No orphans: every call that is sent has its result among what is sent, and
\* every result its call, whatever the client has lost, repeated or reordered
\* of its history.  The upstream answers an orphan with 400, and since the
\* client repeats its history, every later turn of the chat with it.
NoOrphansIn(h) ==
  \A i \in Sent(h) :
    /\ \A id \in SentCalls(h, i) :
         \E j \in Sent(h) : h[j].role = "tool" /\ h[j].answers = id
    /\ h[i].role = "tool" => \E j \in Sent(h) : h[i].answers \in SentCalls(h, j)

NoOrphans == NoOrphansIn(history)

\* Calls and results are named apart: an id is called by one message and
\* answered by one.
NamedApart(h) ==
  \A i, j \in DOMAIN h : i # j =>
    /\ h[i].calls \cap h[j].calls \subseteq {NoId}
    /\ h[i].role = "tool" /\ h[j].role = "tool" /\ h[i].answers # NoId
         => h[i].answers # h[j].answers

\* Only broken turns are left out: with ids of their own, calls are dropped
\* only from a message with an unanswered call, and a result only when it
\* belongs to such a message or to none; one interrupted turn costs no other
\* turn its calls.
OnlyBrokenTurnsDropped ==
  NamedApart(history) =>
    \A i \in DOMAIN history :
      LET callers(id) == {k \in DOMAIN history : id \in history[k].calls}
          broken(k) == \E id \in history[k].calls : Results(history, id) = {} IN
      /\ history[i].role = "assistant" /\ SentCalls(history, i) # history[i].calls
           => broken(i)
      /\ history[i].role = "tool" /\ i \notin Sent(history)
           => \A k \in callers(history[i].answers) \cup {i} :
                k # i => broken(k) \/ history[i].answers = NoId

\* Once a chat has an id, nothing the client adds to its history moves it to
\* another one: that would cost it its account.
ChatIdStable ==
  [][ChatId(history) # NoChat => ChatId(history)' = ChatId(history)]_history
=============================================================================
