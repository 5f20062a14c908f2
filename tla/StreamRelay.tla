----------------------------- MODULE StreamRelay -----------------------------
(***************************************************************************)
(* The answer of one chat (internal/upstream/sse.go, and preflightSSE of   *)
(* client.go): the upstream's event stream, the relay that turns it into   *)
(* OpenAI chunks while it arrives (streamWithCapture), and the aggregation *)
(* that a client gets who does not ask for a stream (AggregateRaw).        *)
(*                                                                         *)
(* Relay and aggregation read the same frames here, so that what one       *)
(* client has put together can be compared with what the other one gets.   *)
(* Text is a sequence of pieces; a frame is what its JSON comes to.        *)
(***************************************************************************)
EXTENDS Integers, Sequences, SequencesExt

CONSTANTS
  Pieces,    \* pieces of text, of reasoning and of a tool call's arguments
  MaxPieces, \* a bound: how much an upstream says in all
  MaxFrames, \* a bound: how many frames it sends
  Finishes,  \* values of finish_reason, with "stop"
  NoFinish   \* no finish_reason

ASSUME StreamAssumption ==
  /\ MaxPieces \in Nat /\ MaxFrames \in Nat
  /\ "stop" \in Finishes /\ NoFinish \notin Finishes

VARIABLES
  dialect,  \* how the upstream speaks: "openai" or "codearts"
  said,     \* what it has said so far: its answer, its reasoning, its tool call
  body,     \* its stream: "open", "final" after the end marker, "eof", "broken"
  frames,   \* frames sent
  relay,    \* the state of the relay, and the request's include_usage
  agg,      \* the state of the aggregation
  got,      \* what the streaming client has received
  rewarded  \* has onDone been called?

vars == <<dialect, said, body, frames, relay, agg, got, rewarded>>

Nothing == [text |-> <<>>, think |-> <<>>, call |-> <<>>]

\* What both readers keep: the answer, the finish reason, the usage.
Reader == [content |-> <<>>, reason |-> <<>>, call |-> <<>>, finish |-> "stop",
           usage |-> FALSE, at |-> "reading"]

Init ==
  /\ dialect \in {"openai", "codearts"}
  /\ said = Nothing
  /\ body = "open"
  /\ frames = 0
  /\ \E includeUsage \in BOOLEAN : relay = [reader |-> Reader, includeUsage |-> includeUsage]
  /\ agg = Reader
  /\ got = [text |-> <<>>, think |-> <<>>, call |-> <<>>, finish |-> NoFinish,
            usage |-> 0, errors |-> 0, done |-> 0, late |-> 0, gone |-> FALSE]
  /\ rewarded = FALSE

-----------------------------------------------------------------------------
(* Frames.                                                                 *)

Chunk(text, think, call, finish, usage) ==
  [kind |-> "chunk", text |-> text, think |-> think, call |-> call, finish |-> finish,
   usage |-> usage]
Plain(kind, text) == [Chunk(text, <<>>, <<>>, NoFinish, FALSE) EXCEPT !.kind = kind]
DoneEvent(finish) == [Chunk(<<>>, <<>>, <<>>, finish, FALSE) EXCEPT !.kind = "done"]

\* applyToolCallDeltas and applyEvent: chunks append, snapshots replace, an
\* answer object only fills an empty text.
ApplyEvent(st, f) ==
  LET content == CASE f.kind = "chunk" -> st.content \o f.text
                   [] f.kind \in {"text", "output"} -> f.text
                   [] f.kind = "qa" /\ st.content = <<>> -> f.text
                   [] OTHER -> st.content
      finish == CASE f.kind = "textDone" -> "stop"
                  [] f.kind = "done" -> IF f.finish = NoFinish THEN "stop" ELSE f.finish
                  [] f.finish # NoFinish -> f.finish
                  [] OTHER -> st.finish
  IN [st EXCEPT !.content = content, !.finish = finish,
                !.reason = @ \o f.think, !.call = @ \o f.call, !.usage = @ \/ f.usage]

\* Mutant: every chunk carries the whole text, as the snapshots do.
WholeText(before, after) == after

\* content.String()[beforeContent:], which compares lengths.
Added(before, after) ==
  IF Len(after) > Len(before) THEN SubSeq(after, Len(before) + 1, Len(after)) ELSE <<>>

-----------------------------------------------------------------------------
(* What the relay writes.  An output is a function of what the client has. *)

OutChunk(text, think, call, finish) ==
  [type |-> "chunk", text |-> text, think |-> think, call |-> call, finish |-> finish]
Out(type) == [OutChunk(<<>>, <<>>, <<>>, NoFinish) EXCEPT !.type = type]

\* The client puts chunks together and counts the rest.
Receive(g, o) ==
  [g EXCEPT !.text = @ \o o.text, !.think = @ \o o.think, !.call = @ \o o.call,
            !.finish = IF o.finish = NoFinish THEN @ ELSE o.finish,
            !.usage = IF o.type = "usage" THEN @ + 1 ELSE @,
            !.errors = IF o.type = "error" THEN @ + 1 ELSE @,
            !.done = IF o.type = "done" THEN @ + 1 ELSE @,
            !.late = IF g.done > 0 THEN @ + 1 ELSE @]

\* finishStream.
FinishStream ==
  (IF relay.includeUsage THEN <<Out("usage")>> ELSE <<>>) \o <<Out("done")>>

\* The body of the loop for a frame: chunks, if there is something to pass on.
ChunksFor(st, next, f) ==
  LET text == Added(st.content, next.content)
      think == Added(st.reason, next.reason)
      fin == IF f.kind = "chunk" THEN f.finish ELSE NoFinish
  IN IF text = <<>> /\ think = <<>> /\ f.call = <<>> /\ fin = NoFinish THEN <<>>
     ELSE <<OutChunk(text, think, f.call, fin)>>

Ends(f) == f.kind = "done"

\* Mutant: sawDone is not set by an end event.
AfterFrameReading(f) == "reading"

\* sawDone, and the break that follows.
AfterFrame(f) == IF Ends(f) THEN "complete" ELSE "reading"

\* Mutant: the last chunk always says "stop".
EndChunkStop(st) == OutChunk(<<>>, <<>>, <<>>, "stop")

EndChunk(st) == OutChunk(<<>>, <<>>, <<>>, st.finish)

\* The client receives the first k outputs and is then gone, or all of them.
\* A write that fails ends the relay with an error.
Deliver(outs, next, end) ==
  \/ /\ ~got.gone
     /\ got' = FoldLeft(Receive, got, outs)
     /\ relay' = [relay EXCEPT !.reader = [next EXCEPT !.at = end]]
     /\ rewarded' = (rewarded \/ end = "complete")
  \/ \E k \in 0 .. (Len(outs) - 1) :
       /\ ~got.gone
       /\ got' = [FoldLeft(Receive, got, SubSeq(outs, 1, k)) EXCEPT !.gone = TRUE]
       /\ relay' = [relay EXCEPT !.reader = [next EXCEPT !.at = "failed"]]
       /\ UNCHANGED rewarded

Skip == UNCHANGED <<relay, got, rewarded>>

Reading == relay.reader.at = "reading"

\* A frame that is no error: written, and after an end event the stream is
\* finished, which is when onDone is called.
RelayFrame(f) ==
  LET st == relay.reader
      next == ApplyEvent(st, f)
      end == IF Ends(f) THEN <<EndChunk(next)>> \o FinishStream ELSE <<>>
  IN Deliver(ChunksFor(st, next, f) \o end, next, AfterFrame(f))

\* Mutant: an error is passed on, and the stream still counts as complete.
RelayErrorComplete ==
  Deliver(<<Out("error"), Out("done")>>, relay.reader, "complete")

\* An error of the upstream inside the stream: no usage, no onDone.
RelayError == Deliver(<<Out("error"), Out("done")>>, relay.reader, "failed")

\* data: [DONE], and the end of the body without any marker.
RelayEnd == Deliver(FinishStream, relay.reader, "complete")

\* The body cannot be read on.
RelayBroken ==
  /\ relay' = [relay EXCEPT !.reader.at = "failed"]
  /\ UNCHANGED <<got, rewarded>>

-----------------------------------------------------------------------------
(* The upstream.  It speaks one of two dialects, and says nothing after    *)
(* its end marker.                                                         *)

Size(s) == Len(s.text) + Len(s.think) + Len(s.call)
Sends == body = "open" /\ frames < MaxFrames /\ frames' = frames + 1

\* Both readers take a frame.
Feed(f) ==
  /\ IF Reading THEN RelayFrame(f) ELSE Skip
  /\ agg' = IF agg.at = "reading" THEN ApplyEvent(agg, f) ELSE agg
  /\ UNCHANGED dialect

\* A delta, in the OpenAI dialect perhaps with the finish reason and the usage.
SendChunk ==
  /\ Sends
  /\ \E text, think, call \in {<<>>} \cup {<<p>> : p \in Pieces}, usage \in BOOLEAN,
        finish \in IF dialect = "openai" THEN Finishes \cup {NoFinish} ELSE {NoFinish} :
       /\ said' = [text |-> said.text \o text, think |-> said.think \o think,
                   call |-> said.call \o call]
       /\ Size(said') <= MaxPieces
       /\ dialect = "codearts" => ~usage
       /\ Feed(Chunk(text, think, call, finish, usage))
  /\ UNCHANGED body

\* The usage alone.
SendUsage ==
  /\ Sends /\ dialect = "openai"
  /\ Feed([Plain("usage", <<>>) EXCEPT !.usage = TRUE])
  /\ UNCHANGED <<said, body>>

\* The text so far and one piece more, as a snapshot or a final output; an
\* answer object as the whole text, or beside it.
SendSnapshot ==
  /\ Sends /\ dialect = "codearts"
  /\ \E kind \in {"text", "output", "qa"}, p \in Pieces :
       LET text == IF kind = "qa" THEN <<p>> ELSE Append(said.text, p) IN
       /\ said' = IF kind = "qa" /\ said.text # <<>> THEN said ELSE [said EXCEPT !.text = text]
       /\ Size(said') <= MaxPieces
       /\ Feed(Plain(kind, text))
  /\ UNCHANGED body

\* An event with reasoning.
SendThinking ==
  /\ Sends /\ dialect = "codearts"
  /\ \E p \in Pieces :
       /\ said' = [said EXCEPT !.think = Append(@, p)]
       /\ Size(said') <= MaxPieces
       /\ Feed([Plain("thinking", <<>>) EXCEPT !.think = <<p>>])
  /\ UNCHANGED body

\* The end, in CodeArts' dialect: an event, or the text [DONE].
SendDone ==
  /\ Sends /\ dialect = "codearts"
  /\ \/ \E finish \in Finishes \cup {NoFinish} : Feed(DoneEvent(finish))
     \/ Feed(Plain("textDone", <<>>))
  /\ body' = "final"
  /\ UNCHANGED said

\* data: [DONE].
SendDoneMark ==
  /\ body = "open" /\ dialect = "openai"
  /\ body' = "final"
  /\ IF Reading THEN RelayEnd ELSE Skip
  /\ UNCHANGED <<dialect, said, frames, agg>>

\* An error in the stream.  One in the first frame is caught by preflightSSE
\* and never gets here.
SendError ==
  /\ body = "open" /\ frames > 0
  /\ IF Reading THEN RelayError ELSE Skip
  /\ agg' = [agg EXCEPT !.at = "failed"]
  /\ body' = "final"
  /\ UNCHANGED <<dialect, said, frames>>

\* The body ends, after its end marker or without one.
Eof ==
  /\ body \in {"open", "final"}
  /\ body' = "eof"
  /\ IF Reading THEN RelayEnd ELSE Skip
  /\ agg' = [agg EXCEPT !.at = IF @ = "reading" THEN "complete" ELSE @]
  /\ UNCHANGED <<dialect, said, frames>>

\* The connection to the upstream breaks, after preflightSSE has read a frame.
Break ==
  /\ (body = "open" /\ frames > 0) \/ body = "final"
  /\ body' = "broken"
  /\ IF Reading THEN RelayBroken ELSE Skip
  /\ agg' = [agg EXCEPT !.at = "failed"]
  /\ UNCHANGED <<dialect, said, frames>>

Next ==
  \/ SendChunk \/ SendUsage \/ SendSnapshot \/ SendThinking
  \/ SendDone \/ SendDoneMark \/ SendError
  \/ Eof \/ Break

Spec == Init /\ [][Next]_vars

-----------------------------------------------------------------------------
(* Whatever mixture of deltas and snapshots the upstream sends, a streaming *)
(* client that appends what it gets always has what has been said, until    *)
(* the relay is over.                                                       *)
ClientFollows ==
  Reading => got.text = said.text /\ got.think = said.think /\ got.call = said.call

(* A stream that was relayed to its end gives the same answer as the        *)
(* aggregation of the same body, and no other finish reason.                *)
StreamEqualsAggregate ==
  relay.reader.at = "complete" /\ agg.at = "complete" =>
    /\ got.text = agg.content /\ got.think = agg.reason /\ got.call = agg.call
    /\ got.finish \in {agg.finish, NoFinish}

(* The end marker is the last thing a client gets, and comes once.          *)
NothingAfterDone == got.done <= 1 /\ got.late = 0

(* sse.go:602: an error is never followed by usage, and a chat is stored    *)
(* and its account rewarded only if the client got the whole stream:        *)
(* no error, the usage it asked for, and the end marker.                    *)
RewardedWhenDelivered ==
  /\ got.errors > 0 => got.usage = 0
  /\ rewarded => /\ got.errors = 0 /\ got.done = 1 /\ ~got.gone
                 /\ got.usage = IF relay.includeUsage THEN 1 ELSE 0
=============================================================================
