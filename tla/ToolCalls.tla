------------------------------ MODULE ToolCalls -----------------------------
(***************************************************************************)
(* Finding tool calls in the text of an answer without native ones         *)
(* (extractToolCalls): first the fenced blocks marked tool_call, each cut  *)
(* out of the text, then, without any, a bare wrapper of calls or a bare   *)
(* call.  The text is a sequence of tokens, which grows as the model goes  *)
(* on, so that every beginning is looked at as a whole answer too.         *)
(***************************************************************************)
EXTENDS Integers, Sequences, SequencesExt

CONSTANTS
  Calls,        \* JSON objects that are one call
  WrapperCalls, \* the calls of a wrapper, in order
  MaxTokens     \* bound on the tokens of a text

VARIABLE text

\* "open": ```tool_call, "close": ```, "wrap": {"tool_calls":[...]}, "bad": a
\* call that is damaged behind its key "arguments", "word": anything else.
Marks == {"open", "close", "wrap", "bad", "word"}

Tokens == Marks \cup Calls

\* A wrapper has a call: one without is not read as a wrapper (tools.go:182).
ASSUME ToolCallsAssumption ==
  /\ WrapperCalls \in Seq(Calls) \ {<<>>}
  /\ Calls \cap Marks = {}
  /\ MaxTokens \in Nat

TextInit == text = <<>>

Generate ==
  /\ Len(text) < MaxTokens
  /\ \E token \in Tokens : text' = Append(text, token)

TextSpec == TextInit /\ [][Generate]_text

-----------------------------------------------------------------------------
(* Helpers: the first position of a token, and what a block says.          *)

First(s, tokens, from) ==
  LET at == {i \in from .. Len(s) : s[i] \in tokens} IN
  IF at = {} THEN 0 ELSE CHOOSE i \in at : \A j \in at : i <= j

ParseCallBlock(block) ==
  IF Len(block) # 1 THEN <<>>
  ELSE IF block[1] = "wrap" THEN WrapperCalls
  ELSE IF block[1] \in Calls THEN block
  ELSE <<>>

-----------------------------------------------------------------------------
(* extractToolCalls.                                                       *)

\* The text without the block from start to end.  The backticks that end a
\* block may be those of the next fence, whose mark then stays as a word.
CutOut(s, start, end) ==
  SubSeq(s, 1, start - 1) \o (IF s[end] = "open" THEN <<"word">> ELSE <<>>)
    \o SubSeq(s, end + 1, Len(s))

\* Mutant: a damaged block ends the search.
CutBlockUnlessBad(search) ==
  LET rest == search.rest
      start == First(rest, {"open"}, 1)
      end == IF start = 0 THEN 0 ELSE First(rest, {"open", "close"}, start + 1)
      calls == ParseCallBlock(SubSeq(rest, start + 1, end - 1)) IN
  IF end = 0 \/ calls = <<>> THEN search
  ELSE [calls |-> search.calls \o calls, rest |-> CutOut(rest, start, end)]

\* One turn of the loop over the fenced blocks: the calls of the first block
\* and the text without it, or no change without a closed block.
CutBlock(search) ==
  LET rest == search.rest
      start == First(rest, {"open"}, 1)
      end == IF start = 0 THEN 0 ELSE First(rest, {"open", "close"}, start + 1) IN
  IF end = 0 THEN search
  ELSE [calls |-> search.calls \o ParseCallBlock(SubSeq(rest, start + 1, end - 1)),
        rest |-> CutOut(rest, start, end)]

\* The whole loop.  Each turn shortens the text, and Len(s) turns are enough.
FencedCalls(s) ==
  LET after[n \in 0 .. Len(s)] ==
        IF n = 0 THEN [calls |-> <<>>, rest |-> s] ELSE CutBlock(after[n - 1])
  IN after[Len(s)]

\* Without a fenced call: the first wrapper, else the object with the first
\* "arguments", nothing if that one is damaged.
Bare(rest) ==
  LET start == First(rest, Calls \cup {"bad"}, 1) IN
  IF First(rest, {"wrap"}, 1) # 0 THEN WrapperCalls
  ELSE IF start = 0 \/ rest[start] = "bad" THEN <<>>
  ELSE <<rest[start]>>

\* Mutant: bare calls are taken beside the fenced ones.
ExtractToolCallsBoth(s) == FencedCalls(s).calls \o Bare(FencedCalls(s).rest)

\* Mutant: there is no search for bare calls.
ExtractToolCallsFenced(s) == FencedCalls(s).calls

ExtractToolCalls(s) ==
  IF FencedCalls(s).calls # <<>> THEN FencedCalls(s).calls
  ELSE Bare(FencedCalls(s).rest)

-----------------------------------------------------------------------------
(* Properties.                                                             *)

Fences(s) == {i \in DOMAIN s : s[i] \in {"open", "close"}}

\* Fences open and close in turn; the last may be left open.
WellFenced(s) ==
  \A i \in Fences(s) :
    LET before == {j \in Fences(s) : j < i} IN
    IF before = {} THEN s[i] = "open"
    ELSE LET last == CHOOSE j \in before : \A k \in before : k <= j IN s[i] # s[last]

\* Reference: what the block that opens at i says, if it is closed.
BlockCalls(s, i) ==
  LET end == First(s, {"close"}, i + 1) IN
  IF s[i] # "open" \/ end = 0 THEN <<>> ELSE ParseCallBlock(SubSeq(s, i + 1, end - 1))

\* Reference: the calls of all closed blocks, from the left to the right.
BlocksInOrder(s) == FlattenSeq([i \in 1 .. Len(s) |-> BlockCalls(s, i)])

\* Cutting block after block out of the text finds the calls of all blocks in
\* their order: no damaged block, and nothing between the blocks, hides or
\* moves a call.
FencedCallsFound ==
  WellFenced(text) /\ BlocksInOrder(text) # <<>>
    => ExtractToolCalls(text) = BlocksInOrder(text)

\* All the calls a text contains, fenced or not, from the left to the right.
AllCalls(s) == FlattenSeq([i \in 1 .. Len(s) |-> ParseCallBlock(<<s[i]>>)])

\* x is y without some of its elements.
Subsequence(x, y) ==
  \E positions \in [DOMAIN x -> DOMAIN y] :
    \A i, j \in DOMAIN x :
      x[i] = y[positions[i]] /\ (i < j => positions[i] < positions[j])

\* Whatever the fences look like, no call is made that the text does not
\* contain, none twice, and none before an earlier one: each is executed.
NothingInvented == Subsequence(ExtractToolCalls(text), AllCalls(text))

\* The positions up to i that no closed block contains.
Outside(s, i) ==
  {j \in 1 .. i : \A k \in Fences(s) : k < j => \E l \in k .. j - 1 : s[l] = "close"}

\* An answer that is cut off inside a block still makes its call, unless an
\* earlier block made one or a damaged call outside the closed blocks comes
\* first; what the closed blocks contain does not keep it from being found.
CutOffCallFound ==
  \A i \in DOMAIN text :
    LET object == First(text, Calls \cup {"wrap", "bad"}, i) IN
    /\ WellFenced(text) /\ text[i] = "open" /\ First(text, {"close"}, i) = 0
    /\ object # 0 /\ text[object] # "bad"
    /\ \A j \in Outside(text, i) : text[j] # "bad"
    => ExtractToolCalls(text) # <<>>
=============================================================================
