--------------------------- MODULE ChatDataProofs ---------------------------
(***************************************************************************)
(* Proofs about what becomes of a chat's data.  On its way out: no history *)
(* of any length, with any ids, is sent with an orphan, and no addition to *)
(* it moves a chat that has an id.  On its way back: however long the      *)
(* upstream talks, in whatever pieces, the streaming client has all of it, *)
(* and the same as a client that did not ask for a stream; and of a text   *)
(* of any length the calls it contains are found, and no others.           *)
(***************************************************************************)
EXTENDS StreamRelay, Messages, ToolCalls, SequenceTheorems, WellFoundedInduction, TLAPS

-----------------------------------------------------------------------------
(* Numbers.                                                                *)

Less == {p \in Nat \X Nat : p[1] < p[2]}

LEMMA LessWellFounded == IsWellFoundedOn(Less, Nat)
BY NatLessThanWellFounded DEF OpToRel, Less

\* A set of numbers has a least one.
LEMMA Least ==
  ASSUME NEW T \in SUBSET Nat, T # {}
  PROVE  \E x \in T : \A y \in T : x <= y
<1>1. PICK x \in T : \A y \in T : ~ (<<y, x>> \in Less)
  <2> HIDE DEF Less
  <2> QED BY WFMin, LessWellFounded
<1>2. ASSUME NEW y \in T PROVE x <= y
  <2>1. ~ (<<y, x>> \in Less)
    BY <1>1
  <2>2. x \in Nat /\ y \in Nat
    OBVIOUS
  <2>3. ~ (y < x)
    BY <2>1, <2>2 DEF Less
  <2> QED BY <2>2, <2>3
<1> QED BY <1>2

\* A bounded set of numbers has a greatest one.
LEMMA Greatest ==
  ASSUME NEW n \in Nat, NEW S \in SUBSET (1 .. n), S # {}
  PROVE  \E x \in S : \A y \in S : y <= x
<1> DEFINE T == {n - i : i \in S}
<1>1. T \in SUBSET Nat /\ T # {}
  <2>1. ASSUME NEW i \in S PROVE n - i \in Nat
    <3>1. i \in 1 .. n
      OBVIOUS
    <3> QED BY <3>1
  <2>2. PICK i \in S : TRUE
    OBVIOUS
  <2>3. n - i \in T
    OBVIOUS
  <2> QED BY <2>1, <2>3
<1>2. PICK t \in T : \A u \in T : t <= u
  <2> HIDE DEF T
  <2> QED BY <1>1, Least
<1>3. PICK x \in S : t = n - x
  BY <1>2
<1>4. ASSUME NEW y \in S PROVE y <= x
  <2>1. t <= n - y
    BY <1>2
  <2> QED BY <2>1, <1>3
<1> QED BY <1>4

-----------------------------------------------------------------------------
(* What a client has after a sequence of outputs: the fold of the model,   *)
(* taken apart output by output.                                           *)

Taken(g, outs) == FoldLeft(Receive, g, outs)

\* h is the function that the fold over n outputs evaluates.
Folded(h, g, outs, n) ==
  h = [s \in SUBSET (1 .. n) |->
         IF s = {} THEN g ELSE Receive(h[s \ {Max(s)}], outs[Max(s)])]

LEMMA TakenIsFolded ==
  ASSUME NEW g, NEW outs, NEW n \in Nat, DOMAIN outs = 1 .. n
  PROVE  Taken(g, outs) = (CHOOSE h : Folded(h, g, outs, n))[1 .. n]
  BY DEF Taken, FoldLeft, MapThenFoldSet, Folded

LEMMA MaxOf ==
  ASSUME NEW n \in Nat, NEW s \in SUBSET (1 .. n), s # {}
  PROVE  Max(s) \in s /\ \A y \in s : y <= Max(s)
<1>1. \E x \in s : \A y \in s : x >= y
  BY Greatest
<1> QED
  BY <1>1 DEF Max

\* Two such functions agree where their outputs do.
LEMMA FoldedAgree ==
  ASSUME NEW g, NEW n \in Nat, NEW m \in Nat, n <= m, NEW few, NEW many,
         \A i \in 1 .. n : many[i] = few[i],
         NEW h, NEW k, Folded(h, g, few, n), Folded(k, g, many, m)
  PROVE  h[1 .. n] = k[1 .. n]
<1> DEFINE Bad == {i \in 1 .. n : \E s \in SUBSET (1 .. i) : h[s] # k[s]}
<1>0. h[{}] = g /\ k[{}] = g
  BY DEF Folded
<1>1. ASSUME Bad # {} PROVE FALSE
  <2>1. PICK i \in Bad : \A j \in Bad : i <= j
    <3>1. Bad \in SUBSET Nat
      OBVIOUS
    <3> QED BY <1>1, <3>1, Least
  <2>2. i \in 1 .. n /\ i \in Nat
    OBVIOUS
  <2>3. PICK s \in SUBSET (1 .. i) : h[s] # k[s]
    BY <2>1
  <2>4. s # {}
    BY <1>0, <2>3
  <2> DEFINE x == Max(s)
  <2>5. x \in s /\ (\A y \in s : y <= x) /\ x \in 1 .. i
    <3>1. Max(s) \in s /\ \A y \in s : y <= Max(s)
      BY <2>2, <2>4, MaxOf
    <3>2. Max(s) \in 1 .. i
      BY <3>1
    <3> QED BY <3>1, <3>2
  <2>6. s \in SUBSET (1 .. n) /\ s \in SUBSET (1 .. m) /\ x \in 1 .. n
    BY <2>2, <2>5
  <2>7. h[s] = Receive(h[s \ {x}], few[x]) /\ k[s] = Receive(k[s \ {x}], many[x])
    BY <2>4, <2>6 DEF Folded
  <2> HIDE DEF x
  <2>8. h[s \ {x}] = k[s \ {x}]
    <3>1. CASE s \ {x} = {}
      BY <1>0, <3>1
    <3>2. CASE s \ {x} # {}
      <4>1. x - 1 \in 1 .. n /\ s \ {x} \in SUBSET (1 .. (x - 1))
        <5>1. \A y \in s \ {x} : y \in 1 .. i /\ y <= x /\ y # x
          BY <2>5
        <5>2. \A y \in s \ {x} : y \in 1 .. (x - 1)
          BY <2>2, <2>5, <5>1
        <5>3. x - 1 >= 1
          <6>1. PICK y \in s \ {x} : TRUE
            BY <3>2
          <6>2. y \in 1 .. (x - 1)
            BY <5>2
          <6> QED BY <2>2, <2>5, <6>2
        <5> QED BY <2>2, <2>5, <5>2, <5>3
      <4>2. x - 1 \notin Bad
        BY <2>1, <2>2, <2>5, <4>1
      <4> QED BY <4>1, <4>2
    <3> QED BY <3>1, <3>2
  <2> QED
    BY <2>3, <2>6, <2>7, <2>8
<1>2. ASSUME NEW s \in SUBSET (1 .. n) PROVE h[s] = k[s]
  <2>1. CASE s = {}
    BY <1>0, <2>1
  <2>2. CASE s # {}
    <3>1. PICK i \in s : TRUE
      BY <2>2
    <3>2. i \in 1 .. n
      BY <3>1
    <3>3. n \in 1 .. n
      BY <3>2
    <3> QED BY <1>1, <3>3
  <2> QED BY <2>1, <2>2
<1> QED
  BY <1>2

\* From one for n outputs, one for n and another.
LEMMA FoldedGrows ==
  ASSUME NEW g, NEW outs, NEW n \in Nat, NEW h, Folded(h, g, outs, n)
  PROVE  \E k : Folded(k, g, outs, n + 1)
<1> DEFINE D == SUBSET (1 .. (n + 1))
           k == [s \in D |-> IF n + 1 \in s THEN Receive(h[s \ {n + 1}], outs[n + 1]) ELSE h[s]]
<1>0. n + 1 \in Nat
  OBVIOUS
<1>1. ASSUME NEW s \in D
      PROVE  k[s] = IF s = {} THEN g ELSE Receive(k[s \ {Max(s)}], outs[Max(s)])
  <2>1. CASE s = {}
    BY <2>1 DEF Folded
  <2>2. CASE n + 1 \in s
    <3>1. Max(s) = n + 1
      <4>1. Max(s) \in s /\ \A y \in s : y <= Max(s)
        BY <1>0, <2>2, MaxOf
      <4>2. Max(s) \in 1 .. (n + 1) /\ n + 1 <= Max(s)
        BY <2>2, <4>1
      <4> QED BY <4>2
    <3>2. s \ {n + 1} \in D /\ n + 1 \notin s \ {n + 1}
      OBVIOUS
    <3> QED BY <2>2, <3>1, <3>2
  <2>3. CASE s # {} /\ n + 1 \notin s
    <3>1. s \in SUBSET (1 .. n)
      BY <2>3
    <3>2. Max(s) \in s
      BY <2>3, <3>1, MaxOf
    <3>3. s \ {Max(s)} \in D /\ n + 1 \notin s \ {Max(s)}
      BY <2>3
    <3>4. h[s] = Receive(h[s \ {Max(s)}], outs[Max(s)])
      BY <2>3, <3>1 DEF Folded
    <3> QED BY <2>3, <3>3, <3>4
  <2> QED BY <2>1, <2>2, <2>3
<1>2. k = [s \in D |-> IF s = {} THEN g ELSE Receive(k[s \ {Max(s)}], outs[Max(s)])]
  <2>1. k = [s \in D |-> k[s]]
    OBVIOUS
  <2> HIDE DEF k
  <2> QED BY <1>1, <2>1
<1> HIDE DEF k
<1> QED
  BY <1>2 DEF Folded

LEMMA FoldedExists ==
  ASSUME NEW g, NEW outs
  PROVE  \A n \in Nat : \E h : Folded(h, g, outs, n)
<1> DEFINE Bad == {n \in Nat : ~ \E h : Folded(h, g, outs, n)}
<1>1. ASSUME Bad # {} PROVE FALSE
  <2>1. PICK n \in Bad : \A j \in Bad : n <= j
    BY <1>1, Least
  <2>2. CASE n = 0
    <3> DEFINE h == [s \in SUBSET (1 .. 0) |-> g]
    <3>1. 1 .. 0 = {}
      OBVIOUS
    <3>2. h = [s \in SUBSET (1 .. 0) |->
                 IF s = {} THEN g ELSE Receive(h[s \ {Max(s)}], outs[Max(s)])]
      BY <3>1
    <3> HIDE DEF h
    <3>3. \E k : Folded(k, g, outs, 0)
      BY <3>2 DEF Folded
    <3> QED BY <2>2, <3>3
  <2>3. CASE n # 0
    <3>1. n - 1 \in Nat /\ n - 1 \notin Bad
      BY <2>1, <2>3
    <3>2. PICK h : Folded(h, g, outs, n - 1)
      BY <3>1
    <3>3. \E k : Folded(k, g, outs, (n - 1) + 1)
      BY <3>1, <3>2, FoldedGrows
    <3> QED BY <3>3
  <2> QED BY <2>2, <2>3
<1> QED
  BY <1>1

LEMMA TakenFrom ==
  ASSUME NEW g, NEW outs, NEW n \in Nat, DOMAIN outs = 1 .. n
  PROVE  \E h : Folded(h, g, outs, n) /\ Taken(g, outs) = h[1 .. n]
<1> DEFINE h == CHOOSE h : Folded(h, g, outs, n)
<1>1. \E k : Folded(k, g, outs, n)
  BY FoldedExists
<1>2. Folded(h, g, outs, n)
  BY <1>1
<1>3. Taken(g, outs) = h[1 .. n]
  BY TakenIsFolded
<1> HIDE DEF h
<1> QED
  BY <1>2, <1>3

LEMMA TakenNone ==
  ASSUME NEW g
  PROVE  Taken(g, <<>>) = g
<1>1. DOMAIN <<>> = 1 .. 0 /\ 1 .. 0 = {}
  OBVIOUS
<1>2. PICK h : Folded(h, g, <<>>, 0) /\ Taken(g, <<>>) = h[1 .. 0]
  BY <1>1, TakenFrom
<1> QED
  BY <1>1, <1>2 DEF Folded

\* One output more.
LEMMA TakenMore ==
  ASSUME NEW g, NEW S, NEW outs \in Seq(S), NEW o \in S
  PROVE  Taken(g, Append(outs, o)) = Receive(Taken(g, outs), o)
<1> DEFINE n == Len(outs)
           more == Append(outs, o)
<1>1. /\ n \in Nat /\ n + 1 \in Nat /\ n <= n + 1
      /\ DOMAIN outs = 1 .. n /\ DOMAIN more = 1 .. (n + 1)
      /\ more[n + 1] = o /\ \A i \in 1 .. n : more[i] = outs[i]
  OBVIOUS
<1> HIDE DEF n, more
<1>2. PICK h : Folded(h, g, outs, n) /\ Taken(g, outs) = h[1 .. n]
  BY <1>1, TakenFrom
<1>3. PICK k : Folded(k, g, more, n + 1) /\ Taken(g, more) = k[1 .. (n + 1)]
  BY <1>1, TakenFrom
<1>4. h[1 .. n] = k[1 .. n]
  BY <1>1, <1>2, <1>3, FoldedAgree
<1>5. Max(1 .. (n + 1)) = n + 1 /\ (1 .. (n + 1)) \ {n + 1} = 1 .. n
  <2> DEFINE s == 1 .. (n + 1)
  <2>1. s \in SUBSET (1 .. (n + 1)) /\ n + 1 \in s
    BY <1>1
  <2>2. Max(s) \in s /\ \A y \in s : y <= Max(s)
    <3> HIDE DEF s
    <3> QED BY <1>1, <2>1, MaxOf
  <2>3. Max(s) \in 1 .. (n + 1) /\ n + 1 <= Max(s)
    BY <1>1, <2>1, <2>2
  <2> QED BY <1>1, <2>3
<1>6. 1 .. (n + 1) # {} /\ 1 .. (n + 1) \in SUBSET (1 .. (n + 1))
  <2>1. n + 1 \in 1 .. (n + 1)
    BY <1>1
  <2> QED BY <2>1
<1>7. k[1 .. (n + 1)] = Receive(k[1 .. n], more[n + 1])
  BY <1>3, <1>5, <1>6 DEF Folded
<1>8. Taken(g, more) = Receive(Taken(g, outs), o)
  BY <1>1, <1>2, <1>3, <1>4, <1>7
<1> QED
  BY <1>8 DEF more

LEMMA TakenOne ==
  ASSUME NEW g, NEW o
  PROVE  Taken(g, <<o>>) = Receive(g, o)
<1>1. <<>> \in Seq({o}) /\ o \in {o} /\ Append(<<>>, o) = <<o>>
  OBVIOUS
<1>2. Taken(g, Append(<<>>, o)) = Receive(Taken(g, <<>>), o)
  BY <1>1, TakenMore
<1> QED
  BY <1>1, <1>2, TakenNone

LEMMA Pair ==
  ASSUME NEW o, NEW p
  PROVE  Append(<<o>>, p) = <<o, p>> /\ <<o>> \o <<p>> = <<o, p>>
<1> DEFINE S == {o, p}
           a == Append(<<o>>, p)
           c == <<o>> \o <<p>>
           t == <<o, p>>
<1>1. t \in Seq(S) /\ Len(t) = 2 /\ t[1] = o /\ t[2] = p
  OBVIOUS
<1>2. a \in Seq(S) /\ Len(a) = 2 /\ a[1] = o /\ a[2] = p
  OBVIOUS
<1>3. c \in Seq(S) /\ Len(c) = 2 /\ c[1] = o /\ c[2] = p
  OBVIOUS
<1> HIDE DEF a, c, t, S
<1>4. a = t
  BY <1>1, <1>2, SeqEqual
<1>5. c = t
  BY <1>1, <1>3, SeqEqual
<1> QED
  BY <1>4, <1>5 DEF a, c, t

LEMMA TakenTwo ==
  ASSUME NEW g, NEW o, NEW p
  PROVE  Taken(g, <<o, p>>) = Receive(Receive(g, o), p)
<1> DEFINE S == {o, p}
<1>1. ASSUME NEW w \in Seq(S) PROVE Taken(g, Append(w, p)) = Receive(Taken(g, w), p)
  <2>1. p \in S
    OBVIOUS
  <2> HIDE DEF S
  <2> QED BY <2>1, TakenMore
<1>2. <<o>> \in Seq(S)
  OBVIOUS
<1>3. Append(<<o>>, p) = <<o, p>>
  BY Pair
<1> QED
  BY <1>1, <1>2, <1>3, TakenOne

\* One sequence of outputs after another.
LEMMA TakenConcat ==
  ASSUME NEW g, NEW S, NEW s \in Seq(S), NEW t \in Seq(S)
  PROVE  Taken(g, s \o t) = Taken(Taken(g, s), t)
<1> DEFINE Bad == {n \in Nat : \E u \in Seq(S) :
                     Len(u) = n /\ Taken(g, s \o u) # Taken(Taken(g, s), u)}
<1>1. ASSUME Bad # {} PROVE FALSE
  <2>1. PICK n \in Bad : \A j \in Bad : n <= j
    BY <1>1, Least
  <2>2. PICK u \in Seq(S) : Len(u) = n /\ Taken(g, s \o u) # Taken(Taken(g, s), u)
    OBVIOUS
  <2>3. CASE u = <<>>
    <3>1. s \o u = s
      BY <2>3
    <3> QED BY <2>2, <2>3, <3>1, TakenNone
  <2>4. CASE u # <<>>
    <3> DEFINE v == SubSeq(u, 1, Len(u) - 1)
               o == u[Len(u)]
    <3>1. v \in Seq(S) /\ o \in S /\ u = Append(v, o) /\ Len(v) = n - 1 /\ n - 1 \in Nat
      BY <2>2, <2>4
    <3> HIDE DEF v, o
    <3>2. s \o u = Append(s \o v, o) /\ s \o v \in Seq(S)
      BY <3>1
    <3>3. Taken(g, s \o v) = Taken(Taken(g, s), v)
      <4>1. n - 1 \notin Bad
        BY <2>1, <3>1
      <4> QED BY <3>1, <4>1
    <3>4. Taken(g, s \o u) = Receive(Taken(g, s \o v), o)
      <4>1. ASSUME NEW w \in Seq(S) PROVE Taken(g, Append(w, o)) = Receive(Taken(g, w), o)
        BY <3>1, TakenMore
      <4> QED BY <3>2, <4>1
    <3>5. Taken(Taken(g, s), u) = Receive(Taken(Taken(g, s), v), o)
      BY <3>1, TakenMore
    <3> QED BY <2>2, <3>3, <3>4, <3>5
  <2> QED BY <2>3, <2>4
<1>2. Len(t) \in Nat
  OBVIOUS
<1> QED
  BY <1>1, <1>2

-----------------------------------------------------------------------------
(* The relay: types, and what is kept while it reads and when it is done.  *)

Text == Seq(Pieces)
Status == {"reading", "complete", "failed"}
Readers == [content : Text, reason : Text, call : Text, finish : Finishes, usage : BOOLEAN,
            at : Status]
Received == [text : Text, think : Text, call : Text, finish : Finishes \cup {NoFinish},
             usage : Nat, errors : Nat, done : Nat, late : Nat, gone : BOOLEAN]

StreamTypeOK ==
  /\ dialect \in {"openai", "codearts"}
  /\ said \in [text : Text, think : Text, call : Text]
  /\ relay \in [reader : Readers, includeUsage : BOOLEAN]
  /\ agg \in Readers
  /\ got \in Received
  /\ rewarded \in BOOLEAN

\* While the relay reads it keeps what has been said, and so does the aggregation.
BothFollow ==
  Reading =>
    /\ body \in {"open", "final"}
    /\ agg = relay.reader
    /\ relay.reader.content = said.text /\ relay.reader.reason = said.think
    /\ relay.reader.call = said.call

\* While it reads the client has the same, and no more.
ClientUnderWay ==
  Reading =>
    /\ got.text = said.text /\ got.think = said.think /\ got.call = said.call
    /\ got.finish \in {relay.reader.finish, NoFinish}
    /\ dialect = "codearts" => got.finish = NoFinish
    /\ got.usage = 0 /\ got.errors = 0 /\ got.done = 0 /\ got.late = 0 /\ ~got.gone
    /\ ~rewarded

Agreed ==
  relay.reader.at = "complete" =>
    /\ body # "open"
    /\ got.text = agg.content /\ got.think = agg.reason /\ got.call = agg.call
    /\ got.finish \in {agg.finish, NoFinish}

StreamInv == 
  /\ BothFollow /\ ClientUnderWay /\ Agreed /\ NothingAfterDone /\ RewardedWhenDelivered

Kinds == {"chunk", "text", "output", "qa", "thinking", "usage", "textDone", "done"}
Frames == [kind : Kinds, text : Text, think : Text, call : Text,
           finish : Finishes \cup {NoFinish}, usage : BOOLEAN]
OutTypes == {"chunk", "usage", "error", "done"}
Outputs == [type : OutTypes, text : Text, think : Text, call : Text,
            finish : Finishes \cup {NoFinish}]

LEMMA Received1 ==
  ASSUME NEW g \in Received, NEW o \in Outputs
  PROVE  /\ Receive(g, o) \in Received
         /\ Receive(g, o).text = g.text \o o.text
         /\ Receive(g, o).think = g.think \o o.think
         /\ Receive(g, o).call = g.call \o o.call
         /\ Receive(g, o).finish = IF o.finish = NoFinish THEN g.finish ELSE o.finish
         /\ Receive(g, o).usage = IF o.type = "usage" THEN g.usage + 1 ELSE g.usage
         /\ Receive(g, o).errors = IF o.type = "error" THEN g.errors + 1 ELSE g.errors
         /\ Receive(g, o).done = IF o.type = "done" THEN g.done + 1 ELSE g.done
         /\ Receive(g, o).late = IF g.done > 0 THEN g.late + 1 ELSE g.late
         /\ Receive(g, o).gone = g.gone
<1> DEFINE r == Receive(g, o)
<1> DEFINE Fields == {"text", "think", "call", "finish", "usage", "errors", "done", "late", "gone"}
<1>1. /\ g.text \in Text /\ g.think \in Text /\ g.call \in Text
      /\ g.usage \in Nat /\ g.errors \in Nat /\ g.done \in Nat /\ g.late \in Nat /\ g.gone \in BOOLEAN
      /\ g.finish \in Finishes \cup {NoFinish}
  BY DEF Received
<1>2. /\ o.finish \in Finishes \cup {NoFinish}
      /\ g.text \o o.text \in Text /\ g.think \o o.think \in Text /\ g.call \o o.call \in Text
  BY <1>1 DEF Outputs, Text
<1>3. DOMAIN g = Fields
  BY DEF Received
<1>4. DOMAIN r = Fields /\ r = [f \in Fields |-> r[f]]
  BY <1>3 DEF Receive
<1>5. /\ r.text = g.text \o o.text /\ r.think = g.think \o o.think /\ r.call = g.call \o o.call
  BY <1>3 DEF Receive
<1>6. /\ r.finish = IF o.finish = NoFinish THEN g.finish ELSE o.finish
      /\ r.usage = IF o.type = "usage" THEN g.usage + 1 ELSE g.usage
      /\ r.errors = IF o.type = "error" THEN g.errors + 1 ELSE g.errors
  BY <1>3 DEF Receive
<1>7. /\ r.done = IF o.type = "done" THEN g.done + 1 ELSE g.done
      /\ r.late = IF g.done > 0 THEN g.late + 1 ELSE g.late
      /\ r.gone = g.gone
  BY <1>3 DEF Receive
<1>8. r.usage \in Nat /\ r.errors \in Nat /\ r.done \in Nat /\ r.late \in Nat
      /\ r.finish \in Finishes \cup {NoFinish}
  BY <1>1, <1>2, <1>6, <1>7
<1>9. r \in Received
  BY <1>1, <1>2, <1>4, <1>5, <1>7, <1>8 DEF Received
<1> QED
  BY <1>5, <1>6, <1>7, <1>9

\* The kinds of output: chunks, the usage, an error, the end marker.
LEMMA OutTyped ==
  ASSUME NEW type \in OutTypes
  PROVE  /\ Out(type) \in Outputs /\ Out(type).type = type
         /\ Out(type).text = <<>> /\ Out(type).think = <<>> /\ Out(type).call = <<>>
         /\ Out(type).finish = NoFinish
<1>1. <<>> \in Text
  BY DEF Text
<1>2. Out(type) = [type |-> type, text |-> <<>>, think |-> <<>>, call |-> <<>>, finish |-> NoFinish]
  BY DEF Out, OutChunk
<1> QED
  BY <1>1, <1>2 DEF Outputs

LEMMA ReceivedOut ==
  ASSUME NEW g \in Received, NEW type \in OutTypes
  PROVE  LET r == Receive(g, Out(type)) IN
         /\ r \in Received /\ r.gone = g.gone
         /\ r.text = g.text /\ r.think = g.think /\ r.call = g.call /\ r.finish = g.finish
         /\ r.usage = g.usage + IF type = "usage" THEN 1 ELSE 0
         /\ r.errors = g.errors + IF type = "error" THEN 1 ELSE 0
         /\ r.done = g.done + IF type = "done" THEN 1 ELSE 0
         /\ g.done = 0 => r.late = g.late
<1> DEFINE o == Out(type)
<1>1. /\ o \in Outputs /\ o.type = type
      /\ o.text = <<>> /\ o.think = <<>> /\ o.call = <<>> /\ o.finish = NoFinish
  BY OutTyped
<1> HIDE DEF o
<1> DEFINE r == Receive(g, o)
<1>3. /\ g.usage \in Nat /\ g.errors \in Nat /\ g.done \in Nat
      /\ g.text \in Seq(Pieces) /\ g.think \in Seq(Pieces) /\ g.call \in Seq(Pieces)
  BY DEF Received, Text
<1>4. /\ r \in Received /\ r.gone = g.gone
      /\ r.text = g.text \o o.text /\ r.think = g.think \o o.think /\ r.call = g.call \o o.call
      /\ r.finish = IF o.finish = NoFinish THEN g.finish ELSE o.finish
      /\ r.usage = IF o.type = "usage" THEN g.usage + 1 ELSE g.usage
      /\ r.errors = IF o.type = "error" THEN g.errors + 1 ELSE g.errors
      /\ r.done = IF o.type = "done" THEN g.done + 1 ELSE g.done
      /\ r.late = IF g.done > 0 THEN g.late + 1 ELSE g.late
  BY <1>1, Received1
<1> HIDE DEF r
<1>5. r.text = g.text /\ r.think = g.think /\ r.call = g.call /\ r.finish = g.finish
  BY <1>1, <1>3, <1>4
<1>6. /\ r.usage = g.usage + IF type = "usage" THEN 1 ELSE 0
      /\ r.errors = g.errors + IF type = "error" THEN 1 ELSE 0
      /\ r.done = g.done + IF type = "done" THEN 1 ELSE 0
      /\ g.done = 0 => r.late = g.late
  BY <1>1, <1>3, <1>4
<1> QED
  BY <1>4, <1>5, <1>6 DEF r, o

LEMMA ChunkTyped ==
  ASSUME NEW words \in Text, NEW think \in Text, NEW call \in Text,
         NEW finish \in Finishes \cup {NoFinish}
  PROVE  OutChunk(words, think, call, finish) \in Outputs
  BY DEF OutChunk, Outputs, OutTypes

\* Before the end marker a client gets neither that nor anything late.
Underway(g, withUsage, withError) ==
  /\ g \in Received
  /\ g.done = 0 /\ g.late = 0 /\ ~g.gone
  /\ withUsage \/ g.usage = 0
  /\ withError \/ g.errors = 0

LEMMA UnderwayOn ==
  ASSUME NEW u \in BOOLEAN, NEW e \in BOOLEAN, NEW g, Underway(g, u, e),
         NEW o \in Outputs, o.type # "done", u \/ o.type # "usage", e \/ o.type # "error"
  PROVE  Underway(Receive(g, o), u, e)
<1>1. g \in Received
  BY DEF Underway
<1> DEFINE r == Receive(g, o)
<1>2. /\ r \in Received /\ r.gone = g.gone
      /\ r.usage = IF o.type = "usage" THEN g.usage + 1 ELSE g.usage
      /\ r.errors = IF o.type = "error" THEN g.errors + 1 ELSE g.errors
      /\ r.done = IF o.type = "done" THEN g.done + 1 ELSE g.done
      /\ r.late = IF g.done > 0 THEN g.late + 1 ELSE g.late
  BY <1>1, Received1
<1> HIDE DEF r
<1>3. Underway(r, u, e)
  BY <1>1, <1>2 DEF Underway
<1> QED
  BY <1>3 DEF r

LEMMA UnderwayThrough ==
  ASSUME NEW u \in BOOLEAN, NEW e \in BOOLEAN, NEW g, Underway(g, u, e),
         NEW outs \in Seq(Outputs),
         \A i \in 1 .. Len(outs) : /\ outs[i].type # "done"
                                   /\ u \/ outs[i].type # "usage"
                                   /\ e \/ outs[i].type # "error"
  PROVE  Underway(Taken(g, outs), u, e)
<1> DEFINE Bad == {n \in 0 .. Len(outs) : ~Underway(Taken(g, SubSeq(outs, 1, n)), u, e)}
<1>1. ASSUME Bad # {} PROVE FALSE
  <2>1. PICK n \in Bad : \A j \in Bad : n <= j
    <3>1. Bad \in SUBSET Nat
      OBVIOUS
    <3> QED BY <1>1, <3>1, Least
  <2>2. CASE n = 0
    <3>1. SubSeq(outs, 1, 0) = <<>>
      OBVIOUS
    <3> QED BY <2>1, <2>2, <3>1, TakenNone
  <2>3. CASE n # 0
    <3> DEFINE v == SubSeq(outs, 1, n - 1)
               w == SubSeq(outs, 1, n)
               o == outs[n]
    <3>1. n \in 1 .. Len(outs) /\ n - 1 \in 0 .. Len(outs)
      BY <2>3
    <3>2. v \in Seq(Outputs) /\ o \in Outputs /\ w = Append(v, o)
      BY <3>1
    <3>3. n - 1 \notin Bad
      BY <2>1, <3>1
    <3>4. Underway(Taken(g, v), u, e)
      BY <3>1, <3>3
    <3>5. o.type # "done" /\ (u \/ o.type # "usage") /\ (e \/ o.type # "error")
      BY <3>1
    <3>6. ~Underway(Taken(g, w), u, e)
      BY <2>1
    <3> HIDE DEF v, w, o
    <3>7. Taken(g, w) = Receive(Taken(g, v), o)
      BY <3>2, TakenMore
    <3> QED BY <3>2, <3>4, <3>5, <3>6, <3>7, UnderwayOn
  <2> QED BY <2>2, <2>3
<1>2. Len(outs) \in 0 .. Len(outs) /\ SubSeq(outs, 1, Len(outs)) = outs
  OBVIOUS
<1> QED
  BY <1>1, <1>2

LEMMA PrefixUnderway ==
  ASSUME NEW u \in BOOLEAN, NEW e \in BOOLEAN, NEW g, Underway(g, u, e),
         NEW outs \in Seq(Outputs), NEW k \in 0 .. (Len(outs) - 1),
         \A i \in 1 .. (Len(outs) - 1) : /\ outs[i].type # "done"
                                         /\ u \/ outs[i].type # "usage"
                                         /\ e \/ outs[i].type # "error"
  PROVE  Underway(Taken(g, SubSeq(outs, 1, k)), u, e)
<1> DEFINE v == SubSeq(outs, 1, k)
<1>1. v \in Seq(Outputs) /\ Len(v) = k /\ \A i \in 1 .. k : v[i] = outs[i]
  OBVIOUS
<1>2. \A i \in 1 .. Len(v) : /\ v[i].type # "done"
                             /\ u \/ v[i].type # "usage"
                             /\ e \/ v[i].type # "error"
  BY <1>1
<1> HIDE DEF v
<1>3. Underway(Taken(g, v), u, e)
  BY <1>1, <1>2, UnderwayThrough
<1> QED
  BY <1>3 DEF v

\* What a reader makes of a frame.
LEMMA Applied ==
  ASSUME NEW st \in Readers, NEW f \in Frames
  PROVE  LET next == ApplyEvent(st, f) IN
         /\ next \in Readers /\ next.at = st.at
         /\ next.reason = st.reason \o f.think /\ next.call = st.call \o f.call
         /\ f.kind = "chunk" => next.content = st.content \o f.text
         /\ f.kind \in {"text", "output"} => next.content = f.text
         /\ f.kind = "qa" => next.content = IF st.content = <<>> THEN f.text ELSE st.content
         /\ f.kind \in {"thinking", "usage", "textDone", "done"} => next.content = st.content
         /\ f.kind = "textDone" /\ f.finish = NoFinish => next.finish = "stop"
         /\ f.kind \notin {"textDone", "done"} =>
              next.finish = IF f.finish = NoFinish THEN st.finish ELSE f.finish
<1> DEFINE Fields == {"content", "reason", "call", "finish", "usage", "at"}
           next == ApplyEvent(st, f)
<1>1. /\ st.content \in Text /\ st.reason \in Text /\ st.call \in Text
      /\ st.finish \in Finishes /\ st.usage \in BOOLEAN /\ st.at \in Status
      /\ f.text \in Text /\ f.think \in Text /\ f.call \in Text /\ f.usage \in BOOLEAN
      /\ f.kind \in Kinds /\ f.finish \in Finishes \cup {NoFinish}
  BY DEF Readers, Frames
<1>2. /\ st.content \o f.text \in Text /\ st.reason \o f.think \in Text
      /\ st.call \o f.call \in Text /\ (st.usage \/ f.usage) \in BOOLEAN
  BY <1>1 DEF Text
<1>3. DOMAIN st = Fields
  BY DEF Readers
<1> DEFINE content == CASE f.kind = "chunk" -> st.content \o f.text
                        [] f.kind \in {"text", "output"} -> f.text
                        [] f.kind = "qa" /\ st.content = <<>> -> f.text
                        [] OTHER -> st.content
           finish == CASE f.kind = "textDone" -> "stop"
                       [] f.kind = "done" -> IF f.finish = NoFinish THEN "stop" ELSE f.finish
                       [] f.finish # NoFinish -> f.finish
                       [] OTHER -> st.finish
<1>4. /\ f.kind = "chunk" => content = st.content \o f.text
      /\ f.kind \in {"text", "output"} => content = f.text
      /\ f.kind = "qa" => content = IF st.content = <<>> THEN f.text ELSE st.content
      /\ f.kind \in {"thinking", "usage", "textDone", "done"} => content = st.content
  OBVIOUS
<1>5. /\ f.kind = "textDone" /\ f.finish = NoFinish => finish = "stop"
      /\ f.kind \notin {"textDone", "done"} =>
           finish = IF f.finish = NoFinish THEN st.finish ELSE f.finish
      /\ finish \in Finishes
  <2>1. "stop" \in Finishes /\ st.finish \in Finishes
        /\ (f.finish # NoFinish => f.finish \in Finishes)
    BY <1>1, StreamAssumption
  <2>2. CASE f.finish = NoFinish
    <3>1. finish \in {"stop", st.finish}
      BY <2>2
    <3>2. f.kind = "textDone" => finish = "stop"
      BY <2>2
    <3>3. f.kind \notin {"textDone", "done"} => finish = st.finish
      BY <2>2
    <3> HIDE DEF finish
    <3> QED BY <2>1, <2>2, <3>1, <3>2, <3>3
  <2>3. CASE f.finish # NoFinish
    <3>1. finish \in {"stop", f.finish}
      BY <2>3
    <3>2. f.kind \notin {"textDone", "done"} => finish = f.finish
      BY <2>3
    <3> HIDE DEF finish
    <3> QED BY <2>1, <2>3, <3>1, <3>2
  <2> QED BY <2>2, <2>3
<1>6. next = [st EXCEPT !.content = content, !.finish = finish, !.reason = @ \o f.think,
                        !.call = @ \o f.call, !.usage = @ \/ f.usage]
  BY DEF ApplyEvent
<1> HIDE DEF content, finish, next
<1>7. /\ DOMAIN next = Fields /\ next = [x \in Fields |-> next[x]]
      /\ next.content = content /\ next.finish = finish /\ next.at = st.at
      /\ next.reason = st.reason \o f.think /\ next.call = st.call \o f.call
  BY <1>3, <1>6
<1>a. next.usage = (st.usage \/ f.usage)
  BY <1>3, <1>6
<1>8. next.content \in Text
  BY <1>1, <1>2, <1>4, <1>7 DEF Kinds
<1>9. next.finish \in Finishes
  BY <1>1, <1>5, <1>7, StreamAssumption
<1>10. next \in Readers
  BY <1>1, <1>2, <1>7, <1>a, <1>8, <1>9 DEF Readers
<1>11. /\ f.kind = "chunk" => next.content = st.content \o f.text
       /\ f.kind \in {"text", "output"} => next.content = f.text
       /\ f.kind = "qa" => next.content = IF st.content = <<>> THEN f.text ELSE st.content
       /\ f.kind \in {"thinking", "usage", "textDone", "done"} => next.content = st.content
  BY <1>4, <1>7
<1>12. /\ f.kind = "textDone" /\ f.finish = NoFinish => next.finish = "stop"
       /\ f.kind \notin {"textDone", "done"} =>
            next.finish = IF f.finish = NoFinish THEN st.finish ELSE f.finish
  BY <1>5, <1>7
<1> QED
  BY <1>7, <1>10, <1>11, <1>12 DEF next

\* What has been added is what the client is told.
LEMMA AddedIs ==
  ASSUME NEW c \in Text, NEW t \in Text
  PROVE  Added(c, c \o t) = t
<1>1. /\ c \o t \in Seq(Pieces) /\ Len(c \o t) = Len(c) + Len(t)
      /\ Len(c) \in Nat /\ Len(t) \in Nat
      /\ \A i \in 1 .. Len(t) : (c \o t)[Len(c) + i] = t[i]
  BY DEF Text
<1>2. CASE t = <<>>
  BY <1>1, <1>2 DEF Added
<1>3. CASE t # <<>>
  <2>1. Len(t) > 0
    BY <1>1, <1>3 DEF Text
  <2> DEFINE s == SubSeq(c \o t, Len(c) + 1, Len(c \o t))
  <2>2. s \in Seq(Pieces) /\ Len(s) = Len(t) /\ \A i \in 1 .. Len(t) : s[i] = t[i]
    BY <1>1, <2>1
  <2>3. s = t
    <3> HIDE DEF s
    <3> QED BY <2>2, SeqEqual DEF Text
  <2> QED
    BY <1>1, <2>1, <2>3 DEF Added
<1> QED
  BY <1>2, <1>3

\* Typed, and the relay is over: what is then true of the client for good.
Settled ==
  /\ relay \in [reader : Readers, includeUsage : BOOLEAN]
  /\ got \in Received /\ rewarded \in BOOLEAN
  /\ ~Reading /\ NothingAfterDone /\ RewardedWhenDelivered

LEMMA EndsAs ==
  ASSUME StreamTypeOK, NEW next \in Readers, NEW at \in Status,
         relay' = [relay EXCEPT !.reader = [next EXCEPT !.at = at]]
  PROVE  /\ relay' \in [reader : Readers, includeUsage : BOOLEAN]
         /\ relay'.includeUsage = relay.includeUsage
         /\ relay'.reader \in Readers /\ relay'.reader.at = at
         /\ relay'.reader.content = next.content /\ relay'.reader.reason = next.reason
         /\ relay'.reader.call = next.call /\ relay'.reader.finish = next.finish
         /\ next.at = at => relay'.reader = next
<1> DEFINE r == [next EXCEPT !.at = at]
<1>1. /\ r \in Readers /\ r.at = at
      /\ r.content = next.content /\ r.reason = next.reason /\ r.call = next.call
      /\ r.finish = next.finish
  BY DEF Readers
<1>2. next.at = at => r = next
  BY DEF Readers
<1> HIDE DEF r
<1>3. relay' = [relay EXCEPT !.reader = r]
  BY DEF r
<1>4. relay' \in [reader : Readers, includeUsage : BOOLEAN] /\ relay'.reader = r
      /\ relay'.includeUsage = relay.includeUsage
  BY <1>1, <1>3 DEF StreamTypeOK
<1> QED
  BY <1>1, <1>2, <1>4

\* A write fails.
LEMMA WriteFails ==
  ASSUME StreamTypeOK, Underway(got, FALSE, FALSE), ~rewarded,
         NEW u \in BOOLEAN, NEW e \in BOOLEAN, ~(u /\ e), NEW next \in Readers,
         NEW outs \in Seq(Outputs), NEW k \in 0 .. (Len(outs) - 1),
         \A i \in 1 .. (Len(outs) - 1) : /\ outs[i].type # "done"
                                         /\ u \/ outs[i].type # "usage"
                                         /\ e \/ outs[i].type # "error",
         got' = [Taken(got, SubSeq(outs, 1, k)) EXCEPT !.gone = TRUE],
         relay' = [relay EXCEPT !.reader = [next EXCEPT !.at = "failed"]],
         UNCHANGED rewarded
  PROVE  Settled' /\ relay'.reader.at = "failed"
<1>1. relay' \in [reader : Readers, includeUsage : BOOLEAN] /\ relay'.reader.at = "failed"
  BY EndsAs DEF Status
<1> DEFINE g == Taken(got, SubSeq(outs, 1, k))
<1>2. Underway(got, u, e)
  BY DEF Underway
<1>3. Underway(g, u, e)
  BY <1>2, PrefixUnderway
<1> HIDE DEF g
<1>4. got' = [g EXCEPT !.gone = TRUE]
  BY DEF g
<1>5. got' \in Received /\ got'.done = 0 /\ got'.late = 0
      /\ (u \/ got'.usage = 0) /\ (e \/ got'.errors = 0)
  BY <1>3, <1>4 DEF Underway, Received
<1>6. got'.errors > 0 => got'.usage = 0
  BY <1>5
<1>7. rewarded' = FALSE
  BY DEF StreamTypeOK
<1>8. NothingAfterDone'
  BY <1>5 DEF NothingAfterDone
<1>9. RewardedWhenDelivered'
  BY <1>6, <1>7 DEF RewardedWhenDelivered
<1> QED
  BY <1>1, <1>5, <1>7, <1>8, <1>9 DEF Settled, Reading

\* The regular end: the usage if it was asked for, and the end marker.
LEMMA Finished ==
  ASSUME relay.includeUsage \in BOOLEAN, NEW g, Underway(g, FALSE, FALSE),
         NEW r, r = Taken(g, FinishStream)
  PROVE  /\ FinishStream \in Seq(Outputs) /\ Len(FinishStream) \in {1, 2}
         /\ \A i \in 1 .. (Len(FinishStream) - 1) : FinishStream[i].type = "usage"
         /\ r \in Received /\ r.text = g.text /\ r.think = g.think /\ r.call = g.call
         /\ r.finish = g.finish /\ r.done = 1 /\ r.late = 0 /\ r.errors = 0 /\ ~r.gone
         /\ r.usage = IF relay.includeUsage THEN 1 ELSE 0
<1>1. Out("usage") \in Outputs /\ Out("usage").type = "usage" /\ Out("done") \in Outputs
  BY OutTyped DEF OutTypes
<1>2. FinishStream = IF relay.includeUsage THEN <<Out("usage"), Out("done")>> ELSE <<Out("done")>>
  <2>1. CASE relay.includeUsage
    <3>1. <<Out("usage")>> \o <<Out("done")>> = <<Out("usage"), Out("done")>>
      BY Pair
    <3> QED BY <2>1, <3>1 DEF FinishStream
  <2>2. CASE ~relay.includeUsage
    BY <2>2 DEF FinishStream
  <2> QED BY <2>1, <2>2
<1>3. /\ FinishStream \in Seq(Outputs) /\ Len(FinishStream) \in {1, 2}
      /\ \A i \in 1 .. (Len(FinishStream) - 1) : FinishStream[i].type = "usage"
  BY <1>1, <1>2
<1>4. g \in Received /\ g.done = 0 /\ g.late = 0 /\ g.usage = 0 /\ g.errors = 0 /\ ~g.gone
  BY DEF Underway
<1>5. "done" \in OutTypes /\ "usage" \in OutTypes
  BY DEF OutTypes
<1>6. CASE ~relay.includeUsage
  <2>1. r = Receive(g, Out("done"))
    BY <1>2, <1>6, TakenOne
  <2> QED
    BY <1>3, <1>4, <1>5, <1>6, <2>1, ReceivedOut
<1>7. CASE relay.includeUsage
  <2> DEFINE q == Receive(g, Out("usage"))
  <2>1. r = Receive(q, Out("done"))
    BY <1>2, <1>7, TakenTwo
  <2>2. /\ q \in Received /\ q.text = g.text /\ q.think = g.think /\ q.call = g.call
        /\ q.finish = g.finish /\ q.usage = 1 /\ q.errors = 0 /\ q.done = 0 /\ q.late = 0
        /\ ~q.gone
    BY <1>4, <1>5, ReceivedOut
  <2> HIDE DEF q
  <2> QED
    BY <1>3, <1>5, <1>7, <2>1, <2>2, ReceivedOut
<1> QED
  BY <1>6, <1>7

\* r is g with what FinishStream writes.
Completed(r, g) ==
  /\ r \in Received /\ r.text = g.text /\ r.think = g.think /\ r.call = g.call
  /\ r.finish = g.finish /\ r.done = 1 /\ r.late = 0 /\ r.errors = 0 /\ ~r.gone
  /\ r.usage = IF relay.includeUsage THEN 1 ELSE 0

LEMMA IsCompleted ==
  ASSUME relay.includeUsage \in BOOLEAN, NEW g, Underway(g, FALSE, FALSE),
         NEW r, r = Taken(g, FinishStream)
  PROVE  Completed(r, g)
BY Finished DEF Completed

LEMMA OutputsAssociate ==
  ASSUME NEW u \in Seq(Outputs), NEW v \in Seq(Outputs), NEW w \in Seq(Outputs)
  PROVE  (u \o v) \o w = u \o (v \o w)
<1>1. \A S : \A s, t, x \in Seq(S) : (s \o t) \o x = s \o (t \o x)
  BY ConcatAssociative
<1> QED BY <1>1

\* The relay ends regularly after what g has, or the client is gone.
LEMMA EndKeeps ==
  ASSUME StreamTypeOK, Underway(got, FALSE, FALSE), ~rewarded,
         NEW next \in Readers, NEW outs \in Seq(Outputs),
         \A i \in 1 .. Len(outs) : outs[i].type = "chunk",
         NEW g, g = Taken(got, outs),
         Deliver(outs \o FinishStream, next, "complete")
  PROVE  /\ Settled'
         /\ relay'.reader.at = "complete" =>
              /\ got'.text = g.text /\ got'.think = g.think /\ got'.call = g.call
              /\ got'.finish = g.finish
<1> DEFINE all == outs \o FinishStream
<1>0. relay.includeUsage \in BOOLEAN
  BY DEF StreamTypeOK
<1>1. Underway(g, FALSE, FALSE)
  BY UnderwayThrough
<1>2. /\ FinishStream \in Seq(Outputs) /\ Len(FinishStream) \in {1, 2}
      /\ \A i \in 1 .. (Len(FinishStream) - 1) : FinishStream[i].type = "usage"
  BY <1>0, <1>1, Finished
<1>3. Taken(got, all) = Taken(g, FinishStream)
  BY <1>2, TakenConcat
<1>4. all \in Seq(Outputs)
      /\ \A i \in 1 .. (Len(all) - 1) : all[i].type \in {"chunk", "usage"}
  BY <1>2
<1>5. CASE /\ got' = Taken(got, all)
           /\ relay' = [relay EXCEPT !.reader = [next EXCEPT !.at = "complete"]]
           /\ rewarded' = (rewarded \/ "complete" = "complete")
  <2>1. /\ got' \in Received /\ got'.text = g.text /\ got'.think = g.think /\ got'.call = g.call
        /\ got'.finish = g.finish /\ got'.done = 1 /\ got'.late = 0 /\ got'.errors = 0
        /\ ~got'.gone /\ got'.usage = IF relay.includeUsage THEN 1 ELSE 0
    <3>1. got' = Taken(g, FinishStream)
      BY <1>3, <1>5
    <3>2. Completed(got', g)
      <4> HIDE DEF all
      <4> QED BY <1>0, <1>1, <3>1, IsCompleted
    <3> QED BY <3>2 DEF Completed
  <2>2. /\ relay' \in [reader : Readers, includeUsage : BOOLEAN]
        /\ relay'.includeUsage = relay.includeUsage /\ relay'.reader.at = "complete"
    BY <1>5, EndsAs DEF Status
  <2>3. rewarded' = TRUE
    BY <1>5
  <2>4. NothingAfterDone' /\ RewardedWhenDelivered'
    BY <2>1, <2>2, <2>3 DEF NothingAfterDone, RewardedWhenDelivered
  <2> QED
    BY <2>1, <2>2, <2>3, <2>4 DEF Settled, Reading
<1>6. ASSUME NEW k \in 0 .. (Len(all) - 1),
             got' = [Taken(got, SubSeq(all, 1, k)) EXCEPT !.gone = TRUE],
             relay' = [relay EXCEPT !.reader = [next EXCEPT !.at = "failed"]],
             UNCHANGED rewarded
      PROVE  Settled' /\ relay'.reader.at = "failed"
  <2> HIDE DEF all
  <2>1. \A i \in 1 .. (Len(all) - 1) : all[i].type # "done" /\ all[i].type # "error"
    BY <1>4
  <2> QED
    BY <1>4, <1>6, <2>1, WriteFails
<1> QED
  BY <1>5, <1>6 DEF Deliver, Taken

\* An error and the end marker.
LEMMA ErrorKeeps ==
  ASSUME StreamTypeOK, Underway(got, FALSE, FALSE), ~rewarded, RelayError
  PROVE  Settled' /\ relay'.reader.at = "failed"
<1> DEFINE e == Out("error")
           d == Out("done")
           outs == <<e, d>>
<1>0. relay.reader \in Readers
  BY DEF StreamTypeOK
<1>1. /\ e \in Outputs /\ e.type = "error" /\ d \in Outputs /\ d.type = "done"
  BY OutTyped DEF OutTypes
<1>2. Deliver(outs, relay.reader, "failed")
  BY DEF RelayError
<1> HIDE DEF e, d
<1>3. outs \in Seq(Outputs) /\ Len(outs) = 2 /\ outs[1] = e
  BY <1>1
<1>4. CASE /\ got' = Taken(got, outs)
           /\ relay' = [relay EXCEPT !.reader = [relay.reader EXCEPT !.at = "failed"]]
           /\ rewarded' = (rewarded \/ "failed" = "complete")
  <2> DEFINE q == Receive(got, Out("error"))
  <2>1. got' = Receive(q, Out("done"))
    BY <1>4, TakenTwo DEF e, d
  <2>2. got \in Received /\ got.usage = 0 /\ got.errors = 0 /\ got.done = 0 /\ got.late = 0
    BY DEF Underway
  <2>3. q \in Received /\ q.usage = 0 /\ q.errors = 1 /\ q.done = 0 /\ q.late = 0
    BY <2>2, ReceivedOut DEF OutTypes
  <2> HIDE DEF q
  <2>4. got' \in Received /\ got'.usage = 0 /\ got'.errors = 1 /\ got'.done = 1 /\ got'.late = 0
    BY <2>1, <2>3, ReceivedOut DEF OutTypes
  <2>6. relay' \in [reader : Readers, includeUsage : BOOLEAN] /\ relay'.reader.at = "failed"
    BY <1>0, <1>4, EndsAs DEF Status
  <2>7. rewarded' = FALSE
    BY <1>4
  <2>8. NothingAfterDone' /\ RewardedWhenDelivered'
    BY <2>4, <2>7 DEF NothingAfterDone, RewardedWhenDelivered
  <2> QED
    BY <2>4, <2>6, <2>7, <2>8 DEF Settled, Reading
<1>5. ASSUME NEW k \in 0 .. (Len(outs) - 1),
             got' = [Taken(got, SubSeq(outs, 1, k)) EXCEPT !.gone = TRUE],
             relay' = [relay EXCEPT !.reader = [relay.reader EXCEPT !.at = "failed"]],
             UNCHANGED rewarded
      PROVE  Settled' /\ relay'.reader.at = "failed"
  <2>1. \A i \in 1 .. (Len(outs) - 1) : outs[i].type # "done" /\ outs[i].type # "usage"
    BY <1>1, <1>3
  <2> HIDE DEF outs
  <2> QED
    BY <1>0, <1>3, <1>5, <2>1, WriteFails
<1> QED
  BY <1>2, <1>4, <1>5 DEF Deliver, Taken

\* What is known while the relay reads.
LEMMA WhileReading ==
  ASSUME StreamTypeOK, StreamInv, Reading
  PROVE  /\ relay.reader \in Readers /\ relay.includeUsage \in BOOLEAN
         /\ agg = relay.reader /\ relay.reader.at = "reading"
         /\ Underway(got, FALSE, FALSE) /\ ~rewarded
         /\ got.text = relay.reader.content /\ got.think = relay.reader.reason
         /\ got.call = relay.reader.call
         /\ said.text = got.text /\ said.think = got.think /\ said.call = got.call
         /\ got.finish \in {relay.reader.finish, NoFinish}
         /\ dialect = "codearts" => got.finish = NoFinish
  BY DEF StreamTypeOK, StreamInv, Reading, BothFollow, ClientUnderWay, Underway

\* The relay stops; the readers agree if it was the regular end.
LEMMA Stops ==
  ASSUME Settled', relay'.reader.at = "failed" \/ Agreed',
         dialect' = dialect, StreamTypeOK,
         said' \in [text : Text, think : Text, call : Text], agg' \in Readers
  PROVE  StreamTypeOK' /\ StreamInv'
<1>1. StreamTypeOK'
  BY DEF StreamTypeOK, Settled
<1>2. BothFollow' /\ ClientUnderWay'
  BY DEF Settled, BothFollow, ClientUnderWay
<1>3. Agreed'
  BY DEF Agreed
<1> QED
  BY <1>1, <1>2, <1>3 DEF StreamInv, Settled

\* A frame that says t more and that the upstream may send.
Said(f, t) ==
  /\ ApplyEvent(relay.reader, f).content = relay.reader.content \o t
  /\ said' = [text |-> said.text \o t, think |-> said.think \o f.think, call |-> said.call \o f.call]
  /\ body' = IF f.kind \in {"done", "textDone"} THEN "final" ELSE "open"
  /\ f.kind = "textDone" => dialect = "codearts"
  /\ f.kind \notin {"chunk", "done"} => f.finish = NoFinish
  /\ f.kind = "chunk" /\ dialect = "codearts" => f.finish = NoFinish

LEMMA FrameKeeps ==
  ASSUME StreamTypeOK, StreamInv, Reading, body = "open", NEW f \in Frames, NEW t \in Text,
         Said(f, t), RelayFrame(f), agg' = ApplyEvent(agg, f), dialect' = dialect
  PROVE  StreamTypeOK' /\ StreamInv'
<1> DEFINE st == relay.reader
           next == ApplyEvent(st, f)
           fin == IF f.kind = "chunk" THEN f.finish ELSE NoFinish
           outs == ChunksFor(st, next, f)
           g == Taken(got, outs)
<1>1. /\ st \in Readers /\ relay.includeUsage \in BOOLEAN /\ agg = st /\ st.at = "reading"
      /\ Underway(got, FALSE, FALSE) /\ ~rewarded
      /\ got.text = st.content /\ got.think = st.reason /\ got.call = st.call
      /\ said.text = got.text /\ said.think = got.think /\ said.call = got.call
      /\ got.finish \in {st.finish, NoFinish}
      /\ dialect = "codearts" => got.finish = NoFinish
  BY WhileReading
<1>2. /\ next \in Readers /\ next.at = "reading"
      /\ next.content = st.content \o t
      /\ next.reason = st.reason \o f.think /\ next.call = st.call \o f.call
      /\ f.kind = "textDone" /\ f.finish = NoFinish => next.finish = "stop"
      /\ f.kind \notin {"textDone", "done"} =>
           next.finish = IF f.finish = NoFinish THEN st.finish ELSE f.finish
  BY <1>1, Applied DEF Said
<1>3. agg' = next
  BY <1>1
<1>4. /\ f.think \in Text /\ f.call \in Text /\ f.kind \in Kinds
      /\ f.finish \in Finishes \cup {NoFinish} /\ fin \in Finishes \cup {NoFinish}
      /\ st.content \in Text /\ st.reason \in Text /\ st.call \in Text
      /\ next.content \in Text /\ next.reason \in Text /\ next.call \in Text
      /\ next.finish \in Finishes
  BY <1>1, <1>2 DEF Frames, Readers
<1> HIDE DEF next, st
<1>5. Added(st.content, next.content) = t /\ Added(st.reason, next.reason) = f.think
  BY <1>2, <1>4, AddedIs
<1>6. outs = IF t = <<>> /\ f.think = <<>> /\ f.call = <<>> /\ fin = NoFinish THEN <<>>
             ELSE <<OutChunk(t, f.think, f.call, fin)>>
  BY <1>5 DEF ChunksFor
<1>7. RelayFrame(f) =
        Deliver(outs \o (IF Ends(f) THEN <<EndChunk(next)>> \o FinishStream ELSE <<>>),
                next, AfterFrame(f))
  BY DEF RelayFrame, st, next
<1> DEFINE o == OutChunk(t, f.think, f.call, fin)
<1>8. o \in Outputs /\ o.type = "chunk" /\ o.text = t /\ o.think = f.think /\ o.call = f.call
      /\ o.finish = fin
  BY <1>4, ChunkTyped DEF OutChunk
<1> HIDE DEF outs, o
<1>9. outs \in Seq(Outputs) /\ Len(outs) \in {0, 1}
      /\ \A i \in 1 .. Len(outs) : outs[i].type = "chunk"
  BY <1>6, <1>8 DEF o
<1>10. /\ Underway(g, FALSE, FALSE)
       /\ g.text = next.content /\ g.think = next.reason /\ g.call = next.call
       /\ g.finish = IF fin = NoFinish THEN got.finish ELSE fin
  <2>0. got \in Received
    BY <1>1 DEF Underway
  <2>1. CASE outs = <<>>
    <3>1. t = <<>> /\ f.think = <<>> /\ f.call = <<>> /\ fin = NoFinish
      BY <1>6, <2>1
    <3>2. next.content = st.content /\ next.reason = st.reason /\ next.call = st.call
      BY <1>2, <1>4, <3>1 DEF Text
    <3>3. g = got
      BY <2>1, TakenNone
    <3> HIDE DEF g, fin
    <3> QED BY <1>1, <3>1, <3>2, <3>3
  <2>2. CASE outs = <<o>>
    <3>1. g = Receive(got, o)
      BY <2>2, TakenOne
    <3> HIDE DEF g, fin
    <3>2. Underway(g, FALSE, FALSE)
      BY <1>1, <1>8, <3>1, UnderwayOn
    <3>3. /\ g.text = got.text \o o.text /\ g.think = got.think \o o.think
          /\ g.call = got.call \o o.call
          /\ g.finish = IF o.finish = NoFinish THEN got.finish ELSE o.finish
      BY <1>8, <2>0, <3>1, Received1
    <3> QED BY <1>1, <1>2, <1>8, <3>2, <3>3
  <2> QED BY <1>6, <2>1, <2>2 DEF o
<1> HIDE DEF g, fin
<1>11. said' \in [text : Text, think : Text, call : Text]
       /\ said'.text = next.content /\ said'.think = next.reason /\ said'.call = next.call
  BY <1>1, <1>2, <1>4 DEF Said
<1>12. CASE ~Ends(f)
  <2>1. Deliver(outs, next, "reading")
    <3>1. outs \o <<>> = outs
      BY <1>9
    <3> QED BY <1>7, <1>12, <3>1 DEF AfterFrame
  <2>2. CASE /\ got' = Taken(got, outs)
             /\ relay' = [relay EXCEPT !.reader = [next EXCEPT !.at = "reading"]]
             /\ rewarded' = (rewarded \/ "reading" = "complete")
    <3>1. got' = g /\ got' \in Received
      BY <1>10, <2>2 DEF g, Underway
    <3>2. relay' \in [reader : Readers, includeUsage : BOOLEAN] /\ relay'.reader = next
      BY <1>2, <2>2, EndsAs DEF Status
    <3>3. rewarded' = FALSE
      BY <1>1, <2>2
    <3>4. StreamTypeOK'
      BY <1>2, <1>3, <1>11, <3>1, <3>2, <3>3 DEF StreamTypeOK
    <3>5. BothFollow'
      BY <1>3, <1>11, <3>2 DEF BothFollow, Said
    <3>6. got'.finish \in {next.finish, NoFinish} /\ (dialect = "codearts" => got'.finish = NoFinish)
      <4>1. f.kind # "done"
        BY <1>12 DEF Ends
      <4>2. CASE f.kind = "chunk"
        BY <1>1, <1>2, <1>10, <3>1, <4>2 DEF fin, Said
      <4>3. CASE f.kind = "textDone"
        BY <1>1, <1>2, <1>10, <3>1, <4>3 DEF fin, Said
      <4>4. CASE f.kind \notin {"chunk", "textDone"}
        BY <1>1, <1>2, <1>10, <3>1, <4>1, <4>4 DEF fin, Said
      <4> QED BY <4>2, <4>3, <4>4
    <3>7. ClientUnderWay'
      BY <1>10, <1>11, <3>1, <3>2, <3>3, <3>6 DEF ClientUnderWay, Underway
    <3>8. Agreed'
      BY <1>2, <3>2 DEF Agreed
    <3>9. NothingAfterDone' /\ RewardedWhenDelivered'
      BY <1>10, <3>1, <3>3 DEF NothingAfterDone, RewardedWhenDelivered, Underway
    <3> QED BY <3>4, <3>5, <3>7, <3>8, <3>9 DEF StreamInv
  <2>3. ASSUME NEW k \in 0 .. (Len(outs) - 1),
               got' = [Taken(got, SubSeq(outs, 1, k)) EXCEPT !.gone = TRUE],
               relay' = [relay EXCEPT !.reader = [next EXCEPT !.at = "failed"]],
               UNCHANGED rewarded
        PROVE  Settled' /\ relay'.reader.at = "failed"
    <3>1. \A i \in 1 .. (Len(outs) - 1) : outs[i].type # "done" /\ outs[i].type # "error"
      BY <1>9
    <3> QED BY <1>1, <1>2, <1>9, <2>3, <3>1, WriteFails
  <2>4. ASSUME Settled', relay'.reader.at = "failed" PROVE StreamTypeOK' /\ StreamInv'
    BY <1>2, <1>3, <1>11, <2>4, Stops
  <2> QED
    BY <2>1, <2>2, <2>3, <2>4 DEF Deliver, Taken
<1>13. CASE Ends(f)
  <2> DEFINE e == EndChunk(next)
             more == outs \o <<e>>
             h == Taken(got, more)
  <2>1. e \in Outputs /\ e.type = "chunk" /\ e.text = <<>> /\ e.think = <<>> /\ e.call = <<>>
        /\ e.finish = next.finish
    <3>1. <<>> \in Text
      BY DEF Text
    <3> QED BY <1>4, <3>1, ChunkTyped DEF EndChunk, OutChunk
  <2>2. FinishStream \in Seq(Outputs)
    BY <1>1, <1>10, Finished
  <2>3. Deliver(more \o FinishStream, next, "complete")
    <3>1. Deliver(outs \o (<<e>> \o FinishStream), next, "complete")
      BY <1>7, <1>13 DEF AfterFrame
    <3>2. outs \o (<<e>> \o FinishStream) = more \o FinishStream
      <4> HIDE DEF e
      <4>1. <<e>> \in Seq(Outputs)
        BY <2>1
      <4> QED BY <1>9, <2>2, <4>1, OutputsAssociate
    <3> QED BY <3>1, <3>2
  <2> HIDE DEF e
  <2>4. more \in Seq(Outputs) /\ \A i \in 1 .. Len(more) : more[i].type = "chunk"
    BY <1>9, <2>1
  <2>5. h = Receive(g, e)
    <3>1. <<e>> \in Seq(Outputs)
      BY <2>1
    <3>2. ASSUME NEW w \in Seq(Outputs) PROVE Taken(got, outs \o w) = Taken(g, w)
      BY <1>9, TakenConcat DEF g
    <3> QED BY <3>1, <3>2, TakenOne
  <2>6. h.text = next.content /\ h.think = next.reason /\ h.call = next.call
        /\ h.finish = next.finish
    <3>1. g \in Received /\ g.text \in Text /\ g.think \in Text /\ g.call \in Text
      BY <1>10 DEF Underway, Received
    <3> HIDE DEF h
    <3>2. /\ h.text = g.text \o e.text /\ h.think = g.think \o e.think
          /\ h.call = g.call \o e.call
          /\ h.finish = IF e.finish = NoFinish THEN g.finish ELSE e.finish
      BY <2>1, <2>5, <3>1, Received1
    <3>3. next.finish # NoFinish
      BY <1>4, StreamAssumption
    <3> QED BY <1>10, <2>1, <3>1, <3>2, <3>3 DEF Text
  <2> HIDE DEF more
  <2>7. /\ Settled'
        /\ relay'.reader.at = "complete" =>
             /\ got'.text = h.text /\ got'.think = h.think /\ got'.call = h.call
             /\ got'.finish = h.finish
    BY <1>1, <1>2, <2>3, <2>4, EndKeeps
  <2> HIDE DEF h
  <2>8. Agreed'
    BY <1>3, <1>13, <2>6, <2>7 DEF Agreed, Said, Ends
  <2> QED
    BY <1>2, <1>3, <1>11, <2>7, <2>8, Stops
<1> QED
  BY <1>12, <1>13

LEMMA StreamInit == Init => StreamTypeOK /\ StreamInv
<1> SUFFICES ASSUME Init PROVE StreamTypeOK /\ StreamInv
  OBVIOUS
<1>1. <<>> \in Text
  BY DEF Text
<1>2. Reader \in Readers /\ Reader.at = "reading"
      /\ Reader.content = <<>> /\ Reader.reason = <<>> /\ Reader.call = <<>>
  BY <1>1, StreamAssumption DEF Reader, Readers, Status
<1>3. PICK i \in BOOLEAN : relay = [reader |-> Reader, includeUsage |-> i]
  BY DEF Init
<1>4. relay \in [reader : Readers, includeUsage : BOOLEAN] /\ relay.reader = Reader
  BY <1>2, <1>3
<1>5. got \in Received
  BY <1>1 DEF Init, Received
<1>6. StreamTypeOK
  BY <1>1, <1>2, <1>4, <1>5 DEF Init, StreamTypeOK, Nothing
<1>7. BothFollow /\ ClientUnderWay /\ Agreed
  BY <1>2, <1>4 DEF Init, Nothing, BothFollow, ClientUnderWay, Agreed
<1>8. NothingAfterDone /\ RewardedWhenDelivered
  BY DEF Init, NothingAfterDone, RewardedWhenDelivered
<1> QED
  BY <1>6, <1>7, <1>8 DEF StreamInv

\* A frame reaches both readers.
LEMMA FeedKeeps ==
  ASSUME StreamTypeOK, StreamInv, body = "open", NEW f \in Frames, NEW t \in Text,
         Reading => Said(f, t), said' \in [text : Text, think : Text, call : Text], Feed(f)
  PROVE  StreamTypeOK' /\ StreamInv'
<1>1. CASE Reading
  <2>1. agg' = ApplyEvent(agg, f)
    BY <1>1, WhileReading DEF Feed
  <2> QED
    BY <1>1, <2>1, FrameKeeps DEF Feed
<1>2. CASE ~Reading
  <2>1. Skip
    BY <1>2 DEF Feed
  <2>2. agg' \in Readers
    BY Applied DEF Feed, StreamTypeOK
  <2>3. relay.reader.at # "complete"
    BY DEF StreamInv, Agreed
  <2>4. StreamTypeOK'
    BY <2>1, <2>2 DEF StreamTypeOK, Skip, Feed
  <2>5. StreamInv'
    BY <1>2, <2>1, <2>3 DEF StreamInv, Skip, BothFollow, ClientUnderWay, Agreed, Reading,
       NothingAfterDone, RewardedWhenDelivered
  <2> QED BY <2>4, <2>5
<1> QED
  BY <1>1, <1>2

\* The upstream's frames are frames.
LEMMA FrameTyped ==
  ASSUME NEW words \in Text, NEW think \in Text, NEW call \in Text,
         NEW finish \in Finishes \cup {NoFinish}, NEW usage \in BOOLEAN, NEW kind \in Kinds
  PROVE  [Chunk(words, think, call, finish, usage) EXCEPT !.kind = kind] \in Frames
  BY DEF Chunk, Frames

LEMMA NextKeeps == StreamTypeOK /\ StreamInv /\ [Next]_vars => StreamTypeOK' /\ StreamInv'
<1> SUFFICES ASSUME StreamTypeOK, StreamInv, [Next]_vars PROVE StreamTypeOK' /\ StreamInv'
  OBVIOUS
<1>0. /\ <<>> \in Text /\ \A p \in Pieces : <<p>> \in Text
      /\ said \in [text : Text, think : Text, call : Text] /\ agg \in Readers
      /\ \A x, y \in Text : x \o y \in Text
      /\ \A x \in Text : x \o <<>> = x
  BY DEF Text, StreamTypeOK
<1>1. CASE SendChunk
  <2>1. PICK words, think, call \in {<<>>} \cup {<<p>> : p \in Pieces}, usage \in BOOLEAN,
              finish \in IF dialect = "openai" THEN Finishes \cup {NoFinish} ELSE {NoFinish} :
          /\ said' = [text |-> said.text \o words, think |-> said.think \o think,
                      call |-> said.call \o call]
          /\ Feed(Chunk(words, think, call, finish, usage))
    BY <1>1 DEF SendChunk
  <2>2. words \in Text /\ think \in Text /\ call \in Text /\ finish \in Finishes \cup {NoFinish}
        /\ (dialect = "codearts" => finish = NoFinish)
    BY <1>0
  <2> DEFINE f == Chunk(words, think, call, finish, usage)
  <2>3. f \in Frames /\ f.kind = "chunk" /\ f.text = words /\ f.think = think /\ f.call = call
        /\ f.finish = finish
    BY <2>2 DEF Chunk, Frames, Kinds
  <2> HIDE DEF f
  <2>4. body = "open" /\ body' = "open"
    BY <1>1 DEF SendChunk, Sends
  <2>5. Reading => Said(f, words)
    <3> SUFFICES ASSUME Reading PROVE Said(f, words)
      OBVIOUS
    <3>1. ApplyEvent(relay.reader, f).content = relay.reader.content \o words
      BY <2>3, WhileReading, Applied
    <3> QED BY <2>1, <2>2, <2>3, <2>4, <3>1 DEF Said
  <2>6. said' \in [text : Text, think : Text, call : Text]
    BY <1>0, <2>1, <2>2
  <2>7. Feed(f)
    BY <2>1 DEF f
  <2> QED BY <2>2, <2>3, <2>4, <2>5, <2>6, <2>7, FeedKeeps
<1>2. CASE SendUsage
  <2> DEFINE f == [Plain("usage", <<>>) EXCEPT !.usage = TRUE]
  <2>1. f \in Frames /\ f.kind = "usage" /\ f.text = <<>> /\ f.think = <<>> /\ f.call = <<>>
        /\ f.finish = NoFinish
    BY <1>0 DEF Plain, Chunk, Frames, Kinds
  <2>2. Feed(f) /\ UNCHANGED <<said, body>> /\ body = "open"
    BY <1>2 DEF SendUsage, Sends
  <2> HIDE DEF f
  <2>3. Reading => Said(f, <<>>)
    <3> SUFFICES ASSUME Reading PROVE Said(f, <<>>)
      OBVIOUS
    <3>1. ApplyEvent(relay.reader, f).content = relay.reader.content /\ relay.reader.content \in Text
      BY <2>1, WhileReading, Applied DEF Readers
    <3>2. said' = [text |-> said.text \o <<>>, think |-> said.think \o f.think,
                   call |-> said.call \o f.call]
      BY <1>0, <2>1, <2>2
    <3> QED BY <1>0, <2>1, <2>2, <3>1, <3>2 DEF Said
  <2> QED BY <1>0, <2>1, <2>2, <2>3, FeedKeeps
<1>3. CASE SendSnapshot
  <2>1. PICK kind \in {"text", "output", "qa"}, p \in Pieces :
          LET words == IF kind = "qa" THEN <<p>> ELSE Append(said.text, p) IN
          /\ said' = IF kind = "qa" /\ said.text # <<>> THEN said ELSE [said EXCEPT !.text = words]
          /\ Feed(Plain(kind, words))
    BY <1>3 DEF SendSnapshot
  <2> DEFINE words == IF kind = "qa" THEN <<p>> ELSE Append(said.text, p)
             f == Plain(kind, words)
             t == IF kind = "qa" /\ said.text # <<>> THEN <<>> ELSE <<p>>
  <2>2. words \in Text /\ t \in Text
        /\ (kind # "qa" => words = said.text \o <<p>>)
    <3>1. Append(said.text, p) = said.text \o <<p>>
      BY <1>0, AppendIsConcat DEF Text
    <3> QED BY <1>0, <3>1
  <2>3. f \in Frames /\ f.kind = kind /\ f.text = words /\ f.think = <<>> /\ f.call = <<>>
        /\ f.finish = NoFinish
    <3> HIDE DEF words
    <3> QED BY <1>0, <2>2 DEF Plain, Chunk, Frames, Kinds
  <2>4. body = "open" /\ body' = "open"
    BY <1>3 DEF SendSnapshot, Sends
  <2>5. said' = [text |-> said.text \o t, think |-> said.think \o f.think,
                 call |-> said.call \o f.call]
    <3>1. said = [text |-> said.text, think |-> said.think, call |-> said.call]
      BY <1>0
    <3>2. said' = [text |-> said.text \o t, think |-> said.think, call |-> said.call]
      <4>1. CASE kind = "qa" /\ said.text # <<>>
        <5>1. said' = said
          BY <2>1, <4>1
        <5> QED BY <1>0, <3>1, <4>1, <5>1
      <4>2. CASE kind = "qa" /\ said.text = <<>>
        <5>1. said' = [said EXCEPT !.text = <<p>>]
          BY <2>1, <4>2
        <5>2. <<>> \o <<p>> = <<p>>
          BY <1>0 DEF Text
        <5> QED BY <1>0, <3>1, <4>2, <5>1, <5>2
      <4>3. CASE kind # "qa"
        <5>1. said' = [said EXCEPT !.text = words]
          BY <2>1, <4>3
        <5>2. t = <<p>> /\ words = said.text \o <<p>>
          BY <2>2, <4>3
        <5> HIDE DEF words, t
        <5> QED BY <1>0, <3>1, <5>1, <5>2
      <4> QED BY <4>1, <4>2, <4>3
    <3> HIDE DEF f, t
    <3> QED BY <1>0, <2>3, <3>2
  <2>6. Feed(f)
    BY <2>1
  <2>7. Reading => Said(f, t)
    <3> SUFFICES ASSUME Reading PROVE Said(f, t)
      OBVIOUS
    <3>1. relay.reader \in Readers /\ said.text = relay.reader.content
          /\ relay.reader.content \in Text
      BY WhileReading DEF Readers
    <3> HIDE DEF f
    <3>2. ApplyEvent(relay.reader, f).content = relay.reader.content \o t
      <4>1. CASE kind = "qa" /\ said.text # <<>>
        <5>0. f.kind = "qa" /\ relay.reader.content # <<>> /\ f \in Frames
          BY <2>3, <3>1, <4>1
        <5> HIDE DEF words, t
        <5>1. ApplyEvent(relay.reader, f).content = relay.reader.content
          BY <3>1, <5>0, Applied
        <5> USE DEF t
        <5> QED BY <1>0, <3>1, <4>1, <5>1
      <4>2. CASE kind = "qa" /\ said.text = <<>>
        <5>0. f.kind = "qa" /\ relay.reader.content = <<>> /\ f \in Frames /\ f.text = <<p>>
          BY <2>3, <3>1, <4>2
        <5> HIDE DEF words, t
        <5>1. ApplyEvent(relay.reader, f).content = <<p>>
          BY <3>1, <5>0, Applied
        <5> USE DEF t
        <5>2. <<>> \o <<p>> = <<p>>
          BY <1>0 DEF Text
        <5> QED BY <3>1, <4>2, <5>1, <5>2
      <4>3. CASE kind # "qa"
        <5>1. ApplyEvent(relay.reader, f).content = f.text
          BY <2>3, <3>1, <4>3, Applied
        <5>2. t = <<p>> /\ f.text = said.text \o <<p>>
          BY <2>2, <2>3, <4>3
        <5> HIDE DEF t
        <5> QED BY <3>1, <5>1, <5>2
      <4> QED BY <4>1, <4>2, <4>3
    <3> HIDE DEF t
    <3> QED BY <2>3, <2>4, <2>5, <3>2 DEF Said
  <2>8. said' \in [text : Text, think : Text, call : Text]
    <3> HIDE DEF t, f
    <3> QED BY <1>0, <2>2, <2>3, <2>5
  <2> HIDE DEF f, t
  <2> QED BY <2>2, <2>3, <2>4, <2>6, <2>7, <2>8, FeedKeeps
<1>4. CASE SendThinking
  <2>1. PICK p \in Pieces :
          /\ said' = [said EXCEPT !.think = Append(@, p)]
          /\ Feed([Plain("thinking", <<>>) EXCEPT !.think = <<p>>])
    BY <1>4 DEF SendThinking
  <2> DEFINE f == [Plain("thinking", <<>>) EXCEPT !.think = <<p>>]
  <2>2. f \in Frames /\ f.kind = "thinking" /\ f.text = <<>> /\ f.think = <<p>> /\ f.call = <<>>
        /\ f.finish = NoFinish
    BY <1>0 DEF Plain, Chunk, Frames, Kinds
  <2>3. body = "open" /\ body' = "open"
    BY <1>4 DEF SendThinking, Sends
  <2> HIDE DEF f
  <2>4. said' = [text |-> said.text \o <<>>, think |-> said.think \o f.think,
                 call |-> said.call \o f.call]
    <3>1. Append(said.think, p) = said.think \o <<p>>
      BY <1>0, AppendIsConcat DEF Text
    <3>2. said' = [text |-> said.text, think |-> said.think \o <<p>>, call |-> said.call]
      BY <1>0, <2>1, <3>1
    <3> QED BY <1>0, <2>2, <3>2
  <2>5. Reading => Said(f, <<>>)
    <3> SUFFICES ASSUME Reading PROVE Said(f, <<>>)
      OBVIOUS
    <3>1. ApplyEvent(relay.reader, f).content = relay.reader.content /\ relay.reader.content \in Text
      BY <2>2, WhileReading, Applied DEF Readers
    <3> QED BY <1>0, <2>2, <2>3, <2>4, <3>1 DEF Said
  <2>6. said' \in [text : Text, think : Text, call : Text]
    BY <1>0, <2>2, <2>4
  <2>7. Feed(f)
    BY <2>1 DEF f
  <2> QED BY <1>0, <2>2, <2>3, <2>5, <2>6, <2>7, FeedKeeps
<1>5. CASE SendDone
  <2>1. ASSUME NEW f \in Frames, f.kind \in {"done", "textDone"},
               f.kind = "textDone" => f.finish = NoFinish,
               f.think = <<>>, f.call = <<>>, Feed(f)
        PROVE  StreamTypeOK' /\ StreamInv'
    <3>1. body = "open" /\ body' = "final" /\ UNCHANGED said /\ dialect = "codearts"
      BY <1>5 DEF SendDone, Sends
    <3>2. Reading => Said(f, <<>>)
      <4> SUFFICES ASSUME Reading PROVE Said(f, <<>>)
        OBVIOUS
      <4>1. ApplyEvent(relay.reader, f).content = relay.reader.content /\ relay.reader.content \in Text
        BY <2>1, WhileReading, Applied DEF Readers
      <4>2. said' = [text |-> said.text \o <<>>, think |-> said.think \o f.think,
                     call |-> said.call \o f.call]
        BY <1>0, <2>1, <3>1
      <4> QED BY <1>0, <2>1, <3>1, <4>1, <4>2 DEF Said
    <3> QED BY <1>0, <2>1, <3>1, <3>2, FeedKeeps
  <2>2. ASSUME NEW finish \in Finishes \cup {NoFinish}, Feed(DoneEvent(finish))
        PROVE  StreamTypeOK' /\ StreamInv'
    <3> DEFINE f == DoneEvent(finish)
    <3>1. f \in Frames /\ f.kind = "done" /\ f.think = <<>> /\ f.call = <<>>
      BY <1>0 DEF DoneEvent, Chunk, Frames, Kinds
    <3> HIDE DEF f
    <3>2. Feed(f)
      BY <2>2 DEF f
    <3> QED BY <2>1, <3>1, <3>2
  <2>3. ASSUME Feed(Plain("textDone", <<>>)) PROVE StreamTypeOK' /\ StreamInv'
    <3> DEFINE f == Plain("textDone", <<>>)
    <3>1. f \in Frames /\ f.kind = "textDone" /\ f.think = <<>> /\ f.call = <<>>
          /\ f.finish = NoFinish
      BY <1>0 DEF Plain, Chunk, Frames, Kinds
    <3> HIDE DEF f
    <3>2. Feed(f)
      BY <2>3 DEF f
    <3> QED BY <2>1, <3>1, <3>2
  <2> QED BY <1>5, <2>2, <2>3 DEF SendDone
<1> DEFINE Quiet == Skip /\ said' = said /\ dialect' = dialect
<1>6. ASSUME ~Reading, Quiet, body' # "open", NEW at \in Status,
             agg' = [agg EXCEPT !.at = at]
      PROVE  StreamTypeOK' /\ StreamInv'
  <2>1. agg' \in Readers /\ agg'.content = agg.content /\ agg'.reason = agg.reason
        /\ agg'.call = agg.call /\ agg'.finish = agg.finish
    BY <1>0, <1>6 DEF Readers
  <2>2. StreamTypeOK'
    BY <1>6, <2>1 DEF StreamTypeOK, Skip
  <2>3. StreamInv'
    BY <1>6, <2>1 DEF StreamInv, Skip, BothFollow, ClientUnderWay, Agreed, Reading,
       NothingAfterDone, RewardedWhenDelivered
  <2> QED BY <2>2, <2>3
<1>7. ASSUME Reading, RelayEnd, said' = said, dialect' = dialect, body' # "open",
             NEW at \in Status, agg' = [agg EXCEPT !.at = at]
      PROVE  StreamTypeOK' /\ StreamInv'
  <2>1. agg' \in Readers /\ agg'.content = agg.content /\ agg'.reason = agg.reason
        /\ agg'.call = agg.call /\ agg'.finish = agg.finish
    BY <1>0, <1>7 DEF Readers
  <2>2. /\ relay.reader \in Readers /\ agg = relay.reader /\ relay.includeUsage \in BOOLEAN
        /\ Underway(got, FALSE, FALSE) /\ ~rewarded
        /\ got.text = agg.content /\ got.think = agg.reason /\ got.call = agg.call
        /\ got.finish \in {agg.finish, NoFinish}
    BY <1>7, WhileReading
  <2>3. Deliver(<<>> \o FinishStream, relay.reader, "complete")
    <3>1. FinishStream \in Seq(Outputs)
      BY <2>2, Finished
    <3>2. <<>> \o FinishStream = FinishStream
      BY <3>1
    <3> QED BY <1>7, <3>2 DEF RelayEnd
  <2>4. <<>> \in Seq(Outputs) /\ (\A i \in 1 .. Len(<<>>) : <<>>[i].type = "chunk")
        /\ got = Taken(got, <<>>)
    BY TakenNone
  <2>5. /\ Settled'
        /\ relay'.reader.at = "complete" =>
             /\ got'.text = got.text /\ got'.think = got.think /\ got'.call = got.call
             /\ got'.finish = got.finish
    BY <2>2, <2>3, <2>4, EndKeeps
  <2>6. Agreed'
    BY <1>7, <2>1, <2>2, <2>5 DEF Agreed
  <2> QED
    BY <1>0, <1>7, <2>1, <2>5, <2>6, Stops
<1>8. agg = [agg EXCEPT !.at = agg.at] /\ agg.at \in Status
  BY <1>0 DEF Readers
<1>9. CASE SendDoneMark
  BY <1>6, <1>7, <1>8, <1>9 DEF SendDoneMark
<1>10. CASE SendError
  <2>1. agg' \in Readers /\ "failed" \in Status /\ said' = said /\ dialect' = dialect
    BY <1>0, <1>10 DEF SendError, Readers, Status
  <2>2. CASE Reading
    <3>1. Underway(got, FALSE, FALSE) /\ ~rewarded
      BY <2>2, WhileReading
    <3>2. Settled' /\ relay'.reader.at = "failed"
      BY <1>10, <2>2, <3>1, ErrorKeeps DEF SendError
    <3> QED BY <1>0, <2>1, <3>2, Stops
  <2>3. CASE ~Reading
    BY <1>6, <1>10, <2>1, <2>3 DEF SendError
  <2> QED BY <2>2, <2>3
<1>11. CASE Eof
  <2> DEFINE at == IF agg.at = "reading" THEN "complete" ELSE agg.at
  <2>1. at \in Status /\ agg' = [agg EXCEPT !.at = at]
    BY <1>8, <1>11 DEF Eof, Status
  <2> HIDE DEF at
  <2> QED BY <1>6, <1>7, <1>11, <2>1 DEF Eof
<1>12. CASE Break
  <2>1. agg' \in Readers /\ "failed" \in Status /\ said' = said /\ dialect' = dialect
    BY <1>0, <1>12 DEF Break, Readers, Status
  <2>2. CASE Reading
    <3>1. /\ relay.reader \in Readers /\ Underway(got, FALSE, FALSE) /\ ~rewarded
          /\ NothingAfterDone /\ RewardedWhenDelivered
      BY <2>2, WhileReading DEF StreamInv
    <3>2. relay' = [relay EXCEPT !.reader = [relay.reader EXCEPT !.at = "failed"]]
          /\ got' = got /\ rewarded' = rewarded
      BY <1>12, <2>2 DEF Break, RelayBroken, StreamTypeOK
    <3>3. relay' \in [reader : Readers, includeUsage : BOOLEAN] /\ relay'.reader.at = "failed"
          /\ relay'.includeUsage = relay.includeUsage
      BY <2>1, <3>1, <3>2, EndsAs
    <3>4. Settled'
      BY <3>1, <3>2, <3>3
      DEF Settled, StreamTypeOK, Reading, NothingAfterDone, RewardedWhenDelivered
    <3> QED BY <1>0, <2>1, <3>3, <3>4, Stops
  <2>3. CASE ~Reading
    BY <1>6, <1>12, <2>1, <2>3 DEF Break
  <2> QED BY <2>2, <2>3
<1>13. CASE UNCHANGED vars
  BY <1>13 DEF vars, StreamTypeOK, StreamInv, BothFollow, ClientUnderWay, Agreed, Reading,
     NothingAfterDone, RewardedWhenDelivered
<1> QED
  BY <1>1, <1>2, <1>3, <1>4, <1>5, <1>9, <1>10, <1>11, <1>12, <1>13 DEF Next

LEMMA StreamInvariance == Spec => [](StreamTypeOK /\ StreamInv)
  BY StreamInit, NextKeeps, PTL DEF Spec

(* sse.go:614-698: however long the upstream talks, and however it mixes    *)
(* deltas and snapshots, a streaming client that appends what it gets has   *)
(* all that has been said, until the relay is over.                         *)
THEOREM ClientFollowsAlways == Spec => []ClientFollows
<1>1. StreamInv => ClientFollows
  BY DEF StreamInv, ClientUnderWay, ClientFollows
<1> QED
  BY <1>1, StreamInvariance, PTL

(* A stream relayed to its end is the aggregation of the same body.         *)
THEOREM StreamIsAggregate == Spec => []StreamEqualsAggregate
<1>1. StreamInv => StreamEqualsAggregate
  BY DEF StreamInv, Agreed, StreamEqualsAggregate
<1> QED
  BY <1>1, StreamInvariance, PTL

(* Wherever the stream ends, or a write to the client fails, the end marker *)
(* comes at most once and nothing comes after it.                           *)
THEOREM DoneIsLast == Spec => []NothingAfterDone
<1>1. StreamInv => NothingAfterDone
  BY DEF StreamInv
<1> QED
  BY <1>1, StreamInvariance, PTL

(* onDone, which stores the chat and rewards the account, is called only    *)
(* when the client got the whole stream and no error.                       *)
THEOREM RewardIsEarned == Spec => []RewardedWhenDelivered
<1>1. StreamInv => RewardedWhenDelivered
  BY DEF StreamInv
<1> QED
  BY <1>1, StreamInvariance, PTL

-----------------------------------------------------------------------------
(* Histories.                                                              *)

\* The result of a call is one of its results.
LEMMA ResultIsResult ==
  ASSUME NEW h, NEW n \in Nat, DOMAIN h = 1 .. n, NEW id, Results(h, id) # {}
  PROVE  ResultIndex(h, id) \in Results(h, id)
<1>1. Results(h, id) \in SUBSET (1 .. n)
  BY DEF Results
<1>2. \E i \in Results(h, id) : \A j \in Results(h, id) : j <= i
  <2> HIDE DEF Results
  <2> QED BY <1>1, Greatest
<1> QED BY <1>2 DEF ResultIndex

\* A call that is kept has a result that is kept.
LEMMA KeptTogether ==
  ASSUME NEW h, NEW n \in Nat, DOMAIN h = 1 .. n,
         NEW i \in KeepCalls(h), NEW id \in h[i].calls
  PROVE  /\ ResultIndex(h, id) \in KeepResults(h)
         /\ ResultIndex(h, id) \in DOMAIN h
         /\ h[ResultIndex(h, id)].role = "tool"
         /\ h[ResultIndex(h, id)].answers = id
<1>1. Results(h, id) # {}
  BY DEF KeepCalls, Complete
<1>2. ResultIndex(h, id) \in Results(h, id)
  BY <1>1, ResultIsResult
<1>3. ResultIndex(h, id) \in KeepResults(h)
  BY DEF KeepResults
<1> QED BY <1>2, <1>3 DEF Results

LEMMA NoOrphansAnywhere ==
  ASSUME NEW h, NEW n \in Nat, DOMAIN h = 1 .. n
  PROVE  NoOrphansIn(h)
<1> SUFFICES ASSUME NEW i \in Sent(h)
    PROVE /\ \A id \in SentCalls(h, i) :
                \E j \in Sent(h) : h[j].role = "tool" /\ h[j].answers = id
          /\ h[i].role = "tool" =>
                \E j \in Sent(h) : h[i].answers \in SentCalls(h, j)
  BY DEF NoOrphansIn
<1>1. ASSUME NEW id \in SentCalls(h, i)
      PROVE  \E j \in Sent(h) : h[j].role = "tool" /\ h[j].answers = id
  <2>1. i \in KeepCalls(h) /\ id \in h[i].calls
    BY <1>1 DEF SentCalls
  <2>2. ResultIndex(h, id) \in Sent(h)
    BY <2>1, KeptTogether DEF Sent
  <2> QED BY <2>1, <2>2, KeptTogether
<1>2. ASSUME h[i].role = "tool"
      PROVE  \E j \in Sent(h) : h[i].answers \in SentCalls(h, j)
  <2>1. i \in KeepResults(h)
    BY <1>2 DEF Sent
  <2>2. PICK k \in KeepCalls(h) : \E id \in h[k].calls : i = ResultIndex(h, id)
    BY <2>1 DEF KeepResults
  <2>3. h[i].answers \in h[k].calls
    BY <2>2, KeptTogether
  <2>4. k \in Sent(h)
    BY DEF KeepCalls, Sent
  <2> QED BY <2>3, <2>4 DEF SentCalls
<1> QED BY <1>1, <1>2

\* The history is one of messages as the parser makes them.
HistoryParsed == history \in Seq(Parsed)

LEMMA Histories == HistorySpec => []HistoryParsed
<1>1. HistoryInit => HistoryParsed
  BY DEF HistoryInit, HistoryParsed
<1>2. HistoryParsed /\ [AddMessage]_history => HistoryParsed'
  <2> SUFFICES ASSUME HistoryParsed, [AddMessage]_history PROVE HistoryParsed'
    OBVIOUS
  <2>1. CASE AddMessage
    BY <2>1 DEF AddMessage, HistoryParsed
  <2>2. CASE UNCHANGED history
    BY <2>2 DEF HistoryParsed
  <2> QED BY <2>1, <2>2
<1> QED BY <1>1, <1>2, PTL DEF HistorySpec

\* Nothing that is sent is an orphan: see NoOrphans.
THEOREM NothingOrphaned == HistorySpec => []NoOrphans
<1>1. HistoryParsed => NoOrphans
  <2> SUFFICES ASSUME HistoryParsed PROVE NoOrphans
    OBVIOUS
  <2>1. Len(history) \in Nat /\ DOMAIN history = 1 .. Len(history)
    BY DEF HistoryParsed
  <2> QED BY <2>1, NoOrphansAnywhere DEF NoOrphans
<1> QED BY <1>1, Histories, PTL

\* Calls are made by assistants alone.
LEMMA CallersAssist ==
  ASSUME NEW m \in Parsed, m.calls # {} PROVE m.role = "assistant"
BY DEF Parsed, User, Assistant, Tool, NoText

\* Calls are dropped for a missing result alone: see OnlyBrokenTurnsDropped.
THEOREM BrokenTurnsDropped == HistorySpec => []OnlyBrokenTurnsDropped
<1>1. HistoryParsed => OnlyBrokenTurnsDropped
  <2> DEFINE h == history
             broken(k) == \E id \in h[k].calls : Results(h, id) = {}
  <2> SUFFICES ASSUME HistoryParsed, NamedApart(h), NEW i \in DOMAIN h
      PROVE /\ h[i].role = "assistant" /\ SentCalls(h, i) # h[i].calls => broken(i)
            /\ h[i].role = "tool" /\ i \notin Sent(h)
                 => \A k \in {k \in DOMAIN h : h[i].answers \in h[k].calls} \cup {i} :
                      k # i => broken(k) \/ h[i].answers = NoId
    BY DEF OnlyBrokenTurnsDropped
  <2>0. Len(h) \in Nat /\ DOMAIN h = 1 .. Len(h)
    BY DEF HistoryParsed
  <2>1. ASSUME NEW k \in DOMAIN h, h[k].role = "assistant", h[k].calls # {},
               k \notin KeepCalls(h)
        PROVE  broken(k)
    <3>1. PICK id \in h[k].calls : id = NoId \/ Results(h, id) = {}
      BY <2>1 DEF KeepCalls, Complete
    <3>2. Results(h, NoId) = {}
      BY DEF Results
    <3> QED BY <3>1, <3>2
  <2>2. ASSUME h[i].role = "assistant", SentCalls(h, i) # h[i].calls
        PROVE  broken(i)
    <3>1. i \notin KeepCalls(h) /\ h[i].calls # {}
      BY <2>2 DEF SentCalls
    <3> QED BY <2>1, <2>2, <3>1
  <2>3. ASSUME h[i].role = "tool", i \notin Sent(h), NEW k \in DOMAIN h,
               h[i].answers \in h[k].calls, h[i].answers # NoId
        PROVE  broken(k)
    <3> DEFINE id == h[i].answers
    <3>1. i \in Results(h, id)
      BY <2>3 DEF Results
    <3>2. \A j \in Results(h, id) : j = i
      BY <2>3 DEF NamedApart, Results
    <3>3. ResultIndex(h, id) = i
      BY <3>1, <3>2, <2>0, ResultIsResult
    <3>4. k \notin KeepCalls(h)
      BY <2>0, <2>3, <3>3, KeptTogether DEF Sent
    <3>5. h[k] \in Parsed
      BY <2>0 DEF HistoryParsed
    <3>6. h[k].role = "assistant" /\ h[k].calls # {}
      BY <2>3, <3>5, CallersAssist
    <3> QED BY <2>1, <3>4, <3>6
  <2> QED BY <2>2, <2>3
<1> QED BY <1>1, Histories, PTL

\* A user message added to a history that has one does not become its anchor.
LEMMA AnchorStays ==
  ASSUME NEW h \in Seq(Parsed), NEW m \in Parsed, UserTurns(h) # {}
  PROVE  /\ UserTurns(Append(h, m)) # {}
         /\ Anchor(Append(h, m)) = Anchor(h)
         /\ Append(h, m)[Anchor(h)] = h[Anchor(h)]
<1> DEFINE g == Append(h, m)
           a == Anchor(h)
<1>1. /\ DOMAIN h = 1 .. Len(h) /\ DOMAIN g = 1 .. Len(h) + 1 /\ Len(h) \in Nat
      /\ \A i \in DOMAIN h : g[i] = h[i]
  OBVIOUS
<1>2. UserTurns(h) \in SUBSET Nat /\ UserTurns(h) \subseteq DOMAIN h
  BY <1>1 DEF UserTurns
<1>3. \E i \in UserTurns(h) : \A j \in UserTurns(h) : i <= j
  BY <1>2, Least
<1>4. a \in UserTurns(h) /\ \A j \in UserTurns(h) : a <= j
  BY <1>3 DEF Anchor
<1>5. a \in UserTurns(g)
  BY <1>1, <1>4 DEF UserTurns
<1>6. ASSUME NEW j \in UserTurns(g) PROVE a <= j /\ j \in Nat
  <2>1. CASE j \in DOMAIN h
    BY <1>1, <1>4, <2>1 DEF UserTurns
  <2>2. CASE j = Len(h) + 1
    BY <1>1, <1>2, <1>4, <2>2
  <2> QED BY <1>1, <2>1, <2>2 DEF UserTurns
<1>7. \A i \in UserTurns(g) : (\A j \in UserTurns(g) : i <= j) => i = a
  BY <1>5, <1>6
<1>8. Anchor(g) = a
  <2> HIDE DEF a, g
  <2> QED BY <1>5, <1>6, <1>7 DEF Anchor
<1> QED BY <1>1, <1>2, <1>4, <1>5, <1>8

\* A chat keeps its id: see ChatIdStable.
THEOREM ChatKeepsId == HistorySpec => ChatIdStable
<1>1. HistoryParsed /\ [AddMessage]_history
        => [ChatId(history) # NoChat => ChatId(history)' = ChatId(history)]_history
  <2> SUFFICES ASSUME HistoryParsed, AddMessage, ChatId(history) # NoChat
      PROVE ChatId(history)' = ChatId(history)
    OBVIOUS
  <2>1. PICK m \in Parsed : history' = Append(history, m)
    BY DEF AddMessage
  <2>2. CASE Explicit # NoChat
    BY <2>2 DEF ChatId
  <2>3. CASE Explicit = NoChat
    <3>1. UserTurns(history) # {}
      BY <2>3 DEF ChatId
    <3>2. /\ UserTurns(history') # {}
          /\ Anchor(history') = Anchor(history)
          /\ history'[Anchor(history)] = history[Anchor(history)]
      BY <2>1, <3>1, AnchorStays DEF HistoryParsed
    <3> QED BY <2>3, <3>1, <3>2 DEF ChatId
  <2> QED BY <2>2, <2>3
<1> QED BY <1>1, Histories, PTL DEF HistorySpec, ChatIdStable

-----------------------------------------------------------------------------
(* Tool calls in a text: positions.                                        *)

\* First is the first position, or 0 without one.
LEMMA FirstIs ==
  ASSUME NEW s, NEW tokens, NEW from \in Nat \ {0}, Len(s) \in Nat
  PROVE  \/ /\ First(s, tokens, from) = 0
            /\ \A i \in from .. Len(s) : s[i] \notin tokens
         \/ /\ First(s, tokens, from) \in from .. Len(s)
            /\ s[First(s, tokens, from)] \in tokens
            /\ \A i \in from .. First(s, tokens, from) - 1 : s[i] \notin tokens
<1> DEFINE at == {i \in from .. Len(s) : s[i] \in tokens}
<1>1. CASE at = {}
  BY <1>1 DEF First
<1>2. CASE at # {}
  <2>1. at \in SUBSET Nat
    OBVIOUS
  <2>2. \E i \in at : \A j \in at : i <= j
    <3> HIDE DEF at
    <3> QED BY <1>2, <2>1, Least
  <2> DEFINE f == CHOOSE i \in at : \A j \in at : i <= j
  <2>3. f \in at /\ \A j \in at : f <= j
    BY <2>2
  <2>4. First(s, tokens, from) = f
    BY <1>2 DEF First
  <2> HIDE DEF f
  <2>5. \A i \in from .. f - 1 : s[i] \notin tokens
    BY <2>3
  <2> QED BY <2>3, <2>4, <2>5
<1> QED BY <1>1, <1>2

\* There is only one first position.
LEMMA FirstAt ==
  ASSUME NEW s, NEW tokens, NEW from \in Nat \ {0}, Len(s) \in Nat,
         NEW f \in from .. Len(s), s[f] \in tokens,
         \A i \in from .. f - 1 : s[i] \notin tokens
  PROVE  First(s, tokens, from) = f
<1> DEFINE g == First(s, tokens, from)
<1>1. \/ /\ g = 0
         /\ \A i \in from .. Len(s) : s[i] \notin tokens
      \/ /\ g \in from .. Len(s)
         /\ s[g] \in tokens
         /\ \A i \in from .. g - 1 : s[i] \notin tokens
  BY FirstIs
<1> HIDE DEF g
<1>2. g \in from .. Len(s) /\ s[g] \in tokens /\ \A i \in from .. g - 1 : s[i] \notin tokens
  BY <1>1
<1>3. ~ (g < f) /\ ~ (f < g)
  BY <1>2
<1>4. g = f
  BY <1>2, <1>3
<1> QED BY <1>4 DEF g

\* The part of a text behind k.
Behind(s, k) == SubSeq(s, k + 1, Len(s))

LEMMA TokensBehind ==
  ASSUME NEW s \in Seq(Tokens), NEW k \in 0 .. Len(s)
  PROVE  /\ Behind(s, k) \in Seq(Tokens)
         /\ Len(Behind(s, k)) = Len(s) - k
         /\ \A j \in k + 1 .. Len(s) : Behind(s, k)[j - k] = s[j]
<1>1. Len(s) \in Nat /\ k + 1 \in Int
  OBVIOUS
<1>2. \A i \in k + 1 .. Len(s) : s[i] \in Tokens
  OBVIOUS
<1>3. /\ SubSeq(s, k + 1, Len(s)) \in Seq(Tokens)
      /\ Len(SubSeq(s, k + 1, Len(s))) = IF k + 1 <= Len(s) THEN Len(s) - (k + 1) + 1 ELSE 0
      /\ \A i \in 1 .. Len(s) - (k + 1) + 1 : SubSeq(s, k + 1, Len(s))[i] = s[(k + 1) + i - 1]
  BY <1>1, <1>2, SubSeqProperties
<1>4. ASSUME NEW j \in k + 1 .. Len(s) PROVE SubSeq(s, k + 1, Len(s))[j - k] = s[j]
  <2>1. j - k \in 1 .. Len(s) - (k + 1) + 1 /\ (k + 1) + (j - k) - 1 = j
    BY <1>1
  <2> QED BY <1>3, <2>1
<1> QED BY <1>1, <1>3, <1>4 DEF Behind

\* A text that has been cut: what is kept of its beginning, and the part behind k.
LEMMA Remains ==
  ASSUME NEW s \in Seq(Tokens), NEW k \in 0 .. Len(s), NEW kept \in Seq(Tokens)
  PROVE  /\ kept \o Behind(s, k) \in Seq(Tokens)
         /\ Len(kept \o Behind(s, k)) = Len(kept) + Len(s) - k
         /\ \A i \in 1 .. Len(kept) : (kept \o Behind(s, k))[i] = kept[i]
         /\ \A j \in k + 1 .. Len(s) : (kept \o Behind(s, k))[Len(kept) + j - k] = s[j]
<1> DEFINE rest == Behind(s, k)
<1>1. rest \in Seq(Tokens) /\ Len(rest) = Len(s) - k /\ \A j \in k + 1 .. Len(s) : rest[j - k] = s[j]
  BY TokensBehind
<1> HIDE DEF rest
<1>2. Len(kept) \in Nat /\ Len(s) \in Nat
  OBVIOUS
<1>3. /\ kept \o rest \in Seq(Tokens)
      /\ Len(kept \o rest) = Len(kept) + Len(rest)
      /\ \A i \in 1 .. Len(kept) + Len(rest) :
           (kept \o rest)[i] = IF i <= Len(kept) THEN kept[i] ELSE rest[i - Len(kept)]
  BY <1>1, ConcatProperties
<1>4. \A i \in 1 .. Len(kept) : (kept \o rest)[i] = kept[i]
  BY <1>1, <1>2, <1>3
<1>5. ASSUME NEW j \in k + 1 .. Len(s) PROVE (kept \o rest)[Len(kept) + j - k] = s[j]
  <2>1. /\ Len(kept) + j - k \in 1 .. Len(kept) + Len(rest)
        /\ ~ (Len(kept) + j - k <= Len(kept))
        /\ (Len(kept) + j - k) - Len(kept) = j - k
    BY <1>1, <1>2
  <2> QED BY <1>1, <1>3, <2>1
<1>6. Len(kept \o rest) = Len(kept) + Len(s) - k
  BY <1>1, <1>2, <1>3
<1> QED BY <1>3, <1>4, <1>5, <1>6 DEF rest

Joined(rest, s, k, kept) ==
  /\ Len(rest) = Len(kept) + Len(s) - k
  /\ \A j \in 1 .. Len(kept) : rest[j] = kept[j]
  /\ \A j \in k + 1 .. Len(s) : rest[Len(kept) + j - k] = s[j]

LEMMA RemainsJoined ==
  ASSUME NEW s \in Seq(Tokens), NEW k \in 0 .. Len(s), NEW kept \in Seq(Tokens)
  PROVE  Joined(kept \o Behind(s, k), s, k, kept)
BY Remains DEF Joined

-----------------------------------------------------------------------------
(* The search: turn by turn.                                               *)

Fence == {"open", "close"}

\* Behind k, the first block goes from a to b.
NextBlock(s, k, a, b) ==
  /\ k < a /\ a < b /\ b <= Len(s)
  /\ s[a] = "open" /\ \A i \in k + 1 .. a - 1 : s[i] # "open"
  /\ s[b] \in Fence /\ \A i \in a + 1 .. b - 1 : s[i] \notin Fence

\* What the search keeps of the text up to b.
Kept(s, k, kept, a, b) ==
  kept \o SubSeq(s, k + 1, a - 1) \o (IF s[b] = "open" THEN <<"word">> ELSE <<>>)

\* The search has found calls and is left with what it kept and the part behind k.
Searched(s, calls, k, kept) ==
  [calls |-> calls, rest |-> kept \o Behind(s, k)]

LEMMA Between ==
  ASSUME NEW s \in Seq(Tokens), NEW i \in 0 .. Len(s), NEW j \in i .. Len(s)
  PROVE  /\ SubSeq(s, i + 1, j) \in Seq(Tokens)
         /\ Len(SubSeq(s, i + 1, j)) = j - i
         /\ \A n \in 1 .. j - i : SubSeq(s, i + 1, j)[n] = s[i + n]
<1>1. Len(s) \in Nat /\ i \in Nat /\ j \in Nat /\ i + 1 \in Int /\ i <= j /\ j <= Len(s)
  BY LenProperties
<1>2. \A n \in i + 1 .. j : s[n] \in Tokens
  BY <1>1
<1>3. /\ SubSeq(s, i + 1, j) \in Seq(Tokens)
      /\ Len(SubSeq(s, i + 1, j)) = IF i + 1 <= j THEN j - (i + 1) + 1 ELSE 0
      /\ \A n \in 1 .. j - (i + 1) + 1 : SubSeq(s, i + 1, j)[n] = s[(i + 1) + n - 1]
  BY <1>1, <1>2, SubSeqProperties
<1>4. ASSUME NEW n \in 1 .. j - i PROVE SubSeq(s, i + 1, j)[n] = s[i + n]
  <2>1. n \in 1 .. j - (i + 1) + 1 /\ (i + 1) + n - 1 = i + n
    BY <1>1
  <2> QED BY <1>3, <2>1
<1> QED BY <1>1, <1>3, <1>4

\* Where a turn looks for a block, and what it cuts out.
LEMMA CutsBlock ==
  ASSUME NEW s \in Seq(Tokens), NEW k \in 0 .. Len(s), NEW kept \in Seq(Tokens),
         \A i \in 1 .. Len(kept) : kept[i] # "open",
         NEW calls, NEW a \in Nat, NEW b \in Nat, NextBlock(s, k, a, b)
  PROVE  CutBlock(Searched(s, calls, k, kept))
           = Searched(s, calls \o ParseCallBlock(SubSeq(s, a + 1, b - 1)), b,
                      Kept(s, k, kept, a, b))
<1> DEFINE r == kept \o Behind(s, k)
           p == Len(kept)
           n == Len(s)
           x == p + a - k
           y == p + b - k
           w == IF s[b] = "open" THEN <<"word">> ELSE <<>>
<1>1. p \in Nat /\ n \in Nat /\ k \in 0 .. n /\ k < a /\ a < b /\ b <= n
  BY LenProperties DEF NextBlock
<1>2. /\ r \in Seq(Tokens)
      /\ Len(r) = p + n - k
      /\ \A i \in 1 .. p : r[i] = kept[i]
      /\ \A j \in k + 1 .. n : r[p + j - k] = s[j]
  BY Remains
<1> HIDE DEF r, p, n
<1>3. \A j \in p + 1 .. p + n - k : r[j] = s[j + k - p]
  <2> SUFFICES ASSUME NEW j \in p + 1 .. p + n - k PROVE r[j] = s[j + k - p]
    OBVIOUS
  <2>1. j + k - p \in k + 1 .. n /\ p + (j + k - p) - k = j
    BY <1>1
  <2> QED BY <1>2, <2>1
<1>4. First(r, {"open"}, 1) = x
  <2>1. x \in 1 .. Len(r) /\ r[x] = s[a]
    BY <1>1, <1>2
  <2>2. ASSUME NEW i \in 1 .. x - 1 PROVE r[i] # "open"
    <3>1. CASE i <= p
      <4>1. i \in 1 .. p
        BY <1>1, <3>1
      <4>2. r[i] = kept[i] /\ kept[i] # "open"
        BY <1>2, <4>1 DEF p
      <4> QED BY <4>2
    <3>2. CASE i > p
      <4>1. r[i] = s[i + k - p] /\ i + k - p \in k + 1 .. a - 1
        BY <1>1, <1>3, <3>2
      <4> QED BY <4>1 DEF NextBlock
    <3> QED BY <1>1, <3>1, <3>2
  <2>3. r[x] \in {"open"} /\ \A i \in 1 .. x - 1 : r[i] \notin {"open"}
    BY <2>1, <2>2 DEF NextBlock
  <2> HIDE DEF x
  <2>4. Len(r) \in Nat
    BY <1>1, <1>2
  <2> QED BY <2>1, <2>3, <2>4, FirstAt
<1>5. First(r, Fence, x + 1) = y
  <2>1. y \in x + 1 .. Len(r) /\ r[y] = s[b] /\ x + 1 \in Nat \ {0}
    BY <1>1, <1>2
  <2>2. ASSUME NEW i \in x + 1 .. y - 1 PROVE r[i] \notin Fence
    <3>1. r[i] = s[i + k - p] /\ i + k - p \in a + 1 .. b - 1
      BY <1>1, <1>3
    <3> QED BY <3>1 DEF NextBlock
  <2>3. r[y] \in Fence
    BY <2>1 DEF NextBlock
  <2>4. Len(r) \in Nat
    BY <1>1, <1>2
  <2> HIDE DEF x, y
  <2> QED BY <2>1, <2>2, <2>3, <2>4, FirstAt
<1>6. SubSeq(r, x + 1, y - 1) = SubSeq(s, a + 1, b - 1)
  <2>1. /\ SubSeq(r, x + 1, y - 1) \in Seq(Tokens)
        /\ Len(SubSeq(r, x + 1, y - 1)) = b - a - 1
        /\ \A i \in 1 .. b - a - 1 : SubSeq(r, x + 1, y - 1)[i] = r[x + i]
    <3>1. x \in 0 .. Len(r) /\ y - 1 \in x .. Len(r) /\ (y - 1) - x = b - a - 1
      BY <1>1, <1>2
    <3> HIDE DEF x, y
    <3>2. /\ SubSeq(r, x + 1, y - 1) \in Seq(Tokens)
          /\ Len(SubSeq(r, x + 1, y - 1)) = (y - 1) - x
          /\ \A i \in 1 .. (y - 1) - x : SubSeq(r, x + 1, y - 1)[i] = r[x + i]
      BY <1>2, <3>1, Between
    <3> QED BY <3>1, <3>2
  <2>2. /\ SubSeq(s, a + 1, b - 1) \in Seq(Tokens)
        /\ Len(SubSeq(s, a + 1, b - 1)) = b - a - 1
        /\ \A i \in 1 .. b - a - 1 : SubSeq(s, a + 1, b - 1)[i] = s[a + i]
    <3>1. a \in 0 .. Len(s) /\ b - 1 \in a .. Len(s) /\ (b - 1) - a = b - a - 1
      BY <1>1 DEF n
    <3>2. /\ SubSeq(s, a + 1, b - 1) \in Seq(Tokens)
          /\ Len(SubSeq(s, a + 1, b - 1)) = (b - 1) - a
          /\ \A i \in 1 .. (b - 1) - a : SubSeq(s, a + 1, b - 1)[i] = s[a + i]
      BY <3>1, Between
    <3> QED BY <3>1, <3>2
  <2>3. ASSUME NEW i \in 1 .. b - a - 1 PROVE r[x + i] = s[a + i]
    <3>1. x + i \in p + 1 .. p + n - k /\ (x + i) + k - p = a + i
      BY <1>1
    <3> QED BY <1>3, <3>1
  <2> HIDE DEF x, y
  <2> DEFINE u == SubSeq(r, x + 1, y - 1)
             v == SubSeq(s, a + 1, b - 1)
  <2>4. u \in Seq(Tokens) /\ v \in Seq(Tokens) /\ Len(u) = Len(v)
        /\ \A i \in 1 .. Len(u) : u[i] = v[i]
    BY <2>1, <2>2, <2>3
  <2> HIDE DEF u, v
  <2>5. u = v
    BY <2>4, SeqEqual
  <2> QED BY <2>5 DEF u, v
<1>7. SubSeq(r, 1, x - 1) = kept \o SubSeq(s, k + 1, a - 1)
  <2> DEFINE u == SubSeq(r, 1, x - 1)
             v == SubSeq(s, k + 1, a - 1)
  <2>1. /\ u \in Seq(Tokens) /\ Len(u) = x - 1
        /\ \A i \in 1 .. x - 1 : u[i] = r[i]
    <3>1. 0 \in 0 .. Len(r) /\ x - 1 \in 0 .. Len(r) /\ (x - 1) - 0 = x - 1 /\ 0 + 1 = 1
          /\ \A i \in 1 .. x - 1 : 0 + i = i
      BY <1>1, <1>2
    <3> HIDE DEF x
    <3>2. /\ SubSeq(r, 0 + 1, x - 1) \in Seq(Tokens)
          /\ Len(SubSeq(r, 0 + 1, x - 1)) = (x - 1) - 0
          /\ \A i \in 1 .. (x - 1) - 0 : SubSeq(r, 0 + 1, x - 1)[i] = r[0 + i]
      BY <1>2, <3>1, Between
    <3> QED BY <3>1, <3>2
  <2>2. /\ v \in Seq(Tokens) /\ Len(v) = a - 1 - k
        /\ \A i \in 1 .. a - 1 - k : v[i] = s[k + i]
    <3>1. k \in 0 .. Len(s) /\ a - 1 \in k .. Len(s)
      BY <1>1 DEF n
    <3> QED BY <3>1, Between
  <2> HIDE DEF u, v
  <2>3. /\ kept \o v \in Seq(Tokens) /\ Len(kept \o v) = p + Len(v)
        /\ \A i \in 1 .. p + Len(v) : (kept \o v)[i] = IF i <= p THEN kept[i] ELSE v[i - p]
    BY <2>2, ConcatProperties DEF p
  <2>4. ASSUME NEW i \in 1 .. x - 1 PROVE u[i] = (kept \o v)[i]
    <3>1. CASE i <= p
      <4>1. i \in 1 .. p /\ i \in 1 .. p + Len(v)
        BY <1>1, <2>2, <3>1
      <4>2. u[i] = r[i] /\ r[i] = kept[i] /\ (kept \o v)[i] = kept[i]
        BY <1>2, <2>1, <2>3, <3>1, <4>1
      <4> QED BY <4>2
    <3>2. CASE i > p
      <4>1. i - p \in 1 .. a - 1 - k /\ i \in p + 1 .. p + n - k /\ k + (i - p) = i + k - p
        BY <1>1, <3>2
      <4>2. u[i] = s[i + k - p]
        BY <1>3, <2>1, <4>1
      <4>3. (kept \o v)[i] = v[i - p]
        <5>1. i \in 1 .. p + Len(v) /\ ~ (i <= p)
          BY <1>1, <2>2, <3>2
        <5> QED BY <2>3, <5>1
      <4> QED BY <2>2, <4>1, <4>2, <4>3
    <3>3. i <= p \/ i > p
      BY <1>1
    <3> QED BY <3>1, <3>2, <3>3
  <2>5. Len(u) = Len(kept \o v)
    BY <1>1, <2>1, <2>2, <2>3
  <2>6. u = kept \o v
    BY <2>1, <2>3, <2>4, <2>5, SeqEqual
  <2> QED BY <2>6 DEF u, v
<1>8. SubSeq(r, y + 1, Len(r)) = Behind(s, b)
  <2> DEFINE u == SubSeq(r, y + 1, Len(r))
             v == Behind(s, b)
  <2>1. /\ u \in Seq(Tokens) /\ Len(u) = n - b
        /\ \A i \in 1 .. n - b : u[i] = r[y + i]
    <3>1. y \in 0 .. Len(r) /\ Len(r) \in y .. Len(r) /\ Len(r) - y = n - b
      BY <1>1, <1>2
    <3> HIDE DEF y
    <3>2. /\ SubSeq(r, y + 1, Len(r)) \in Seq(Tokens)
          /\ Len(SubSeq(r, y + 1, Len(r))) = Len(r) - y
          /\ \A i \in 1 .. Len(r) - y : SubSeq(r, y + 1, Len(r))[i] = r[y + i]
      BY <1>2, <3>1, Between
    <3> QED BY <3>1, <3>2
  <2>2. /\ v \in Seq(Tokens) /\ Len(v) = n - b
        /\ \A j \in b + 1 .. n : v[j - b] = s[j]
    <3>1. b \in 0 .. Len(s)
      BY <1>1 DEF n
    <3> QED BY <3>1, TokensBehind DEF n
  <2> HIDE DEF u, v
  <2>3. ASSUME NEW i \in 1 .. n - b PROVE u[i] = v[i]
    <3>1. b + i \in b + 1 .. n /\ (b + i) - b = i
      BY <1>1
    <3>2. y + i \in p + 1 .. p + n - k /\ (y + i) + k - p = b + i
      BY <1>1
    <3>3. r[y + i] = s[b + i]
      BY <1>3, <3>2
    <3> QED BY <2>1, <2>2, <3>1, <3>3
  <2>4. u = v
    BY <2>1, <2>2, <2>3, SeqEqual
  <2> QED BY <2>4 DEF u, v
<1>9. r[y] = s[b]
  <2>1. b \in k + 1 .. n
    BY <1>1
  <2> QED BY <1>2, <2>1
<1>10. CutOut(r, x, y) = Kept(s, k, kept, a, b) \o Behind(s, b)
  BY <1>7, <1>8, <1>9 DEF CutOut, Kept
<1>11. x # 0 /\ y # 0
  BY <1>1
<1> DEFINE f == [calls |-> calls, rest |-> r]
<1>12. CutBlock(f) = [calls |-> calls \o ParseCallBlock(SubSeq(r, x + 1, y - 1)),
                      rest |-> CutOut(r, x, y)]
  <2> HIDE DEF x, y
  <2>1. f.rest = r /\ f.calls = calls
    OBVIOUS
  <2>2. First(f.rest, {"open"}, 1) = x
    BY <1>4, <2>1
  <2>3. First(f.rest, {"open", "close"}, x + 1) = y
    BY <1>5, <2>1 DEF Fence
  <2> HIDE DEF f
  <2> QED BY <1>11, <2>1, <2>2, <2>3 DEF CutBlock
<1> QED BY <1>6, <1>10, <1>12 DEF Searched, r

\* Without a block a turn changes nothing.
LEMMA CutsNothing ==
  ASSUME NEW s \in Seq(Tokens), NEW k \in 0 .. Len(s), NEW kept \in Seq(Tokens),
         \A i \in 1 .. Len(kept) : kept[i] # "open",
         NEW calls, ~ \E a, b \in Nat : NextBlock(s, k, a, b)
  PROVE  CutBlock(Searched(s, calls, k, kept)) = Searched(s, calls, k, kept)
<1> DEFINE r == kept \o Behind(s, k)
           p == Len(kept)
           n == Len(s)
           x == First(r, {"open"}, 1)
           y == IF x = 0 THEN 0 ELSE First(r, Fence, x + 1)
           f == [calls |-> calls, rest |-> r]
<1>1. p \in Nat /\ n \in Nat /\ k \in 0 .. n
  BY LenProperties
<1>2. /\ r \in Seq(Tokens)
      /\ Len(r) = p + n - k
      /\ \A i \in 1 .. p : r[i] = kept[i]
      /\ \A j \in k + 1 .. n : r[p + j - k] = s[j]
  BY Remains
<1> HIDE DEF r
<1>3. Len(r) \in Nat
  BY <1>1, <1>2
<1>4. ASSUME y # 0 PROVE FALSE
  <2>1. x # 0
    BY <1>4
  <2>2. x \in 1 .. Len(r) /\ r[x] = "open" /\ \A i \in 1 .. x - 1 : r[i] # "open"
    BY <1>3, <2>1, FirstIs
  <2> HIDE DEF x
  <2>3. y \in x + 1 .. Len(r) /\ r[y] \in Fence /\ \A i \in x + 1 .. y - 1 : r[i] \notin Fence
    <3>1. x + 1 \in Nat \ {0} /\ y = First(r, Fence, x + 1)
      BY <2>1, <2>2
    <3> HIDE DEF y
    <3> QED BY <1>3, <1>4, <3>1, FirstIs
  <2> HIDE DEF y
  <2> DEFINE a == x + k - p
             b == y + k - p
  <2>4. ~ (x <= p)
    <3>1. ASSUME x <= p PROVE FALSE
      <4>1. x \in 1 .. p
        BY <1>1, <2>2, <3>1
      <4>2. r[x] = kept[x]
        BY <1>2, <4>1
      <4> QED BY <2>2, <4>1, <4>2
    <3> QED BY <3>1
  <2> HIDE DEF p, n
  <2>5. a \in k + 1 .. n /\ b \in k + 1 .. n /\ a < b /\ a \in Nat /\ b \in Nat
    BY <1>1, <1>2, <2>2, <2>3, <2>4
  <2>6. p + a - k = x /\ p + b - k = y
    BY <1>1, <2>2, <2>3
  <2> HIDE DEF a, b
  <2>7. s[a] = "open" /\ s[b] \in Fence
    <3>1. r[p + a - k] = s[a] /\ r[p + b - k] = s[b]
      BY <1>2, <2>5
    <3> QED BY <2>2, <2>3, <2>6, <3>1
  <2>8. ASSUME NEW i \in k + 1 .. a - 1 PROVE s[i] # "open"
    <3>1. i \in k + 1 .. n /\ p + i - k \in 1 .. x - 1
      BY <1>1, <2>2, <2>5, <2>6
    <3>2. r[p + i - k] = s[i]
      BY <1>2, <3>1
    <3> QED BY <2>2, <3>1, <3>2
  <2>9. ASSUME NEW i \in a + 1 .. b - 1 PROVE s[i] \notin Fence
    <3>1. i \in k + 1 .. n /\ p + i - k \in x + 1 .. y - 1
      BY <1>1, <2>2, <2>3, <2>5, <2>6
    <3>2. r[p + i - k] = s[i]
      BY <1>2, <3>1
    <3> QED BY <2>3, <3>1, <3>2
  <2>10. NextBlock(s, k, a, b)
    <3>1. k < a /\ b <= Len(s)
      BY <1>1, <2>5 DEF n
    <3> QED BY <2>5, <2>7, <2>8, <2>9, <3>1 DEF NextBlock
  <2> QED BY <2>5, <2>10
<1>5. CutBlock(f) = f
  <2>1. f.rest = r
    OBVIOUS
  <2>2. First(f.rest, {"open"}, 1) = x
    BY <2>1
  <2>3. y = IF x = 0 THEN 0 ELSE First(f.rest, {"open", "close"}, x + 1)
    BY <2>1 DEF Fence
  <2>4. y = 0
    BY <1>4
  <2> HIDE DEF f, x, y
  <2> QED BY <2>2, <2>3, <2>4 DEF CutBlock
<1> QED BY <1>5 DEF Searched, r

\* What is kept comes from before, from between two blocks, or is what is left
\* of a fence.
LEMMA KeptIn ==
  ASSUME NEW X, NEW s \in Seq(Tokens), NEW k \in 0 .. Len(s), NEW kept \in Seq(X),
         NEW a \in Nat, NEW b \in Nat, NextBlock(s, k, a, b),
         \A j \in k + 1 .. a - 1 : s[j] \in X,
         s[b] = "open" => "word" \in X
  PROVE  Kept(s, k, kept, a, b) \in Seq(X)
<1> DEFINE v == SubSeq(s, k + 1, a - 1)
           u == kept \o v
           w == IF s[b] = "open" THEN <<"word">> ELSE <<>>
<1>1. v \in Seq(X)
  <2>1. k + 1 \in Int /\ a - 1 \in Int
    BY LenProperties
  <2> QED BY <2>1, SubSeqProperties
<1> HIDE DEF v
<1>2. u \in Seq(X)
  BY <1>1, ConcatProperties
<1>3. w \in Seq(X)
  <2>1. CASE s[b] = "open"
    <3>1. w = <<"word">>
      BY <2>1
    <3> HIDE DEF w
    <3> QED BY <2>1, <3>1
  <2>2. CASE s[b] # "open"
    <3>1. w = <<>>
      BY <2>2
    <3> HIDE DEF w
    <3> QED BY <3>1
  <2> QED BY <2>1, <2>2
<1> HIDE DEF u, w
<1>4. u \o w \in Seq(X)
  BY <1>2, <1>3, ConcatProperties
<1> QED BY <1>4 DEF Kept, u, v, w

LEMMA NoneOpen ==
  ASSUME NEW kept \in Seq(Tokens \ {"open"})
  PROVE  \A i \in 1 .. Len(kept) : kept[i] # "open"
OBVIOUS

\* after is the function the search evaluates, for m turns.
Turns(after, s, m) ==
  after = [n \in 0 .. m |->
             IF n = 0 THEN [calls |-> <<>>, rest |-> s] ELSE CutBlock(after[n - 1])]

LEMMA TurnsExist ==
  ASSUME NEW s
  PROVE  \A m \in Nat : \E after : Turns(after, s, m)
<1> DEFINE Bad == {m \in Nat : ~ \E after : Turns(after, s, m)}
           first == [calls |-> <<>>, rest |-> s]
<1>1. ASSUME Bad # {} PROVE FALSE
  <2>1. PICK m \in Bad : \A j \in Bad : m <= j
    BY <1>1, Least
  <2>2. CASE m = 0
    <3> DEFINE after == [n \in 0 .. 0 |-> first]
    <3>1. after = [n \in 0 .. 0 |-> IF n = 0 THEN first ELSE CutBlock(after[n - 1])]
      OBVIOUS
    <3> HIDE DEF after
    <3>2. \E h : Turns(h, s, 0)
      BY <3>1 DEF Turns
    <3> QED BY <2>2, <3>2
  <2>3. CASE m # 0
    <3>1. m - 1 \in Nat /\ m - 1 \notin Bad
      BY <2>1, <2>3
    <3>2. PICK before : Turns(before, s, m - 1)
      BY <3>1
    <3> DEFINE after == [n \in 0 .. m |-> IF n = m THEN CutBlock(before[m - 1]) ELSE before[n]]
    <3>3. ASSUME NEW n \in 0 .. m
          PROVE  after[n] = IF n = 0 THEN first ELSE CutBlock(after[n - 1])
      <4>1. CASE n = m
        <5>1. after[n] = CutBlock(before[m - 1]) /\ after[m - 1] = before[m - 1]
          BY <2>3, <3>1, <4>1
        <5> QED BY <2>3, <4>1, <5>1
      <4>2. CASE n # m
        <5>1. n \in 0 .. m - 1
          BY <3>1, <4>2
        <5>2. before[n] = IF n = 0 THEN first ELSE CutBlock(before[n - 1])
          BY <3>2, <5>1 DEF Turns
        <5>3. after[n] = before[n]
          BY <4>2
        <5>4. CASE n = 0
          BY <5>2, <5>3, <5>4
        <5>5. CASE n # 0
          <6>1. n - 1 \in 0 .. m /\ n - 1 # m
            BY <5>1, <5>5
          <6>2. after[n - 1] = before[n - 1]
            BY <6>1
          <6> HIDE DEF after
          <6> QED BY <5>2, <5>3, <5>5, <6>2
        <5> QED BY <5>4, <5>5
      <4> QED BY <4>1, <4>2
    <3>4. after = [n \in 0 .. m |-> after[n]]
      OBVIOUS
    <3> HIDE DEF after
    <3>5. after = [n \in 0 .. m |-> IF n = 0 THEN first ELSE CutBlock(after[n - 1])]
      BY <3>3, <3>4
    <3>6. Turns(after, s, m)
      BY <3>5 DEF Turns
    <3> QED BY <3>6
  <2> QED BY <2>2, <2>3
<1> QED BY <1>1

\* What the search ends with.  Whatever holds of an untouched text, and after
\* one more block is cut out, holds when no block is left.
LEMMA SearchEnds ==
  ASSUME NEW s \in Seq(Tokens), NEW I,
         <<<<>>, 0, <<>>>> \in I,
         \A calls, k, kept, a, b :
           /\ <<calls, k, kept>> \in I /\ k \in 0 .. Len(s) /\ kept \in Seq(Tokens)
           /\ a \in Nat /\ b \in Nat /\ NextBlock(s, k, a, b)
           => <<calls \o ParseCallBlock(SubSeq(s, a + 1, b - 1)), b, Kept(s, k, kept, a, b)>> \in I
  PROVE  \E calls, k, kept :
           /\ <<calls, k, kept>> \in I /\ k \in 0 .. Len(s) /\ kept \in Seq(Tokens)
           /\ ~ \E a, b \in Nat : NextBlock(s, k, a, b)
           /\ FencedCalls(s) = Searched(s, calls, k, kept)
<1> DEFINE good(f, calls, k, kept) ==
             /\ <<calls, k, kept>> \in I /\ k \in 0 .. Len(s)
             /\ kept \in Seq(Tokens) /\ kept \in Seq(Tokens \ {"open"})
             /\ f = Searched(s, calls, k, kept)
           settled(k) == ~ \E a, b \in Nat : NextBlock(s, k, a, b)
           reached(f, n) == \E calls, k, kept : good(f, calls, k, kept) /\ (settled(k) \/ k >= n)
           first == [calls |-> <<>>, rest |-> s]
<1>1. Len(s) \in Nat
  OBVIOUS
<1>2. reached(first, 0)
  <2>1. <<>> \in Seq(Tokens) /\ Len(<<>>) = 0 /\ 0 \in 0 .. Len(s) /\ Behind(s, 0) = s
    <3>1. SubSeq(s, 0 + 1, Len(s)) = s
      BY SubSeqFull
    <3> QED BY <1>1, <3>1 DEF Behind
  <2>2. <<>> \o s = s
    BY ConcatEmptySeq
  <2>3. first = Searched(s, <<>>, 0, <<>>)
    BY <2>1, <2>2 DEF Searched
  <2>4. good(first, <<>>, 0, <<>>)
    BY <2>1, <2>3
  <2> HIDE DEF good
  <2> QED BY <2>4
<1>3. ASSUME NEW f, NEW n \in Nat, reached(f, n) PROVE reached(CutBlock(f), n + 1)
  <2>1. PICK calls, k, kept : good(f, calls, k, kept) /\ (settled(k) \/ k >= n)
    BY <1>3
  <2>2. CASE settled(k)
    <3>1. CutBlock(f) = f
      BY <2>1, <2>2, NoneOpen, CutsNothing
    <3> HIDE DEF good, settled
    <3> QED BY <2>1, <2>2, <3>1
  <2>3. CASE ~ settled(k)
    <3>1. PICK a \in Nat, b \in Nat : NextBlock(s, k, a, b)
      BY <2>3
    <3> DEFINE more == calls \o ParseCallBlock(SubSeq(s, a + 1, b - 1))
               left == Kept(s, k, kept, a, b)
    <3>2. CutBlock(f) = Searched(s, more, b, left)
      BY <2>1, <3>1, NoneOpen, CutsBlock
    <3>3. <<more, b, left>> \in I
      BY <2>1, <3>1
    <3>4. b \in 0 .. Len(s) /\ b >= n + 1
      BY <1>1, <2>1, <2>3, <3>1 DEF NextBlock
    <3>5. left \in Seq(Tokens) /\ left \in Seq(Tokens \ {"open"})
      <4>1. \A j \in k + 1 .. a - 1 : s[j] \in Tokens \ {"open"}
        <5>1. \A j \in k + 1 .. a - 1 : j \in 1 .. Len(s)
          BY <1>1, <2>1, <3>1 DEF NextBlock
        <5> QED BY <3>1, <5>1 DEF NextBlock
      <4>2. "word" \in Tokens \ {"open"}
        BY DEF Tokens, Marks
      <4>3. k \in 0 .. Len(s) /\ kept \in Seq(Tokens \ {"open"})
        BY <2>1
      <4> HIDE DEF good, settled, reached, first
      <4>4. left \in Seq(Tokens \ {"open"})
        BY <3>1, <4>1, <4>2, <4>3, KeptIn DEF left
      <4> HIDE DEF left
      <4> QED BY <4>4
    <3>6. good(CutBlock(f), more, b, left)
      BY <3>2, <3>3, <3>4, <3>5
    <3> HIDE DEF good, settled, more, left
    <3> QED BY <3>4, <3>6
  <2> QED BY <2>2, <2>3
<1>4. PICK after : Turns(after, s, Len(s)) /\ FencedCalls(s) = after[Len(s)]
  <2>1. \E h : Turns(h, s, Len(s))
    BY <1>1, TurnsExist
  <2> DEFINE after == CHOOSE h : Turns(h, s, Len(s))
  <2>2. Turns(after, s, Len(s))
    BY <2>1
  <2>3. FencedCalls(s) = after[Len(s)]
    BY DEF FencedCalls, Turns
  <2> HIDE DEF after
  <2> QED BY <2>2, <2>3
<1>5. after[0] = first /\ \A n \in 1 .. Len(s) : after[n] = CutBlock(after[n - 1])
  <2>1. \A n \in 0 .. Len(s) : after[n] = IF n = 0 THEN first ELSE CutBlock(after[n - 1])
    BY <1>4 DEF Turns
  <2> HIDE DEF first
  <2> QED BY <1>1, <2>1
<1> HIDE DEF reached, first
<1>6. \A n \in 0 .. Len(s) : reached(after[n], n)
  <2> DEFINE Bad == {n \in 0 .. Len(s) : ~ reached(after[n], n)}
  <2>1. ASSUME Bad # {} PROVE FALSE
    <3>1. Bad \in SUBSET Nat
      OBVIOUS
    <3>2. PICK n \in Bad : \A j \in Bad : n <= j
      <4> HIDE DEF Bad
      <4> QED BY <2>1, <3>1, Least
    <3>3. n # 0
      BY <1>2, <1>5, <3>2
    <3>4. n - 1 \in Nat /\ n - 1 \in 0 .. Len(s) /\ n \in 1 .. Len(s) /\ n - 1 \notin Bad /\ (n - 1) + 1 = n
      BY <1>1, <3>2, <3>3
    <3>5. reached(after[n - 1], n - 1)
      BY <3>4
    <3>6. reached(CutBlock(after[n - 1]), n)
      BY <1>3, <3>4, <3>5
    <3> QED BY <1>5, <3>2, <3>4, <3>6
  <2> QED BY <2>1
<1>7. reached(FencedCalls(s), Len(s))
  BY <1>1, <1>4, <1>6
<1>8. PICK calls, k, kept : good(FencedCalls(s), calls, k, kept) /\ (settled(k) \/ k >= Len(s))
  BY <1>7 DEF reached
<1>9. settled(k)
  <2>1. CASE k >= Len(s)
    <3>1. k \in 0 .. Len(s)
      BY <1>8
    <3>2. ASSUME NEW a \in Nat, NEW b \in Nat, NextBlock(s, k, a, b) PROVE FALSE
      BY <1>1, <2>1, <3>1, <3>2 DEF NextBlock
    <3> QED BY <3>2
  <2> QED BY <1>8, <2>1
<1> QED BY <1>8, <1>9

-----------------------------------------------------------------------------
(* The references: pieces one after the other.                             *)

\* upTo is the function FlattenSeq evaluates, for m pieces.
Flat(upTo, pieces, m) ==
  upTo = [i \in 1 .. m |-> IF i = 1 THEN pieces[i] ELSE upTo[i - 1] \o pieces[i]]

LEMMA FlatExists ==
  ASSUME NEW pieces
  PROVE  \A m \in Nat : \E upTo : Flat(upTo, pieces, m)
<1> DEFINE Bad == {m \in Nat : ~ \E upTo : Flat(upTo, pieces, m)}
<1>1. ASSUME Bad # {} PROVE FALSE
  <2>1. PICK m \in Bad : \A j \in Bad : m <= j
    BY <1>1, Least
  <2>2. CASE m = 0
    <3> DEFINE upTo == [i \in 1 .. 0 |-> pieces]
    <3>1. upTo = [i \in 1 .. 0 |-> IF i = 1 THEN pieces[i] ELSE upTo[i - 1] \o pieces[i]]
      OBVIOUS
    <3> HIDE DEF upTo
    <3>2. \E h : Flat(h, pieces, 0)
      BY <3>1 DEF Flat
    <3> QED BY <2>2, <3>2
  <2>3. CASE m # 0
    <3>1. m - 1 \in Nat /\ m - 1 \notin Bad
      BY <2>1, <2>3
    <3>2. PICK before : Flat(before, pieces, m - 1)
      BY <3>1
    <3> DEFINE upTo == [i \in 1 .. m |-> IF i # m THEN before[i]
                                        ELSE IF m = 1 THEN pieces[m]
                                        ELSE before[m - 1] \o pieces[m]]
    <3>3. ASSUME NEW i \in 1 .. m
          PROVE  upTo[i] = IF i = 1 THEN pieces[i] ELSE upTo[i - 1] \o pieces[i]
      <4>1. CASE i = m
        <5>1. CASE m = 1
          BY <4>1, <5>1
        <5>2. CASE m # 1
          <6>1. m - 1 \in 1 .. m /\ m - 1 # m
            BY <3>1, <5>2
          <6>2. upTo[m - 1] = before[m - 1] /\ upTo[m] = before[m - 1] \o pieces[m]
            BY <4>1, <5>2, <6>1
          <6> HIDE DEF upTo
          <6> QED BY <4>1, <5>2, <6>2
        <5> QED BY <5>1, <5>2
      <4>2. CASE i # m
        <5>1. i \in 1 .. m - 1
          BY <3>1, <4>2
        <5>2. before[i] = IF i = 1 THEN pieces[i] ELSE before[i - 1] \o pieces[i]
          BY <3>2, <5>1 DEF Flat
        <5>3. upTo[i] = before[i]
          BY <4>2
        <5>4. i # 1 => upTo[i - 1] = before[i - 1]
          <6>1. i # 1 => i - 1 \in 1 .. m /\ i - 1 # m
            BY <5>1
          <6> QED BY <6>1
        <5> HIDE DEF upTo
        <5> QED BY <5>2, <5>3, <5>4
      <4> QED BY <4>1, <4>2
    <3>4. upTo = [i \in 1 .. m |-> upTo[i]]
      OBVIOUS
    <3> HIDE DEF upTo
    <3>5. upTo = [i \in 1 .. m |-> IF i = 1 THEN pieces[i] ELSE upTo[i - 1] \o pieces[i]]
      BY <3>3, <3>4
    <3>6. Flat(upTo, pieces, m)
      BY <3>5 DEF Flat
    <3> QED BY <3>6
  <2> QED BY <2>2, <2>3
<1> QED BY <1>1

\* upTo[n] is what the first n pieces say.
UpTo(upTo, pieces) ==
  /\ upTo[0] = <<>>
  /\ \A n \in 1 .. Len(pieces) : upTo[n] = upTo[n - 1] \o pieces[n]

LEMMA Flattened ==
  ASSUME NEW S, NEW pieces \in Seq(Seq(S))
  PROVE  \E upTo \in [0 .. Len(pieces) -> Seq(S)] :
           UpTo(upTo, pieces) /\ FlattenSeq(pieces) = upTo[Len(pieces)]
<1> DEFINE m == Len(pieces)
<1>1. m \in Nat /\ \A n \in 1 .. m : pieces[n] \in Seq(S)
  OBVIOUS
<1>2. PICK h : Flat(h, pieces, m) /\ (m # 0 => FlattenSeq(pieces) = h[m])
  <2> DEFINE h == CHOOSE h : Flat(h, pieces, m)
  <2>1. Flat(h, pieces, m)
    <3> HIDE DEF m
    <3>1. \E g : Flat(g, pieces, m)
      BY <1>1, FlatExists
    <3> QED BY <3>1
  <2>2. m # 0 => FlattenSeq(pieces) = h[m]
    BY DEF FlattenSeq, Flat
  <2> HIDE DEF h
  <2> QED BY <2>1, <2>2
<1>3. m = 0 => FlattenSeq(pieces) = <<>>
  BY DEF FlattenSeq
<1> HIDE DEF m
<1> DEFINE upTo == [n \in 0 .. m |-> IF n = 0 THEN <<>> ELSE h[n]]
<1>4. upTo[0] = <<>>
  BY <1>1
<1>5. ASSUME NEW n \in 1 .. m PROVE upTo[n] = upTo[n - 1] \o pieces[n]
  <2>1. h[n] = IF n = 1 THEN pieces[n] ELSE h[n - 1] \o pieces[n]
    BY <1>2 DEF Flat
  <2>2. upTo[n] = h[n]
    BY <1>1
  <2>3. CASE n = 1
    <3>1. upTo[n - 1] = <<>>
      BY <1>4, <2>3
    <3>2. <<>> \o pieces[n] = pieces[n]
      BY <1>1, ConcatEmptySeq
    <3> HIDE DEF upTo
    <3> QED BY <2>1, <2>2, <2>3, <3>1, <3>2
  <2>4. CASE n # 1
    <3>1. n - 1 \in 0 .. m /\ n - 1 # 0
      BY <1>1, <2>4
    <3>2. upTo[n - 1] = h[n - 1]
      BY <3>1
    <3> HIDE DEF upTo
    <3> QED BY <2>1, <2>2, <2>4, <3>2
  <2> QED BY <2>3, <2>4
<1>6. FlattenSeq(pieces) = upTo[m]
  BY <1>1, <1>2, <1>3
<1>7. upTo = [n \in 0 .. m |-> upTo[n]]
  OBVIOUS
<1> HIDE DEF upTo
<1>8. \A n \in 0 .. m : upTo[n] \in Seq(S)
  <2> DEFINE Bad == {n \in 0 .. m : upTo[n] \notin Seq(S)}
  <2>1. ASSUME Bad # {} PROVE FALSE
    <3>1. Bad \in SUBSET Nat
      OBVIOUS
    <3>2. PICK n \in Bad : \A j \in Bad : n <= j
      <4> HIDE DEF Bad
      <4> QED BY <2>1, <3>1, Least
    <3>3. n # 0
      BY <1>4, <3>2, EmptySeq
    <3>4. n \in 1 .. m /\ n - 1 \in 0 .. m /\ ~ (n <= n - 1)
      BY <1>1, <3>2, <3>3
    <3>5. upTo[n - 1] \in Seq(S)
      BY <3>2, <3>4
    <3>6. upTo[n] \in Seq(S)
      BY <1>1, <1>5, <3>4, <3>5, ConcatProperties
    <3> QED BY <3>2, <3>6
  <2> QED BY <2>1
<1>9. upTo \in [0 .. m -> Seq(S)]
  BY <1>7, <1>8
<1> QED BY <1>4, <1>5, <1>6, <1>9 DEF UpTo, m

\* Pieces that say nothing add nothing.
Silent(pieces, k, l) == \A i \in k + 1 .. l : pieces[i] = <<>>

LEMMA InOrder ==
  ASSUME NEW S, NEW pieces \in Seq(Seq(S)), NEW m, m = Len(pieces)
  PROVE  \E upTo \in [0 .. m -> Seq(S)] :
           /\ UpTo(upTo, pieces) /\ FlattenSeq(pieces) = upTo[m]
           /\ \A k \in 0 .. m : \A l \in k .. m : Silent(pieces, k, l) => upTo[l] = upTo[k]
<1>1. PICK upTo \in [0 .. m -> Seq(S)] : UpTo(upTo, pieces) /\ FlattenSeq(pieces) = upTo[m]
  BY Flattened
<1>2. ASSUME NEW k \in 0 .. m, NEW l \in k .. m, Silent(pieces, k, l) PROVE upTo[l] = upTo[k]
  <2> DEFINE Bad == {n \in k .. l : upTo[n] # upTo[k]}
  <2>1. m \in Nat
    OBVIOUS
  <2>2. ASSUME Bad # {} PROVE FALSE
    <3>1. Bad \in SUBSET Nat
      BY <2>1
    <3>2. PICK n \in Bad : \A j \in Bad : n <= j
      <4> HIDE DEF Bad
      <4> QED BY <2>2, <3>1, Least
    <3>3. /\ n \in 1 .. m /\ n \in k + 1 .. l /\ n - 1 \in k .. l /\ n - 1 \in 0 .. m
          /\ ~ (n <= n - 1)
      BY <2>1, <3>2
    <3>4. upTo[n - 1] = upTo[k]
      BY <3>2, <3>3
    <3>5. upTo[n] = upTo[n - 1] \o <<>>
      BY <1>1, <1>2, <3>3 DEF UpTo, Silent
    <3>6. upTo[n - 1] \in Seq(S)
      BY <3>3
    <3>7. upTo[n - 1] \o <<>> = upTo[n - 1]
      BY <3>6, ConcatEmptySeq
    <3> QED BY <3>2, <3>4, <3>5, <3>7
  <2>3. l \in k .. l
    BY <2>1
  <2> QED BY <2>2, <2>3
<1> QED BY <1>1, <1>2

\* What a block says is a sequence of calls.
LEMMA ParsedCalls ==
  ASSUME NEW block \in Seq(Tokens) PROVE ParseCallBlock(block) \in Seq(Calls)
<1>1. WrapperCalls \in Seq(Calls)
  BY ToolCallsAssumption
<1>2. ASSUME Len(block) = 1, block[1] \in Calls PROVE block \in Seq(Calls)
  <2>1. block \in [1 .. 1 -> Calls]
    <3>1. block = [i \in 1 .. 1 |-> block[i]]
      BY <1>2, LenProperties
    <3> QED BY <1>2, <3>1
  <2>2. Seq(Calls) = UNION {[1 .. n -> Calls] : n \in Nat}
    BY SeqDef
  <2>3. [1 .. 1 -> Calls] \in {[1 .. n -> Calls] : n \in Nat}
    OBVIOUS
  <2> QED BY <2>1, <2>2, <2>3
<1> QED BY <1>1, <1>2 DEF ParseCallBlock

-----------------------------------------------------------------------------
(* Fences that open and close in turn.                                     *)

LEMMA FencesTurn ==
  ASSUME NEW s \in Seq(Tokens), WellFenced(s),
         NEW i \in 1 .. Len(s), NEW j \in i + 1 .. Len(s), s[i] \in Fence, s[j] \in Fence,
         \A l \in i + 1 .. j - 1 : s[l] \notin Fence
  PROVE  s[i] # s[j]
<1> DEFINE before == {l \in Fences(s) : l < j}
<1>1. Len(s) \in Nat /\ DOMAIN s = 1 .. Len(s)
  OBVIOUS
<1>2. i \in before /\ j \in Fences(s) /\ \A l \in before : l <= i
  BY <1>1 DEF Fences, Fence
<1> DEFINE last == CHOOSE l \in before : \A m \in before : m <= l
<1>3. last = i
  <2>1. last \in before /\ \A m \in before : m <= last
    <3> HIDE DEF before
    <3> QED BY <1>2
  <2>2. last \in 1 .. Len(s) /\ last <= i /\ i <= last
    BY <1>1, <1>2, <2>1 DEF Fences
  <2> HIDE DEF last
  <2> QED BY <1>1, <2>2
<1>4. before # {}
  BY <1>2
<1>5. s[j] # s[last]
  BY <1>2, <1>4 DEF WellFenced
<1> HIDE DEF last
<1> QED BY <1>3, <1>5

LEMMA FirstFence ==
  ASSUME NEW s \in Seq(Tokens), WellFenced(s), NEW j \in 1 .. Len(s), s[j] \in Fence,
         \A l \in 1 .. j - 1 : s[l] \notin Fence
  PROVE  s[j] = "open"
<1>1. j \in Fences(s) /\ {l \in Fences(s) : l < j} = {}
  <2>1. Len(s) \in Nat /\ DOMAIN s = 1 .. Len(s)
    OBVIOUS
  <2> QED BY <2>1 DEF Fences, Fence
<1> QED BY <1>1 DEF WellFenced

\* The next fence behind k opens.
NextOpens(s, k) == k = 0 \/ s[k] = "close"

LEMMA OpensNext ==
  ASSUME NEW s \in Seq(Tokens), WellFenced(s), NEW k \in 0 .. Len(s), NextOpens(s, k),
         NEW j \in k + 1 .. Len(s), s[j] \in Fence,
         \A l \in k + 1 .. j - 1 : s[l] \notin Fence
  PROVE  s[j] = "open"
<1>1. Len(s) \in Nat
  OBVIOUS
<1>2. CASE k = 0
  BY <1>1, <1>2, FirstFence
<1>3. CASE k # 0
  <2>1. k \in 1 .. Len(s) /\ s[k] \in Fence
    BY <1>1, <1>3 DEF NextOpens, Fence
  <2>2. s[k] # s[j]
    BY <2>1, FencesTurn
  <2> QED BY <1>3, <2>2 DEF NextOpens, Fence
<1> QED BY <1>2, <1>3

\* So the next block is closed, with no fence before it.
LEMMA BlockCloses ==
  ASSUME NEW s \in Seq(Tokens), WellFenced(s), NEW k \in 0 .. Len(s), NextOpens(s, k),
         NEW a \in Nat, NEW b \in Nat, NextBlock(s, k, a, b)
  PROVE  s[b] = "close" /\ \A l \in k + 1 .. a - 1 : s[l] \notin Fence
<1>1. Len(s) \in Nat /\ k \in Nat /\ a \in 1 .. Len(s) /\ b \in a + 1 .. Len(s)
  <2>1. Len(s) \in Nat
    OBVIOUS
  <2> QED BY <2>1 DEF NextBlock
<1>2. s[b] # s[a]
  <2>1. s[a] \in Fence /\ s[b] \in Fence /\ \A l \in a + 1 .. b - 1 : s[l] \notin Fence
    BY DEF NextBlock, Fence
  <2> QED BY <1>1, <2>1, FencesTurn
<1> DEFINE f == First(s, Fence, k + 1)
<1>3. ASSUME NEW l \in k + 1 .. a - 1, s[l] \in Fence PROVE FALSE
  <2>1. k + 1 \in Nat \ {0} /\ l \in k + 1 .. Len(s)
    BY <1>1
  <2>2. f \in k + 1 .. Len(s) /\ s[f] \in Fence /\ \A i \in k + 1 .. f - 1 : s[i] \notin Fence
    <3>1. \/ f = 0 /\ \A i \in k + 1 .. Len(s) : s[i] \notin Fence
          \/ f \in k + 1 .. Len(s) /\ s[f] \in Fence /\ \A i \in k + 1 .. f - 1 : s[i] \notin Fence
      BY <1>1, <2>1, FirstIs
    <3> HIDE DEF f
    <3> QED BY <1>3, <2>1, <3>1
  <2> HIDE DEF f
  <2>3. s[f] = "open"
    BY <2>2, OpensNext
  <2>4. ~ (l < f)
    BY <1>1, <1>3, <2>2
  <2>5. f \in k + 1 .. a - 1
    BY <1>1, <2>2, <2>4
  <2> QED BY <2>3, <2>5 DEF NextBlock
<1> QED BY <1>2, <1>3 DEF NextBlock, Fence

\* Without a block no opening fence is followed by another fence.
LEMMA NoneLeft ==
  ASSUME NEW s \in Seq(Tokens), NEW k \in 0 .. Len(s),
         ~ \E a, b \in Nat : NextBlock(s, k, a, b),
         NEW i \in k + 1 .. Len(s), s[i] = "open",
         NEW j \in i + 1 .. Len(s), s[j] \in Fence
  PROVE  FALSE
<1> DEFINE a == First(s, {"open"}, k + 1)
           b == First(s, Fence, a + 1)
<1>1. Len(s) \in Nat /\ k + 1 \in Nat \ {0}
  OBVIOUS
<1>2. a \in k + 1 .. Len(s) /\ s[a] = "open" /\ \A l \in k + 1 .. a - 1 : s[l] # "open"
  <2>1. \/ a = 0 /\ \A l \in k + 1 .. Len(s) : s[l] \notin {"open"}
        \/ a \in k + 1 .. Len(s) /\ s[a] \in {"open"} /\ \A l \in k + 1 .. a - 1 : s[l] \notin {"open"}
    BY <1>1, FirstIs
  <2> HIDE DEF a
  <2> QED BY <2>1
<1> HIDE DEF a
<1>3. a <= i
  BY <1>1, <1>2
<1>4. j \in a + 1 .. Len(s) /\ a + 1 \in Nat \ {0} /\ a \in Nat
  BY <1>1, <1>2, <1>3
<1>5. b \in a + 1 .. Len(s) /\ s[b] \in Fence /\ \A l \in a + 1 .. b - 1 : s[l] \notin Fence
  <2>1. \/ b = 0 /\ \A l \in a + 1 .. Len(s) : s[l] \notin Fence
        \/ b \in a + 1 .. Len(s) /\ s[b] \in Fence /\ \A l \in a + 1 .. b - 1 : s[l] \notin Fence
    BY <1>1, <1>4, FirstIs
  <2> HIDE DEF b
  <2> QED BY <1>4, <2>1
<1> HIDE DEF b
<1>6. NextBlock(s, k, a, b) /\ b \in Nat
  BY <1>1, <1>2, <1>4, <1>5 DEF NextBlock
<1> QED BY <1>4, <1>6

-----------------------------------------------------------------------------
(* Every closed block is found.                                            *)

LEMMA BlocksSaid ==
  ASSUME NEW s \in Seq(Tokens)
  PROVE  [i \in 1 .. Len(s) |-> BlockCalls(s, i)] \in Seq(Seq(Calls))
<1>1. Len(s) \in Nat
  OBVIOUS
<1>2. ASSUME NEW i \in 1 .. Len(s) PROVE BlockCalls(s, i) \in Seq(Calls)
  <2> DEFINE end == First(s, {"close"}, i + 1)
  <2>1. CASE s[i] # "open" \/ end = 0
    BY <2>1, EmptySeq DEF BlockCalls
  <2>2. CASE ~ (s[i] # "open" \/ end = 0)
    <3>1. end \in i + 1 .. Len(s)
      <4>1. i + 1 \in Nat \ {0}
        OBVIOUS
      <4> QED BY <1>1, <2>2, <4>1, FirstIs
    <3> HIDE DEF end
    <3>2. i \in 0 .. Len(s) /\ end - 1 \in i .. Len(s)
      BY <1>1, <3>1
    <3>3. SubSeq(s, i + 1, end - 1) \in Seq(Tokens)
      BY <3>2, Between
    <3>4. BlockCalls(s, i) = ParseCallBlock(SubSeq(s, i + 1, end - 1))
      BY <2>2 DEF BlockCalls, end
    <3> QED BY <3>3, <3>4, ParsedCalls
  <2> QED BY <2>1, <2>2
<1> DEFINE pieces == [i \in 1 .. Len(s) |-> BlockCalls(s, i)]
<1>3. pieces \in [1 .. Len(s) -> Seq(Calls)]
  BY <1>2
<1> HIDE DEF pieces
<1>4. pieces \in Seq(Seq(Calls))
  BY <1>1, <1>3, SeqDef
<1> QED BY <1>4 DEF pieces

LEMMA BlocksFound ==
  ASSUME NEW s \in Seq(Tokens), WellFenced(s)
  PROVE  FencedCalls(s).calls = BlocksInOrder(s)
<1> DEFINE pieces == [i \in 1 .. Len(s) |-> BlockCalls(s, i)]
           n == Len(s)
<1>1. n \in Nat /\ pieces \in Seq(Seq(Calls)) /\ Len(pieces) = n
      /\ \A i \in 1 .. n : pieces[i] = BlockCalls(s, i)
  <2>1. pieces \in Seq(Seq(Calls))
    BY BlocksSaid
  <2>2. DOMAIN pieces = 1 .. n /\ n \in Nat
    OBVIOUS
  <2>3. Len(pieces) \in Nat /\ DOMAIN pieces = 1 .. Len(pieces)
    <3> HIDE DEF pieces
    <3> QED BY <2>1, LenProperties
  <2>4. Len(pieces) = n
    <3> HIDE DEF pieces, n
    <3> QED BY <2>2, <2>3
  <2> QED BY <2>1, <2>2, <2>4
<1> HIDE DEF pieces
<1>2. PICK upTo \in [0 .. n -> Seq(Calls)] :
        /\ UpTo(upTo, pieces) /\ FlattenSeq(pieces) = upTo[n]
        /\ \A k \in 0 .. n : \A l \in k .. n : Silent(pieces, k, l) => upTo[l] = upTo[k]
  <2>1. pieces \in Seq(Seq(Calls)) /\ n = Len(pieces)
    BY <1>1
  <2> HIDE DEF n
  <2> QED BY <2>1, InOrder
<1>3. ASSUME NEW i \in 1 .. n, s[i] # "open" PROVE pieces[i] = <<>>
  BY <1>1, <1>3 DEF BlockCalls
<1> DEFINE I == {x \in Seq(Calls) \X (0 .. n) \X Seq(Tokens) :
                   x[1] = upTo[x[2]] /\ NextOpens(s, x[2])}
<1>4. <<<<>>, 0, <<>>>> \in I
  <2>1. upTo[0] = <<>> /\ 0 \in 0 .. n
    BY <1>1, <1>2 DEF UpTo
  <2> QED BY <2>1, EmptySeq DEF NextOpens
<1>5. ASSUME NEW calls, NEW k, NEW kept, NEW a, NEW b,
             <<calls, k, kept>> \in I, k \in 0 .. n, kept \in Seq(Tokens),
             a \in Nat, b \in Nat, NextBlock(s, k, a, b)
      PROVE  <<calls \o ParseCallBlock(SubSeq(s, a + 1, b - 1)), b, Kept(s, k, kept, a, b)>> \in I
  <2>1. calls = upTo[k] /\ NextOpens(s, k)
    BY <1>5
  <2>2. s[b] = "close" /\ \A l \in k + 1 .. a - 1 : s[l] \notin Fence
    BY <1>5, <2>1, BlockCloses
  <2>3. /\ k \in 0 .. n /\ a \in 1 .. n /\ a - 1 \in k .. n /\ a \in 0 .. n /\ b \in a .. n
        /\ b \in a + 1 .. n /\ b \in 0 .. n
    BY <1>1, <1>5 DEF NextBlock
  <2>4. upTo[a - 1] = upTo[k]
    <3>1. Silent(pieces, k, a - 1)
      <4> SUFFICES ASSUME NEW i \in k + 1 .. a - 1 PROVE pieces[i] = <<>>
        BY DEF Silent
      <4>1. s[i] # "open"
        BY <1>5 DEF NextBlock
      <4>2. i \in 1 .. n
        BY <2>3
      <4> QED BY <1>3, <4>1, <4>2
    <3> HIDE DEF I, n
    <3> QED BY <1>2, <2>3, <3>1
  <2>5. upTo[b] = upTo[a]
    <3>1. Silent(pieces, a, b)
      <4> SUFFICES ASSUME NEW i \in a + 1 .. b PROVE pieces[i] = <<>>
        BY DEF Silent
      <4>1. i \in 1 .. n /\ (i = b \/ i \in a + 1 .. b - 1)
        BY <1>1, <2>3
      <4>2. s[i] # "open"
        BY <1>5, <2>2, <4>1 DEF NextBlock, Fence
      <4> QED BY <1>3, <4>1, <4>2
    <3> HIDE DEF I, n
    <3> QED BY <1>2, <2>3, <3>1
  <2>6. pieces[a] = ParseCallBlock(SubSeq(s, a + 1, b - 1))
    <3>1. First(s, {"close"}, a + 1) = b
      <4>1. b \in a + 1 .. Len(s) /\ a + 1 \in Nat \ {0} /\ Len(s) \in Nat
        BY <1>1, <2>3
      <4>2. s[b] \in {"close"} /\ \A i \in a + 1 .. b - 1 : s[i] \notin {"close"}
        BY <1>5, <2>2 DEF NextBlock, Fence
      <4> QED BY <4>1, <4>2, FirstAt
    <3>2. b # 0 /\ s[a] = "open"
      BY <1>1, <1>5, <2>3 DEF NextBlock
    <3> QED BY <1>1, <2>3, <3>1, <3>2 DEF BlockCalls
  <2>7. upTo[a] = upTo[a - 1] \o pieces[a]
    BY <1>1, <1>2, <2>3 DEF UpTo
  <2>8. upTo[b] = calls \o ParseCallBlock(SubSeq(s, a + 1, b - 1)) /\ upTo[b] \in Seq(Calls)
    BY <1>2, <2>1, <2>3, <2>4, <2>5, <2>6, <2>7
  <2>9. Kept(s, k, kept, a, b) \in Seq(Tokens)
    <3>1. \A j \in k + 1 .. a - 1 : s[j] \in Tokens
      <4>1. \A j \in k + 1 .. a - 1 : j \in 1 .. Len(s)
        BY <1>1, <2>3
      <4> QED BY <4>1
    <3>2. "word" \in Tokens
      BY DEF Tokens, Marks
    <3> HIDE DEF I
    <3> QED BY <1>5, <3>1, <3>2, KeptIn
  <2> DEFINE more == calls \o ParseCallBlock(SubSeq(s, a + 1, b - 1))
             left == Kept(s, k, kept, a, b)
  <2>10. more \in Seq(Calls) /\ left \in Seq(Tokens) /\ more = upTo[b] /\ NextOpens(s, b)
    BY <2>2, <2>8, <2>9 DEF NextOpens
  <2> HIDE DEF more, left
  <2>11. <<more, b, left>> \in I
    BY <2>3, <2>10
  <2> QED BY <2>11 DEF more, left
<1>6. PICK calls, k, kept :
           /\ <<calls, k, kept>> \in I /\ k \in 0 .. Len(s) /\ kept \in Seq(Tokens)
           /\ ~ \E a, b \in Nat : NextBlock(s, k, a, b)
           /\ FencedCalls(s) = Searched(s, calls, k, kept)
  <2> HIDE DEF I
  <2> QED BY <1>4, <1>5, SearchEnds
<1>7. calls = upTo[k] /\ k \in 0 .. n
  BY <1>6
<1>8. Silent(pieces, k, n)
  <2> SUFFICES ASSUME NEW i \in k + 1 .. n, s[i] = "open" PROVE pieces[i] = <<>>
    <3>1. k + 1 .. n \subseteq 1 .. n
      BY <1>1, <1>7
    <3> QED BY <1>3, <3>1 DEF Silent
  <2> DEFINE end == First(s, {"close"}, i + 1)
  <2>1. end = 0
    <3> SUFFICES ASSUME end # 0 PROVE FALSE
      OBVIOUS
    <3>1. i + 1 \in Nat \ {0}
      BY <1>7
    <3>2. end \in i + 1 .. Len(s) /\ s[end] \in {"close"}
      BY <1>1, <3>1, FirstIs
    <3> HIDE DEF end, I
    <3> QED BY <1>6, <3>2, NoneLeft DEF Fence
  <2>2. i \in 1 .. n
    BY <1>1, <1>7
  <2> QED BY <1>1, <2>1, <2>2 DEF BlockCalls
<1>9. upTo[n] = upTo[k]
  <2>1. n \in k .. n
    BY <1>1, <1>7
  <2> HIDE DEF I, n
  <2> QED BY <1>2, <1>7, <1>8, <2>1
<1>10. FencedCalls(s).calls = calls
  BY <1>6 DEF Searched
<1> QED BY <1>2, <1>7, <1>9, <1>10 DEF BlocksInOrder, pieces

\* The text is one of tokens.
TextTyped == text \in Seq(Tokens)

LEMMA TextsTyped == TextSpec => []TextTyped
<1>1. TextInit => TextTyped
  BY DEF TextInit, TextTyped
<1>2. TextTyped /\ [Generate]_text => TextTyped'
  BY DEF TextTyped, Generate
<1> QED BY <1>1, <1>2, PTL DEF TextSpec

\* The calls of all closed blocks are found, in their order: see
\* FencedCallsFound.
THEOREM BlocksAreFound == TextSpec => []FencedCallsFound
<1>1. TextTyped => FencedCallsFound
  BY BlocksFound DEF TextTyped, FencedCallsFound, ExtractToolCalls
<1> QED BY <1>1, TextsTyped, PTL

-----------------------------------------------------------------------------
(* No call is invented.                                                    *)

LEMMA SubsequenceOfNothing ==
  ASSUME NEW y PROVE Subsequence(<<>>, y)
<1> DEFINE f == [i \in {} |-> 0]
<1>1. DOMAIN <<>> = {}
  OBVIOUS
<1>2. f \in [DOMAIN <<>> -> DOMAIN y]
  BY <1>1
<1> HIDE DEF f
<1> QED BY <1>1, <1>2 DEF Subsequence

LEMMA SubsequenceMore ==
  ASSUME NEW S, NEW x \in Seq(S), NEW y \in Seq(S), NEW z \in Seq(S), Subsequence(x, y)
  PROVE  Subsequence(x, y \o z)
<1>1. PICK f \in [DOMAIN x -> DOMAIN y] :
        \A i, j \in DOMAIN x : x[i] = y[f[i]] /\ (i < j => f[i] < f[j])
  BY DEF Subsequence
<1>2. /\ DOMAIN y = 1 .. Len(y) /\ Len(y) \in Nat /\ Len(z) \in Nat
      /\ y \o z \in Seq(S) /\ Len(y \o z) = Len(y) + Len(z)
      /\ \A i \in 1 .. Len(y) + Len(z) :
           (y \o z)[i] = IF i <= Len(y) THEN y[i] ELSE z[i - Len(y)]
  BY ConcatProperties, LenProperties
<1>3. DOMAIN (y \o z) = 1 .. Len(y) + Len(z)
  BY <1>2, LenProperties
<1>4. ASSUME NEW i \in DOMAIN x PROVE f[i] \in DOMAIN (y \o z) /\ (y \o z)[f[i]] = y[f[i]]
  <2>1. f[i] \in 1 .. Len(y)
    BY <1>1, <1>2
  <2>2. f[i] \in 1 .. Len(y) + Len(z) /\ f[i] <= Len(y)
    BY <1>2, <2>1
  <2> QED BY <1>2, <1>3, <2>2
<1>5. f \in [DOMAIN x -> DOMAIN (y \o z)]
  BY <1>1, <1>4
<1>6. \A i, j \in DOMAIN x : x[i] = (y \o z)[f[i]] /\ (i < j => f[i] < f[j])
  BY <1>1, <1>4
<1> QED BY <1>5, <1>6 DEF Subsequence

LEMMA SubsequenceBoth ==
  ASSUME NEW S, NEW x \in Seq(S), NEW y \in Seq(S), NEW z \in Seq(S), Subsequence(x, y)
  PROVE  Subsequence(x \o z, y \o z)
<1> DEFINE k == Len(x)
           l == Len(y)
           m == Len(z)
           u == x \o z
           v == y \o z
<1>1. PICK f \in [DOMAIN x -> DOMAIN y] :
        \A i, j \in DOMAIN x : x[i] = y[f[i]] /\ (i < j => f[i] < f[j])
  BY DEF Subsequence
<1>2. /\ k \in Nat /\ l \in Nat /\ m \in Nat /\ DOMAIN x = 1 .. k /\ DOMAIN y = 1 .. l
      /\ u \in Seq(S) /\ Len(u) = k + m /\ v \in Seq(S) /\ Len(v) = l + m
  BY ConcatProperties, LenProperties
<1>3. /\ \A i \in 1 .. k + m : u[i] = IF i <= k THEN x[i] ELSE z[i - k]
      /\ \A i \in 1 .. l + m : v[i] = IF i <= l THEN y[i] ELSE z[i - l]
  BY ConcatProperties
<1> HIDE DEF u, v
<1>4. DOMAIN u = 1 .. k + m /\ DOMAIN v = 1 .. l + m
  BY <1>2, LenProperties
<1> HIDE DEF k, l, m
<1> DEFINE g == [i \in 1 .. k + m |-> IF i <= k THEN f[i] ELSE i - k + l]
<1>5. ASSUME NEW i \in 1 .. k + m
      PROVE  /\ g[i] \in 1 .. l + m /\ u[i] = v[g[i]]
             /\ i <= k => i \in 1 .. k /\ g[i] = f[i] /\ f[i] \in 1 .. l
             /\ ~ (i <= k) => g[i] = i - k + l
  <2>1. CASE i <= k
    <3>1. i \in 1 .. k /\ g[i] = f[i]
      BY <1>2, <2>1
    <3> HIDE DEF g
    <3>2. f[i] \in 1 .. l
      BY <1>1, <1>2, <3>1
    <3>3. f[i] \in 1 .. l + m /\ f[i] <= l
      BY <1>2, <3>2
    <3>4. x[i] = y[f[i]]
      BY <1>1, <1>2, <3>1
    <3>5. u[i] = x[i]
      BY <1>3, <2>1
    <3>6. v[f[i]] = y[f[i]]
      BY <1>3, <3>3
    <3> QED BY <2>1, <3>1, <3>2, <3>3, <3>4, <3>5, <3>6
  <2>2. CASE ~ (i <= k)
    <3>1. g[i] = i - k + l
      BY <2>2
    <3> HIDE DEF g
    <3>2. i - k + l \in 1 .. l + m /\ ~ (i - k + l <= l) /\ (i - k + l) - l = i - k
      BY <1>2, <2>2
    <3>3. v[i - k + l] = z[(i - k + l) - l]
      BY <1>3, <3>2
    <3>4. u[i] = z[i - k]
      BY <1>3, <2>2
    <3> QED BY <2>2, <3>1, <3>2, <3>3, <3>4
  <2> QED BY <2>1, <2>2
<1>6. g \in [1 .. k + m -> 1 .. l + m]
  <2>1. g = [i \in 1 .. k + m |-> g[i]]
    OBVIOUS
  <2> HIDE DEF g
  <2> QED BY <1>5, <2>1
<1> HIDE DEF g
<1>7. ASSUME NEW i \in 1 .. k + m, NEW j \in 1 .. k + m, i < j PROVE g[i] < g[j]
  <2>1. CASE j <= k
    <3>1. i <= k
      BY <1>2, <1>7, <2>1
    <3> QED BY <1>1, <1>2, <1>5, <1>7, <2>1, <3>1
  <2>2. CASE ~ (j <= k) /\ i <= k
    <3>1. g[i] \in 1 .. l /\ g[j] = j - k + l
      BY <1>5, <2>2
    <3> QED BY <1>2, <2>2, <3>1
  <2>3. CASE ~ (i <= k)
    <3>1. ~ (j <= k)
      BY <1>2, <1>7, <2>3
    <3>2. g[i] = i - k + l /\ g[j] = j - k + l
      BY <1>5, <2>3, <3>1
    <3> QED BY <1>2, <1>7, <3>2
  <2> QED BY <2>1, <2>2, <2>3
<1>8. g \in [DOMAIN u -> DOMAIN v] /\ \A i, j \in DOMAIN u : u[i] = v[g[i]] /\ (i < j => g[i] < g[j])
  BY <1>4, <1>5, <1>6, <1>7
<1> QED BY <1>8 DEF Subsequence, u, v

\* What the text says up to n, by the reference, only grows.
LEMMA AllInOrder ==
  ASSUME NEW s \in Seq(Tokens), NEW n, n = Len(s)
  PROVE  \E upTo \in [0 .. n -> Seq(Calls)] :
           /\ upTo[0] = <<>> /\ AllCalls(s) = upTo[n]
           /\ \A i \in 1 .. n : upTo[i] = upTo[i - 1] \o ParseCallBlock(<<s[i]>>)
           /\ \A x \in Seq(Calls) : \A k \in 0 .. n : \A l \in k .. n :
                Subsequence(x, upTo[k]) => Subsequence(x, upTo[l])
<1> DEFINE pieces == [i \in 1 .. Len(s) |-> ParseCallBlock(<<s[i]>>)]
<1>1. n \in Nat
  OBVIOUS
<1>2. \A i \in 1 .. n : ParseCallBlock(<<s[i]>>) \in Seq(Calls)
  <2> SUFFICES ASSUME NEW i \in 1 .. n PROVE ParseCallBlock(<<s[i]>>) \in Seq(Calls)
    OBVIOUS
  <2>1. <<s[i]>> \in Seq(Tokens)
    OBVIOUS
  <2> QED BY <2>1, ParsedCalls
<1>3. /\ pieces \in Seq(Seq(Calls)) /\ Len(pieces) = n
      /\ \A i \in 1 .. n : pieces[i] = ParseCallBlock(<<s[i]>>)
  <2>1. pieces \in [1 .. n -> Seq(Calls)] /\ DOMAIN pieces = 1 .. n
    BY <1>2
  <2>2. \A i \in 1 .. n : pieces[i] = ParseCallBlock(<<s[i]>>)
    OBVIOUS
  <2> HIDE DEF pieces
  <2>3. pieces \in Seq(Seq(Calls))
    BY <1>1, <2>1, SeqDef
  <2>4. Len(pieces) = n
    BY <1>1, <2>1, <2>3, LenProperties
  <2> QED BY <2>2, <2>3, <2>4
<1>4. AllCalls(s) = FlattenSeq(pieces)
  BY DEF AllCalls
<1> HIDE DEF pieces
<1>5. PICK upTo \in [0 .. n -> Seq(Calls)] : UpTo(upTo, pieces) /\ FlattenSeq(pieces) = upTo[n]
  BY <1>3, Flattened
<1>6. upTo[0] = <<>> /\ \A i \in 1 .. n : upTo[i] = upTo[i - 1] \o ParseCallBlock(<<s[i]>>)
  BY <1>3, <1>5 DEF UpTo
<1>7. ASSUME NEW x \in Seq(Calls), NEW k \in 0 .. n, NEW l \in k .. n, Subsequence(x, upTo[k])
      PROVE  Subsequence(x, upTo[l])
  <2> DEFINE Bad == {i \in k .. l : ~ Subsequence(x, upTo[i])}
  <2>1. ASSUME Bad # {} PROVE FALSE
    <3>1. Bad \in SUBSET Nat
      BY <1>1
    <3>2. PICK i \in Bad : \A j \in Bad : i <= j
      <4> HIDE DEF Bad
      <4> QED BY <2>1, <3>1, Least
    <3>3. i # k
      BY <1>7, <3>2
    <3>4. /\ i \in 1 .. n /\ i - 1 \in k .. l /\ i - 1 \in 0 .. n /\ i \in 0 .. n
          /\ ~ (i <= i - 1)
      BY <1>1, <3>2, <3>3
    <3>5. Subsequence(x, upTo[i - 1])
      BY <3>2, <3>4
    <3>6. upTo[i - 1] \in Seq(Calls) /\ ParseCallBlock(<<s[i]>>) \in Seq(Calls)
      BY <1>2, <3>4
    <3>7. Subsequence(x, upTo[i - 1] \o ParseCallBlock(<<s[i]>>))
      BY <3>5, <3>6, SubsequenceMore
    <3>8. upTo[i] = upTo[i - 1] \o ParseCallBlock(<<s[i]>>)
      BY <1>6, <3>4
    <3> QED BY <3>2, <3>7, <3>8
  <2>2. l \in k .. l
    BY <1>1
  <2> QED BY <2>1, <2>2
<1>8. AllCalls(s) = upTo[n]
  BY <1>4, <1>5
<1> QED BY <1>6, <1>7, <1>8

LEMMA OnlySaid ==
  ASSUME NEW s \in Seq(Tokens)
  PROVE  Subsequence(ExtractToolCalls(s), AllCalls(s))
<1> DEFINE n == Len(s)
           X == {s[i] : i \in 1 .. n} \cup {"word"}
<1>1. n \in Nat /\ X \subseteq Tokens /\ "word" \in X /\ \A i \in 1 .. n : s[i] \in X
  BY DEF Tokens, Marks
<1>2. PICK upTo \in [0 .. n -> Seq(Calls)] :
           /\ upTo[0] = <<>> /\ AllCalls(s) = upTo[n]
           /\ \A i \in 1 .. n : upTo[i] = upTo[i - 1] \o ParseCallBlock(<<s[i]>>)
           /\ \A x \in Seq(Calls) : \A k \in 0 .. n : \A l \in k .. n :
                Subsequence(x, upTo[k]) => Subsequence(x, upTo[l])
  BY AllInOrder
<1>3. ASSUME NEW i \in 1 .. n PROVE ParseCallBlock(<<s[i]>>) \in Seq(Calls)
  <2>1. <<s[i]>> \in Seq(Tokens)
    OBVIOUS
  <2> QED BY <2>1, ParsedCalls
<1>4. ASSUME NEW calls \in Seq(Calls), NEW k \in 0 .. n, NEW i \in k + 1 .. n,
             Subsequence(calls, upTo[k])
      PROVE  Subsequence(calls \o ParseCallBlock(<<s[i]>>), upTo[i])
  <2>1. i \in 1 .. n /\ i - 1 \in k .. n /\ i - 1 \in 0 .. n
    BY <1>1
  <2>2. Subsequence(calls, upTo[i - 1])
    BY <1>2, <1>4, <2>1
  <2>3. upTo[i - 1] \in Seq(Calls) /\ upTo[i] = upTo[i - 1] \o ParseCallBlock(<<s[i]>>)
    BY <1>2, <2>1
  <2>4. ParseCallBlock(<<s[i]>>) \in Seq(Calls)
    BY <1>3, <2>1
  <2>5. Subsequence(calls \o ParseCallBlock(<<s[i]>>), upTo[i - 1] \o ParseCallBlock(<<s[i]>>))
    BY <2>2, <2>3, <2>4, SubsequenceBoth
  <2> QED BY <2>3, <2>5
<1>5. ASSUME NEW i \in 1 .. n PROVE Subsequence(ParseCallBlock(<<s[i]>>), AllCalls(s))
  <2>1. <<>> \in Seq(Calls) /\ 0 \in 0 .. n /\ i \in 0 + 1 .. n /\ i \in 0 .. n /\ n \in i .. n
    BY <1>1, EmptySeq
  <2>2. Subsequence(<<>>, upTo[0])
    BY SubsequenceOfNothing
  <2>3. Subsequence(<<>> \o ParseCallBlock(<<s[i]>>), upTo[i])
    BY <1>4, <2>1, <2>2
  <2>4. ParseCallBlock(<<s[i]>>) \in Seq(Calls)
    BY <1>3
  <2>5. <<>> \o ParseCallBlock(<<s[i]>>) = ParseCallBlock(<<s[i]>>)
    BY <2>4, ConcatEmptySeq
  <2> QED BY <1>2, <2>1, <2>3, <2>4, <2>5
<1> DEFINE I == {x \in Seq(Calls) \X (0 .. n) \X Seq(X) : Subsequence(x[1], upTo[x[2]])}
<1>6. <<<<>>, 0, <<>>>> \in I
  <2>1. Subsequence(<<>>, upTo[0])
    BY SubsequenceOfNothing
  <2>2. <<>> \in Seq(Calls) /\ <<>> \in Seq(X) /\ 0 \in 0 .. n
    BY <1>1, EmptySeq
  <2> QED BY <2>1, <2>2
<1>7. ASSUME NEW calls, NEW k, NEW kept, NEW a, NEW b,
             <<calls, k, kept>> \in I, k \in 0 .. n, kept \in Seq(Tokens),
             a \in Nat, b \in Nat, NextBlock(s, k, a, b)
      PROVE  <<calls \o ParseCallBlock(SubSeq(s, a + 1, b - 1)), b, Kept(s, k, kept, a, b)>> \in I
  <2> DEFINE block == SubSeq(s, a + 1, b - 1)
             more == calls \o ParseCallBlock(block)
             left == Kept(s, k, kept, a, b)
  <2>1. calls \in Seq(Calls) /\ kept \in Seq(X) /\ Subsequence(calls, upTo[k])
    BY <1>7
  <2> HIDE DEF I
  <2>2. /\ a \in k + 1 .. n /\ b \in a + 1 .. n /\ b \in 0 .. n /\ b \in k .. n
        /\ a \in 0 .. n /\ b - 1 \in a .. n
    BY <1>1, <1>7 DEF NextBlock
  <2>3. /\ block \in Seq(Tokens) /\ Len(block) = (b - 1) - a
        /\ \A i \in 1 .. (b - 1) - a : block[i] = s[a + i]
    BY <2>2, Between
  <2>4. left \in Seq(X)
    <3>1. \A j \in k + 1 .. a - 1 : s[j] \in X
      <4>1. \A j \in k + 1 .. a - 1 : j \in 1 .. n
        BY <1>1, <1>7, <2>2
      <4> QED BY <1>1, <4>1
    <3> HIDE DEF X
    <3> QED BY <1>1, <1>7, <2>1, <3>1, KeptIn
  <2>5. more \in Seq(Calls) /\ Subsequence(more, upTo[b])
    <3> HIDE DEF block, n
    <3>1. CASE ParseCallBlock(block) = <<>>
      <4>1. more = calls
        BY <2>1, <3>1, ConcatEmptySeq
      <4> HIDE DEF more
      <4> QED BY <1>2, <1>7, <2>1, <2>2, <4>1
    <3>2. CASE ParseCallBlock(block) # <<>>
      <4>1. Len(block) = 1
        BY <3>2 DEF ParseCallBlock
      <4>2. b = a + 2 /\ a + 1 \in k + 1 .. n /\ a + 1 \in 1 .. n /\ block[1] = s[a + 1]
        <5>0. Len(block) = (b - 1) - a
          BY <2>3
        <5>1. (b - 1) - a = 1 /\ a \in Nat /\ b \in Nat
          BY <1>7, <4>1, <5>0
        <5>2. b = a + 2
          BY <5>1
        <5>3. a + 1 \in k + 1 .. n /\ a + 1 \in 1 .. n
          <6>1. n \in Nat
            BY <1>1
          <6>2. k \in 0 .. n
            BY <1>7
          <6>3. a \in k + 1 .. n /\ b \in a + 1 .. n
            BY <2>2
          <6> QED BY <5>1, <5>2, <6>1, <6>2, <6>3
        <5>4. 1 \in 1 .. (b - 1) - a
          BY <5>1
        <5>5. block[1] = s[a + 1]
          BY <2>3, <5>4
        <5> QED BY <5>2, <5>3, <5>5
      <4>3. block = <<s[a + 1]>>
        <5> DEFINE u == <<s[a + 1]>>
        <5>1. u \in Seq(Tokens) /\ Len(u) = 1 /\ u[1] = s[a + 1]
          BY <1>1, <4>2
        <5> HIDE DEF u
        <5>2. \A i \in 1 .. Len(block) : block[i] = u[i]
          BY <4>1, <4>2, <5>1
        <5>3. block = u
          BY <2>3, <4>1, <5>1, <5>2, SeqEqual
        <5> QED BY <5>3 DEF u
      <4>4. Subsequence(more, upTo[a + 1])
        BY <1>4, <1>7, <2>1, <4>2, <4>3
      <4>5. more \in Seq(Calls)
        BY <2>1, <2>3, ParsedCalls, ConcatProperties
      <4>6. a + 1 \in 0 .. n /\ b \in a + 1 .. n
        BY <1>1, <2>2, <4>2
      <4> HIDE DEF more
      <4> QED BY <1>2, <4>4, <4>5, <4>6
    <3> QED BY <3>1, <3>2
  <2> HIDE DEF more, left, block, X, n
  <2>6. <<more, b, left>> \in I
    BY <2>2, <2>4, <2>5 DEF I
  <2> QED BY <2>6 DEF more, left, block
<1>8. PICK calls, k, kept :
           /\ <<calls, k, kept>> \in I /\ k \in 0 .. Len(s) /\ kept \in Seq(Tokens)
           /\ ~ \E a, b \in Nat : NextBlock(s, k, a, b)
           /\ FencedCalls(s) = Searched(s, calls, k, kept)
  <2> HIDE DEF I
  <2> QED BY <1>6, <1>7, SearchEnds
<1>9. /\ calls \in Seq(Calls) /\ k \in 0 .. n /\ kept \in Seq(X) /\ Subsequence(calls, upTo[k])
      /\ n \in k .. n
  BY <1>1, <1>8
<1> DEFINE rest == kept \o Behind(s, k)
<1>10. FencedCalls(s).calls = calls /\ FencedCalls(s).rest = rest
  BY <1>8 DEF Searched
<1> HIDE DEF I
<1>11. rest \in Seq(X)
  <2>1. Behind(s, k) \in Seq(X)
    <3>1. \A i \in k + 1 .. Len(s) : s[i] \in X
      BY <1>1, <1>9
    <3>2. k + 1 \in Int /\ Len(s) \in Int
      BY <1>1, <1>9
    <3> HIDE DEF X, n
    <3> QED BY <3>1, <3>2, SubSeqProperties DEF Behind
  <2> HIDE DEF X
  <2> QED BY <1>9, <2>1, ConcatProperties
<1>12. CASE calls # <<>>
  <2>1. ExtractToolCalls(s) = calls
    BY <1>10, <1>12 DEF ExtractToolCalls
  <2> QED BY <1>2, <1>9, <2>1
<1>13. CASE calls = <<>>
  <2>1. ExtractToolCalls(s) = Bare(rest)
    BY <1>10, <1>13 DEF ExtractToolCalls
  <2> HIDE DEF rest
  <2>2. Len(rest) \in Nat /\ \A i \in 1 .. Len(rest) : rest[i] \in X
    BY <1>11
  <2>3. ASSUME NEW i \in 1 .. Len(rest), rest[i] # "word"
        PROVE  \E j \in 1 .. n : rest[i] = s[j]
    BY <2>2, <2>3
  <2>4. CASE First(rest, {"wrap"}, 1) # 0
    <3> DEFINE f == First(rest, {"wrap"}, 1)
    <3>1. f \in 1 .. Len(rest) /\ rest[f] = "wrap"
      BY <2>2, <2>4, FirstIs
    <3>2. PICK j \in 1 .. n : s[j] = "wrap"
      BY <2>3, <3>1
    <3>3. ParseCallBlock(<<s[j]>>) = WrapperCalls
      BY <3>2 DEF ParseCallBlock
    <3>4. Bare(rest) = WrapperCalls
      BY <2>4 DEF Bare
    <3> QED BY <1>5, <2>1, <3>3, <3>4
  <2> DEFINE start == First(rest, Calls \cup {"bad"}, 1)
  <2>5. CASE First(rest, {"wrap"}, 1) = 0 /\ (start = 0 \/ rest[start] = "bad")
    <3>1. Bare(rest) = <<>>
      BY <2>5 DEF Bare
    <3> QED BY <2>1, <3>1, SubsequenceOfNothing
  <2>6. CASE First(rest, {"wrap"}, 1) = 0 /\ start # 0 /\ rest[start] # "bad"
    <3>1. start \in 1 .. Len(rest) /\ rest[start] \in Calls
      BY <2>2, <2>6, FirstIs
    <3>2. Bare(rest) = <<rest[start]>>
      BY <2>6 DEF Bare
    <3> HIDE DEF start
    <3>3. rest[start] # "word" /\ rest[start] # "wrap"
      BY <3>1, ToolCallsAssumption DEF Marks
    <3>4. PICK j \in 1 .. n : s[j] = rest[start]
      BY <2>3, <3>1, <3>3
    <3>5. ParseCallBlock(<<s[j]>>) = <<rest[start]>>
      BY <3>1, <3>3, <3>4 DEF ParseCallBlock
    <3> QED BY <1>5, <2>1, <3>2, <3>5
  <2> QED BY <2>4, <2>5, <2>6
<1> QED BY <1>12, <1>13

\* No call is made that the text does not contain: see NothingInvented.
THEOREM CallsAreSaid == TextSpec => []NothingInvented
<1>1. TextTyped => NothingInvented
  BY OnlySaid DEF TextTyped, NothingInvented
<1> QED BY <1>1, TextsTyped, PTL

-----------------------------------------------------------------------------
(* The call of an answer that is cut off.                                  *)

LEMMA CutOffFound ==
  ASSUME NEW s \in Seq(Tokens), WellFenced(s), NEW i \in 1 .. Len(s), s[i] = "open",
         First(s, {"close"}, i) = 0,
         NEW object, object = First(s, Calls \cup {"wrap", "bad"}, i),
         object # 0, s[object] # "bad",
         \A j \in Outside(s, i) : s[j] # "bad"
  PROVE  ExtractToolCalls(s) # <<>>
<1> DEFINE n == Len(s)
           X == Tokens \ {"bad"}
<1>1. n \in Nat /\ i \in Nat \ {0} /\ i \in 1 .. n /\ DOMAIN s = 1 .. n
  OBVIOUS
<1>2. \A j \in i .. n : s[j] # "close"
  BY <1>1, FirstIs
<1>3. /\ object \in i .. n /\ s[object] \in Calls \cup {"wrap"}
      /\ \A j \in i .. object - 1 : s[j] \notin Calls \cup {"wrap", "bad"}
  BY <1>1, FirstIs
\* Between the closed blocks nothing is damaged.
<1>4. ASSUME NEW k \in 0 .. n, NextOpens(s, k), NEW j \in k + 1 .. i,
             \A l \in k + 1 .. j - 1 : s[l] \notin Fence
      PROVE  s[j] # "bad"
  <2>1. j \in Outside(s, i)
    <3> SUFFICES ASSUME NEW f \in Fences(s), f < j
                 PROVE  \E l \in f .. j - 1 : s[l] = "close"
      <4>1. j \in 1 .. i
        BY <1>1
      <4> QED BY <4>1 DEF Outside
    <3>1. f \in 1 .. n /\ s[f] \in Fence
      BY <1>1 DEF Fences, Fence
    <3>2. ~ (k < f)
      BY <1>1, <1>4, <3>1
    <3>3. k # 0 /\ k \in f .. j - 1
      BY <1>1, <3>1, <3>2
    <3> QED BY <1>4, <3>3 DEF NextOpens
  <2> QED BY <2>1
<1> HIDE DEF n
<1> DEFINE I == {x \in Seq(Calls) \X (0 .. i - 1) \X Seq(X) : NextOpens(s, x[2])}
<1>5. <<<<>>, 0, <<>>>> \in I
  <2>1. <<>> \in Seq(Calls) /\ <<>> \in Seq(X) /\ 0 \in 0 .. i - 1 /\ NextOpens(s, 0)
    BY <1>1, EmptySeq DEF NextOpens
  <2> QED BY <2>1
<1>6. ASSUME NEW calls, NEW k, NEW kept, NEW a, NEW b,
             <<calls, k, kept>> \in I, k \in 0 .. Len(s), kept \in Seq(Tokens),
             a \in Nat, b \in Nat, NextBlock(s, k, a, b)
      PROVE  <<calls \o ParseCallBlock(SubSeq(s, a + 1, b - 1)), b, Kept(s, k, kept, a, b)>> \in I
  <2> DEFINE block == SubSeq(s, a + 1, b - 1)
             more == calls \o ParseCallBlock(block)
             left == Kept(s, k, kept, a, b)
  <2>1. calls \in Seq(Calls) /\ kept \in Seq(X) /\ NextOpens(s, k) /\ k \in 0 .. i - 1 /\ k \in 0 .. n
    BY <1>6 DEF n
  <2> HIDE DEF I
  <2>2. s[b] = "close" /\ \A l \in k + 1 .. a - 1 : s[l] \notin Fence
    BY <1>6, <2>1, BlockCloses
  <2>3. k < a /\ a < b /\ b <= n
    BY <1>6 DEF NextBlock, n
  <2>4. b \in 0 .. i - 1
    <3>1. ~ (b \in i .. n)
      BY <1>2, <2>2
    <3> QED BY <1>1, <1>6, <2>3, <3>1
  <2>5. block \in Seq(Tokens)
    <3>1. a \in 0 .. Len(s) /\ b - 1 \in a .. Len(s)
      BY <1>1, <1>6, <2>3 DEF n
    <3> QED BY <3>1, Between
  <2>6. more \in Seq(Calls)
    <3> HIDE DEF block
    <3> QED BY <2>1, <2>5, ParsedCalls, ConcatProperties
  <2>7. left \in Seq(X)
    <3>1. ASSUME NEW j \in k + 1 .. a - 1 PROVE s[j] \in X
      <4>1. j \in k + 1 .. i /\ j \in 1 .. n /\ \A l \in k + 1 .. j - 1 : l \in k + 1 .. a - 1
        BY <1>1, <1>6, <2>1, <2>3, <2>4
      <4>2. s[j] # "bad"
        BY <1>4, <2>1, <2>2, <4>1
      <4> QED BY <1>1, <4>1, <4>2
    <3>2. "word" \in X
      BY DEF Tokens, Marks
    <3> HIDE DEF X
    <3> QED BY <1>6, <2>1, <3>1, <3>2, KeptIn
  <2>8. NextOpens(s, b)
    BY <2>2 DEF NextOpens
  <2> HIDE DEF more, left, block, X
  <2>9. <<more, b, left>> \in I
    BY <2>4, <2>6, <2>7, <2>8 DEF I
  <2> QED BY <2>9 DEF more, left, block
<1>7. PICK calls, k, kept :
           /\ <<calls, k, kept>> \in I /\ k \in 0 .. Len(s) /\ kept \in Seq(Tokens)
           /\ ~ \E a, b \in Nat : NextBlock(s, k, a, b)
           /\ FencedCalls(s) = Searched(s, calls, k, kept)
  <2> HIDE DEF I
  <2> QED BY <1>5, <1>6, SearchEnds
<1>8. /\ calls \in Seq(Calls) /\ k \in 0 .. i - 1 /\ kept \in Seq(X) /\ NextOpens(s, k)
      /\ k \in 0 .. n /\ i \in k + 1 .. n
  BY <1>1, <1>7 DEF n
<1> HIDE DEF I
\* The fence at i is the next one: the one before it would make a block with it.
<1>9. \A l \in k + 1 .. i - 1 : s[l] \notin Fence
  <2> SUFFICES ASSUME NEW l \in k + 1 .. i - 1, s[l] \in Fence PROVE FALSE
    OBVIOUS
  <2> DEFINE f == First(s, Fence, k + 1)
  <2>1. f \in k + 1 .. n /\ s[f] \in Fence /\ \A m \in k + 1 .. f - 1 : s[m] \notin Fence
    <3>1. l \in k + 1 .. n /\ k + 1 \in Nat \ {0}
      BY <1>1, <1>8
    <3>2. \/ f = 0 /\ \A m \in k + 1 .. n : s[m] \notin Fence
          \/ f \in k + 1 .. n /\ s[f] \in Fence /\ \A m \in k + 1 .. f - 1 : s[m] \notin Fence
      BY <1>1, <3>1, FirstIs DEF n
    <3> HIDE DEF f
    <3> QED BY <3>1, <3>2
  <2> HIDE DEF f
  <2>2. f <= l
    BY <1>1, <1>8, <2>1
  <2>3. f \in k + 1 .. Len(s) /\ i \in f + 1 .. Len(s) /\ k \in 0 .. Len(s) /\ s[i] \in Fence
    BY <1>1, <1>8, <2>1, <2>2 DEF n, Fence
  <2>4. s[f] = "open"
    BY <1>8, <2>1, <2>3, OpensNext
  <2> QED BY <1>7, <2>3, <2>4, NoneLeft
<1>10. ASSUME NEW j \in k + 1 .. object - 1 PROVE s[j] # "bad"
  <2>1. CASE j <= i
    <3>1. j \in k + 1 .. i /\ \A l \in k + 1 .. j - 1 : l \in k + 1 .. i - 1
      BY <1>1, <1>8, <2>1
    <3> QED BY <1>4, <1>8, <1>9, <3>1
  <2>2. CASE i < j
    <3>1. j \in i .. object - 1
      BY <1>1, <1>3, <1>8, <2>2
    <3> QED BY <1>3, <3>1
  <2>3. j <= i \/ i < j
    BY <1>1, <1>8
  <2> QED BY <2>1, <2>2, <2>3
<1> DEFINE rest == kept \o Behind(s, k)
           p == Len(kept)
<1>11. FencedCalls(s).calls = calls /\ FencedCalls(s).rest = rest
  BY <1>7 DEF Searched
<1>12. p \in Nat /\ \A j \in 1 .. p : kept[j] # "bad"
  BY <1>8
<1>13. /\ Len(rest) = p + n - k
       /\ \A j \in 1 .. p : rest[j] = kept[j]
       /\ \A j \in k + 1 .. n : rest[p + j - k] = s[j]
  <2>1. k \in 0 .. Len(s) /\ kept \in Seq(Tokens)
    BY <1>7
  <2>2. Joined(kept \o Behind(s, k), s, k, kept)
    BY <2>1, RemainsJoined
  <2> HIDE DEF p
  <2>3. Joined(rest, s, k, kept)
    BY <2>2
  <2> HIDE DEF rest
  <2> QED BY <2>3 DEF Joined, p, n
<1> HIDE DEF rest, p
<1>14. CASE calls # <<>>
  BY <1>11, <1>14 DEF ExtractToolCalls
<1>15. CASE calls = <<>>
  <2>1. ExtractToolCalls(s) = Bare(rest)
    BY <1>11, <1>15 DEF ExtractToolCalls
  <2>2. Len(rest) \in Nat
    BY <1>1, <1>8, <1>12, <1>13
  <2> DEFINE o == p + object - k
  <2>3. o \in 1 .. Len(rest) /\ rest[o] = s[object] /\ object \in k + 1 .. n
    <3>1. n \in Nat /\ i \in Nat /\ k \in 0 .. i - 1 /\ p \in Nat /\ object \in i .. n
      BY <1>1, <1>3, <1>8, <1>12
    <3>2. object \in k + 1 .. n /\ o \in 1 .. p + n - k
      BY <3>1
    <3>3. rest[o] = s[object]
      BY <1>13, <3>2
    <3> QED BY <1>13, <3>2, <3>3
  <2>4. ASSUME NEW j \in 1 .. o - 1 PROVE rest[j] # "bad"
    <3>1. CASE j <= p
      <4>1. j \in 1 .. p
        BY <1>12, <3>1
      <4> QED BY <1>12, <1>13, <4>1
    <3>2. CASE p < j
      <4>1. /\ j - p + k \in k + 1 .. object - 1 /\ j - p + k \in k + 1 .. n
            /\ p + (j - p + k) - k = j
        <5>1. /\ j \in Nat /\ k \in Nat /\ p \in Nat /\ object \in Nat /\ n \in Nat
              /\ j < p + object - k /\ object <= n
          <6>1. n \in Nat /\ i \in Nat
            BY <1>1
          <6>2. k \in 0 .. i - 1
            BY <1>8
          <6>3. object \in k + 1 .. n
            BY <2>3
          <6>4. p \in Nat
            BY <1>12
          <6> QED BY <6>1, <6>2, <6>3, <6>4
        <5> HIDE DEF o
        <5> QED BY <3>2, <5>1
      <4>2. rest[j] = s[j - p + k]
        BY <1>13, <4>1
      <4> QED BY <1>10, <4>1, <4>2
    <3>3. j <= p \/ p < j
      BY <1>12
    <3> QED BY <3>1, <3>2, <3>3
  <2> HIDE DEF o
  <2> DEFINE w == First(rest, {"wrap"}, 1)
             start == First(rest, Calls \cup {"bad"}, 1)
  <2>5. CASE w # 0
    <3>1. Bare(rest) = WrapperCalls
      BY <2>5 DEF Bare
    <3> QED BY <2>1, <3>1, ToolCallsAssumption
  <2>6. CASE w = 0
    <3>1. rest[o] # "wrap"
      BY <2>2, <2>3, <2>6, FirstIs
    <3>2. rest[o] \in Calls
      BY <1>3, <2>3, <3>1
    <3>3. start \in 1 .. Len(rest) /\ \A j \in 1 .. start - 1 : rest[j] \notin Calls \cup {"bad"}
      <4>1. \/ start = 0 /\ \A j \in 1 .. Len(rest) : rest[j] \notin Calls \cup {"bad"}
            \/ /\ start \in 1 .. Len(rest)
               /\ \A j \in 1 .. start - 1 : rest[j] \notin Calls \cup {"bad"}
        BY <2>2, FirstIs
      <4> HIDE DEF start
      <4> QED BY <2>3, <3>2, <4>1
    <3> HIDE DEF start
    <3>4. start <= o
      BY <2>2, <2>3, <3>2, <3>3
    <3>5. rest[start] # "bad"
      <4>1. CASE start = o
        <5>1. rest[start] \in Calls
          BY <3>2, <4>1
        <5> QED BY <5>1, ToolCallsAssumption DEF Marks
      <4>2. CASE start # o
        <5>1. start \in 1 .. o - 1
          BY <2>2, <2>3, <3>3, <3>4, <4>2
        <5> QED BY <2>4, <5>1
      <4> QED BY <4>1, <4>2
    <3>6. start # 0
      BY <2>2, <3>3
    <3>7. Bare(rest) = <<rest[start]>>
      BY <2>6, <3>5, <3>6 DEF Bare, start
    <3> QED BY <2>1, <3>7
  <2> QED BY <2>5, <2>6
<1> QED BY <1>14, <1>15

\* A cut-off answer still makes its call: see CutOffCallFound.
THEOREM CutOffIsFound == TextSpec => []CutOffCallFound
<1>1. TextTyped => CutOffCallFound
  <2> SUFFICES ASSUME TextTyped, NEW i \in DOMAIN text, WellFenced(text), text[i] = "open",
                      First(text, {"close"}, i) = 0,
                      NEW object, object = First(text, Calls \cup {"wrap", "bad"}, i),
                      object # 0, text[object] # "bad",
                      \A j \in Outside(text, i) : text[j] # "bad"
               PROVE  ExtractToolCalls(text) # <<>>
    BY DEF CutOffCallFound
  <2>1. text \in Seq(Tokens) /\ i \in 1 .. Len(text)
    BY DEF TextTyped
  <2> QED BY <2>1, CutOffFound
<1> QED BY <1>1, TextsTyped, PTL
=============================================================================
