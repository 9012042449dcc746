--------------------------- MODULE LogFilterProofs ---------------------------
(***************************************************************************)
(* Proofs about LogFilter: that a call which succeeds returns every log of *)
(* its range once and in order, and that failures have a reason; for any   *)
(* limits, any chain and any replies.                                      *)
(***************************************************************************)
EXTENDS LogFilter, SequenceTheorems, TLAPS

-----------------------------------------------------------------------------
(* The inductive invariant.                                                *)

\* The ranges of s follow each other, and none is empty.
Adjacent(s) ==
  /\ \A i \in 1..Len(s) : s[i].from <= s[i].to
  /\ \A i \in 1..Len(s) : \A j \in 1..Len(s) :
       j = i + 1 => s[j].from = s[i].to + 1

InRange == 0 <= from /\ from <= chunk.to /\ chunk.to <= to

\* The logs collected are those of the blocks before the first range of todo,
\* and the ranges of todo are the rest of the chunk.
FilterInv ==
  pc = "filter" =>
    /\ InRange
    /\ todo # <<>>
    /\ Adjacent(todo)
    /\ from <= todo[1].from
    /\ todo[Len(todo)].to = chunk.to
    /\ logs = Logs(from, todo[1].from - 1)

ChunkInv ==
  pc = "chunk" =>
    /\ InRange
    /\ chunk.to < to
    /\ logs = Logs(from, chunk.to)

Limit == IF refusals.rateLimit > 0 THEN RateLimitAttempts ELSE Attempts

RequestInv ==
  pc \in {"chunk", "filter"} =>
    /\ attempt = 1 + refusals.plain + refusals.rateLimit
    /\ maxAttempts = Limit
    /\ attempt <= maxAttempts

IInv ==
  /\ TypeOK
  /\ pc = "begin" => logs = <<>>
  /\ FilterInv
  /\ ChunkInv
  /\ RequestInv
  /\ Complete
  /\ FailuresExplained

-----------------------------------------------------------------------------
(* Logs of adjacent ranges.                                                *)

LEMMA LogsAreNumbers ==
  ASSUME upTo \in Chains, NEW a \in Blocks, NEW n \in Nat
  PROVE  /\ FirstLogs(a, n) \in Seq(Nat)
         /\ Len(FirstLogs(a, n)) = n
         /\ \A k \in 1..n : FirstLogs(a, n)[k] = upTo[a - 1] + k
<1>1. upTo[a - 1] \in Nat
  BY BoundsAssumption DEF Chains, Blocks
<1>2. \A k \in 1..n : upTo[a - 1] + k \in Nat
  BY <1>1
<1> QED BY <1>2 DEF FirstLogs

LEMMA NumberIsNat ==
  ASSUME upTo \in Chains,
         NEW a \in Blocks, NEW b \in -1..MaxBlock, a - 1 <= b
  PROVE  /\ Number(a, b) \in Nat
         /\ b = a - 1 => Number(a, b) = 0
BY BoundsAssumption DEF Chains, Blocks, Number

LEMMA LogsJoin ==
  ASSUME upTo \in Chains,
         NEW a \in Blocks, NEW b \in Blocks, NEW c \in Blocks,
         a <= b, b <= c
  PROVE  Logs(a, b - 1) \o Logs(b, c) = Logs(a, c)
<1> DEFINE s == Logs(a, b - 1)
           t == Logs(b, c)
           r == Logs(a, c)
<1>1. /\ Number(a, b - 1) \in Nat
      /\ Number(b, c) \in Nat
      /\ Number(a, c) \in Nat
  BY NumberIsNat, BoundsAssumption DEF Blocks
<1>2. /\ Number(a, c) = Number(a, b - 1) + Number(b, c)
      /\ upTo[b - 1] = upTo[a - 1] + Number(a, b - 1)
  BY BoundsAssumption DEF Chains, Blocks, Number
<1>3. /\ s \in Seq(Nat) /\ Len(s) = Number(a, b - 1)
      /\ \A k \in 1..Number(a, b - 1) : s[k] = upTo[a - 1] + k
  BY <1>1, LogsAreNumbers DEF Logs
<1>4. /\ t \in Seq(Nat) /\ Len(t) = Number(b, c)
      /\ \A k \in 1..Number(b, c) : t[k] = upTo[b - 1] + k
  BY <1>1, LogsAreNumbers DEF Logs
<1>5. /\ r \in Seq(Nat) /\ Len(r) = Number(a, c)
      /\ \A k \in 1..Number(a, c) : r[k] = upTo[a - 1] + k
  BY <1>1, LogsAreNumbers DEF Logs
<1> HIDE DEF s, t, r
<1>6. /\ s \o t \in Seq(Nat)
      /\ Len(s \o t) = Len(s) + Len(t)
      /\ \A i \in 1..Len(s) + Len(t) : (s \o t)[i] =
           IF i <= Len(s) THEN s[i] ELSE t[i - Len(s)]
  BY <1>3, <1>4, ConcatProperties
<1>7. upTo[a - 1] \in Nat
  BY BoundsAssumption DEF Chains, Blocks
<1>8. \A i \in 1..Len(s \o t) : (s \o t)[i] = r[i]
  <2> TAKE i \in 1..Len(s \o t)
  <2>1. CASE i <= Len(s)
    BY <2>1, <1>1, <1>2, <1>3, <1>4, <1>5, <1>6
  <2>2. CASE ~(i <= Len(s))
    <3>1. i - Len(s) \in 1..Number(b, c)
      BY <2>2, <1>1, <1>3, <1>4, <1>6
    <3>2. t[i - Len(s)] = upTo[a - 1] + Number(a, b - 1) + (i - Len(s))
      BY <3>1, <1>2, <1>4
    <3>3. (s \o t)[i] = t[i - Len(s)]
      BY <2>2, <1>6
    <3>4. r[i] = upTo[a - 1] + i
      BY <1>2, <1>3, <1>4, <1>5, <1>6
    <3>5. i \in Nat /\ Len(s) = Number(a, b - 1)
      BY <1>1, <1>3, <1>6
    <3> QED BY <3>2, <3>3, <3>4, <3>5, <1>1, <1>7
  <2> QED BY <2>1, <2>2
<1>9. Len(s \o t) = Len(r)
  BY <1>2, <1>3, <1>4, <1>5, <1>6
<1>10. s \o t = r
  BY <1>5, <1>6, <1>8, <1>9, SeqEqual
<1> QED BY <1>10 DEF s, t, r

LEMMA NoLogsBefore ==
  ASSUME upTo \in Chains, NEW a \in Blocks
  PROVE  Logs(a, a - 1) = <<>>
<1>1. Number(a, a - 1) = 0
  BY NumberIsNat, BoundsAssumption DEF Blocks
<1>2. Len(Logs(a, a - 1)) = 0 /\ Logs(a, a - 1) \in Seq(Nat)
  BY <1>1, LogsAreNumbers DEF Logs
<1> QED BY <1>2, EmptySeq

-----------------------------------------------------------------------------
(* The calls in todo.                                                      *)

Short == {r \in BlockRange : r.to - r.from < MaxRange}

LEMMA Front ==
  ASSUME TypeOK, todo # <<>>
  PROVE  /\ Asked = todo[1] /\ Asked \in Short
         /\ Len(todo) \in Nat \ {0}
         /\ Tail(todo) \in Seq(Short)
         /\ Len(Tail(todo)) = Len(todo) - 1
         /\ \A i \in 1..Len(Tail(todo)) : Tail(todo)[i] = todo[i + 1]
<1>1. todo \in Seq(Short)
  BY DEF TypeOK, Short
<1>2. Len(todo) \in Nat \ {0}
  BY <1>1, EmptySeq
<1>3. /\ Tail(todo) \in Seq(Short)
      /\ Len(Tail(todo)) = Len(todo) - 1
      /\ \A i \in 1..Len(Tail(todo)) : Tail(todo)[i] = todo[i + 1]
  BY <1>1, HeadTailProperties
<1>4. Asked \in Short
  BY <1>1, HeadTailProperties DEF Asked
<1>5. Asked = todo[1]
  BY <1>1, <1>2 DEF Asked
<1> QED BY <1>2, <1>3, <1>4, <1>5

LEMMA MiddleInside ==
  ASSUME NEW r \in BlockRange, r.from < r.to
  PROVE  Middle(r) \in Nat /\ r.from <= Middle(r) /\ Middle(r) < r.to
<1>1. r.from \in Nat /\ r.to \in Nat
  BY BoundsAssumption DEF BlockRange, Blocks
<1>2. \A d \in Nat : d > 0 => /\ d \div 2 \in Nat
                             /\ d \div 2 < d
  OBVIOUS
<1>3. /\ (r.to - r.from) \div 2 \in Nat
      /\ (r.to - r.from) \div 2 < r.to - r.from
  BY <1>1, <1>2
<1> QED BY <1>1, <1>3 DEF Middle

LEMMA Pair ==
  ASSUME NEW S, NEW x \in S, NEW y \in S
  PROVE  <<x, y>> \in Seq(S) /\ Len(<<x, y>>) = 2
OBVIOUS

LEMMA HalvesAdjacent ==
  ASSUME TypeOK, todo # <<>>, Adjacent(todo), Asked.from # Asked.to
  PROVE  LET s == Halves(Asked) \o Tail(todo) IN
           /\ s \in Seq(Short) /\ s # <<>> /\ Adjacent(s)
           /\ s[1].from = todo[1].from
           /\ s[Len(s)].to = todo[Len(todo)].to
<1> DEFINE h == Halves(Asked)
           t == Tail(todo)
           s == h \o t
<1>1. /\ Asked = todo[1] /\ Asked \in Short
      /\ Len(todo) \in Nat \ {0}
      /\ t \in Seq(Short)
      /\ Len(t) = Len(todo) - 1
      /\ \A i \in 1..Len(t) : t[i] = todo[i + 1]
  BY Front
<1>2. Asked.from < Asked.to
  <2>1. Asked.from <= Asked.to
    BY <1>1 DEF Adjacent
  <2> QED BY <1>1, <2>1, BoundsAssumption DEF Short, BlockRange, Blocks
<1>3. /\ Middle(Asked) \in Nat
      /\ Asked.from <= Middle(Asked) /\ Middle(Asked) < Asked.to
  BY <1>1, <1>2, MiddleInside DEF Short
<1>4. /\ h[1] \in Short /\ h[2] \in Short
      /\ h[1].from = Asked.from /\ h[1].from <= h[1].to
      /\ h[2].from = h[1].to + 1 /\ h[2].from <= h[2].to
      /\ h[2].to = Asked.to
  BY <1>1, <1>3, LimitsAssumption, BoundsAssumption
  DEF Halves, Short, BlockRange, Blocks
<1>5. h = <<h[1], h[2]>>
  BY DEF Halves
<1> HIDE DEF h
<1>6. h \in Seq(Short) /\ Len(h) = 2
  BY <1>4, <1>5, Pair
<1> HIDE DEF t
<1>7. /\ s \in Seq(Short)
      /\ Len(s) = 2 + Len(t)
      /\ \A i \in 1..2 + Len(t) : s[i] = IF i <= 2 THEN h[i] ELSE t[i - 2]
  <2>1. /\ h \o t \in Seq(Short)
        /\ Len(h \o t) = Len(h) + Len(t)
        /\ \A i \in 1..Len(h) + Len(t) : (h \o t)[i] =
             IF i <= Len(h) THEN h[i] ELSE t[i - Len(h)]
    BY <1>1, <1>6, ConcatProperties
  <2> QED BY <2>1, <1>6
<1> HIDE DEF s
<1>8. /\ Len(s) = Len(todo) + 1
      /\ s[1] = h[1] /\ s[2] = h[2]
      /\ \A i \in 1..Len(s) : i > 2 => s[i] = todo[i - 1]
  <2>1. Len(s) = Len(todo) + 1
    BY <1>1, <1>7
  <2>2. ASSUME NEW i \in 1..Len(s), i > 2
        PROVE  s[i] = todo[i - 1]
    <3>1. i - 2 \in 1..Len(t) /\ s[i] = t[i - 2]
      BY <1>1, <1>7, <2>2
    <3>2. t[i - 2] = todo[(i - 2) + 1]
      BY <1>1, <3>1
    <3>3. (i - 2) + 1 = i - 1
      BY <2>1, <1>1
    <3> QED BY <3>1, <3>2, <3>3
  <2> QED BY <1>1, <1>7, <2>1, <2>2
<1>9. \A i \in 1..Len(s) : s[i].from <= s[i].to
  <2> TAKE i \in 1..Len(s)
  <2>1. i \in {1, 2} \/ i > 2
    BY <1>1, <1>8
  <2>2. CASE i > 2
    <3>1. i - 1 \in 1..Len(todo) /\ s[i] = todo[i - 1]
      BY <2>2, <1>1, <1>8
    <3> QED BY <3>1 DEF Adjacent
  <2> QED BY <2>1, <2>2, <1>4, <1>8
<1>10. \A i, j \in 1..Len(s) : j = i + 1 => s[j].from = s[i].to + 1
  <2> SUFFICES ASSUME NEW i \in 1..Len(s), NEW j \in 1..Len(s), j = i + 1
               PROVE  s[j].from = s[i].to + 1
    OBVIOUS
  <2>1. CASE i = 1
    BY <2>1, <1>4, <1>8
  <2>2. CASE i = 2
    <3>1. /\ s[j] = todo[2] /\ 2 \in 1..Len(todo) /\ 1 \in 1..Len(todo)
      BY <2>2, <1>1, <1>8
    <3>2. todo[2].from = todo[1].to + 1
      BY <3>1 DEF Adjacent
    <3> QED BY <2>2, <3>1, <3>2, <1>1, <1>4, <1>8
  <2>3. CASE i > 2
    <3>1. /\ i - 1 \in 1..Len(todo) /\ j - 1 \in 1..Len(todo)
          /\ j - 1 = (i - 1) + 1
          /\ s[i] = todo[i - 1] /\ s[j] = todo[j - 1]
      BY <2>3, <1>1, <1>8
    <3> QED BY <3>1 DEF Adjacent
  <2>4. i = 1 \/ i = 2 \/ i > 2
    BY <1>1, <1>8
  <2> QED BY <2>1, <2>2, <2>3, <2>4
<1>11. s[Len(s)].to = todo[Len(todo)].to
  <2>1. CASE Len(todo) = 1
    BY <2>1, <1>1, <1>4, <1>8
  <2>2. CASE Len(todo) > 1
    <3>1. Len(s) \in 1..Len(s) /\ Len(s) > 2 /\ Len(s) - 1 = Len(todo)
      BY <2>2, <1>1, <1>8
    <3> QED BY <3>1, <1>8
  <2> QED BY <2>1, <2>2, <1>1
<1>12. s # <<>>
  BY <1>1, <1>8, EmptySeq
<1>13. s[1].from = todo[1].from
  BY <1>1, <1>4, <1>8
<1> QED BY <1>7, <1>9, <1>10, <1>11, <1>12, <1>13 DEF Adjacent, s, h, t

-----------------------------------------------------------------------------
(* The invariant is inductive: the steps of filterLogsInChunks.            *)

LEMMA InitInv == Init => IInv
<1> SUFFICES ASSUME Init PROVE IInv
  OBVIOUS
<1>1. TypeOK
  <2>1. NoRange \in BlockRange
    BY BoundsAssumption DEF NoRange, BlockRange, Blocks
  <2>2. NoRefusals \in Refusals
    BY DEF NoRefusals, Refusals
  <2>3. 1 \in 1..RateLimitAttempts
    BY LimitsAssumption
  <2>4. todo \in Seq(Short)
    BY EmptySeq DEF Init
  <2>5. logs \in Seq(Nat)
    BY EmptySeq DEF Init
  <2> QED BY <2>1, <2>2, <2>3, <2>4, <2>5 DEF Init, TypeOK, Phases, Short
<1> QED
  BY <1>1
  DEF Init, IInv, FilterInv, ChunkInv, RequestInv, Complete, FailuresExplained

\* A step that goes to chunk b asks for a range that is short enough.
LEMMA ChunkIsShort ==
  ASSUME TypeOK, NEW b \in Blocks, b <= to
  PROVE  /\ ChunkAt(b) \in Short
         /\ ChunkAt(b).from = b
         /\ b <= ChunkAt(b).to /\ ChunkAt(b).to <= to
BY LimitsAssumption, BoundsAssumption
DEF TypeOK, ChunkAt, Short, BlockRange, Blocks

LEMMA FirstRequestInv ==
  ASSUME FirstRequest
  PROVE  /\ attempt' \in 1..RateLimitAttempts
         /\ maxAttempts' \in {Attempts, RateLimitAttempts}
         /\ refusals' \in Refusals
         /\ attempt' = 1 + refusals'.plain + refusals'.rateLimit
         /\ maxAttempts' = Limit'
         /\ attempt' <= maxAttempts'
BY LimitsAssumption DEF FirstRequest, NoRefusals, Refusals, Limit

LEMMA TakeChunkInv ==
  ASSUME IInv, NEW b \in Blocks, TakeChunk(b),
         0 <= from, from <= b, b <= to, logs = Logs(from, b - 1)
  PROVE  IInv'
<1>1. /\ chunk' \in Short
      /\ chunk'.from = b
      /\ b <= chunk'.to /\ chunk'.to <= to
  BY ChunkIsShort DEF IInv, TakeChunk
<1>2. /\ todo' = <<chunk'>> /\ pc' = "filter"
      /\ from' = from /\ to' = to /\ upTo' = upTo /\ logs' = logs
      /\ cancelled' = cancelled
  BY DEF TakeChunk, input
<1>3. /\ todo' \in Seq(Short) /\ Len(todo') = 1 /\ todo'[1] = chunk'
      /\ todo' # <<>>
  BY <1>1, <1>2
<1>4. TypeOK'
  <2>1. FirstRequest
    BY DEF TakeChunk
  <2>2. chunk' \in BlockRange
    BY <1>1 DEF Short
  <2> QED
    BY <1>2, <1>3, <2>1, <2>2, FirstRequestInv
    DEF IInv, TypeOK, Short, Phases, Chains
<1>5. FilterInv'
  <2>1. from <= chunk'.to
    BY <1>1, BoundsAssumption DEF IInv, TypeOK, Short, BlockRange, Blocks
  <2>2. InRange'
    BY <1>1, <1>2, <2>1 DEF InRange
  <2>3. Adjacent(todo)'
    BY <1>1, <1>3 DEF Adjacent
  <2>4. logs' = Logs(from, todo[1].from - 1)'
    BY <1>1, <1>2, <1>3 DEF Logs, FirstLogs, Number
  <2> QED BY <1>1, <1>2, <1>3, <2>2, <2>3, <2>4 DEF FilterInv
<1>6. RequestInv'
  BY FirstRequestInv DEF TakeChunk, RequestInv
<1> QED
  BY <1>2, <1>4, <1>5, <1>6
  DEF IInv, ChunkInv, Complete, FailuresExplained

LEMMA FirstChunkInv == ASSUME IInv, FirstChunk PROVE IInv'
<1>1. /\ from \in Blocks /\ from <= to /\ 0 <= from /\ from <= from
      /\ pc = "begin"
  BY BoundsAssumption DEF IInv, TypeOK, FirstChunk, Blocks
<1>2. logs = Logs(from, from - 1)
  BY <1>1, NoLogsBefore DEF IInv, TypeOK
<1> QED BY <1>1, <1>2, TakeChunkInv DEF FirstChunk

LEMMA NextChunkInv == ASSUME IInv, NextChunk PROVE IInv'
<1> DEFINE b == chunk.to + 1
<1>1. /\ b \in Blocks /\ b <= to /\ 0 <= from /\ from <= b
  BY BoundsAssumption
  DEF IInv, TypeOK, NextChunk, ChunkInv, InRange, BlockRange, Blocks
<1>2. chunk.to = b - 1
  BY BoundsAssumption DEF IInv, TypeOK, BlockRange, Blocks
<1>3. logs = Logs(from, b - 1)
  BY <1>2 DEF IInv, NextChunk, ChunkInv
<1> HIDE DEF b
<1>4. TakeChunk(b)
  BY DEF NextChunk, b
<1> QED BY <1>1, <1>3, <1>4, TakeChunkInv

LEMMA RefuseInv == ASSUME IInv, Refuse PROVE IInv'
<1>1. /\ pc' = "failed" /\ UNCHANGED <<input, cancelled, chunk, todo, request>>
      /\ logs' = logs /\ logs = <<>>
      /\ from < 0 \/ to < 0
  BY DEF Refuse, Return, IInv
<1>2. TypeOK'
  BY <1>1 DEF IInv, TypeOK, Phases, input, request, Chains
<1> QED
  BY <1>1, <1>2 DEF IInv, FilterInv, ChunkInv, RequestInv, Complete,
                    FailuresExplained, input

LEMMA NothingAskedInv == ASSUME IInv, NothingAsked PROVE IInv'
<1>1. /\ pc' = "done" /\ UNCHANGED <<input, cancelled, chunk, todo, request>>
      /\ logs' = logs /\ logs = <<>>
      /\ from >= 0 /\ to >= 0 /\ from > to
  BY DEF NothingAsked, Return, IInv
<1>2. TypeOK'
  BY <1>1 DEF IInv, TypeOK, Phases, input, request, Chains
<1>3. Logs(from, to) = <<>>
  <2>1. Number(from, to) <= 0 /\ Number(from, to) \in Int
    BY <1>1, BoundsAssumption DEF IInv, TypeOK, Chains, Number
  <2>2. 1..Number(from, to) = {}
    BY <2>1
  <2> QED BY <2>2 DEF Logs, FirstLogs
<1>4. Logs(from, to)' = <<>>
  BY <1>1, <1>3 DEF Logs, FirstLogs, Number, input
<1> QED
  BY <1>1, <1>2, <1>4 DEF IInv, FilterInv, ChunkInv, RequestInv, Complete,
                          FailuresExplained

-----------------------------------------------------------------------------
(* The steps of filterLogsChunk.                                           *)

LEMMA ReplyInv ==
  ASSUME IInv, NEW n \in 0..MaxLogs, Replied(n)
  PROVE  /\ Asked = todo[1] /\ Asked \in Short /\ Asked.from <= Asked.to
         /\ Number(Asked.from, Asked.to) \in Nat
         /\ n <= Number(Asked.from, Asked.to)
         /\ n < MaxResults => n = Number(Asked.from, Asked.to)
<1>1. /\ TypeOK /\ todo # <<>> /\ Adjacent(todo)
  BY DEF IInv, FilterInv, Replied
<1>2. /\ Asked = todo[1] /\ Asked \in Short /\ Len(todo) \in Nat \ {0}
  BY <1>1, Front
<1>3. Asked.from <= Asked.to
  BY <1>1, <1>2 DEF Adjacent
<1>4. Number(Asked.from, Asked.to) \in Nat
  <2>1. /\ Asked.from \in Blocks /\ Asked.to \in -1..MaxBlock
        /\ Asked.from - 1 <= Asked.to
    BY <1>2, <1>3, BoundsAssumption DEF Short, BlockRange, Blocks
  <2>2. upTo \in Chains
    BY <1>1 DEF TypeOK
  <2> QED BY <2>1, <2>2, NumberIsNat
<1> QED BY <1>2, <1>3, <1>4, LimitsAssumption, BoundsAssumption DEF Replied

LEMMA AcceptInv ==
  ASSUME IInv, NEW n \in 0..MaxLogs, Accept(n)
  PROVE  IInv'
<1> DEFINE a == Asked.from
           b == Asked.to
<1>1. /\ TypeOK /\ InRange /\ todo # <<>> /\ Adjacent(todo)
      /\ from <= todo[1].from /\ todo[Len(todo)].to = chunk.to
      /\ logs = Logs(from, todo[1].from - 1)
  BY DEF IInv, FilterInv, Accept, Replied
<1>2. /\ Asked = todo[1] /\ Asked \in Short /\ a <= b
      /\ n = Number(a, b) /\ n \in Nat
  BY ReplyInv DEF Accept
<1>3. /\ Len(todo) \in Nat \ {0}
      /\ todo' \in Seq(Short)
      /\ Len(todo') = Len(todo) - 1
      /\ \A i \in 1..Len(todo') : todo'[i] = todo[i + 1]
  BY <1>1, Front DEF Accept
<1>4. UNCHANGED <<from, to, upTo, cancelled, chunk>>
  BY DEF Accept, input
<1>5. from \in Blocks /\ a \in Blocks /\ b \in Blocks /\ from <= a
  BY <1>1, <1>2, BoundsAssumption
  DEF TypeOK, InRange, Short, BlockRange, Blocks
<1>6. logs' = Logs(from, b)
  <2>1. logs' = Logs(from, a - 1) \o Logs(a, b)
    BY <1>1, <1>2 DEF Accept, Logs
  <2> QED BY <2>1, <1>1, <1>2, <1>5, LogsJoin DEF TypeOK
<1>7. TypeOK'
  <2>1. /\ logs' \in Seq(Nat)
    <3>1. b \in -1..MaxBlock /\ from - 1 <= b
      BY <1>2, <1>5, BoundsAssumption DEF Blocks
    <3>2. upTo \in Chains
      BY <1>1 DEF TypeOK
    <3>3. Number(from, b) \in Nat
      BY <1>5, <3>1, <3>2, NumberIsNat
    <3> QED BY <3>2, <3>3, <1>5, <1>6, LogsAreNumbers DEF Logs
  <2>2. pc' \in Phases
    BY DEF Accept, Phases
  <2>3. FirstRequest
    BY DEF Accept
  <2> QED
    BY <1>1, <1>3, <1>4, <2>1, <2>2, <2>3, FirstRequestInv
    DEF TypeOK, Short, Chains
<1>8. CASE todo' # <<>>
  <2>1. pc' = "filter"
    BY <1>8 DEF Accept
  <2>2. /\ Len(todo') \in Nat \ {0} /\ Len(todo) > 1
        /\ todo'[1] = todo[2]
        /\ todo[2].from = b + 1
    <3>1. Len(todo') \in Nat \ {0}
      BY <1>3, <1>8, EmptySeq
    <3>2. Len(todo) > 1 /\ 1 \in 1..Len(todo) /\ 2 \in 1..Len(todo)
      BY <3>1, <1>3
    <3>3. todo'[1] = todo[2]
      BY <3>1, <1>3
    <3> QED BY <3>1, <3>2, <3>3, <1>1, <1>2 DEF Adjacent
  <2>3. Adjacent(todo')
    <3>1. \A i \in 1..Len(todo') : /\ i \in Nat /\ i + 1 \in 1..Len(todo)
                                   /\ todo'[i] = todo[i + 1]
      BY <1>3
    <3>2. \A i \in 1..Len(todo') : todo'[i].from <= todo'[i].to
      BY <3>1, <1>1 DEF Adjacent
    <3>3. ASSUME NEW i \in 1..Len(todo'), NEW j \in 1..Len(todo'), j = i + 1
          PROVE  todo'[j].from = todo'[i].to + 1
      <4>1. /\ i + 1 \in 1..Len(todo) /\ j + 1 \in 1..Len(todo)
            /\ j + 1 = (i + 1) + 1
            /\ todo'[i] = todo[i + 1] /\ todo'[j] = todo[j + 1]
        BY <3>1, <3>3
      <4> QED BY <4>1, <1>1 DEF Adjacent
    <3> QED BY <3>2, <3>3 DEF Adjacent
  <2>4. todo'[Len(todo')].to = chunk.to
    <3>1. Len(todo') \in 1..Len(todo') /\ Len(todo') + 1 = Len(todo)
      BY <2>2, <1>3
    <3> QED BY <3>1, <1>1, <1>3
  <2>5. b = todo'[1].from - 1 /\ from <= todo'[1].from
    BY <2>2, <1>2, <1>5, BoundsAssumption DEF Blocks, TypeOK
  <2>6. logs' = Logs(from, todo[1].from - 1)'
    <3>1. logs' = Logs(from, todo'[1].from - 1)
      BY <1>6, <2>5
    <3> QED BY <3>1, <1>4 DEF Logs, FirstLogs, Number
  <2>7. FilterInv'
    <3>1. InRange'
      BY <1>1, <1>4 DEF InRange
    <3> QED BY <1>4, <1>8, <2>3, <2>4, <2>5, <2>6, <3>1 DEF FilterInv, Adjacent
  <2>8. RequestInv'
    BY FirstRequestInv DEF Accept, RequestInv
  <2> QED
    BY <1>7, <2>1, <2>7, <2>8
    DEF IInv, ChunkInv, Complete, FailuresExplained
<1>9. CASE todo' = <<>>
  <2>1. b = chunk.to
    <3>1. Len(todo) = 1
      BY <1>3, <1>9, EmptySeq
    <3> QED BY <3>1, <1>1, <1>2
  <2>2. logs' = Logs(from, chunk.to)'
    <3>1. logs' = Logs(from, chunk.to)
      BY <1>6, <2>1
    <3> QED BY <3>1, <1>4 DEF Logs, FirstLogs, Number
  <2>3. InRange'
    BY <1>1, <1>4 DEF InRange
  <2>4. RequestInv'
    BY FirstRequestInv DEF Accept, RequestInv
  <2>5. CASE chunk.to = to
    <3>1. pc' = "done"
      BY <1>9, <2>5 DEF Accept
    <3>2. logs' = Logs(from, to)'
      BY <2>2, <2>5, <1>4 DEF Logs, FirstLogs, Number
    <3> QED
      BY <1>7, <2>4, <3>1, <3>2
      DEF IInv, FilterInv, ChunkInv, Complete, FailuresExplained
  <2>6. CASE chunk.to # to
    <3>1. pc' = "chunk"
      BY <1>9, <2>6 DEF Accept
    <3>2. chunk'.to < to'
      BY <1>1, <1>4, <2>6, BoundsAssumption
      DEF InRange, TypeOK, BlockRange, Blocks
    <3> QED
      BY <1>7, <2>2, <2>3, <2>4, <3>1, <3>2
      DEF IInv, FilterInv, ChunkInv, Complete, FailuresExplained
  <2> QED BY <2>5, <2>6
<1> QED BY <1>8, <1>9

LEMMA HalveInv ==
  ASSUME IInv, NEW n \in 0..MaxLogs, Halve(n)
  PROVE  IInv'
<1>1. /\ TypeOK /\ InRange /\ todo # <<>> /\ Adjacent(todo)
      /\ from <= todo[1].from /\ todo[Len(todo)].to = chunk.to
      /\ logs = Logs(from, todo[1].from - 1)
      /\ Asked.from # Asked.to
      /\ pc = "filter"
  BY DEF IInv, FilterInv, Halve, Replied
<1>2. /\ todo' \in Seq(Short) /\ todo' # <<>> /\ Adjacent(todo')
      /\ todo'[1].from = todo[1].from
      /\ todo'[Len(todo')].to = todo[Len(todo)].to
  BY <1>1, HalvesAdjacent DEF Halve
<1>3. /\ UNCHANGED <<from, to, upTo, cancelled, pc, chunk, logs>>
      /\ FirstRequest
  BY DEF Halve, input
<1>4. TypeOK'
  BY <1>1, <1>2, <1>3, FirstRequestInv DEF TypeOK, Short, Chains
<1>5. FilterInv'
  <2>1. InRange'
    BY <1>1, <1>3 DEF InRange
  <2>2. logs' = Logs(from, todo[1].from - 1)'
    BY <1>1, <1>2, <1>3 DEF Logs, FirstLogs, Number
  <2>3. Adjacent(todo)'
    BY <1>2 DEF Adjacent
  <2> QED BY <1>1, <1>2, <1>3, <2>1, <2>2, <2>3 DEF FilterInv
<1>6. RequestInv'
  BY <1>3, FirstRequestInv DEF RequestInv
<1> QED
  BY <1>1, <1>3, <1>4, <1>5, <1>6
  DEF IInv, ChunkInv, Complete, FailuresExplained

LEMMA FullBlockInv ==
  ASSUME IInv, NEW n \in 0..MaxLogs, FullBlock(n)
  PROVE  IInv'
<1>1. /\ Replied(n) /\ n >= MaxResults /\ Asked.from = Asked.to
      /\ pc' = "failed" /\ logs' = <<>>
      /\ UNCHANGED <<from, to, upTo, cancelled, chunk, todo, request>>
  BY DEF FullBlock, Return, input
<1>2. Number(Asked.from, Asked.to) >= MaxResults
  BY <1>1, ReplyInv, LimitsAssumption, BoundsAssumption
<1>3. (Asked.from = Asked.to /\ Number(Asked.from, Asked.to) >= MaxResults)'
  BY <1>1, <1>2 DEF Asked, Number
<1>4. TypeOK'
  BY <1>1 DEF IInv, TypeOK, Phases, request, Chains
<1> QED
  BY <1>1, <1>3, <1>4 DEF IInv, FilterInv, ChunkInv, RequestInv, Complete,
                          FailuresExplained

-----------------------------------------------------------------------------
(* The steps of filterLogsWithRetry.                                       *)

LEMMA ErrorInv ==
  ASSUME IInv, NEW limited \in BOOLEAN, Error(limited)
  PROVE  /\ refusals' \in Refusals
         /\ refusals'.plain + refusals'.rateLimit
              = 1 + refusals.plain + refusals.rateLimit
         /\ attempt = refusals'.plain + refusals'.rateLimit
         /\ maxAttempts' = Limit'
         /\ maxAttempts' \in {Attempts, RateLimitAttempts}
         /\ attempt \in Nat /\ maxAttempts' \in Nat
         /\ attempt <= maxAttempts'
         /\ pc = "filter"
         /\ UNCHANGED <<from, to, upTo, cancelled, chunk, todo>>
<1>1. /\ refusals \in Refusals /\ attempt \in 1..RateLimitAttempts
      /\ attempt = 1 + refusals.plain + refusals.rateLimit
      /\ maxAttempts = Limit /\ attempt <= maxAttempts
      /\ pc = "filter"
  BY DEF IInv, TypeOK, RequestInv, Error
<1>2. UNCHANGED <<from, to, upTo, cancelled, chunk, todo>>
  BY DEF Error, input
<1>3. CASE limited
  <2>1. /\ refusals' = [refusals EXCEPT !.rateLimit = @ + 1]
        /\ maxAttempts' = RateLimitAttempts
    BY <1>3 DEF Error, Allowed
  <2> QED BY <1>1, <1>2, <2>1, LimitsAssumption DEF Refusals, Limit
<1>4. CASE ~limited
  <2>1. /\ refusals' = [refusals EXCEPT !.plain = @ + 1]
        /\ maxAttempts' = maxAttempts
    BY <1>4 DEF Error, Allowed
  <2> QED BY <1>1, <1>2, <2>1, LimitsAssumption DEF Refusals, Limit
<1> QED BY <1>3, <1>4

LEMMA RetryInv ==
  ASSUME IInv, NEW limited \in BOOLEAN, Retry(limited)
  PROVE  IInv'
<1>1. /\ refusals' \in Refusals
      /\ attempt = refusals'.plain + refusals'.rateLimit
      /\ maxAttempts' = Limit'
      /\ maxAttempts' \in {Attempts, RateLimitAttempts}
      /\ attempt \in Nat /\ maxAttempts' \in Nat
      /\ pc = "filter"
      /\ UNCHANGED <<from, to, upTo, cancelled, chunk, todo>>
  BY ErrorInv DEF Retry
<1>2. /\ attempt < maxAttempts' /\ attempt' = attempt + 1
      /\ pc' = pc /\ logs' = logs
  BY DEF Retry
<1>3. attempt' \in 1..RateLimitAttempts
  BY <1>1, <1>2, LimitsAssumption
<1>4. TypeOK'
  BY <1>1, <1>2, <1>3 DEF IInv, TypeOK, Chains
<1>5. FilterInv'
  BY <1>1, <1>2
  DEF IInv, FilterInv, InRange, Adjacent, Logs, FirstLogs, Number
<1>6. RequestInv'
  <2>1. attempt' = 1 + refusals'.plain + refusals'.rateLimit
    BY <1>1, <1>2 DEF Refusals
  <2>2. attempt' <= maxAttempts'
    BY <1>1, <1>2
  <2> QED BY <1>1, <2>1, <2>2 DEF RequestInv
<1> QED
  BY <1>1, <1>2, <1>4, <1>5, <1>6
  DEF IInv, ChunkInv, Complete, FailuresExplained

LEMMA GiveUpInv ==
  ASSUME IInv, NEW limited \in BOOLEAN, GiveUp(limited)
  PROVE  IInv'
<1>1. /\ refusals' \in Refusals
      /\ attempt = refusals'.plain + refusals'.rateLimit
      /\ maxAttempts' = Limit'
      /\ maxAttempts' \in {Attempts, RateLimitAttempts}
      /\ attempt \in Nat /\ maxAttempts' \in Nat
      /\ attempt <= maxAttempts'
      /\ UNCHANGED <<from, to, upTo, cancelled, chunk, todo>>
  BY ErrorInv DEF GiveUp
<1>2. /\ cancelled \/ attempt >= maxAttempts'
      /\ pc' = "failed" /\ logs' = <<>> /\ attempt' = attempt
  BY DEF GiveUp
<1>3. TypeOK'
  BY <1>1, <1>2 DEF IInv, TypeOK, Phases, Chains
<1>4. cancelled' \/ refusals'.plain + refusals'.rateLimit = Limit'
  BY <1>1, <1>2
<1>5. FailuresExplained'
  BY <1>4 DEF FailuresExplained, Limit
<1> QED
  BY <1>2, <1>3, <1>5 DEF IInv, FilterInv, ChunkInv, RequestInv, Complete

LEMMA CancelInv == ASSUME IInv, Cancel PROVE IInv'
<1>1. /\ UNCHANGED <<input, pc, chunk, todo, logs, request>>
      /\ cancelled' = TRUE /\ pc \notin {"done", "failed"}
  BY DEF Cancel
<1>2. TypeOK'
  BY <1>1 DEF IInv, TypeOK, input, request, Chains
<1>3. FilterInv' /\ ChunkInv' /\ RequestInv'
  BY <1>1 DEF IInv, FilterInv, ChunkInv, RequestInv, Limit, InRange, Adjacent,
              Logs, FirstLogs, Number, input, request
<1> QED BY <1>1, <1>2, <1>3 DEF IInv, Complete, FailuresExplained

LEMMA StutterInv == ASSUME IInv, UNCHANGED vars PROVE IInv'
BY DEF vars, input, request, IInv, TypeOK, FilterInv, ChunkInv, RequestInv,
       Limit, InRange, Adjacent, Complete, FailuresExplained, Asked, Chains,
       Logs, FirstLogs, Number

THEOREM Inductive == Spec => []IInv
<1>1. Init => IInv
  BY InitInv
<1>2. ASSUME IInv, [Next]_vars PROVE IInv'
  <2>1. CASE Refuse
    BY <1>2, <2>1, RefuseInv
  <2>2. CASE NothingAsked
    BY <1>2, <2>2, NothingAskedInv
  <2>3. CASE FirstChunk
    BY <1>2, <2>3, FirstChunkInv
  <2>4. CASE NextChunk
    BY <1>2, <2>4, NextChunkInv
  <2>5. ASSUME NEW n \in 0..MaxLogs, Accept(n) \/ Halve(n) \/ FullBlock(n)
        PROVE  IInv'
    BY <1>2, <2>5, AcceptInv, HalveInv, FullBlockInv
  <2>6. ASSUME NEW limited \in BOOLEAN, Retry(limited) \/ GiveUp(limited)
        PROVE  IInv'
    BY <1>2, <2>6, RetryInv, GiveUpInv
  <2>7. CASE Cancel
    BY <1>2, <2>7, CancelInv
  <2>8. CASE UNCHANGED vars
    BY <1>2, <2>8, StutterInv
  <2> QED
    BY <1>2, <2>1, <2>2, <2>3, <2>4, <2>5, <2>6, <2>7, <2>8 DEF Next, Step
<1> QED BY <1>1, <1>2, PTL DEF Spec

-----------------------------------------------------------------------------
(* The theorems.                                                           *)

(***************************************************************************)
(* Every variable of a call keeps its type; no request is for more blocks  *)
(* than maxLogFilterBlockRange.                                            *)
(***************************************************************************)
THEOREM TypeCorrect == Spec => []TypeOK
<1>1. IInv => TypeOK
  BY DEF IInv
<1> QED BY <1>1, Inductive, PTL

(***************************************************************************)
(* A call of filterLogsInChunks that succeeds returns every log of its     *)
(* range once and in order.                                                *)
(***************************************************************************)
THEOREM CallsAreComplete == Spec => []Complete
<1>1. IInv => Complete
  BY DEF IInv
<1> QED BY <1>1, Inductive, PTL

(***************************************************************************)
(* A call of filterLogsInChunks fails only for a reason, and gives a       *)
(* request up only when it was refused as often as is allowed.             *)
(***************************************************************************)
THEOREM FailuresAreExplained == Spec => []FailuresExplained
<1>1. IInv => FailuresExplained
  BY DEF IInv
<1> QED BY <1>1, Inductive, PTL
=============================================================================
