------------------------------ MODULE LogFilter ------------------------------
(***************************************************************************)
(* service/logFilter.go: one call of filterLogsInChunks, which asks an RPC *)
(* node for the logs of the blocks from..to.  The range is cut into chunks *)
(* of at most MaxRange blocks; a chunk whose reply is so long that the     *)
(* node may have cut it is halved and asked for again; a request that is   *)
(* refused is repeated, more often when the node says it limits the rate.  *)
(*                                                                         *)
(* Logs are numbered in the order of the chain.  The blocks asked for are  *)
(* mined, so that their logs do not change.                                *)
(***************************************************************************)
EXTENDS Integers, Sequences

CONSTANTS
  MaxRange,           \* maxLogFilterBlockRange
  MaxResults,         \* maxLogFilterResults: a reply as long may be cut
  Attempts,           \* logFilterMaxAttempts
  RateLimitAttempts,  \* logFilterRateLimitMaxAttempts
  MaxBlock,           \* bound: blocks of the chain
  MaxLogs             \* bound: logs of the chain

ASSUME LimitsAssumption ==
  /\ MaxRange \in Nat \ {0} /\ MaxResults \in Nat \ {0}
  /\ Attempts \in Nat \ {0} /\ RateLimitAttempts \in Nat
  /\ Attempts <= RateLimitAttempts
ASSUME BoundsAssumption == MaxBlock \in Nat /\ MaxLogs \in Nat

VARIABLES
  from, to,           \* the range asked for
  upTo,               \* the chain: upTo[b] logs are in the blocks up to b
  cancelled,          \* the caller's context is done
  pc,                 \* where the call is
  chunk,              \* the chunk being read
  todo,               \* the calls of filterLogsChunk in it still to be made
  logs,               \* the logs collected
  attempt,            \* of the current request
  maxAttempts,
  refusals            \* the errors the current request has met

input == <<from, to, upTo>>
request == <<attempt, maxAttempts, refusals>>
vars == <<input, cancelled, pc, chunk, todo, logs, request>>

Blocks == 0..MaxBlock
BlockRange == [from : Blocks, to : Blocks]
Refusals == [plain : Nat, rateLimit : Nat]
Phases == {"begin", "chunk", "filter", "done", "failed"}

Chains ==
  {u \in [-1..MaxBlock -> 0..MaxLogs] :
     /\ u[-1] = 0
     /\ \A a, b \in -1..MaxBlock : a <= b => u[a] <= u[b]}

\* The logs of the blocks a..b, or the first n of them.
Number(a, b) == upTo[b] - upTo[a - 1]
FirstLogs(a, n) == [k \in 1..n |-> upTo[a - 1] + k]
Logs(a, b) == FirstLogs(a, Number(a, b))

TypeOK ==
  /\ from \in -1..MaxBlock
  /\ to \in -1..MaxBlock
  /\ upTo \in Chains
  /\ cancelled \in BOOLEAN
  /\ pc \in Phases
  /\ chunk \in BlockRange
  /\ todo \in Seq({r \in BlockRange : r.to - r.from < MaxRange})
  /\ logs \in Seq(Nat)
  /\ attempt \in 1..RateLimitAttempts
  /\ maxAttempts \in {Attempts, RateLimitAttempts}
  /\ refusals \in Refusals

NoRange == [from |-> 0, to |-> 0]
NoRefusals == [plain |-> 0, rateLimit |-> 0]

Init ==
  /\ from \in -1..MaxBlock
  /\ to \in -1..MaxBlock
  /\ upTo \in Chains
  /\ cancelled = FALSE
  /\ pc = "begin"
  /\ chunk = NoRange
  /\ todo = <<>>
  /\ logs = <<>>
  /\ attempt = 1
  /\ maxAttempts = Attempts
  /\ refusals = NoRefusals

-----------------------------------------------------------------------------
(* filterLogsInChunks.                                                     *)

\* The chunk at block b is the rest of the range, if that is short enough.
ChunkAt(b) ==
  [from |-> b, to |-> IF to - b >= MaxRange THEN b + MaxRange - 1 ELSE to]

Return(outcome) ==
  /\ pc' = outcome
  /\ UNCHANGED <<input, cancelled, chunk, todo, request>>

Refuse ==
  /\ pc = "begin"
  /\ from < 0 \/ to < 0
  /\ Return("failed")
  /\ UNCHANGED logs

NothingAsked ==
  /\ pc = "begin"
  /\ from >= 0 /\ to >= 0 /\ from > to
  /\ Return("done")
  /\ UNCHANGED logs

FirstRequest ==
  /\ attempt' = 1
  /\ maxAttempts' = Attempts
  /\ refusals' = NoRefusals

\* filterLogsChunk is called for the next chunk.
TakeChunk(b) ==
  /\ chunk' = ChunkAt(b)
  /\ todo' = <<chunk'>>
  /\ pc' = "filter"
  /\ FirstRequest
  /\ UNCHANGED <<input, cancelled, logs>>

FirstChunk ==
  /\ pc = "begin"
  /\ from >= 0 /\ from <= to
  /\ TakeChunk(from)

NextChunk ==
  /\ pc = "chunk"
  /\ TakeChunk(chunk.to + 1)

-----------------------------------------------------------------------------
(* filterLogsChunk: the first call in todo has sent its request.           *)

Asked == Head(todo)

\* A reply of n logs: all there are, or a cut one, which is long.
Replied(n) ==
  /\ pc = "filter"
  /\ \/ n = Number(Asked.from, Asked.to)
     \/ n \in MaxResults..Number(Asked.from, Asked.to)

\* Faulty variant of Accept: a reply of the greatest length is taken as it is.
AcceptLongest(n) ==
  /\ Replied(n)
  /\ n <= MaxResults
  /\ logs' = logs \o FirstLogs(Asked.from, n)
  /\ todo' = Tail(todo)
  /\ pc' = IF todo' # <<>> THEN "filter"
           ELSE IF chunk.to = to THEN "done" ELSE "chunk"
  /\ FirstRequest
  /\ UNCHANGED <<input, cancelled, chunk>>

\* The reply is complete.  When it is the last of the chunk, the call of
\* filterLogsChunk returns to the loop over chunks, which ends with the range.
Accept(n) ==
  /\ Replied(n)
  /\ n < MaxResults
  /\ logs' = logs \o FirstLogs(Asked.from, n)
  /\ todo' = Tail(todo)
  /\ pc' = IF todo' # <<>> THEN "filter"
           ELSE IF chunk.to = to THEN "done" ELSE "chunk"
  /\ FirstRequest
  /\ UNCHANGED <<input, cancelled, chunk>>

Middle(r) == r.from + (r.to - r.from) \div 2

Halves(r) == <<[from |-> r.from, to |-> Middle(r)],
               [from |-> Middle(r) + 1, to |-> r.to]>>

Halve(n) ==
  /\ Replied(n)
  /\ n >= MaxResults
  /\ Asked.from # Asked.to
  /\ todo' = Halves(Asked) \o Tail(todo)
  /\ FirstRequest
  /\ UNCHANGED <<input, cancelled, pc, chunk, logs>>

\* Faulty variant of FullBlock: the block is asked for again.
AskAgain(n) ==
  /\ Replied(n)
  /\ n >= MaxResults
  /\ Asked.from = Asked.to
  /\ FirstRequest
  /\ UNCHANGED <<input, cancelled, pc, chunk, todo, logs>>

\* "completeness cannot be guaranteed"
FullBlock(n) ==
  /\ Replied(n)
  /\ n >= MaxResults
  /\ Asked.from = Asked.to
  /\ Return("failed")
  /\ logs' = <<>>

-----------------------------------------------------------------------------
(* filterLogsWithRetry.                                                    *)

\* Faulty variant of Allowed: a later error takes the limit back.
AllowedAnew(limited) == IF limited THEN RateLimitAttempts ELSE Attempts

\* How often a request is sent, after it was refused.
Allowed(limited) == IF limited THEN RateLimitAttempts ELSE maxAttempts

\* The node answers with an error, or the wait before the request ends since
\* the caller gave up.
Error(limited) ==
  /\ pc = "filter"
  /\ IF limited THEN refusals' = [refusals EXCEPT !.rateLimit = @ + 1]
                ELSE refusals' = [refusals EXCEPT !.plain = @ + 1]
  /\ maxAttempts' = Allowed(limited)
  /\ UNCHANGED <<input, cancelled, chunk, todo>>

Retry(limited) ==
  /\ Error(limited)
  /\ ~cancelled
  /\ attempt < maxAttempts'
  /\ attempt' = attempt + 1
  /\ UNCHANGED <<pc, logs>>

GiveUp(limited) ==
  /\ Error(limited)
  /\ cancelled \/ attempt >= maxAttempts'
  /\ pc' = "failed"
  /\ logs' = <<>>
  /\ UNCHANGED attempt

\* The caller's context is done.
Cancel ==
  /\ ~cancelled
  /\ pc \notin {"done", "failed"}
  /\ cancelled' = TRUE
  /\ UNCHANGED <<input, pc, chunk, todo, logs, request>>

-----------------------------------------------------------------------------
Step ==
  \/ Refuse \/ NothingAsked \/ FirstChunk \/ NextChunk
  \/ \E n \in 0..MaxLogs : Accept(n) \/ Halve(n) \/ FullBlock(n)
  \/ \E limited \in BOOLEAN : Retry(limited) \/ GiveUp(limited)

Next == Step \/ Cancel

Spec == Init /\ [][Next]_vars

\* Every request is answered or refused in the end.
FairSpec == Spec /\ WF_vars(Step)

-----------------------------------------------------------------------------
(* Properties.                                                             *)

(***************************************************************************)
(* A call that succeeds returns every log of the range, once and in the    *)
(* order of the chain, whatever replies were cut or refused on the way:    *)
(* the totals of the daily job and the token supply rest on it.  A call    *)
(* that fails returns none (logFilter.go:65-84, 119-137).                  *)
(***************************************************************************)
Complete ==
  /\ pc = "done" => logs = Logs(from, to)
  /\ pc = "failed" => logs = <<>>

(***************************************************************************)
(* A call only fails for a reason: a negative block, a caller that gave    *)
(* up, one block with too many logs, or a request refused as often as is   *)
(* allowed.  That is more often once the node has said that it limits the  *)
(* rate, also when the errors after that are others (logFilter.go:148-177).*)
(***************************************************************************)
FailuresExplained ==
  pc = "failed" =>
    \/ from < 0 \/ to < 0
    \/ cancelled
    \/ /\ Asked.from = Asked.to
       /\ Number(Asked.from, Asked.to) >= MaxResults
    \/ refusals.plain + refusals.rateLimit =
         IF refusals.rateLimit > 0 THEN RateLimitAttempts ELSE Attempts

(***************************************************************************)
(* Every call ends: halves get smaller down to one block, and retries run  *)
(* out (logFilter.go:123-135, 149).                                        *)
(***************************************************************************)
Ends == <>(pc \in {"done", "failed"})
=============================================================================
