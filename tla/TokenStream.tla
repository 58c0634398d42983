--------------------------- MODULE TokenStream ---------------------------
(***************************************************************************)
(* One streamed model call: the POST with its retries (llm/httpclient.go), *)
(* the goroutine that reads the provider's frames and translates them into *)
(* events (llm/anthropic, llm/openai, llm/gemini: stream.go), the bounded  *)
(* channel, and the executor's drainStream (agents/executor/executor.go).  *)
(*                                                                         *)
(* The provider is external: it sends text in deltas of any size, tool     *)
(* calls, frames nobody can parse and error frames; it may end the stream  *)
(* at any point, cleanly or not.  Arguments of a call are counted.  The    *)
(* Start, ToolCallStart and ToolCallDelta events, which drainStream passes *)
(* over, are left out.                                                     *)
(***************************************************************************)
EXTENDS ThinkingSplitter

CONSTANTS Wires,       \* wire formats: a subset of {"anthropic", "openai", "gemini"}
          Tokens,      \* what text is made of
          Calls,       \* indices of tool calls; for Gemini, names of functions
          Cap,         \* capacity of the events channel (16)
          MaxRetries,  \* httpclient.go: maxRetries (2)
          MaxChunk,    \* bound: tokens of a delta
          Budget       \* bound, for each wire: tokens sent and other frames

ConstantsAssumption ==
    /\ Wires \subseteq {"anthropic", "openai", "gemini"}
    /\ {Cap, MaxChunk} \subseteq Nat \ {0} /\ MaxRetries \in Nat /\ Budget \in [Wires -> Nat]

VARIABLES
    wire, ctx,
    at,        \* where the call, then the reading goroutine, is
    attempt,   \* DoStream: attempt
    splitter,
    toolBuf,   \* calls begun and not ended: index to number of arguments
    out,       \* events the goroutine still has to send before it goes on
    err,       \* StreamingResponse.err
    chan,      \* StreamingResponse.Events
    got,       \* drainStream: text, thinking emitted, calls
    result,    \* drainStream's verdict
    sent,      \* history: the text the provider sent
    asked,     \* history: the calls it asked for, with their arguments
    stopped,   \* history: those it ended
    broken,    \* history: the connection broke
    spent

provider == <<sent, asked, stopped, broken, spent>>
goroutine == <<at, attempt, splitter, toolBuf, out, err>>
vars == <<wire, ctx, goroutine, chan, got, result, provider>>

Nothing == [c \in {} |-> 0]
Chunks == UNION {[1 .. n -> Tokens] : n \in 1 .. MaxChunk}

Init ==
    /\ wire \in Wires /\ ctx = "live" /\ at = "post" /\ attempt = 0
    /\ splitter = NewSplitter /\ toolBuf = Nothing /\ out = <<>> /\ err = "none"
    /\ chan = <<>> /\ got = [text |-> <<>>, thinking |-> <<>>, calls |-> <<>>] /\ result = "none"
    /\ sent = <<>> /\ asked = Nothing /\ stopped = {} /\ broken = FALSE /\ spent = 0

-----------------------------------------------------------------------------
(* DoStream, in the executor's goroutine.                                  *)

Post ==
    /\ at = "post"
    /\ \/ ctx = "live" /\ at' = "read"
       \/ at' = "refused"
       \/ ctx = "live" /\ at' = IF attempt = MaxRetries THEN "refused" ELSE "sleep"
    /\ UNCHANGED <<wire, ctx, attempt, splitter, toolBuf, out, err, chan, got, result, provider>>

\* sleepWithCtx
Sleep ==
    /\ at = "sleep"
    /\ \/ at' = "post" /\ attempt' = attempt + 1
       \/ ctx = "cancelled" /\ at' = "refused" /\ UNCHANGED attempt
    /\ UNCHANGED <<wire, ctx, splitter, toolBuf, out, err, chan, got, result, provider>>

-----------------------------------------------------------------------------
(* runStream and dispatch: one action for each kind of frame.              *)

\* The goroutine has a frame in hand; its events go out before the next one.
Reading(cost) ==
    /\ at = "read" /\ ctx = "live" /\ out = <<>> /\ spent + cost <= Budget[wire]
    /\ spent' = spent + cost
    /\ UNCHANGED <<wire, ctx, attempt, chan, got, result, broken>>

TextFrame ==
    \E s \in Chunks :
      /\ Reading(Len(s)) /\ sent' = sent \o s
      /\ LET r == Feed(splitter, s) IN out' = r.out /\ splitter' = r.splitter
      /\ UNCHANGED <<at, toolBuf, err, asked, stopped>>

\* thinking_delta, reasoning_content: past the splitter.
ReasoningFrame ==
    /\ wire # "gemini" /\ Reading(2) /\ out' = <<[kind |-> "thinking", delta |-> <<"native">>]>>
    /\ UNCHANGED <<at, splitter, toolBuf, err, sent, asked, stopped>>

With(f, c, n) == [d \in DOMAIN f \cup {c} |-> IF d = c THEN n ELSE f[d]]
Without(f, c) == [d \in DOMAIN f \ {c} |-> f[d]]
End(c, n) == <<[kind |-> "call", id |-> c, args |-> n]>>

\* content_block_start of a tool_use, or the first delta of a tool call
ToolStart(c) ==
    /\ wire # "gemini" /\ c \notin DOMAIN asked /\ Reading(1)
    /\ asked' = With(asked, c, 0) /\ toolBuf' = With(toolBuf, c, 0)
    /\ UNCHANGED <<at, splitter, out, err, sent, stopped>>

ToolArgs(c) ==
    /\ c \in DOMAIN toolBuf /\ Reading(1)
    /\ asked' = [asked EXCEPT ![c] = @ + 1] /\ toolBuf' = [toolBuf EXCEPT ![c] = @ + 1]
    /\ UNCHANGED <<at, splitter, out, err, sent, stopped>>

\* content_block_stop; OpenAI has none, its calls end with the stream.
ToolStop(c) ==
    /\ wire = "anthropic" /\ c \in DOMAIN toolBuf /\ Reading(1)
    /\ stopped' = stopped \cup {c} /\ toolBuf' = Without(toolBuf, c) /\ out' = End(c, toolBuf[c])
    /\ UNCHANGED <<at, splitter, err, sent, asked>>

\* A functionCall part: the call as a whole.
FunctionCall(c) ==
    /\ wire = "gemini" /\ c \notin stopped /\ Reading(2)
    /\ asked' = With(asked, c, 1) /\ stopped' = stopped \cup {c} /\ out' = End(c, 1)
    /\ UNCHANGED <<at, splitter, toolBuf, err, sent>>

\* A frame nobody can parse, or one that says the provider failed: only the
\* Anthropic reader takes it for an error, the others pass over it.
BadFrame ==
    /\ Reading(2)
    /\ IF wire = "anthropic" THEN at' = "fail" /\ err' = "provider" ELSE UNCHANGED <<at, err>>
    /\ UNCHANGED <<splitter, toolBuf, out, sent, asked, stopped>>

\* The events that end the stream: what the splitter held back, the calls that
\* OpenAI ends here, in the order of a map, and Done.
Finish(ends) == Flush(splitter) \o ends \o <<[kind |-> "done"]>>

\* End of the body, [DONE], or a body cut short without an error.
StreamEnds ==
    /\ Reading(0) /\ at' = "finish"
    /\ \E order \in SetToSeqs(DOMAIN toolBuf) :
         out' = Finish(IF wire # "openai" THEN <<>>
                       ELSE FlattenSeq([i \in DOMAIN order |-> End(order[i], toolBuf[order[i]])]))
    /\ UNCHANGED <<splitter, toolBuf, err, sent, asked, stopped>>

ConnectionBreaks ==
    /\ at = "read" /\ ctx = "live" /\ out = <<>>
    /\ at' = "fail" /\ err' = "transport" /\ broken' = TRUE
    /\ UNCHANGED <<wire, ctx, attempt, splitter, toolBuf, out, chan, got, result, sent, asked, stopped, spent>>

\* The body is bound to ctx: the read fails, or the check between frames does.
ReadCancelled ==
    /\ at = "read" /\ ctx = "cancelled" /\ out = <<>>
    /\ at' = "fail" /\ err' = "ctx"
    /\ UNCHANGED <<wire, ctx, attempt, splitter, toolBuf, out, chan, got, result, provider>>

-----------------------------------------------------------------------------
(* Sending: dispatch waits for room; the last events do not outwait ctx.   *)

Send ==
    /\ at \in {"read", "finish"} /\ out # <<>> /\ Len(chan) < Cap
    /\ chan' = Append(chan, Head(out)) /\ out' = Tail(out)
    /\ at' = IF Head(out).kind = "done" THEN "closed" ELSE at
    /\ UNCHANGED <<wire, ctx, attempt, splitter, toolBuf, err, got, result, provider>>

FinishCancelled ==
    /\ at = "finish" /\ ctx = "cancelled" /\ Head(out).kind # "call"
    /\ at' = "fail" /\ err' = "ctx" /\ out' = <<>>
    /\ UNCHANGED <<wire, ctx, attempt, splitter, toolBuf, chan, got, result, provider>>

SendError ==
    /\ at = "fail"
    /\ \/ Len(chan) < Cap /\ chan' = Append(chan, [kind |-> "error"])
       \/ ctx = "cancelled" /\ UNCHANGED chan
    /\ at' = "closed"
    /\ UNCHANGED <<wire, ctx, attempt, splitter, toolBuf, out, err, got, result, provider>>

-----------------------------------------------------------------------------
(* drainStream.                                                            *)

Verdict == IF ctx = "cancelled" THEN "canceled" ELSE IF err # "none" THEN "error" ELSE "clean"

Taken(ev) ==
    CASE ev.kind = "text" -> [got EXCEPT !.text = @ \o ev.delta]
      [] ev.kind = "thinking" -> [got EXCEPT !.thinking = @ \o ev.delta]
      [] ev.kind = "call" -> [got EXCEPT !.calls = Append(@, [id |-> ev.id, args |-> ev.args])]
      [] OTHER -> got

Drain ==
    /\ result = "none" /\ chan # <<>>
    /\ chan' = Tail(chan) /\ got' = Taken(Head(chan))
    /\ result' = CASE Head(chan).kind = "done" -> "clean"
                   [] Head(chan).kind = "error" -> IF ctx = "cancelled" THEN "canceled" ELSE "error"
                   [] OTHER -> "none"
    /\ UNCHANGED <<wire, ctx, goroutine, provider>>

\* The channel was closed without a Done, or Stream failed before there was one.
DrainClosed ==
    /\ result = "none" /\ chan = <<>>
    /\ \/ at = "closed" /\ result' = Verdict
       \/ at = "refused" /\ result' = "error"
    /\ UNCHANGED <<wire, ctx, goroutine, chan, got, provider>>

Cancel ==
    /\ ctx = "live" /\ result = "none" /\ ctx' = "cancelled"
    /\ UNCHANGED <<wire, goroutine, chan, got, result, provider>>

-----------------------------------------------------------------------------
Frames ==
    \/ TextFrame \/ ReasoningFrame \/ BadFrame \/ StreamEnds \/ ConnectionBreaks
    \/ \E c \in Calls : ToolStart(c) \/ ToolArgs(c) \/ ToolStop(c) \/ FunctionCall(c)
Steps == Post \/ Sleep \/ ReadCancelled \/ Send \/ FinishCancelled \/ SendError
Drains == Drain \/ DrainClosed

Next == Frames \/ Steps \/ Drains \/ Cancel

Spec == Init /\ [][Next]_vars

\* The goroutines run; the provider need not send anything.
Fairness == WF_vars(Steps) /\ WF_vars(Drains)
FairSpec == Spec /\ Fairness

-----------------------------------------------------------------------------
Over == at \in {"closed", "refused"}
Extra == SelectSeq(got.thinking, LAMBDA t : t # "native")

(* Every variable has its type; the channel keeps to its capacity, and an  *)
(* error is recorded before anyone can learn of it.                        *)
TypeOK ==
    /\ at \in {"post", "sleep", "read", "finish", "fail", "closed", "refused"}
    /\ attempt \in 0 .. MaxRetries /\ Len(chan) <= Cap
    /\ DOMAIN toolBuf \subseteq Calls /\ stopped \subseteq DOMAIN asked
    /\ result \in {"none", "clean", "error", "canceled"}
    /\ (at = "fail" \/ \E i \in DOMAIN chan : chan[i].kind = "error") => err # "none"

(* Wherever the deltas cut the text, what is shown is a beginning of the   *)
(* visible part of all the text the provider sent, and all of it when the  *)
(* stream ended cleanly; the same holds of the thinking part.  Nothing of  *)
(* a think block is ever shown (thinking_split.go).                        *)
ShownIsVisible ==
    LET whole == Parts(sent) IN
    /\ IsPrefix(got.text, whole.text) /\ IsPrefix(Extra, whole.thinking)
    /\ result = "clean" => got.text = whole.text /\ Extra = whole.thinking

(* A call the provider asked for reaches the executor at most once, with   *)
(* all its arguments, and it does reach it when the stream ended cleanly   *)
(* and the call was ended, which for OpenAI the end of the stream does     *)
(* (the three dispatch functions, finishStream, drainStream).              *)
CallsArriveOnce ==
    LET arrived(c) == {i \in DOMAIN got.calls : got.calls[i].id = c}
        due == IF wire = "openai" THEN DOMAIN asked ELSE stopped
    IN \A c \in DOMAIN asked :
         /\ Cardinality(arrived(c)) <= 1
         /\ \A i \in arrived(c) : got.calls[i].args = asked[c]
         /\ result = "clean" /\ c \in due => arrived(c) # {}

(* An answer cut off by a broken connection is never taken for a whole one *)
(* (scanner.Err in runStream, stream.Err in drainStream).                  *)
CutIsNotClean == broken => result # "clean"

(* A cancelled call ends: the executor gets its verdict and the reading    *)
(* goroutine goes away, whatever the provider does.                        *)
CancelledEnds == ctx = "cancelled" ~> result # "none" /\ Over
=============================================================================
