------------------------------ MODULE ApiClient ------------------------------
(***************************************************************************)
(* A request to the Claude API, api/mod.rs: the retry loop around one      *)
(* attempt, and an attempt from the TCP connection to the last server-sent *)
(* event, in the three forms the code has: "plain" (claude_request_plain), *)
(* "tls" (claude_request_tls) and "agentic" (claude_request_tls_agentic).  *)
(*                                                                         *)
(* The peer and the network are external: the peer refuses a request or    *)
(* answers with a well-formed stream of events, and the connection may     *)
(* stall or break between any two.  TCP delivers in order, so one step is  *)
(* an event sent and handled; JsonText is how events are cut out of the     *)
(* bytes.  A token of text or of tool input is the number of its event.    *)
(***************************************************************************)
EXTENDS Naturals, Sequences, SequencesExt

CONSTANTS
  MaxRetries,    \* MAX_RETRIES
  BaseDelay,     \* BASE_DELAY_MS
  RetryAfterCap, \* the longest Retry-After that is waited for, in milliseconds
  RetryAfter,    \* Retry-After values of the peer, in seconds; 0: no header
  WordSize,      \* number of values of a u64
  MaxEvents      \* bound: block starts and deltas of one answer

ASSUME ApiClientAssumption ==
  /\ MaxRetries \in Nat /\ BaseDelay \in Nat \ {0} /\ RetryAfterCap \in Nat
  /\ WordSize \in Nat \ {0}
  /\ RetryAfter \subseteq Nat /\ 0 \in RetryAfter
  /\ MaxEvents \in Nat \ {0}

VARIABLES
  pc,        \* where the request is; "idle" before and after it
  mode,      \* "plain", "tls" or "agentic"
  attempt,   \* attempt of the retry loop
  waited,    \* milliseconds waited since the last refusal
  text,      \* text_response, the tokens received
  calls,     \* tool_calls
  cur,       \* current_tool_id and current_tool_input
  result,    \* what the request returned
  printed,   \* the tokens given to on_token, over all attempts
  sock,      \* the socket of the attempt: "none", "open" or "closed"
  serial     \* number of the request in its conversation

\* The peer, as far as this request is concerned; the code has no such state.
VARIABLES
  blocks,    \* content blocks of the answer sent so far
  events,    \* block starts and deltas sent so far
  accepted,  \* how often the peer accepted the request
  owed,      \* the Retry-After of its last refusal
  ending     \* how the answer ends: "open" until it does

request == <<mode, attempt, waited, serial, sock>>
parsed  == <<text, calls, cur, printed>>
peer    == <<blocks, events, accepted, owed, ending>>
apiVars == <<pc, request, parsed, result, peer>>

NoTool == [id |-> <<0, 0>>, input |-> <<>>]
NoResult == [kind |-> "none", text |-> <<>>, calls |-> <<>>]
Ok(kind, t, c) == [kind |-> kind, text |-> t, calls |-> c]
Err(kind) == [kind |-> kind, text |-> <<>>, calls |-> <<>>]
IsOk(r) == r.kind \in {"answer", "content", "raw"}

ApiInit ==
  /\ pc = "idle" /\ mode = "tls" /\ attempt = 0 /\ waited = 0
  /\ text = <<>> /\ calls = <<>> /\ cur = NoTool /\ printed = <<>>
  /\ result = NoResult /\ sock = "none" /\ serial = 0
  /\ blocks = <<>> /\ events = 0 /\ accepted = 0 /\ owed = 0 /\ ending = "open"

-----------------------------------------------------------------------------
(* Plausible mistakes in the code, each the body of one definition.        *)

Retryable_Empty == {"ConnectionFailed", "ConnectionTimeout", "Refused", "EmptyResponse"}
Finalized_Kept(c) == c
ReadTimesOut_Never == FALSE
-----------------------------------------------------------------------------
(* The retry loop: claude_send_with_retry() and claude_send_agentic().     *)

\* A request begins; its locals are new.
Fresh ==
  /\ attempt' = 0 /\ waited' = 0 /\ sock' = "none"
  /\ text' = <<>> /\ calls' = <<>> /\ cur' = NoTool /\ printed' = <<>>
  /\ result' = NoResult
  /\ blocks' = <<>> /\ events' = 0 /\ accepted' = 0 /\ owed' = 0 /\ ending' = "open"

Send(m, n) ==
  /\ pc = "idle"
  /\ pc' = "connect" /\ mode' = m /\ serial' = n
  /\ Fresh

\* The caller has taken the result.
Return == pc = "idle" /\ Fresh /\ UNCHANGED <<pc, mode, serial>>

\* The errors after which the request is sent again.
Retryable == {"ConnectionFailed", "ConnectionTimeout", "Refused"}

\* Milliseconds between the refusal of attempt a and the next attempt: the
\* Retry-After header, capped, and then the exponential backoff, whose shift is
\* capped as well.  The header is multiplied before it is capped, and a product
\* that does not fit wraps: a build with overflow checks panics instead.
Lesser(x, y) == IF x < y THEN x ELSE y
Pause(r) == Lesser((r * 1000) % WordSize, RetryAfterCap)
Backoff(a) == BaseDelay * 2 ^ Lesser(a, 4)
Wait(a, r) == Pause(r) + Backoff(a)

\* The attempt fails with an error; r is its Retry-After.  The error of a
\* connection is reported as ConnectionTimeout whatever it was.  The last
\* attempt waits for the Retry-After as well, and then gives up.
Fail(kind, r) ==
  /\ owed' = r
  /\ text' = <<>> /\ calls' = <<>> /\ cur' = NoTool
  /\ blocks' = <<>> /\ events' = 0
  /\ IF kind \in Retryable /\ attempt < MaxRetries
       THEN /\ pc' = "connect" /\ attempt' = attempt + 1
            /\ waited' = Wait(attempt, r)
            /\ UNCHANGED result
       ELSE /\ pc' = "idle"
            /\ result' = Err(IF kind = "ConnectionFailed" THEN "ConnectionTimeout" ELSE kind)
            /\ waited' = IF kind \in Retryable THEN Pause(r) ELSE waited
            /\ UNCHANGED attempt

\* The request returns Ok.
Succeed(kind, t, c) ==
  /\ pc' = "idle" /\ result' = Ok(kind, t, c)
  /\ UNCHANGED <<attempt, waited, owed>>

\* The plain form closes the socket when it is done.  tls.close() sends a
\* close_notify alert, and nothing closes the socket of a TLS attempt.
Closes(m) == m = "plain"
CloseSocket == sock' = IF Closes(mode) THEN "closed" ELSE sock

-----------------------------------------------------------------------------
(* One attempt, up to the answer.                                          *)

\* tcp_connect() fails: the socket stays in the set, never connected.
ConnectFails ==
  /\ pc = "connect"
  /\ Fail("ConnectionFailed", 0)
  /\ sock' = "none"
  /\ UNCHANGED <<mode, serial, printed, accepted, ending>>

\* The peer does not answer within ten seconds.  The TLS forms close the
\* socket; the plain form leaves it connecting.
ConnectTimesOut ==
  /\ pc = "connect"
  /\ Fail("ConnectionTimeout", 0)
  /\ sock' = IF mode = "plain" THEN "open" ELSE "closed"
  /\ UNCHANGED <<mode, serial, printed, accepted, ending>>

Connected ==
  /\ pc = "connect"
  /\ pc' = IF mode = "plain" THEN "send" ELSE "handshake"
  /\ sock' = "open"
  /\ UNCHANGED <<mode, attempt, waited, serial, parsed, result, peer>>

HandshakeDone ==
  /\ pc = "handshake" /\ pc' = "send"
  /\ UNCHANGED <<request, parsed, result, peer>>

\* The handshake fails, or write() or flush() finds the connection closed or
\* stalled for thirty seconds; the plain form has no such check.
SetupFails ==
  /\ pc \in {"handshake", "send"} /\ mode # "plain"
  /\ Fail(IF pc = "handshake" THEN "TlsHandshakeFailed" ELSE "SendFailed", 0)
  /\ CloseSocket
  /\ UNCHANGED <<mode, serial, printed, accepted, ending>>

Sent ==
  /\ pc = "send" /\ pc' = "headers"
  /\ UNCHANGED <<request, parsed, result, peer>>

\* The headers have an error status: 429, 500 or 529, or one that is final.
Refused(r) ==
  /\ pc = "headers"
  /\ \E kind \in {"Refused", "HttpStatus"} : Fail(kind, r)
  /\ CloseSocket
  /\ UNCHANGED <<mode, serial, printed, accepted, ending>>

Accepted ==
  /\ pc = "headers" /\ pc' = "stream"
  /\ accepted' = accepted + 1
  /\ UNCHANGED <<request, parsed, result, blocks, events, owed, ending>>

-----------------------------------------------------------------------------
(* The events of the answer.                                               *)

\* The block the peer is in the middle of.
InBlock == blocks # <<>> /\ ~Last(blocks).closed

\* content_block_start.  Only a request with tools is answered with tool_use.
BlockStart(tool) ==
  /\ pc = "stream" /\ ~InBlock /\ events < MaxEvents
  /\ tool => mode = "agentic"
  /\ blocks' = Append(blocks, [tool |-> tool, deltas |-> <<>>, closed |-> FALSE])
  /\ events' = events + 1
  /\ cur' = IF tool THEN [id |-> <<serial, Len(blocks) + 1>>, input |-> <<>>] ELSE cur
  /\ UNCHANGED <<pc, request, text, calls, printed, result, accepted, owed, ending>>

\* The events at which a form returns the answer.  The text forms look for
\* the words message_stop anywhere in the event, a text that mentions them
\* included; the agentic form looks at the type of the event.
StopsAt(kind, mention) ==
  kind = "message_stop" \/ (mode # "agentic" /\ mention)

\* content_block_delta: text is printed and kept, tool input is kept.
Delta(mention) ==
  /\ pc = "stream" /\ InBlock /\ events < MaxEvents
  /\ mention => ~Last(blocks).tool
  /\ blocks' = [blocks EXCEPT ![Len(blocks)].deltas = Append(@, events + 1)]
  /\ events' = events + 1
  /\ IF Last(blocks).tool
       THEN /\ cur' = [cur EXCEPT !.input = Append(@, events + 1)]
            /\ UNCHANGED <<text, printed>>
       ELSE /\ text' = Append(text, events + 1)
            /\ printed' = Append(printed, events + 1)
            /\ UNCHANGED cur
  /\ IF StopsAt("delta", mention)
       THEN Succeed("answer", text', calls) /\ CloseSocket /\ ending' = "mention"
       ELSE UNCHANGED <<pc, result, attempt, waited, owed, sock, ending>>
  /\ UNCHANGED <<mode, serial, calls, accepted>>

\* The accumulators after a tool call is finalized: all three are taken.
Finalized(c) == NoTool

\* content_block_stop: a tool call that was being accumulated is complete.
BlockStop ==
  /\ pc = "stream" /\ InBlock
  /\ blocks' = [blocks EXCEPT ![Len(blocks)].closed = TRUE]
  /\ IF cur.id # NoTool.id
       THEN calls' = Append(calls, cur) /\ cur' = Finalized(cur)
       ELSE UNCHANGED <<calls, cur>>
  /\ IF StopsAt("block_stop", FALSE)
       THEN Succeed("answer", text, calls')
       ELSE UNCHANGED <<pc, result, attempt, waited, owed>>
  /\ UNCHANGED <<mode, serial, sock, text, printed, events, accepted, ending>>

MessageStop ==
  /\ pc = "stream" /\ ~InBlock
  /\ ending' = "complete"
  /\ Succeed("answer", text, calls)
  /\ CloseSocket
  /\ UNCHANGED <<mode, serial, parsed, blocks, events, accepted>>

-----------------------------------------------------------------------------
(* The answer ends early.                                                  *)

\* The connection ends or a read fails before the answer is complete: what
\* was received is returned as if it were the answer.  raw says whether
\* bytes of an incomplete header or event are left in the buffer.
ReadEnds(raw) ==
  /\ pc \in {"headers", "stream"}
  /\ ending' = "broken"
  /\ \/ /\ text # <<>> \/ calls # <<>>
        /\ Succeed("answer", text, calls)
        /\ UNCHANGED <<text, calls, cur, blocks, events>>
     \/ /\ text = <<>> /\ calls = <<>> /\ raw /\ mode # "agentic"
        /\ Succeed("raw", <<>>, <<>>)
        /\ UNCHANGED <<text, calls, cur, blocks, events>>
     \/ /\ text = <<>> /\ calls = <<>> /\ (~raw \/ mode = "agentic")
        /\ Fail("EmptyResponse", 0)
  /\ CloseSocket
  /\ UNCHANGED <<mode, serial, printed, accepted>>

\* The connection is reset, or over TLS the peer closes the session.  A FIN
\* alone ends no read: the socket stays active while it could still send, and
\* the TLS forms then run into the time-out below.
Eof(raw) == ReadEnds(raw)

\* Nothing arrives for thirty seconds, counted anew at every read; the plain
\* form waits for ever.
ReadTimesOut == mode # "plain"
Stall(raw) == ReadTimesOut /\ ReadEnds(raw)

\* The body is not a stream but a JSON document: finish_response() returns
\* the error in it or the first text of its content.
JsonBody(err) ==
  /\ pc = "stream" /\ blocks = <<>> /\ mode # "agentic"
  /\ ending' = "complete"
  /\ IF err
       THEN Fail("ApiError", 0) /\ UNCHANGED printed
       ELSE /\ Succeed("content", <<1>>, <<>>)
            /\ printed' = Append(printed, 1)
            /\ UNCHANGED <<text, calls, cur, blocks, events>>
  /\ CloseSocket
  /\ UNCHANGED <<mode, serial, accepted>>

-----------------------------------------------------------------------------

Attempt ==
  \/ ConnectFails \/ ConnectTimesOut \/ Connected
  \/ HandshakeDone \/ SetupFails \/ Sent
  \/ \E r \in RetryAfter : Refused(r)
  \/ Accepted
  \/ \E tool \in BOOLEAN : BlockStart(tool)
  \/ \E mention \in BOOLEAN : Delta(mention)
  \/ BlockStop \/ MessageStop
  \/ \E raw \in BOOLEAN : Eof(raw) \/ Stall(raw)
  \/ \E err \in BOOLEAN : JsonBody(err)

\* The steps of an attempt that need nothing from the peer: what fails on this
\* side, and the waits that end.  A JSON document that has arrived whole is read
\* when the time-out ends the connection.
OwnStep ==
  \/ ConnectFails \/ ConnectTimesOut \/ SetupFails \/ Sent
  \/ \E raw \in BOOLEAN : Stall(raw)
  \/ ReadTimesOut /\ \E err \in BOOLEAN : JsonBody(err)

-----------------------------------------------------------------------------
(* Properties.                                                             *)

Token == 1 .. MaxEvents
Call == [id : Nat \X (1 .. MaxEvents), input : Seq(Token)]
Block == [tool : BOOLEAN, deltas : Seq(Token), closed : BOOLEAN]
Outcome ==
  {"none", "answer", "content", "raw", "ConnectionTimeout", "Refused", "HttpStatus",
   "TlsHandshakeFailed", "SendFailed", "EmptyResponse", "ApiError"}

ApiTypeOK ==
  /\ pc \in {"idle", "connect", "handshake", "send", "headers", "stream"}
  /\ mode \in {"plain", "tls", "agentic"}
  /\ attempt \in 0 .. MaxRetries /\ waited \in Nat /\ sock \in {"none", "open", "closed"}
  /\ serial \in Nat
  /\ text \in Seq(Token) /\ printed \in Seq(Token)
  /\ calls \in Seq(Call) /\ cur \in Call \cup {NoTool}
  /\ result \in [kind : Outcome, text : Seq(Token), calls : Seq(Call)]
  /\ blocks \in Seq(Block)
  /\ events \in 0 .. MaxEvents /\ accepted \in Nat /\ owed \in RetryAfter
  /\ ending \in {"open", "complete", "broken", "mention"}

\* What the peer has sent: the tokens of its text, and the tool calls it has
\* completed.
SentText == UNION {Range(blocks[i].deltas) : i \in {j \in DOMAIN blocks : ~blocks[j].tool}}
SentCall(i) == [id |-> <<serial, i>>, input |-> blocks[i].deltas]
SentCalls == {SentCall(i) : i \in {j \in DOMAIN blocks : blocks[j].tool /\ blocks[j].closed}}

\* Tokens, and the calls of an answer, are numbered in the order they are sent.
IsSentText(t) == Range(t) = SentText /\ \A i, j \in DOMAIN t : i < j => t[i] < t[j]
IsSentCalls(c) ==
  Range(c) = SentCalls /\ \A i, j \in DOMAIN c : i < j => c[i].id[2] < c[j].id[2]

\* However the stream ends, the tool calls in an answer are the ones the peer
\* completed, once each, in order and with their whole input, and its text is
\* the text sent: a call cut off in the middle of its input is never run.
AnswerIsWhatWasSent ==
  result.kind = "answer" => IsSentText(result.text) /\ IsSentCalls(result.calls)

\* The forms agree with the peer on where an answer ends: an answer that is
\* returned is the whole message, unless the connection broke, or a text form
\* took a text that mentions message_stop for the end.
WholeAnswer == result.kind = "answer" => ending # "open"

\* An answer that is returned is the peer's: nothing made up, nothing repeated,
\* and nothing missing unless the connection was lost.
AnswerFaithful == AnswerIsWhatWasSent /\ WholeAnswer

\* A request is accepted at most once however often it is tried, and a retry
\* prints nothing twice: what was printed is what is returned.
AcceptedOnce ==
  /\ accepted <= 1
  /\ result.kind \in {"answer", "content"} => printed = result.text

\* The next attempt after a refusal begins no earlier than the peer asked, up
\* to the cap and where the milliseconds fit a word, and no two attempts follow
\* each other without the pause of the back-off.
RetryAfterHonoured ==
  pc # "idle" /\ attempt > 0 =>
    /\ waited >= Backoff(attempt - 1)
    /\ owed > 0 /\ owed * 1000 < WordSize => waited > Lesser(owed * 1000, RetryAfterCap)

\* A retry repeats nothing that was done and comes when it may.
RetriesSafe == AcceptedOnce /\ RetryAfterHonoured

\* What holds while a request is under way: what was parsed is what was sent,
\* and nothing was printed or accepted that an attempt to come would repeat.
StreamInv ==
  pc # "idle" =>
    /\ result = NoResult
    /\ pc # "stream" => blocks = <<>> /\ accepted = 0
    /\ Len(blocks) <= events
    /\ \A i \in 1 .. Len(blocks) - 1 : blocks[i].closed
    /\ printed = text
    /\ IsSentText(text) /\ IsSentCalls(calls)
    /\ \A t \in SentText : t <= events
    /\ cur = IF InBlock /\ Last(blocks).tool THEN SentCall(Len(blocks)) ELSE NoTool

\* The inductive invariant of a request.
ApiIInv == ApiTypeOK /\ StreamInv /\ AnswerFaithful /\ RetriesSafe

\* Whatever becomes of a plain attempt that was connected, its socket is closed
\* when the next attempt begins or the request returns.
PlainCloses ==
  [][mode = "plain" /\ pc \notin {"idle", "connect"} /\ pc' \in {"idle", "connect"}
       => sock' = "closed"]_apiVars
=============================================================================
