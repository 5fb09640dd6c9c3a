--------------------------- MODULE ResponseStream ---------------------------
(***************************************************************************)
(* One streamed answer: ManagedResponseStream between the upstream's body   *)
(* and the client, with the parser of server-sent events inside it          *)
(* (ResponsesSseState) and the account it settles when the stream is over.  *)
(*                                                                          *)
(* The body is a sequence of pieces, which the upstream hands over in       *)
(* chunks cut anywhere.  A line "data: {...}" is the two pieces "da" and    *)
(* one that ends it and carries the kind of the event, so that a chunk may  *)
(* end inside the name of a field; a piece that ends a line without a name  *)
(* before it is text.  Rewriting of failed events, sequence numbers and the *)
(* text of synthetic events are left out.                                   *)
(***************************************************************************)
EXTENDS Naturals, Sequences, SequencesExt

CONSTANTS
  MaxPieces,   \* bound on the length of the body
  MaxChunk     \* bound on the length of a chunk

ASSUME StreamAssumption == MaxPieces \in Nat /\ MaxChunk \in Nat \ {0}

VARIABLES
  body,        \* what the upstream has sent
  buffer,      \* ResponsesSseState: bytes held back,
  lineStart,   \*   whether the next byte begins a line,
  sseMode,     \*   whether a field has been seen,
  terminal,    \*   how the response ended: "none", "completed" or "failed"
  pending,     \* pending_output: chunks ready for the client
  closing,     \* close_after_pending_output
  sent,        \* what the client has received
  settlements, \* settlements spawned for the account
  phase        \* "open", "ended" (polled to its end) or "dropped"

vars == <<body, buffer, lineStart, sseMode, terminal, pending, closing, sent, settlements, phase>>

parser == <<buffer, lineStart, sseMode, terminal>>

\* The kinds of event: one inside the response, response.completed, and the
\* three that fail it.
Kinds == {"delta", "completed", "failed"}

\* "da", "text", the newline of an empty line, and the ends of data lines.
Pieces == {"da", "text", "newline"} \cup Kinds

\* The event the gateway writes itself.
Synthetic == "synthetic"

Terminals == {"completed", "failed"}

TypeOK ==
  /\ body \in Seq(Pieces) /\ Len(body) <= MaxPieces
  /\ buffer \in Seq(Pieces)
  /\ lineStart \in BOOLEAN /\ sseMode \in BOOLEAN /\ closing \in BOOLEAN
  /\ terminal \in {"none"} \cup Terminals
  /\ pending \in Seq(Seq(Pieces \cup {Synthetic}))
  /\ sent \in Seq(Pieces \cup {Synthetic})
  /\ settlements \in Seq({"success", "failure", "release"})
  /\ phase \in {"open", "ended", "dropped"}

Init ==
  /\ body = <<>> /\ buffer = <<>> /\ lineStart = TRUE /\ sseMode = FALSE
  /\ terminal = "none" /\ pending = <<>> /\ closing = FALSE
  /\ sent = <<>> /\ settlements = <<>> /\ phase = "open"

-----------------------------------------------------------------------------
(* The parser, on a state [buffer, lineStart, sseMode, terminal, output] *)

EndsLine(piece) == piece = "newline" \/ piece \in Kinds

\* classify_sse_line_start
Full(bytes)    == Len(bytes) >= 2 /\ bytes[1] = "da" /\ bytes[2] \in Kinds
Partial(bytes) == bytes = <<"da">>

After(start, bytes) == IF bytes = <<>> THEN start ELSE EndsLine(Last(bytes))

\* The kind of an event: of its only data line.  Several make no JSON value.
Kind(event) ==
  LET lines == {i \in 2..Len(event) : /\ event[i] \in Kinds /\ event[i - 1] = "da"
                                      /\ i = 2 \/ EndsLine(event[i - 2])}
  IN  IF \E i \in lines : lines = {i}
      THEN event[CHOOSE i \in lines : TRUE]
      ELSE "none"

Emit(s, bytes) == IF bytes = <<>> THEN s ELSE [s EXCEPT !.output = Append(@, bytes)]

\* consume_event
Consume(s, event) ==
  [Emit(s, event) EXCEPT
     !.terminal = IF Kind(event) \in Terminals THEN Kind(event) ELSE @]

\* find_sse_event_end, or 0
EventEnd(bytes) ==
  LET ends == {i \in 2..Len(bytes) : EndsLine(bytes[i - 1]) /\ bytes[i] = "newline"}
  IN  IF ends = {} THEN 0 ELSE CHOOSE i \in ends : \A j \in ends : i <= j

\* Mutant of Drain: nothing is kept behind any event.
DrainClears(s) ==
  LET end == EventEnd(s.buffer)
  IN  IF end = 0 THEN s
      ELSE [Consume(s, SubSeq(s.buffer, 1, end)) EXCEPT !.buffer = <<>>]

\* One turn of consume_buffered_events: nothing is kept behind a terminal event.
DrainOne(s) ==
  LET end == EventEnd(s.buffer)
      t == Consume([s EXCEPT !.buffer = SubSeq(s.buffer, end + 1, Len(s.buffer))],
                   SubSeq(s.buffer, 1, end))
  IN  IF end = 0 THEN s
      ELSE IF t.terminal # "none" THEN [t EXCEPT !.buffer = <<>>]
      ELSE t

\* consume_buffered_events: a buffer holds fewer events than bytes.
Drain(s) ==
  LET turn[n \in 0..Len(s.buffer)] == IF n = 0 THEN s ELSE DrainOne(turn[n - 1])
  IN  turn[Len(s.buffer)]

\* Mutant of PassThrough: the end of the passed bytes is not looked at.
PassThroughMidLine(s, bytes) == Emit(s, bytes)

\* Bytes outside any event go to the client as they are.
PassThrough(s, bytes) ==
  [Emit(s, bytes) EXCEPT !.lineStart = After(@, bytes)]

\* The part of observe_bytes that looks for the first field of the body.
Search(s, bytes) ==
  LET starts == {i \in 1..Len(bytes) :
                   /\ IF i = 1 THEN s.lineStart ELSE EndsLine(bytes[i - 1])
                   /\ LET rest == SubSeq(bytes, i, Len(bytes)) IN
                      Full(rest) \/ Partial(rest)}
      first == CHOOSE i \in starts : \A j \in starts : i <= j
      rest == SubSeq(bytes, first, Len(bytes))
      t == [PassThrough(s, SubSeq(bytes, 1, first - 1)) EXCEPT !.buffer = rest]
  IN  IF starts = {} THEN PassThrough(s, bytes)
      ELSE IF Full(rest) THEN Drain([t EXCEPT !.sseMode = TRUE])
      ELSE t

\* observe_bytes; bytes held back as a possible field name are looked at again
\* with the next piece (resolve_pending_line_start).
Observe(s, bytes) ==
  LET held == s.buffer \o SubSeq(bytes, 1, 1)
      more == SubSeq(bytes, 2, Len(bytes))
  IN  IF s.terminal # "none" \/ bytes = <<>> THEN s
      ELSE IF s.sseMode THEN Drain([s EXCEPT !.buffer = @ \o bytes])
      ELSE IF s.buffer = <<>> THEN Search(s, bytes)
      ELSE IF Full(held)
           THEN Drain([s EXCEPT !.sseMode = TRUE, !.buffer = held \o more])
      ELSE Search(PassThrough([s EXCEPT !.buffer = <<>>], held), more)

\* Mutant of ObserveEof: an incomplete line is taken for an event too.
ObserveEofFragment(s) ==
  IF s.terminal # "none" \/ ~s.sseMode \/ s.buffer = <<>> THEN s
  ELSE Consume([s EXCEPT !.buffer = <<>>], s.buffer)

\* observe_eof: a last line that is complete is taken for an event.
ObserveEof(s) ==
  IF \/ s.terminal # "none" \/ ~s.sseMode \/ s.buffer = <<>>
     \/ ~EndsLine(Last(s.buffer))
  THEN s
  ELSE Consume([s EXCEPT !.buffer = <<>>], s.buffer)

\* take_terminal_passthrough_bytes, when the stream is cut short
Flush(s) ==
  [(IF s.sseMode \/ Partial(s.buffer) THEN s ELSE Emit(s, s.buffer)) EXCEPT !.buffer = <<>>]

-----------------------------------------------------------------------------
(* The stream *)

Parsed(output) ==
  [buffer |-> buffer, lineStart |-> lineStart, sseMode |-> sseMode,
   terminal |-> terminal, output |-> output]

Becomes(s) ==
  /\ buffer' = s.buffer /\ lineStart' = s.lineStart
  /\ sseMode' = s.sseMode /\ terminal' = s.terminal

\* The next chunk of output is returned to the client, the others wait.
Return(output) ==
  IF output = <<>> THEN UNCHANGED sent /\ pending' = <<>>
  ELSE sent' = sent \o Head(output) /\ pending' = Tail(output)

\* Mutant of Settle: settled is not looked at.
SettleAgain(how) == settlements' = Append(settlements, how)

\* settle: the first settlement counts.
Settle(how) == settlements' = IF settlements = <<>> THEN <<how>> ELSE settlements

Verdict(s) == IF s.terminal = "completed" THEN "success" ELSE "failure"

Waiting == phase = "open" /\ pending = <<>> /\ ~closing

PollPending ==
  /\ phase = "open" /\ pending # <<>>
  /\ Return(pending)
  /\ UNCHANGED <<body, parser, closing, settlements, phase>>

PollEnd ==
  /\ phase = "open" /\ pending = <<>> /\ closing
  /\ phase' = "ended"
  /\ UNCHANGED <<body, parser, pending, closing, sent, settlements>>

\* The gateway shuts down.
PollShutdown ==
  /\ Waiting
  /\ Settle("release")
  /\ phase' = "ended"
  /\ UNCHANGED <<body, parser, pending, closing, sent>>

\* Without output the stream ends after a terminal event, and waits otherwise.
PollBytes ==
  /\ Waiting
  /\ \E n \in 1..MaxChunk : \E bytes \in [1..n -> Pieces] :
       /\ Len(body) + n <= MaxPieces
       /\ body' = body \o bytes
       /\ LET s == Observe(Parsed(<<>>), bytes) IN
          /\ Becomes(s)
          /\ Return(s.output)
          /\ closing' = (s.terminal # "none")
          /\ IF s.terminal # "none" THEN Settle(Verdict(s)) ELSE UNCHANGED settlements
          /\ phase' = IF s.terminal # "none" /\ s.output = <<>> THEN "ended" ELSE "open"

\* Mutant of PollError: the stream is not closed behind the synthetic event.
PollErrorStaysOpen ==
  /\ Waiting
  /\ LET s == Flush(Parsed(<<>>)) IN
     /\ Becomes(s)
     /\ Return(Append(s.output, <<Synthetic>>))
  /\ Settle("failure")
  /\ UNCHANGED <<body, phase, closing>>

\* A transport error: its event is the last.
PollError ==
  /\ Waiting
  /\ LET s == Flush(Parsed(<<>>)) IN
     /\ Becomes(s)
     /\ Return(Append(s.output, <<Synthetic>>))
  /\ Settle("failure")
  /\ closing' = TRUE
  /\ UNCHANGED <<body, phase>>

\* The body ends, with a terminal event or with one made up for the client.
PollEof ==
  /\ Waiting
  /\ LET s == ObserveEof(Parsed(<<>>))
         t == Flush(s) IN
     IF s.terminal # "none"
     THEN Becomes(s) /\ Return(s.output) /\ Settle(Verdict(s))
     ELSE /\ Becomes(t)
          /\ Return(Append(t.output, <<Synthetic>>))
          /\ Settle("failure")
  /\ closing' = TRUE
  /\ UNCHANGED <<body, phase>>

\* The client, or the server after the end, drops the stream.
DropStream ==
  /\ phase # "dropped"
  /\ phase' = "dropped"
  /\ Settle(IF terminal = "none" THEN "release" ELSE Verdict(Parsed(<<>>)))
  /\ UNCHANGED <<body, parser, pending, closing, sent>>

Next ==
  \/ PollPending \/ PollEnd \/ PollShutdown
  \/ PollBytes \/ PollError \/ PollEof
  \/ DropStream

Spec == Init /\ [][Next]_vars

-----------------------------------------------------------------------------
(* Safety *)

Output == sent \o FlattenSeq(pending)

\* How the upstream cuts its body into chunks makes no difference: the parser's
\* verdict and all the client was or will be given are what they would be if the
\* body had come in one piece, then ended or been cut short (observe_bytes,
\* resolve_pending_line_start, consume_buffered_events against one another).
ChunkingIrrelevant ==
  LET start == [buffer |-> <<>>, lineStart |-> TRUE, sseMode |-> FALSE,
                terminal |-> "none", output |-> <<>>]
      whole == Observe(start, body)
      Same(s, more) == terminal = s.terminal /\ Output = FlattenSeq(s.output) \o more
  IN  phase = "open" =>
        \/ Same(whole, <<>>)
        \/ /\ closing
           /\ \E s \in {whole, ObserveEof(whole)}, more \in {<<>>, <<Synthetic>>} : Same(s, more)

\* A client that stays to the end of a stream that was not cut off by a shutdown
\* is told how its response ended exactly once: by the upstream's terminal event,
\* or, when there is none, by the gateway's, which is the last thing it gets.
OneTerminalEvent ==
  LET made == {i \in 1..Len(sent) : sent[i] = Synthetic}
  IN  (phase = "ended" /\ closing) =>
        \/ terminal # "none" /\ made = {}
        \/ terminal = "none" /\ made = {Len(sent)}

\* The account's settlement agrees with what the client was told -- success exactly
\* for response.completed, failure exactly for a failed event of the upstream or
\* of the gateway -- and a dropped stream has settled exactly once.
SettlementMatchesOutput ==
  /\ settlements # <<>> =>
       LET how == Last(settlements) IN
       /\ how = "success" <=> terminal = "completed"
       /\ how = "failure" <=> terminal = "failed" \/ Contains(Output, Synthetic)
  /\ phase = "dropped" => Len(settlements) = 1

\* The gateway loses, repeats and reorders nothing: the client gets a prefix of the
\* body, with the gateway's own event at most behind it, and while the stream goes on
\* what it has not been given is what the parser holds back.
Transparent ==
  /\ \/ IsPrefix(Output, body)
     \/ /\ Contains(Output, Synthetic) /\ Last(Output) = Synthetic
        /\ IsPrefix(Front(Output), body)
  /\ Waiting => Output \o buffer = body

\* The gateway's event is never written into a line of the upstream's: in an
\* event stream the client has nothing before it or a complete line, so fragments
\* held back are dropped and not passed on (observe_eof's test for the end of
\* a line, take_terminal_passthrough_bytes; the test
\* managed_response_stream_discards_partial_sse_fragment_before_clean_eof).
SyntheticStartsLine ==
  sseMode =>
    \A i \in 2..Len(Output) : Output[i] = Synthetic => EndsLine(Output[i - 1])
=============================================================================
