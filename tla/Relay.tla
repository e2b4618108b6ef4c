-------------------------------- MODULE Relay --------------------------------
(***************************************************************************)
(* What becomes of one upstream event stream on its way to the client: the  *)
(* SSEParser of sse.py, fed chunk by chunk, twice.  call_provider_stream()  *)
(* feeds one to meter the stream; on the chat path handle_request_stream()  *)
(* feeds another to rewrite reasoning fields and usage.  /v1/responses      *)
(* forwards the chunks themselves.  The network cuts the bytes anywhere.    *)
(*                                                                          *)
(* Bytes are tokens: a line is a field name and what follows it, so that a  *)
(* cut may also fall inside a line, and line endings are CR and LF.         *)
(***************************************************************************)
EXTENDS Integers, Sequences, SequencesExt, FiniteSets

CONSTANTS Blocks,    \* the events upstream may send: sequences of lines
          MaxBlocks,
          LineEnds,  \* the line endings upstream may use
          Tails,     \* how many of its last line endings upstream may leave out
          Paths      \* "chat", "raw"

CR == "cr"
LF == "lf"

\* What the lines of the blocks are made of.
Words == UNION {UNION {ToSet(block[i]) : i \in DOMAIN block} : block \in Blocks}

ASSUME RelayAssumption ==
  /\ Blocks \subseteq Seq(Seq(Words)) /\ {CR, LF} \intersect Words = {}
  /\ LineEnds \subseteq {<<LF>>, <<CR>>, <<CR, LF>>}
  /\ Paths \subseteq {"chat", "raw"} /\ MaxBlocks \in Nat /\ Tails \subseteq 0 .. 2

\* Lines and payloads that are told apart.
Data(p)  == <<"data", p>>
Text     == "text"       \* a content delta
Thought  == "thinking"   \* a delta with a reasoning field under one name only
Thoughts == "reasoning"  \* the same under every name
Used     == "usage"      \* token counts
Shifted  == "shifted"    \* the same with the prompt shown as cached
Failure  == "error"
Done     == "[DONE]"

Sentinel == <<"data", Done, LF, LF>>

VARIABLES path, eol, shift,  \* fixed when the request begins; shift: the
                                \* backend has no price for cache reads
          upstream,   \* the bytes still to come
          sent,       \* history: the blocks of the whole stream
          meter,      \* the accumulator: its parser's buffer, what it observed
          rewriter,   \* the buffer of the chat path's own parser
          first,      \* a chunk has come
          out,        \* the bytes the client has
          phase,
          halved      \* history: a chunk ended between the CR and the LF of a CRLF

relayVars ==
  <<path, eol, shift, upstream, sent, meter, rewriter, first, out, phase, halved>>

\* A block on the wire.
Wire(block) == FlattenSeq([i \in DOMAIN block |-> block[i] \o eol]) \o eol

\* The whole stream.
Stream == FlattenSeq([i \in DOMAIN sent |-> Wire(sent[i])])

Histories == UNION {[1 .. n -> Blocks] : n \in 0 .. MaxBlocks}

RelayInit ==
  /\ path \in Paths /\ eol \in LineEnds /\ shift \in BOOLEAN
  /\ sent \in Histories
  /\ \E cut \in Tails : upstream = SubSeq(Stream, 1, Len(Stream) - cut * Len(eol))
  /\ meter = [buf |-> <<>>, seen |-> <<>>]
  /\ rewriter = <<>> /\ first = FALSE /\ out = <<>>
  /\ phase = "open" /\ halved = FALSE

-----------------------------------------------------------------------------
(* SSEParser. *)

\* CRLF and CR become LF, within one chunk.
ToLF(acc, t) ==
  IF t = LF /\ acc.cr THEN [acc EXCEPT !.cr = FALSE]
  ELSE [bytes |-> Append(acc.bytes, IF t = CR THEN LF ELSE t), cr |-> t = CR]

Normal(chunk) ==
  LET f[n \in 0 .. Len(chunk)] ==
        IF n = 0 THEN [bytes |-> <<>>, cr |-> FALSE] ELSE ToLF(f[n - 1], chunk[n])
  IN  f[Len(chunk)].bytes

\* The chunk as feed() takes it up after what it has buffered.
TakenUp(buf, chunk) ==
  IF buf # <<>> /\ Last(buf) = CR
  THEN Front(buf) \o <<LF>> \o Normal(IF Head(chunk) = LF THEN Tail(chunk) ELSE chunk)
  ELSE buf \o Normal(chunk)

\* _parse_block(): the payloads of the data lines; none is no event.
DataSoFar(acc) ==
  IF acc.line # <<>> /\ Head(acc.line) = "data" THEN Append(acc.data, Tail(acc.line))
  ELSE acc.data

Parsed(acc, t) ==
  IF t = LF THEN [line |-> <<>>, data |-> DataSoFar(acc)]
  ELSE [acc EXCEPT !.line = Append(@, t)]

Payload(raw) ==
  LET f[n \in 0 .. Len(raw)] ==
        IF n = 0 THEN [line |-> <<>>, data |-> <<>>] ELSE Parsed(f[n - 1], raw[n])
  IN  DataSoFar(f[Len(raw)])

\* The blocks a blank line completes, without it, if they are events, and what
\* is left.
Taken(acc, t) ==
  IF t = LF /\ acc.buf # <<>> /\ Last(acc.buf) = LF
  THEN LET raw == Front(acc.buf)
       IN  [buf |-> <<>>,
            events |-> IF Payload(raw) = <<>> THEN acc.events ELSE Append(acc.events, raw)]
  ELSE [acc EXCEPT !.buf = Append(@, t)]

Split(bytes) ==
  LET f[n \in 0 .. Len(bytes)] ==
        IF n = 0 THEN [buf |-> <<>>, events |-> <<>>] ELSE Taken(f[n - 1], bytes[n])
  IN  f[Len(bytes)]

\* Mutant: a chunk begins a new buffer.
FeedForgets(buf, chunk) == Split(Normal(chunk))

\* feed(): the buffer it leaves and the wire blocks of its events.
Feed(buf, chunk) == Split(TakenUp(buf, chunk))

\* render_event(): the event as it came, with one blank line after it.
Rendered(raw) == SubSeq(raw, 1, Max({i \in DOMAIN raw : raw[i] # LF})) \o <<LF, LF>>

\* flush(): the event left in the buffer when the stream ends, if there is one.
Flush(buf) == IF Payload(buf) = <<>> THEN <<>> ELSE <<buf>>

-----------------------------------------------------------------------------
(* The two users of the parser. *)

\* Mutant: one event per chunk is observed.
ObservedOnce(events) == IF events = <<>> THEN <<>> ELSE <<Payload(events[1])>>

\* StreamAccumulator._observe() over the events of a chunk.
Observed(events) == [i \in DOMAIN events |-> Payload(events[i])]

\* transform_stream_chunk(): an event with a reasoning field is written anew.
Rewritten(raw) ==
  IF Payload(raw) = << <<Thought>> >> THEN <<"data", Thoughts, LF, LF>> ELSE Rendered(raw)

\* _shift_stream_usage_to_cached(): splits and joins the lines of the chunk's
\* events, and adds a line ending when it has changed one.
Cached(tokens) == [i \in DOMAIN tokens |-> IF tokens[i] = Used THEN Shifted ELSE tokens[i]]

ShiftUsage(bytes) ==
  IF shift /\ Used \in {bytes[i] : i \in DOMAIN bytes} THEN Cached(bytes) \o <<LF>> ELSE bytes

Forwarded(events) == ShiftUsage(FlattenSeq([i \in DOMAIN events |-> Rewritten(events[i])]))

-----------------------------------------------------------------------------
(* The stream. *)

\* What the client and the path's own parser have after one more chunk.
Passed(chunk) ==
  LET fed == Feed(rewriter, chunk)
  IN  IF path = "chat" THEN [buf |-> fed.buf, out |-> out \o Forwarded(fed.events)]
      ELSE [buf |-> rewriter, out |-> out \o chunk]

Metered(chunk) ==
  LET fed == Feed(meter.buf, chunk)
  IN  [buf |-> fed.buf, seen |-> meter.seen \o Observed(fed.events)]

\* A chunk: metered by the provider call, then rewritten or passed on.
Receive ==
  /\ phase = "open"
  /\ \E n \in 1 .. Len(upstream) :
       LET chunk == SubSeq(upstream, 1, n)
           after == Passed(chunk)
       IN  /\ upstream' = SubSeq(upstream, n + 1, Len(upstream))
           /\ meter' = Metered(chunk)
           /\ rewriter' = after.buf /\ out' = after.out
           /\ first' = TRUE
           /\ halved' = (halved \/ (Last(chunk) = CR /\ n < Len(upstream)
                                      /\ upstream[n + 1] = LF))
  /\ UNCHANGED <<path, eol, shift, sent, phase>>

SawDone(seen) == << <<Done>> >> \in {seen[i] : i \in DOMAIN seen}

\* Upstream closes the stream.  An event left in the meter's buffer is observed
\* and goes down the path like a chunk; the chat path then flushes its own
\* parser and adds the sentinel that was not observed.
Finish ==
  /\ phase = "open" /\ upstream = <<>>
  /\ LET left  == Flush(meter.buf)
         seen  == meter.seen \o Observed(left)
         after == IF left = <<>> THEN [buf |-> rewriter, out |-> out] ELSE Passed(Rendered(left[1]))
         tail  == Flush(after.buf)
     IN /\ meter' = [buf |-> <<>>, seen |-> seen]
        /\ out' = IF path = "raw" THEN after.out
                  ELSE after.out \o FlattenSeq([i \in DOMAIN tail |-> Rewritten(tail[i])])
                         \o (IF SawDone(seen) THEN <<>> ELSE Sentinel)
  /\ rewriter' = <<>> /\ phase' = "complete"
  /\ UNCHANGED <<path, eol, shift, upstream, sent, first, halved>>

\* Upstream breaks off or goes silent after its first chunk: the client gets an
\* error event, on the chat path the sentinel after it, and not what is buffered.
Break ==
  /\ phase = "open" /\ first
  /\ out' = out \o Data(Failure) \o <<LF, LF>> \o (IF path = "chat" THEN Sentinel ELSE <<>>)
  /\ rewriter' = <<>> /\ phase' = "broken"
  /\ UNCHANGED <<path, eol, shift, upstream, sent, meter, first, halved>>

RelayNext == Receive \/ Finish \/ Break

RelaySpec == RelayInit /\ [][RelayNext]_relayVars

-----------------------------------------------------------------------------
(* What the client is promised. *)

\* How a client reads bytes: any of the three line endings ends a line, and a
\* blank line ends an event, which counts if it has data.
Reading ==
  [cr |-> FALSE, line |-> <<>>, event |-> [named |-> FALSE, data |-> <<>>], events |-> <<>>]

EndLine(r) ==
  CASE r.line = <<>> ->
         [r EXCEPT !.event = Reading.event,
                   !.events = IF r.event.data = <<>> THEN @ ELSE Append(@, r.event)]
    [] r.line # <<>> /\ Head(r.line) = "data" ->
         [r EXCEPT !.line = <<>>, !.event.data = Append(@, Tail(r.line))]
    [] r.line # <<>> /\ Head(r.line) = "event" ->
         [r EXCEPT !.line = <<>>, !.event.named = TRUE]
    [] OTHER -> [r EXCEPT !.line = <<>>]

ReadToken(r, t) ==
  IF t = LF /\ r.cr THEN [r EXCEPT !.cr = FALSE]
  ELSE IF t \in {CR, LF} THEN [EndLine(r) EXCEPT !.cr = t = CR]
  ELSE [r EXCEPT !.cr = FALSE, !.line = Append(@, t)]

\* A reader who has come to r, after more bytes.
ReadOn(r, bytes) ==
  LET f[n \in 0 .. Len(bytes)] == IF n = 0 THEN r ELSE ReadToken(f[n - 1], bytes[n])
  IN  f[Len(bytes)]

Read(bytes) == ReadOn(Reading, bytes).events

Event(payload) == [named |-> FALSE, data |-> << <<payload>> >>]

\* What the path promises for an event of the stream.
Promised(e) ==
  IF path = "raw" THEN e
  ELSE IF e.data = Event(Thought).data THEN Event(Thoughts)
  ELSE IF shift THEN [e EXCEPT !.data = [i \in DOMAIN e.data |-> Cached(e.data[i])]]
  ELSE e

Original ==
  LET events == Read(Stream)
  IN  [i \in DOMAIN events |-> Promised(events[i])]

IsDone(e) == e.data = Event(Done).data

Sealed(events) == IF \E i \in DOMAIN events : IsDone(events[i]) THEN events
                  ELSE Append(events, Event(Done))

\* However the network cuts the stream, but between the CR and the LF of a CRLF
\* (feed() looks for a CR at the end of its buffer that it has made an LF, sse.py:78
\* and :85, so the event falls apart there), the client reads the events upstream
\* sent, whole and in order, with their reasoning and usage rewritten once; a
\* complete chat stream has its [DONE] whether upstream sent one or not; and one
\* that breaks off ends in a readable error event and [DONE] (sse.py:61-64).  On
\* the raw path the error is only readable if it does not follow half an event.
EventsArriveAsSent ==
  ~halved =>
  LET got == Read(out)
  IN  CASE phase = "open" -> IsPrefix(got, Original)
        [] phase = "complete" -> got = IF path = "chat" THEN Sealed(Original) ELSE Original
        [] phase = "broken" /\ path = "chat" ->
             \E n \in 0 .. Len(Original) :
               got = SubSeq(Original, 1, n) \o <<Event(Failure), Event(Done)>>
        [] phase = "broken" /\ path = "raw" ->
             meter.buf = <<>> => \E n \in 0 .. Len(Original) :
                                   got = SubSeq(Original, 1, n) \o <<Event(Failure)>>

\* The meter, whose usage is billed and whose content length stands in for it,
\* has observed exactly the events the client can read, at every moment, unless a
\* CRLF was cut in two.
MeterAgrees ==
  LET metered == [i \in DOMAIN meter.seen |->
                    Promised([named |-> FALSE, data |-> meter.seen[i]]).data]
      got     == Read(out)
  IN  phase = "open" /\ ~halved => metered = [i \in DOMAIN got |-> got[i].data]
=============================================================================
