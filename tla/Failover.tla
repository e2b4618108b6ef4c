------------------------------ MODULE Failover ------------------------------
(***************************************************************************)
(* One request and its fallback loop: handle_request() and                 *)
(* handle_request_stream() of streaming.py and _responses_stream_gen() of  *)
(* responses.py over call_provider() and call_provider_stream() of         *)
(* provider.py, many requests at a time, sharing the circuit breaker, the  *)
(* 429 cooldowns and the in-flight counters.  The loops of /v1/responses   *)
(* without streaming and of /v1/embeddings are handle_request() again.     *)
(*                                                                         *)
(* The gateway is one asyncio loop, so what a handler does between two     *)
(* awaits (or two yields) is one step: an upstream event is handled, the   *)
(* next backend is tried, all before any other request runs.  The fallback *)
(* list is computed once, when the request arrives, and used across all    *)
(* its awaits.                                                             *)
(***************************************************************************)
EXTENDS CircuitBreaker, FallbackOrder, SequencesExt, FiniteSets

CONSTANTS Requests,
          Forms,           \* what the requests may be
          Cooldowns,       \* lengths a 429 may ask for (Retry-After, or 5 s)
          NoBackend

ASSUME RequestsAssumption ==
  /\ Forms \subseteq [Requests -> {"whole", "chat", "raw"}]
  /\ IsFiniteSet(Requests) /\ IsFiniteSet(Backends)
  /\ Cooldowns \subseteq Nat \ {0} /\ NoBackend \notin Backends

VARIABLES form,      \* an answer at once, a chat stream or a /v1/responses stream
          phase,     \* where the handler of each request is
          plan,      \* the fallback list fixed when the request arrived
          tried,     \* backends that have failed this request so far, in order
          usage,     \* rows log_request() wrote for it: the backends, in order
          reply,     \* what the client has got: see NoReply
          inFlight,  \* stats.in_flight per backend
          cooldown   \* what is left of each backend's cooldown

requestVars == <<form, phase, plan, tried, usage, reply>>
vars == <<circuits, config, streak, waited, form, phase, plan, tried, usage, reply,
          inFlight, cooldown>>

Chat(r)      == form[r] = "chat"
Raw(r)       == form[r] = "raw"
Streaming(r) == Chat(r) \/ Raw(r)

\* "new": not arrived; "calling": no byte from upstream yet; "streaming":
\* headers and a chunk are out; "closing": an empty stream ended and its headers
\* are out; its outcome is not recorded yet for a chat stream, and has been for
\* a raw one.
Phases  == {"new", "calling", "streaming", "closing", "done"}
Running == {"calling", "streaming", "closing"}

NoReply == [from |-> NoBackend, bytes |-> {}, status |-> "open"]

Current(r) == plan[r][Len(tried[r]) + 1]
AtLast(r)  == Len(tried[r]) + 1 = Len(plan[r])

-----------------------------------------------------------------------------
\* is_available() and not is_open(), under the settings being loaded.
Routable(conf, b) == cooldown[b] = 0 /\ ~OpenUnder(conf, b)

\* Fallback orders select_backends() may emit for the eligible backends:
\* routable ones in some order (tiers, rotation, sort and affinity choose it),
\* then the others, which are deferred, not dropped.
Orders(conf, eligible) ==
  LET good == {b \in eligible : Routable(conf, b)}
  IN  Deferring(good, eligible \ good)

Enter(b) == [inFlight EXCEPT ![b] = @ + 1]
Leave(b) == [inFlight EXCEPT ![b] = IF @ > 0 THEN @ - 1 ELSE 0]

InitRequests ==
  /\ form \in Forms
  /\ phase = [r \in Requests |-> "new"]
  /\ plan = [r \in Requests |-> <<>>]
  /\ tried = [r \in Requests |-> <<>>]
  /\ usage = [r \in Requests |-> <<>>]
  /\ reply = [r \in Requests |-> NoReply]
  /\ inFlight = [b \in Backends |-> 0]
  /\ cooldown = [b \in Backends |-> 0]

InitAll == Init /\ InitRequests

ArriveClearing(r, s, eligible) ==  \* mutant: configure() starts the circuits afresh
  /\ phase[r] = "new"
  /\ config' = Effective(s)
  /\ \E order \in SetToSeqs(eligible) \ {<<>>} :
       /\ plan' = [plan EXCEPT ![r] = order]
       /\ inFlight' = Enter(Head(order))
  /\ phase' = [phase EXCEPT ![r] = "calling"]
  /\ circuits' = [b \in Backends |-> Closed]
  /\ UNCHANGED <<streak, waited, form, tried, usage, reply, cooldown>>

\* A request arrives: the config is loaded, the breaker retuned, the fallback
\* list fixed, and the first backend called.  With no eligible backend (unknown
\* model, context or output limit) it is refused at once.
Arrive(r, s, eligible) ==
  /\ phase[r] = "new"
  /\ config' = Effective(s)
  /\ IF eligible = {}
     THEN /\ phase' = [phase EXCEPT ![r] = "done"]
          /\ reply' = [reply EXCEPT ![r].status = "refused"]
          /\ UNCHANGED <<plan, inFlight>>
     ELSE \E order \in Orders(config', eligible) :
            /\ plan' = [plan EXCEPT ![r] = order]
            /\ inFlight' = Enter(Head(order))
            /\ phase' = [phase EXCEPT ![r] = "calling"]
            /\ UNCHANGED reply
  /\ UNCHANGED <<circuits, streak, waited, form, tried, usage, cooldown>>

\* 429 sets the cooldown of the backend that sent it, inside the provider call.
CoolDown(b, s) ==
  IF s = "rate_limited"
  THEN \E n \in Cooldowns : cooldown' = [cooldown EXCEPT ![b] = n]
  ELSE UNCHANGED cooldown

\* RETRYABLE_STATUS, timeouts and connection errors.
Retryable == {"rate_limited", "server_error", "no_answer"}

\* What is over for request r and its backend b: the call is no longer in
\* flight, and the handler returns.
Close(r, b, status) ==
  /\ inFlight' = Leave(b)
  /\ phase' = [phase EXCEPT ![r] = "done"]
  /\ reply' = [reply EXCEPT ![r].status = status]

Log(r, b) == usage' = [usage EXCEPT ![r] = Append(@, b)]

\* The loop moves on: the failed call leaves, the next backend is called.
NextInLine(r, b) ==
  /\ inFlight' = [Leave(b) EXCEPT ![plan[r][Len(tried[r]) + 2]] = @ + 1]
  /\ tried' = [tried EXCEPT ![r] = Append(@, b)]
  /\ UNCHANGED <<phase, reply>>

NothingLeftEarly(r) == TRUE  \* mutant: 502 after the first failure

NothingLeft(r) == AtLast(r)

FailFirstRetry(r, s) ==  \* mutant: a 429 is retried on the same backend, for ever
  /\ phase[r] = "calling" /\ s = "rate_limited"
  /\ CoolDown(Current(r), s)
  /\ UNCHANGED <<breakerVars, requestVars, inFlight>>

\* A call failed before its first byte: the failure is recorded and logged, and
\* the next backend is tried unless the status is final or none is left.
FailFirst(r, s) ==
  /\ phase[r] = "calling" /\ s # "ok"
  /\ LET b == Current(r)
     IN  /\ RequestOutcome(b, s)
         /\ CoolDown(b, s)
         /\ Log(r, b)
         /\ IF s \in Retryable /\ ~NothingLeft(r)
            THEN NextInLine(r, b)
            ELSE /\ Close(r, b, IF s \in Retryable THEN "exhausted" ELSE "refused")
                 /\ tried' = [tried EXCEPT ![r] = Append(@, b)]
  /\ UNCHANGED <<form, plan>>

\* The first chunk of a stream commits it: headers naming the backend, then the
\* chunk.  Chunks after that change nothing the client can tell apart here.
Chunk(r) ==
  /\ phase[r] = "calling" /\ Streaming(r)
  /\ phase' = [phase EXCEPT ![r] = "streaming"]
  /\ reply' = [reply EXCEPT
                 ![r].from = IF @ = NoBackend THEN Current(r) ELSE @,
                 ![r].bytes = @ \union {Current(r)}]
  /\ UNCHANGED <<breakerVars, form, plan, tried, usage, inFlight, cooldown>>

\* A stream that ends without a chunk: headers go out before anything of the
\* success is recorded in the breaker or the log.
EmptyEnd(r) ==
  /\ phase[r] = "calling" /\ Chat(r)
  /\ phase' = [phase EXCEPT ![r] = "closing"]
  /\ reply' = [reply EXCEPT ![r].from = Current(r)]
  /\ UNCHANGED <<breakerVars, form, plan, tried, usage, inFlight, cooldown>>

\* The same of a raw stream: its success is recorded first, then headers go out.
EmptyEndRaw(r) ==
  /\ phase[r] = "calling" /\ Raw(r)
  /\ RequestOutcome(Current(r), "ok")
  /\ Log(r, Current(r))
  /\ phase' = [phase EXCEPT ![r] = "closing"]
  /\ reply' = [reply EXCEPT ![r].from = Current(r)]
  /\ UNCHANGED <<form, plan, tried, inFlight, cooldown>>

\* And then there is nothing left to do but return.
ReturnRaw(r) ==
  /\ phase[r] = "closing" /\ Raw(r)
  /\ Close(r, Current(r), "complete")
  /\ UNCHANGED <<breakerVars, form, plan, tried, usage, cooldown>>

\* The backend has answered in full.
Finish(r) ==
  /\ \/ phase[r] = "streaming"
     \/ phase[r] = "closing" /\ Chat(r)
     \/ phase[r] = "calling" /\ ~Streaming(r)
  /\ LET b == Current(r)
     IN  /\ RequestOutcome(b, "ok")
         /\ Log(r, b)
         /\ inFlight' = Leave(b)
         /\ phase' = [phase EXCEPT ![r] = "done"]
         /\ reply' = [reply EXCEPT ![r] =
                        IF Streaming(r) THEN [@ EXCEPT !.status = "complete"]
                        ELSE [from |-> b, bytes |-> {b}, status |-> "complete"]]
  /\ UNCHANGED <<form, plan, tried, cooldown>>

BreakOffFallback(r) ==  \* mutant: an interrupted stream goes on with the next backend
  /\ phase[r] = "streaming" /\ ~AtLast(r)
  /\ LET b == Current(r)
     IN  /\ RequestOutcome(b, "no_answer")
         /\ Log(r, b)
         /\ inFlight' = [Leave(b) EXCEPT ![plan[r][Len(tried[r]) + 2]] = @ + 1]
         /\ tried' = [tried EXCEPT ![r] = Append(@, b)]
  /\ phase' = [phase EXCEPT ![r] = "calling"]
  /\ UNCHANGED <<form, plan, reply, cooldown>>

BreakOffUnlogged(r) ==  \* mutant: no log_request() for a mid-stream failure
  /\ phase[r] = "streaming"
  /\ RequestOutcome(Current(r), "no_answer")
  /\ Close(r, Current(r), "interrupted")
  /\ UNCHANGED <<form, plan, tried, usage, cooldown>>

\* A chat stream breaks or goes silent after its first chunk: recorded, logged,
\* and reported to the client as an error event; no other backend is tried.
BreakOff(r) ==
  /\ phase[r] = "streaming" /\ Chat(r)
  /\ RequestOutcome(Current(r), "no_answer")
  /\ Log(r, Current(r))
  /\ Close(r, Current(r), "interrupted")
  /\ UNCHANGED <<form, plan, tried, cooldown>>

\* A raw stream that breaks off is reported to the client, and to nobody else.
BreakOffRaw(r) ==
  /\ phase[r] = "streaming" /\ Raw(r)
  /\ Close(r, Current(r), "interrupted")
  /\ UNCHANGED <<breakerVars, form, plan, tried, usage, cooldown>>

HangUpLeak(r) ==  \* mutant: end_request() outside the finally
  /\ phase[r] \in {"streaming", "closing"}
  /\ phase' = [phase EXCEPT ![r] = "done"]
  /\ reply' = [reply EXCEPT ![r].status = "gone"]
  /\ UNCHANGED <<breakerVars, form, plan, tried, usage, inFlight, cooldown>>

\* The client closes its connection: the generator is closed at its yield or
\* await, and only the finally runs.  Nobody watches the connection before the
\* headers are out.
HangUp(r) ==
  /\ phase[r] \in {"streaming", "closing"}
  /\ Close(r, Current(r), "gone")
  /\ UNCHANGED <<breakerVars, form, plan, tried, usage, cooldown>>

ClockPastZero ==  \* mutant: no max(0, ...) around the time remaining
  /\ \E b \in Backends : circuits[b].left > 0 \/ cooldown[b] > 0
  /\ Elapse
  /\ cooldown' = [b \in Backends |-> cooldown[b] - 1]
  /\ UNCHANGED <<requestVars, inFlight>>

Clock ==
  /\ \E b \in Backends : circuits[b].left > 0 \/ cooldown[b] > 0
  /\ Elapse
  /\ cooldown' = [b \in Backends |-> IF cooldown[b] > 0 THEN cooldown[b] - 1 ELSE 0]
  /\ UNCHANGED <<requestVars, inFlight>>

\* The prober and the reset button, between any two steps of the requests.
Beside ==
  /\ \/ \E b \in Backends, s \in Statuses : ProbeOutcome(b, s)
     \/ Reset(Backends)
  /\ UNCHANGED <<requestVars, inFlight, cooldown>>

FirstEvent(r) ==
  \/ \E s \in Statuses : FailFirst(r, s)
  \/ Chunk(r)
  \/ EmptyEnd(r) \/ EmptyEndRaw(r) \/ ReturnRaw(r)
  \/ Finish(r)

NextAll ==
  \/ \E r \in Requests :
       \/ \E s \in Settings, E \in SUBSET Backends : Arrive(r, s, E)
       \/ FirstEvent(r)
       \/ BreakOff(r) \/ BreakOffRaw(r)
       \/ HangUp(r)
  \/ Clock
  \/ Beside

\* Every upstream call comes to a first event: httpx bounds connecting and
\* reading, wait_for(idle) bounds the wait for a chunk.
Fairness ==
  \A r \in Requests : WF_vars(phase[r] \in {"calling", "closing"} /\ FirstEvent(r))

SpecAll == InitAll /\ [][NextAll]_vars /\ Fairness

-----------------------------------------------------------------------------
TypeOKAll ==
  /\ phase \in [Requests -> Phases]
  /\ \A r \in Requests : plan[r] \in Seq(Backends) /\ tried[r] \in Seq(Backends)
  /\ \A r \in Requests : usage[r] \in Seq(Backends)
  /\ reply \in [Requests -> [from : Backends \union {NoBackend}, bytes : SUBSET Backends,
                             status : {"open", "complete", "interrupted", "refused",
                                       "exhausted", "gone"}]]
  /\ inFlight \in [Backends -> Nat] /\ cooldown \in [Backends -> Nat]

\* stats.in_flight, which cache-affinity routing and its spill limit read, is
\* exactly the number of calls under way to each backend, through fallbacks,
\* interrupted streams and clients that hang up: it neither leaks nor sticks.
InFlightIsExact ==
  \A b \in Backends :
    inFlight[b] = Cardinality({r \in Requests : phase[r] \in Running /\ Current(r) = b})

\* A request ends in "all backends failed" (502) only after every backend of
\* its fallback list was called, each once, in order; and at every moment what
\* was tried is the front of that list.
ExhaustedMeansAllTried ==
  \A r \in Requests :
    /\ tried[r] = SubSeq(plan[r], 1, Len(tried[r]))
    /\ reply[r].status = "exhausted" => tried[r] = plan[r]

\* Every call that came to an end has one usage row, in the order of the calls:
\* the failed ones, then the one that served or broke off.  A call cut short by
\* the client has none, unless it was an empty raw stream, logged by then; nor
\* has a raw stream that broke off (responses.py:374, where the chat path logs).
UsageIsExact ==
  \A r \in Requests :
    LET logged == \/ reply[r].status = "complete"
                  \/ reply[r].status = "interrupted" /\ Chat(r)
                  \/ Raw(r) /\ reply[r].from # NoBackend /\ reply[r].bytes = {}
    IN  usage[r] = IF logged THEN Append(tried[r], reply[r].from) ELSE tried[r]

\* What the client sees is what ClientStream promises: one backend serves it.
Client == INSTANCE ClientStream WITH
  source <- [r \in Requests |-> reply[r].from],
  from   <- [r \in Requests |-> reply[r].bytes],
  ending <- [r \in Requests |->
               IF reply[r].status = "exhausted" THEN "refused" ELSE reply[r].status]
ServedByOne == Client!Spec

\* Seen from the breaker, all of this is outcomes, reloads, resets and time: the
\* requests use it as CircuitBreaker allows, so its theorems hold here.
BreakerIsUsedAsSpecified == Init /\ [][Next]_breakerVars

\* However many backends fail, a client that waits for its first byte gets it,
\* or an error, in the end.
AnswerComes ==
  \A r \in Requests : phase[r] = "calling" ~> (phase[r] = "done" \/ reply[r].from # NoBackend)
=============================================================================
