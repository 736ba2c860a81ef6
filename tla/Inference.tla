----------------------------- MODULE Inference -----------------------------
(***************************************************************************)
(* A completion request through the compatibility endpoints                *)
(* (src/modules/openai_compat.rs, src/modules/ollama_compat.rs) and the    *)
(* engines behind them (src/inference/mod.rs, src/inference/ollama.rs):    *)
(* the checks before the 200 is committed, the task that reads the         *)
(* upstream's NDJSON, the task that turns engine events into body frames,  *)
(* the two bounded channels between them, and a client that reads slowly   *)
(* or goes away.                                                           *)
(*                                                                         *)
(* Bytes are symbols; NL ends a line.  Json says what serde reads in a     *)
(* line (a line outside its domain does not parse).  Requests share no     *)
(* state, so one at a time is followed.                                    *)
(***************************************************************************)
EXTENDS Naturals, Sequences, FiniteSets, SequencesExt

CONSTANTS Asks,       \* the requests: [api, stream, messages, model, usage, engine]
          Bodies,     \* what the upstream would answer: sequences of symbols
          Json,       \* line -> [text, done]
          Catalogued, \* models of the catalogue
          EngineModels, \* models the engine reports
          Capacity,   \* slots of each channel (16 in the code)
          MaxLine,    \* MAX_STREAM_LINE_BYTES
          MaxChunk    \* largest piece the transport delivers at once

NL == "nl"

\* Symbols an answer is made of, and pieces of text its lines carry.
Symbols == {NL} \cup UNION {ToSet(answer) : answer \in Bodies}
Texts == UNION {ToSet(Json[line].text) : line \in DOMAIN Json}

ASSUME InferenceAssumption ==
    /\ Bodies \subseteq Seq(Symbols)
    /\ Json \in [DOMAIN Json -> [text : Seq(Texts), done : BOOLEAN]]
    /\ Capacity \in Nat /\ MaxLine \in Nat /\ MaxChunk \in Nat

VARIABLES ask,      \* the request, or NoAsk
          phase,    \* idle, resolving, calling, streaming, answered, refused
          upstream, \* symbols not yet delivered
          body,     \* the whole answer the upstream was going to give
          buffered, \* the reader's buffer
          reader,   \* the engine's task: off, read, drain, done, fail
          pending,  \* Delta read from a line and not yet sent, and whether the line was the last
          events,   \* engine channel
          relay,    \* the endpoint's task: off, next, and the frames it has still to send
          frames,   \* body channel
          seen,     \* frames the client has received
          client    \* reading or gone

inferenceVars == <<ask, phase, upstream, body, buffered, reader, pending, events, relay,
                   frames, seen, client>>

NoAsk == [api |-> "none"]
NoLine == [text |-> <<>>, done |-> FALSE]
Delta(text) == [e |-> "delta", text |-> text]
EDone == [e |-> "done", text |-> <<>>]
EErr == [e |-> "err", text |-> <<>>]
Frame(kind, text) == [f |-> kind, text |-> text]
Off == [on |-> FALSE, queue |-> <<>>, last |-> FALSE]

\* Frames a task still owes when it has met the end of the engine's events.
StopFrames == IF ask.api = "openai"
              THEN <<Frame("stop", <<>>)>>
                   \o (IF ask.usage THEN <<Frame("usage", <<>>)>> ELSE <<>>)
                   \o <<Frame("[DONE]", <<>>)>>
              ELSE <<Frame("stop", <<>>)>>
ErrorFrames == IF ask.api = "openai" THEN <<Frame("error", <<>>), Frame("[DONE]", <<>>)>>
               ELSE <<Frame("error", <<>>)>>

InferenceInit ==
    /\ ask = NoAsk /\ phase = "idle"
    /\ body \in Bodies /\ upstream = body
    /\ buffered = <<>> /\ reader = "off" /\ pending = NoLine
    /\ events = <<>> /\ relay = Off /\ frames = <<>> /\ seen = <<>>
    /\ client = "reading"

----------------------------------------------------------------------------
(* Before the response is committed.                                        *)

Quiet == UNCHANGED <<upstream, body, buffered, reader, pending, events, relay, frames, seen, client>>

\* dispatch_*: an empty message list is refused (not by /api/generate).
Submit(a) ==
    /\ phase = "idle"
    /\ ask' = a
    /\ phase' = IF a.api # "generate" /\ ~a.messages THEN "refused" ELSE "resolving"
    /\ Quiet

\* resolve_model: no name at all and the echo engine accept anything; otherwise
\* the catalogue, then what the engine reports, where a failing listing is empty.
Resolves(listed) ==
    \/ ask.model = "" \/ ask.engine = "echo"
    \/ ask.model \in Catalogued \cup listed

ResolveModel ==
    /\ phase = "resolving"
    /\ \E listed \in {{}, EngineModels} :
          phase' = IF Resolves(listed) THEN "calling" ELSE "refused"
    /\ UNCHANGED ask /\ Quiet

\* The engine refuses, cannot be reached, or answers an error status: complete
\* and complete_stream return Err and the request gets an error status.
EngineFails ==
    /\ phase = "calling"
    /\ phase' = "refused"
    /\ UNCHANGED ask /\ Quiet

\* What is read of an answer up to some symbol: the line so far, the text of the
\* lines before it, and whether one of them said done or did not parse.  MaxLine
\* bounds only what waits without a newline, so no line is too long to be read.
NothingRead == [line |-> <<>>, text |-> <<>>, end |-> "open"]
ReadSymbol(before, symbol) ==
    IF before.end # "open" THEN before
    ELSE IF symbol # NL THEN [line |-> Append(before.line, symbol), text |-> before.text, end |-> "open"]
    ELSE IF before.line = <<>> THEN before
    ELSE IF before.line \notin DOMAIN Json THEN [line |-> <<>>, text |-> before.text, end |-> "broken"]
    ELSE [line |-> <<>>, text |-> before.text \o Json[before.line].text,
          end |-> IF Json[before.line].done THEN "done" ELSE "open"]

ReadUpto(symbols) ==
    LET upto[n \in 0..Len(symbols)] ==
          IF n = 0 THEN NothingRead ELSE ReadSymbol(upto[n - 1], symbols[n])
    IN  upto

\* The text of the upstream's answer, and whether there is a line that says done
\* before one that does not parse.
Answer == LET read == ReadUpto(body)[Len(body)] IN [text |-> read.text, whole |-> read.end = "done"]

\* stream omitted or false: one JSON body with the whole completion.
CompleteBuffered ==
    /\ phase = "calling" /\ ~ask.stream /\ Answer.whole
    /\ phase' = "answered"
    /\ seen' = <<Frame("delta", Answer.text), Frame("stop", <<>>)>>
    /\ UNCHANGED <<ask, upstream, body, buffered, reader, pending, events, relay, frames, client>>

Spawned == [on |-> TRUE, last |-> FALSE,
            queue |-> IF ask.api = "openai" THEN <<Frame("role", <<>>)>> ELSE <<>>]

\* complete_stream's default: the completion replayed as one delta and Done.
StreamReplayed ==
    /\ phase = "calling" /\ ask.stream /\ ask.engine # "ollama" /\ Answer.whole
    /\ phase' = "streaming"
    /\ events' = <<Delta(Answer.text), EDone>>
    /\ reader' = "done" /\ relay' = Spawned
    /\ UNCHANGED <<ask, upstream, body, buffered, pending, frames, seen, client>>

StreamNative ==
    /\ phase = "calling" /\ ask.stream /\ ask.engine = "ollama"
    /\ phase' = "streaming"
    /\ reader' = "read" /\ relay' = Spawned
    /\ UNCHANGED <<ask, upstream, body, buffered, pending, events, frames, seen, client>>

----------------------------------------------------------------------------
(* The reader task of OllamaEngine::complete_stream.                        *)

ReaderOnly == UNCHANGED <<ask, phase, body, relay, frames, seen, client>>

\* The transport delivers a piece that may end inside a line; a line that grows
\* past MAX_STREAM_LINE_BYTES with no newline is an error.
ReadChunk ==
    /\ reader = "read"
    /\ \E n \in 1..MaxChunk :
          /\ n <= Len(upstream)
          /\ LET now == buffered \o SubSeq(upstream, 1, n) IN
             /\ buffered' = now
             /\ reader' = IF Len(now) > MaxLine /\ \A i \in DOMAIN now : now[i] # NL
                          THEN "fail" ELSE "drain"
          /\ upstream' = SubSeq(upstream, n + 1, Len(upstream))
    /\ UNCHANGED <<pending, events>> /\ ReaderOnly

\* Mutant: the byte stream ends before a done line and the task just returns.
BodyEndsSilently ==
    /\ reader = "read"
    /\ reader' = "done"
    /\ UNCHANGED <<upstream, buffered, pending, events>> /\ ReaderOnly

\* The connection fails or closes, before or after the last byte, and no line
\* has said done.
BodyEnds ==
    /\ reader = "read"
    /\ reader' = "fail"
    /\ UNCHANGED <<upstream, buffered, pending, events>> /\ ReaderOnly

Newlines == {i \in DOMAIN buffered : buffered[i] = NL}

\* The next complete line: blank lines are skipped, one that does not parse is
\* an error; the partial tail waits for the next piece.
DrainLine ==
    /\ reader = "drain" /\ Newlines # {}
    /\ LET i == CHOOSE j \in Newlines : \A k \in Newlines : j <= k
           line == SubSeq(buffered, 1, i - 1)
       IN /\ buffered' = SubSeq(buffered, i + 1, Len(buffered))
          /\ reader' = IF line = <<>> THEN "drain"
                       ELSE IF line \in DOMAIN Json THEN "send" ELSE "fail"
          /\ pending' = IF line \in DOMAIN Json THEN Json[line] ELSE NoLine
    /\ UNCHANGED <<upstream, events>> /\ ReaderOnly

Drained ==
    /\ reader = "drain" /\ Newlines = {}
    /\ reader' = "read"
    /\ UNCHANGED <<upstream, buffered, pending, events>> /\ ReaderOnly

ReceiverGone == ~relay.on
Room == Len(events) < Capacity

\* send().await: waits for room; an empty response is not sent.
SendDelta ==
    /\ reader = "send" /\ pending.text # <<>> /\ ~ReceiverGone /\ Room
    /\ events' = Append(events, Delta(pending.text))
    /\ pending' = [pending EXCEPT !.text = <<>>]
    /\ UNCHANGED <<upstream, buffered, reader>> /\ ReaderOnly

SendDone ==
    /\ reader = "send" /\ pending.text = <<>>
    /\ \/ /\ pending.done /\ ~ReceiverGone /\ Room
          /\ events' = Append(events, EDone) /\ reader' = "done"
       \/ ~pending.done /\ reader' = "drain" /\ UNCHANGED events
    /\ UNCHANGED <<upstream, buffered, pending>> /\ ReaderOnly

SendError ==
    /\ reader = "fail" /\ ~ReceiverGone /\ Room
    /\ events' = Append(events, EErr)
    /\ reader' = "done"
    /\ UNCHANGED <<upstream, buffered, pending>> /\ ReaderOnly

\* Mutant: a send to a dropped receiver is retried instead of ending the task.
SendFailsNever == FALSE /\ UNCHANGED inferenceVars

SendFails ==
    /\ \/ reader = "fail"
       \/ reader = "send" /\ (pending.text # <<>> \/ pending.done)
    /\ ReceiverGone
    /\ reader' = "done"
    /\ UNCHANGED <<upstream, buffered, pending, events>> /\ ReaderOnly

----------------------------------------------------------------------------
(* The endpoint's task and the client.                                      *)

RelayOnly == UNCHANGED <<ask, phase, upstream, body, buffered, reader, pending, client>>

\* What Done, an error, and the end of the events make the task send and end with.
FramesFor(event) == IF event.e = "err" THEN ErrorFrames ELSE StopFrames

\* Events that end with neither Done nor an error make the loop fall through to
\* the closing frames all the same: the engines must never let that happen.
NextEvent ==
    /\ relay.on /\ relay.queue = <<>> /\ ~relay.last
    /\ events # <<>> \/ reader = "done"
    /\ LET event == IF events = <<>> THEN EDone ELSE Head(events) IN
       relay' = IF event.e = "delta"
                THEN [relay EXCEPT !.queue = <<Frame("delta", event.text)>>]
                ELSE [relay EXCEPT !.queue = FramesFor(event), !.last = TRUE]
    /\ events' = IF events = <<>> THEN <<>> ELSE Tail(events)
    /\ UNCHANGED <<frames, seen>> /\ RelayOnly

SendFrame ==
    /\ relay.on /\ relay.queue # <<>> /\ client = "reading" /\ Len(frames) < Capacity
    /\ frames' = Append(frames, Head(relay.queue))
    /\ relay' = [relay EXCEPT !.queue = Tail(@)]
    /\ UNCHANGED <<events, seen>> /\ RelayOnly

\* The task returns: everything is sent, or the client is gone, which drops the
\* engine's receiver.
RelayReturns ==
    /\ relay.on
    /\ \/ relay.last /\ relay.queue = <<>>
       \/ relay.queue # <<>> /\ client = "gone"
    /\ relay' = Off
    /\ UNCHANGED <<events, frames, seen>> /\ RelayOnly

ClientReads ==
    /\ client = "reading" /\ frames # <<>>
    /\ seen' = Append(seen, Head(frames))
    /\ frames' = Tail(frames)
    /\ UNCHANGED <<ask, phase, upstream, body, buffered, reader, pending, events, relay, client>>

ClientLeaves ==
    /\ client = "reading" /\ relay.on
    /\ client' = "gone"
    /\ frames' = <<>>
    /\ UNCHANGED <<ask, phase, upstream, body, buffered, reader, pending, events, relay, seen>>

Reader == ReadChunk \/ BodyEnds \/ DrainLine \/ Drained \/ SendDelta \/ SendDone
          \/ SendError \/ SendFails
Relay == NextEvent \/ SendFrame \/ RelayReturns

InferenceNext ==
    \/ \E a \in Asks : Submit(a)
    \/ ResolveModel \/ EngineFails \/ CompleteBuffered \/ StreamReplayed \/ StreamNative
    \/ Reader \/ Relay \/ ClientReads \/ ClientLeaves

\* Tokio polls both tasks; the upstream delivers, fails or closes in the end (the
\* reader's step is its); a client reads what has arrived or leaves.
InferenceFairness == /\ WF_inferenceVars(Reader) /\ WF_inferenceVars(Relay)
                     /\ WF_inferenceVars(ClientReads)

----------------------------------------------------------------------------
(* Properties.                                                              *)

Concat(fs) ==
    LET upto[n \in 0..Len(fs)] == IF n = 0 THEN <<>> ELSE upto[n - 1] \o fs[n].text
    IN  upto[Len(fs)]

Kinds(fs) == {fs[i].f : i \in DOMAIN fs}

\* A client that is told the answer is complete has all of it: "stop" is seen only
\* after the upstream's done line, with every delta before it, once and in order,
\* although both channels fill, chunks split lines and the upstream may fail at
\* any byte; and no client is ever shown both an error and a clean end.
CleanEndIsComplete ==
    \A i \in DOMAIN seen : seen[i].f = "stop" =>
       /\ Answer.whole /\ Concat(SubSeq(seen, 1, i)) = Answer.text
       /\ \A j \in DOMAIN seen : j > i => seen[j].f \in {"usage", "[DONE]"}
       /\ "error" \notin Kinds(seen)

\* Every stream ends: the endpoint's task and the engine's task both return,
\* whether the client reads to the end or leaves with both channels full.
StreamsEnd == [](phase = "streaming" => <>(~relay.on /\ reader = "done"))
=============================================================================
