---------------------------- MODULE ProviderStream ----------------------------
(***************************************************************************)
(* One response of a model on its way to the agent: what each API sends for *)
(* it, what the provider's parser makes of that, and the message and tool   *)
(* calls processStream puts together; and how the calls and their results   *)
(* go back in the next request.  The connection may be cut, or the context  *)
(* cancelled, between any two pieces.                                       *)
(***************************************************************************)
EXTENDS Naturals, Sequences, SequencesExt, FiniteSetsExt

CONSTANTS
  Protocols,   \* of "anthropic", "openai", "google"
  Replies      \* what the model may say: sequences of blocks

Kinds == {"text", "thinking", "call"}

ASSUME StreamAssumption ==
  /\ Protocols \subseteq {"anthropic", "openai", "google"}
  /\ Replies \subseteq Seq([kind : Kinds, pieces : Nat \ {0}])

VARIABLES
  protocol,   \* the provider that is used
  reply,      \* what the model says
  heard,      \* how much of the wire the parser has read
  asm,        \* processStream's local variables
  stream      \* whether the stream goes on, has ended, failed, or was cut

streamVars == <<protocol, reply, heard, asm, stream>>

None == [id |-> 0, args |-> <<>>]
Empty == [text |-> <<>>, calls |-> <<>>, current |-> None, finish |-> ""]

StreamInit ==
  /\ protocol \in Protocols /\ reply \in Replies
  /\ heard = 0 /\ asm = Empty /\ stream = "open"

-----------------------------------------------------------------------------
(* What the API sends.                                                      *)

\* Piece n of block i; a call's id is its place among the calls.
Piece(i, n) == <<i, n>>
Pieces(i) == [n \in 1..reply[i].pieces |-> Piece(i, n)]
IsCall(i) == reply[i].kind = "call"
CallId(i) == Cardinality({j \in 1..i : IsCall(j)})
Reason == IF \E i \in DOMAIN reply : IsCall(i) THEN "tool_use" ELSE "stop"

W(type, i, data) == [type |-> type, block |-> i, data |-> data]

\* The wire of each API: events with blocks, chunks of deltas, one document.
BlockOnWire(i) ==
  CASE protocol = "anthropic" ->
         <<W("block_start", i, <<>>)>> \o [n \in DOMAIN Pieces(i) |-> W("block_delta", i, <<Pieces(i)[n]>>)]
           \o <<W("block_stop", i, <<>>)>>
    [] protocol = "openai" ->
         (IF IsCall(i) THEN <<W("call_chunk", i, <<>>)>> ELSE <<>>)
           \o [n \in DOMAIN Pieces(i) |-> W("chunk", i, <<Pieces(i)[n]>>)]
    [] protocol = "google" -> <<W("part", i, Pieces(i))>>

Wire ==
  FlattenSeq([i \in DOMAIN reply |-> BlockOnWire(i)])
    \o (IF protocol = "openai" THEN <<W("finish", 0, <<>>), W("usage", 0, <<>>)>>
                               ELSE <<W("finish", 0, <<>>)>>)

-----------------------------------------------------------------------------
(* What the parsers make of it.                                             *)

E(type, id, data) == [type |-> type, id |-> id, data |-> data]

DeltaOf(i, data) ==
  CASE reply[i].kind = "text" -> <<E("text_delta", 0, data)>>
    [] reply[i].kind = "thinking" -> <<E("reasoning_delta", 0, data)>>
    [] OTHER -> <<E("tool_use_delta", 0, data)>>

\* handleSSEData: every block that stops is said to be the end of a tool call.
ParseAnthropic(w) ==
  CASE w.type = "block_start" -> IF IsCall(w.block) THEN <<E("tool_use_start", CallId(w.block), <<>>)>> ELSE <<>>
    [] w.type = "block_delta" -> DeltaOf(w.block, w.data)
    [] w.type = "block_stop" -> <<E("tool_use_end", 0, <<>>)>>
    [] OTHER -> <<E("message_end", Reason, <<>>)>>

\* parseSSE of the OpenAI provider: no end of a call; thinking is not read; the
\* usage comes in a second message_end, which has no reason.
ParseOpenAI(w) ==
  CASE w.type = "call_chunk" -> <<E("tool_use_start", CallId(w.block), <<>>)>>
    [] w.type = "chunk" -> IF reply[w.block].kind = "thinking" THEN <<>> ELSE DeltaOf(w.block, w.data)
    [] w.type = "usage" -> <<E("message_end", "", <<>>)>>
    [] OTHER -> <<E("message_end", Reason, <<>>)>>

\* emitResponseAsEvents: a thought is a text part like any other.
ParseGoogle(w) ==
  CASE w.type = "part" /\ IsCall(w.block) ->
         <<E("tool_use_start", CallId(w.block), <<>>), E("tool_use_delta", 0, w.data),
           E("tool_use_end", CallId(w.block), <<>>)>>
    [] w.type = "part" /\ ~IsCall(w.block) -> <<E("text_delta", 0, w.data)>>
    [] OTHER -> <<E("message_end", Reason, <<>>)>>

Parse(w) ==
  CASE protocol = "anthropic" -> ParseAnthropic(w)
    [] protocol = "openai" -> ParseOpenAI(w)
    [] OTHER -> ParseGoogle(w)

\* Mutation: a call that has ended is not put aside.
TakeKeepingCall(a, e) ==
  CASE e.type = "text_delta" -> [a EXCEPT !.text = @ \o e.data]
    [] e.type = "tool_use_start" -> [a EXCEPT !.current = [id |-> e.id, args |-> <<>>]]
    [] e.type = "tool_use_delta" /\ a.current # None -> [a EXCEPT !.current.args = @ \o e.data]
    [] e.type = "tool_use_end" /\ a.current # None -> [a EXCEPT !.calls = Append(@, a.current)]
    [] e.type = "message_end" -> [a EXCEPT !.finish = e.id]
    [] OTHER -> a

\* processStream, one event.
Take(a, e) ==
  CASE e.type = "text_delta" -> [a EXCEPT !.text = @ \o e.data]
    [] e.type = "tool_use_start" -> [a EXCEPT !.current = [id |-> e.id, args |-> <<>>]]
    [] e.type = "tool_use_delta" /\ a.current # None -> [a EXCEPT !.current.args = @ \o e.data]
    [] e.type = "tool_use_end" /\ a.current # None ->
         [a EXCEPT !.calls = Append(@, a.current), !.current = None]
    [] e.type = "message_end" -> [a EXCEPT !.finish = e.id]
    [] OTHER -> a

\* Those of a sequence, one after the other.
TakeAll(a, events) ==
  LET after[n \in 0..Len(events)] == IF n = 0 THEN a ELSE Take(after[n - 1], events[n])
  IN  after[Len(events)]

-----------------------------------------------------------------------------

\* The parser reads one event of the wire; what it sends on is received.
Hear ==
  /\ stream = "open" /\ heard < Len(Wire)
  /\ heard' = heard + 1
  /\ asm' = TakeAll(asm, Parse(Wire[heard + 1]))
  /\ UNCHANGED <<protocol, reply, stream>>

\* The channel is closed behind the last event.
EndOfStream ==
  /\ stream = "open" /\ heard = Len(Wire)
  /\ stream' = "ended"
  /\ UNCHANGED <<protocol, reply, heard, asm>>

\* The body ends early or the context is cancelled: the channel is closed all
\* the same.  (Google's document is read whole or not at all.)
CutOff ==
  /\ stream = "open" /\ protocol # "google"
  /\ stream' = "cut"
  /\ UNCHANGED <<protocol, reply, heard, asm>>

\* An error event ends the message with an error.
ErrorEvent ==
  /\ stream = "open" /\ protocol = "anthropic"
  /\ stream' = "failed"
  /\ UNCHANGED <<protocol, reply, heard, asm>>

StreamNext == Hear \/ EndOfStream \/ CutOff \/ ErrorEvent

StreamSpec == StreamInit /\ [][StreamNext]_streamVars

-----------------------------------------------------------------------------
(* The next request: what was said, the calls, and their results.           *)

Told(kind, id) == [kind |-> kind, id |-> id]

\* The assistant's message and the user's with the results, as the agent keeps them.
Conversation ==
  <<[role |-> "assistant",
     parts |-> (IF asm.text = <<>> THEN <<>> ELSE <<Told("text", 0)>>)
                 \o [i \in DOMAIN asm.calls |-> Told("call", asm.calls[i].id)]],
    [role |-> "user", parts |-> [i \in DOMAIN asm.calls |-> Told("result", asm.calls[i].id)]]>>

\* The parts that go into the request: with Anthropic all, with the others the
\* text, the calls of the assistant and the results of the user.
Has(role, part) ==
  \/ protocol = "anthropic"
  \/ part.kind = "text"
  \/ (part.kind = "call") = (role = "assistant")

\* A part on the wire.  To Google a call goes without its id, and a result
\* with the id of its call in the place of the tool's name.
Sent(part) == IF protocol = "google" /\ part.kind = "call" THEN Told("call", 0) ELSE part

ConvertMessage(m) ==
  FlattenSeq([i \in DOMAIN m.parts |-> IF Has(m.role, m.parts[i]) THEN <<Sent(m.parts[i])>> ELSE <<>>])

Request == FlattenSeq([i \in DOMAIN Conversation |-> ConvertMessage(Conversation[i])])

-----------------------------------------------------------------------------
(* Properties.                                                              *)

StreamTypeOK ==
  /\ protocol \in Protocols /\ reply \in Replies
  /\ heard \in 0..Len(Wire)
  /\ stream \in {"open", "ended", "cut", "failed"}
  /\ asm.finish \in {"", "stop", "tool_use"}

CallsSaid ==
  FlattenSeq([i \in DOMAIN reply |->
    IF IsCall(i) THEN <<[id |-> CallId(i), args |-> Pieces(i)]>> ELSE <<>>])

\* However the stream is cut, and whatever other blocks surround them, the
\* calls that will be run are calls the model made, whole and in its order,
\* each once; and with the Anthropic and Google parsers, which say where a call
\* ends, a stream that came to its end has them all.
CallsAreTheModels ==
  /\ IsPrefix(asm.calls, CallsSaid)
  /\ stream = "ended" /\ protocol # "openai" => asm.calls = CallsSaid

\* The ids of the request's parts of one kind, in its order.
IdsOf(kind) ==
  FlattenSeq([i \in DOMAIN Request |-> IF Request[i].kind = kind THEN <<Request[i].id>> ELSE <<>>])

\* In the next request every call that was made has its result, after all the
\* calls and in their order.  Anthropic and OpenAI are told by the id which call
\* a result answers; to Google, whose calls go without one, only the place of a
\* result among the results tells it.
ResultsAnswerCalls ==
  stream = "ended" =>
    /\ IdsOf("result") = [i \in DOMAIN asm.calls |-> asm.calls[i].id]
    /\ Len(IdsOf("call")) = Len(IdsOf("result"))
    /\ protocol # "google" => IdsOf("call") = IdsOf("result")
    /\ \A i, j \in DOMAIN Request : Request[i].kind = "call" /\ Request[j].kind = "result" => i < j

\* The calls of a response reach the agent and, with their results, the next
\* request; they keep their identity on the way, but for the last step to Google.
ToolCallsSurvive == CallsAreTheModels /\ ResultsAnswerCalls
=============================================================================
