--------------------------- MODULE TurnLinesProofs ---------------------------
(***************************************************************************)
(* Proofs about the lines that TurnStream writes: what the client sees of  *)
(* each tool call, which reply each reports, and the text of the turn.     *)
(* The invariant adds to that of TurnStreamProofs what a line in the       *)
(* output says of the state, and where the handler is, of the output.      *)
(***************************************************************************)
EXTENDS TurnStreamProofs

\* The lines about tool call c.
OfCall(l, c) ==
  \/ l.kind \in {"tool_call", "request"} /\ l.body = c
  \/ l.kind = "tool_call_update" /\ l.body.call = c

UpdateBody == [call : Call, status : {"completed", "failed"}, content : Reply]
WasAsked == {"await", "failed", "completed", "given_up"}

\* What a line in the output says of the state: how far its tool call has come,
\* and for an update that it reports the answer the call has.
LineSays(l) ==
  /\ l.kind = "tool_call" => l.body \in Call /\ call[l.body] # "idle"
  /\ l.kind = "request" => l.body \in Call /\ call[l.body] \in WasAsked \cup {"closed"}
  /\ l.kind = "tool_call_update" =>
       /\ l.body \in UpdateBody /\ call[l.body.call] = "closed"
       /\ l.body.content \in {NoAnswer, answer[l.body.call]}
       /\ l.body.status = "completed" => l.body.content # NoAnswer /\ ~l.body.content.error
  /\ l.kind = "response" => pc = "done"

\* How far a tool call has come says which lines are out, in which order;
\* outside StreamReply no tool call is open, and nothing follows the response.
Brackets ==
  /\ \A k \in DOMAIN out : LineSays(out[k]) /\ (out[k].kind = "response" => k = Len(out))
  /\ held.kind \notin {"tool_call", "request", "tool_call_update", "response"}
  /\ \A c \in Call :
       /\ tool[c] = None <=> call[c] = "idle"
       /\ call[c] # "idle" => \E k \in DOMAIN out : out[k].kind = "tool_call" /\ out[k].body = c
       /\ call[c] = "closed" =>
            \E k \in DOMAIN out : out[k].kind = "tool_call_update" /\ out[k].body.call = c
       /\ call[c] = "completed" => answer[c] # NoAnswer /\ ~answer[c].error
       /\ pc # "exec" => call[c] \in {"idle", "closed"}
       /\ \A j, k \in DOMAIN out :
            j < k /\ OfCall(out[j], c) /\ OfCall(out[k], c) =>
              Place[out[j].kind] < Place[out[k].kind]

\* A tool call is answered after its request, which is the last line meanwhile;
\* replies are handed out in the order of the requests.
Answers ==
  /\ asking # None =>
       out # <<>> /\ out[Len(out)].kind = "request" /\ out[Len(out)].body = asking
  /\ \A c \in Call :
       /\ answer[c] # NoAnswer => Asked(c) # {}
       /\ answer[c].n > 0 =>
            answer[c].n <= taken[tool[c]] /\ answer[c].error = Script[tool[c]][answer[c].n]
  /\ \A c, d \in Call :
       answer[c].n > 0 /\ answer[d].n > 0 /\ tool[c] = tool[d] =>
         /\ c # d => answer[c].n # answer[d].n
         /\ \A p \in Asked(c), q \in Asked(d) : p < q => answer[c].n < answer[d].n

\* What the client was told so far, as the bodies of the chunks.
Told(lines) == {lines[k].body : k \in At(lines, {"agent_message_chunk"})}
Reported == IF streamed > 0 THEN 1 .. streamed ELSE IF reply = "text" THEN {0} ELSE {}

\* Chunks are in the order of their numbers.
Sorted(lines) ==
  \A j, k \in At(lines, {"agent_message_chunk"}) : j < k => lines[j].body < lines[k].body

\* Chunks are numbered as they were accepted, and where the handler is says
\* which of them are out.
Chunks ==
  /\ chunkEmitted <=> streamed > 0
  /\ Told(out) \subseteq 0 .. streamed
  /\ Sorted(out)
  /\ pc \in Before => streamed = 0 /\ Told(out) = {} /\ held.kind # "agent_message_chunk"
  /\ pc = "exec" =>
       \/ held = NoLine /\ Told(out) = 1 .. streamed
       \/ held = Line("agent_message_chunk", streamed) /\ streamed > 0
            /\ Told(out) = 1 .. (streamed - 1)
  /\ pc = "reply" =>
       /\ Told(out) = 1 .. streamed /\ reply \in {"text", "blank"}
       /\ held # NoLine =>
            held = Line("agent_message_chunk", 0) /\ streamed = 0 /\ reply = "text"
  /\ pc \in {"final", "info"} \/ (pc \in {"respond", "done"} /\ stop = "end_turn") =>
       Told(out) = Reported
  /\ pc \notin {"info", "respond", "done"} => stop = "none"

LinesInv == Brackets /\ Answers /\ Chunks

-----------------------------------------------------------------------------
(* What a step does to a tool call and to the output.                      *)

\* A tool call only goes forward: it opens while the executor runs, and what was
\* asked or closed remains so.
LEMMA CallMoves ==
  ASSUME Inv, [Next]_vars, NEW c \in Call
  PROVE  /\ call[c] # "idle" => call'[c] # "idle"
         /\ call[c] \in WasAsked \cup {"closed"} => call'[c] \in WasAsked \cup {"closed"}
         /\ call[c] = "closed" => call'[c] = "closed" /\ answer'[c] = answer[c]
<1> USE DEF toolVars, driverVars
<1>1. CASE UNCHANGED <<call, tool, answer, asking>>
  BY <1>1
<1>2. ASSUME NEW d \in Call, ToolStep(d)
      PROVE  /\ answer' = answer /\ call[d] \notin {"idle", "closed"} /\ call'[d] # "idle"
             /\ call[d] \in WasAsked => call'[d] \in WasAsked \cup {"closed"}
             /\ \A e \in Call \ {d} : call'[e] = call[e]
  BY <1>2 DEF ToolStep, CallClient, Answered, ContextDone, CloseToolCall, Step, WasAsked, Inv,
     TypeOK
<1>3. ASSUME NEW d \in Call, NEW t \in Tool, NEW g \in BOOLEAN, InvokeTool(d, t, g)
      PROVE  /\ answer' = answer /\ call[d] = "idle"
             /\ \A e \in Call \ {d} : call'[e] = call[e]
  BY <1>3 DEF InvokeTool, Step, Inv, TypeOK
<1>4. ASSUME NEW t \in Tool, ReplyToClientRequest(t)
      PROVE  call' = call /\ (call[c] = "closed" => answer'[c] = answer[c])
  <2>1. /\ asking \in Call /\ call[asking] # "closed" /\ call' = call
        /\ \E r : answer' = [answer EXCEPT ![asking] = r]
    BY <1>4 DEF ReplyToClientRequest, Inv, TypeOK
  <2> QED
    BY <2>1 DEF Inv, TypeOK
<1>5. CASE \E d \in Call : ToolStep(d)
  BY <1>2, <1>5 DEF WasAsked
<1>6. CASE \E d \in Call, t \in Tool, g \in BOOLEAN : InvokeTool(d, t, g)
  BY <1>3, <1>6 DEF WasAsked
<1> QED
  BY <1>1, <1>4, <1>5, <1>6, ToolsKept

\* A tool call is announced, asked and closed in the output, and the answered
\* turn stays answered.
LEMMA SaysStays ==
  ASSUME Inv, [Next]_vars, NEW l, LineSays(l)
  PROVE  LineSays(l)'
<1>1. pc = "done" => pc' = "done"
  <2>1. ASSUME pc = "done", NEW c \in Call,
               ToolStep(c) \/ \E t \in Tool, g \in BOOLEAN : InvokeTool(c, t, g)
        PROVE  pc' = pc
    BY <2>1 DEF ToolStep, CallClient, Answered, ContextDone, CloseToolCall, InvokeTool, turnVars
  <2>2. ASSUME pc = "done", NEW t \in Tool, ReplyToClientRequest(t) \/ QueueClientReply(t)
        PROVE  pc' = pc
    BY <2>2 DEF ReplyToClientRequest, QueueClientReply, turnVars
  <2>3. held # NoLine => pc # "done"
    BY DEF Inv, TypeOK, After
  <2>4. pc = "done" => ~HandlerStep /\ ~AgentMessageChunk /\ ~StreamReplyReturns
    BY <2>3 DEF HandlerStep, StartPrompt, NewRuntimeToolInvoker, EmitUpdate, WriteUpdate, EmitReply,
       UpdateRefused, Decide, WriteSessionInfo, Respond, AgentMessageChunk, StreamReplyReturns
  <2>5. (\E C \in Offers : Initialize(C)) \/ EndContext \/ UNCHANGED vars => pc' = pc
    BY DEF Initialize, EndContext, vars, turnVars
  <2> QED
    BY <2>1, <2>2, <2>4, <2>5 DEF Next, Over
<1>2. l.kind = "tool_call" => l.body \in Call /\ call'[l.body] # "idle"
  BY CallMoves DEF LineSays
<1>3. l.kind = "request" => l.body \in Call /\ call'[l.body] \in WasAsked \cup {"closed"}
  BY CallMoves DEF LineSays
<1>4. l.kind = "tool_call_update" =>
        /\ l.body \in UpdateBody /\ call'[l.body.call] = "closed"
        /\ l.body.content \in {NoAnswer, answer'[l.body.call]}
        /\ l.body.status = "completed" => l.body.content # NoAnswer /\ ~l.body.content.error
  <2>1. l.kind = "tool_call_update" => l.body.call \in Call
    BY DEF LineSays, UpdateBody
  <2> QED
    BY <2>1, CallMoves DEF LineSays
<1> QED
  BY <1>1, <1>2, <1>3, <1>4 DEF LineSays

\* The old lines of a longer output, and the new one.
LEMMA Longer ==
  ASSUME NEW lines \in Seq(AnyLine), NEW l \in AnyLine
  PROVE  LET more == Append(lines, l)
         IN /\ DOMAIN more = DOMAIN lines \cup {Len(lines) + 1}
            /\ DOMAIN lines = 1 .. Len(lines) /\ Len(lines) + 1 \notin DOMAIN lines
            /\ \A k \in DOMAIN lines : k < Len(lines) + 1 /\ more[k] = lines[k]
            /\ more[Len(lines) + 1] = l
            /\ Len(more) = Len(lines) + 1 /\ more # <<>>
<1> DEFINE more == Append(lines, l)
<1>1. Len(more) = Len(lines) + 1 /\ Len(lines) \in Nat /\ DOMAIN lines = 1 .. Len(lines)
      /\ DOMAIN more = 1 .. Len(more)
  OBVIOUS
<1>2. \A k \in 1 .. Len(lines) : more[k] = lines[k]
  OBVIOUS
<1>3. more[Len(lines) + 1] = l
  OBVIOUS
<1>4. 1 .. Len(lines) + 1 = (1 .. Len(lines)) \cup {Len(lines) + 1}
  BY <1>1
<1> QED
  BY <1>1, <1>2, <1>3, <1>4

\* What a step writes: nothing, an update that is no tool call's, the response, or
\* the next line of a tool call.  readLoop is answering nobody.
LEMMA Written ==
  ASSUME Inv, Brackets, [Next]_vars
  PROVE  \/ out' = out
         \/ \E l \in AnyLine :
              /\ asking = None /\ out' = Append(out, l)
              /\ \/ /\ l.kind \notin {"tool_call", "request", "tool_call_update", "response"}
                    /\ UNCHANGED <<call, tool, answer, asking, taken>>
                 \/ /\ l.kind = "response" /\ pc' = "done"
                    /\ UNCHANGED <<call, tool, answer, asking, taken>>
                 \/ \E c \in Call, t \in Tool :
                      /\ l = Line("tool_call", c) /\ call[c] = "idle"
                      /\ \E v \in {"ask", "refused"} : call' = [call EXCEPT ![c] = v]
                      /\ tool' = [tool EXCEPT ![c] = t]
                      /\ UNCHANGED <<answer, asking, taken>>
                 \/ \E c \in Call :
                      /\ l = Line("request", c) /\ call[c] = "ask"
                      /\ call' = [call EXCEPT ![c] = "await"] /\ asking' = c
                      /\ UNCHANGED <<tool, answer, taken>>
                 \/ \E c \in Call :
                      /\ l = LastUpdate(c)
                      /\ call[c] \in {"refused", "failed", "completed", "given_up"}
                      /\ call' = [call EXCEPT ![c] = "closed"]
                      /\ UNCHANGED <<tool, answer, asking, taken>>
<1> USE DEF turnVars, toolVars, driverVars, ctxVars, Write
<1>1. ASSUME (\E C \in Offers : Initialize(C)) \/ EndContext \/ StartPrompt \/ NewRuntimeToolInvoker
             \/ EmitUpdate \/ AgentMessageChunk \/ StreamReplyReturns \/ EmitReply \/ UpdateRefused
             \/ Decide \/ UNCHANGED vars
      PROVE  out' = out
  BY <1>1 DEF Initialize, EndContext, StartPrompt, NewRuntimeToolInvoker, EmitUpdate,
     AgentMessageChunk, StreamReplyReturns, EmitReply, UpdateRefused, Decide, vars
<1>2. ASSUME NEW t \in Tool, QueueClientReply(t) \/ ReplyToClientRequest(t) PROVE out' = out
  BY <1>2 DEF QueueClientReply, ReplyToClientRequest
<1>3. ASSUME NEW c \in Call, Answered(c) \/ ContextDone(c) PROVE out' = out
  BY <1>3 DEF Answered, ContextDone
<1>4. CASE WriteUpdate
  BY <1>4 DEF WriteUpdate, Inv, Lines, Brackets
<1>5. CASE WriteSessionInfo
  BY <1>5, LineTypes DEF WriteSessionInfo, Line
<1>6. CASE Respond
  BY <1>6, LineTypes DEF Respond, Line
<1>7. CASE \E c \in Call, t \in Tool, g \in BOOLEAN : InvokeTool(c, t, g)
  <2>1. PICK c \in Call, t \in Tool, g \in BOOLEAN : InvokeTool(c, t, g)
    BY <1>7
  <2>2. \E v \in {"ask", "refused"} : call' = [call EXCEPT ![c] = v]
    BY <2>1 DEF InvokeTool, Step
  <2> QED
    BY <2>1, <2>2, LineTypes DEF InvokeTool
<1>8. CASE \E c \in Call : CallClient(c)
  BY <1>8, LineTypes DEF CallClient, Step
<1>9. CASE \E c \in Call : CloseToolCall(c)
  BY <1>9, LineTypes DEF CloseToolCall, Step
<1> QED
  BY <1>1, <1>2, <1>3, <1>4, <1>5, <1>6, <1>7, <1>8, <1>9 DEF Next, HandlerStep, ToolStep, Over

\* Every line of the next output says of the next state what it should.
LEMMA SaysStep == Inv /\ Brackets /\ [Next]_vars => \A k \in DOMAIN out' : LineSays(out[k])'
<1> SUFFICES ASSUME Inv, Brackets, [Next]_vars, NEW k \in DOMAIN out' PROVE LineSays(out[k])'
  OBVIOUS
<1>1. out \in Seq(AnyLine)
  BY DEF Inv, Lines
<1>2. PICK l : l = out'[k]
  OBVIOUS
<1>3. CASE k \in DOMAIN out /\ out'[k] = out[k]
  <2>1. LineSays(l)
    BY <1>2, <1>3 DEF Brackets
  <2>2. LineSays(l)'
    BY <2>1, SaysStays
  <2> QED
    BY <1>2, <2>2 DEF LineSays
<1>4. CASE out' = Append(out, l) /\ k = Len(out) + 1
  <2>1. LineSays(l)'
    <3>1. CASE l.kind \notin {"tool_call", "request", "tool_call_update", "response"}
      BY <3>1 DEF LineSays
    <3>2. CASE l.kind = "response" /\ pc' = "done"
      BY <3>2 DEF LineSays
    <3>3. ASSUME NEW c \in Call, l = Line("tool_call", c),
                 NEW v \in {"ask", "refused"}, call' = [call EXCEPT ![c] = v]
          PROVE  LineSays(l)'
      BY <3>3 DEF LineSays, Line, Inv, TypeOK
    <3>4. ASSUME NEW c \in Call, l = Line("request", c), call' = [call EXCEPT ![c] = "await"]
          PROVE  LineSays(l)'
      BY <3>4 DEF LineSays, Line, WasAsked, Inv, TypeOK
    <3>5. ASSUME NEW c \in Call, l = LastUpdate(c), answer' = answer,
                 call' = [call EXCEPT ![c] = "closed"]
          PROVE  LineSays(l)'
      <4>1. /\ l.kind = "tool_call_update" /\ l.body.call = c
            /\ l.body.status = IF call[c] = "completed" THEN "completed" ELSE "failed"
            /\ l.body.content = IF call[c] \in {"completed", "failed"} THEN answer[c] ELSE NoAnswer
        BY <3>5 DEF LastUpdate, Line
      <4>2. l.body \in UpdateBody
        BY <3>5 DEF LastUpdate, Line, UpdateBody, Reply, NoAnswer, Inv, TypeOK
      <4>3. call'[c] = "closed"
        BY <3>5 DEF Inv, TypeOK
      <4>4. call[c] = "completed" => answer[c] # NoAnswer /\ ~answer[c].error
        BY DEF Brackets
      <4>5. l.body.status = "completed" => l.body.content # NoAnswer /\ ~l.body.content.error
        BY <4>1, <4>4
      <4> QED
        BY <3>5, <4>1, <4>2, <4>3, <4>5 DEF LineSays
    <3>6. \A m \in AnyLine : Append(out, m) = Append(out, l) => m = l
      BY <1>1, <1>2, <1>4, Longer
    <3> QED
      BY <1>1, <1>4, <3>1, <3>2, <3>3, <3>4, <3>5, <3>6, Written, Longer
  <2> QED
    BY <1>2, <2>1 DEF LineSays
<1> QED
  BY <1>1, <1>2, <1>3, <1>4, Written, Longer

\* An update that waits to be written is no line of a tool call, and no response.
LEMMA HeldStep ==
  Inv /\ Brackets /\ [Next]_vars =>
    held'.kind \notin {"tool_call", "request", "tool_call_update", "response"}
<1> SUFFICES ASSUME Inv, Brackets, [Next]_vars
             PROVE  held'.kind \notin {"tool_call", "request", "tool_call_update", "response"}
  OBVIOUS
<1> USE DEF turnVars, toolVars, driverVars, ctxVars
<1>1. CASE EmitUpdate \/ EmitReply
  BY <1>1 DEF EmitUpdate, EmitReply, AssertContext, UpdateAt, Line, Brackets
<1>2. CASE AgentMessageChunk
  BY <1>2 DEF AgentMessageChunk, AssertContext, Line
<1>3. CASE WriteUpdate
  BY <1>3 DEF WriteUpdate, NoLine, Line
<1>4. CASE UNCHANGED held
  BY <1>4 DEF Brackets
<1>5. ASSUME NEW c \in Call, ToolStep(c) \/ \E t \in Tool, g \in BOOLEAN : InvokeTool(c, t, g)
      PROVE  UNCHANGED held
  BY <1>5 DEF ToolStep, CallClient, Answered, ContextDone, CloseToolCall, InvokeTool
<1>6. ASSUME NEW t \in Tool, QueueClientReply(t) \/ ReplyToClientRequest(t) PROVE UNCHANGED held
  BY <1>6 DEF QueueClientReply, ReplyToClientRequest
<1>7. ASSUME (\E C \in Offers : Initialize(C)) \/ EndContext \/ StartPrompt \/ NewRuntimeToolInvoker
             \/ StreamReplyReturns \/ UpdateRefused \/ Decide \/ WriteSessionInfo \/ Respond
             \/ UNCHANGED vars
      PROVE  UNCHANGED held
  BY <1>7 DEF Initialize, EndContext, StartPrompt, NewRuntimeToolInvoker, StreamReplyReturns,
     UpdateRefused, Decide, WriteSessionInfo, Respond, vars
<1> QED
  BY <1>1, <1>2, <1>3, <1>4, <1>5, <1>6, <1>7 DEF Next, HandlerStep, Over

\* No tool call is open when StreamReply returns, and none opens afterwards.
LEMMA IdleStep ==
  ASSUME Inv, Brackets, [Next]_vars, NEW c \in Call
  PROVE  pc' # "exec" => call'[c] \in {"idle", "closed"}
<1> USE DEF turnVars, toolVars, driverVars, ctxVars
<1>1. CASE StreamReplyReturns
  BY <1>1 DEF StreamReplyReturns
<1>2. CASE WriteUpdate
  BY <1>2 DEF WriteUpdate, After, Brackets, Inv, TypeOK
<1>3. ASSUME StartPrompt \/ NewRuntimeToolInvoker \/ EmitUpdate \/ EmitReply \/ UpdateRefused
             \/ Decide \/ WriteSessionInfo \/ Respond
      PROVE  pc # "exec" /\ call' = call
  BY <1>3 DEF StartPrompt, NewRuntimeToolInvoker, EmitUpdate, EmitReply, UpdateRefused, Decide,
     WriteSessionInfo, Respond
<1>4. ASSUME (\E C \in Offers : Initialize(C)) \/ EndContext \/ AgentMessageChunk \/ UNCHANGED vars
      PROVE  UNCHANGED <<pc, call>>
  BY <1>4 DEF Initialize, EndContext, AgentMessageChunk, vars
<1>5. ASSUME NEW t \in Tool, QueueClientReply(t) \/ ReplyToClientRequest(t)
      PROVE  UNCHANGED <<pc, call>>
  BY <1>5 DEF QueueClientReply, ReplyToClientRequest
<1>6. ASSUME NEW d \in Call, NEW t \in Tool, NEW g \in BOOLEAN, InvokeTool(d, t, g)
      PROVE  pc' = "exec"
  BY <1>6 DEF InvokeTool
<1>7. ASSUME NEW d \in Call, ToolStep(d) PROVE pc' = pc /\ call[d] \notin {"idle", "closed"}
  BY <1>7 DEF ToolStep, CallClient, Answered, ContextDone, CloseToolCall
<1>8. CASE \E d \in Call : ToolStep(d)
  BY <1>7, <1>8 DEF Brackets
<1> QED
  BY <1>1, <1>2, <1>3, <1>4, <1>5, <1>6, <1>8 DEF Brackets, Next, HandlerStep, Over

\* Where a tool call is says which of its lines are out.
LEMMA PlaceStep ==
  ASSUME Inv, Brackets, [Next]_vars, NEW c \in Call
  PROVE  /\ tool'[c] = None <=> call'[c] = "idle"
         /\ call'[c] # "idle" =>
              \E k \in DOMAIN out' : out'[k].kind = "tool_call" /\ out'[k].body = c
         /\ call'[c] = "closed" =>
              \E k \in DOMAIN out' : out'[k].kind = "tool_call_update" /\ out'[k].body.call = c
         /\ call'[c] = "completed" => answer'[c] # NoAnswer /\ ~answer'[c].error
<1> USE DEF toolVars, driverVars
<1> DEFINE Opened == \E k \in DOMAIN out' : out'[k].kind = "tool_call" /\ out'[k].body = c
           Closed == \E k \in DOMAIN out' :
                       out'[k].kind = "tool_call_update" /\ out'[k].body.call = c
<1>1. out \in Seq(AnyLine) /\ DOMAIN out \subseteq DOMAIN out'
      /\ \A k \in DOMAIN out : out'[k] = out[k]
  BY OutGrows, Longer
<1>2. /\ call[c] # "idle" => Opened
      /\ call[c] = "closed" => Closed
  BY <1>1 DEF Brackets
<1>3. CASE UNCHANGED <<call, tool, answer, asking>>
  BY <1>2, <1>3 DEF Brackets
<1>4. ASSUME NEW t \in Tool, ReplyToClientRequest(t)
      PROVE  UNCHANGED <<call, tool>> /\ (call[c] = "completed" => answer'[c] = answer[c])
  BY <1>4 DEF ReplyToClientRequest, Inv, TypeOK
<1>5. ASSUME NEW d \in Call, NEW t \in Tool, NEW g \in BOOLEAN, InvokeTool(d, t, g)
      PROVE  /\ answer' = answer /\ tool'[d] = t /\ t # None /\ call'[d] \in {"ask", "refused"}
             /\ d # c => call'[c] = call[c] /\ tool'[c] = tool[c]
             /\ d = c => Opened
  <2>1. /\ answer' = answer /\ tool'[d] = t /\ t # None /\ call'[d] \in {"ask", "refused"}
        /\ d # c => call'[c] = call[c] /\ tool'[c] = tool[c]
    BY <1>5, TurnStreamAssumption DEF InvokeTool, Step, Inv, TypeOK
  <2>2. out' = Append(out, Line("tool_call", d)) /\ Line("tool_call", d) \in AnyLine
    BY <1>5, LineTypes DEF InvokeTool, Write
  <2>3. d = c => Opened
    BY <1>1, <2>2, Longer DEF Line
  <2> QED
    BY <2>1, <2>3
<1>6. ASSUME NEW d \in Call, CallClient(d) \/ Answered(d) \/ ContextDone(d)
      PROVE  /\ UNCHANGED <<tool, answer>> /\ call[d] # "idle" /\ call'[d] \notin {"idle", "closed"}
             /\ d # c => call'[c] = call[c]
             /\ call'[d] = "completed" => answer[d] # NoAnswer /\ ~answer[d].error
  BY <1>6 DEF CallClient, Answered, ContextDone, Step, Inv, TypeOK
<1>7. ASSUME NEW d \in Call, CloseToolCall(d)
      PROVE  /\ UNCHANGED <<tool, answer>> /\ call[d] # "idle" /\ call'[d] = "closed"
             /\ d # c => call'[c] = call[c]
             /\ d = c => Closed
  <2>1. /\ UNCHANGED <<tool, answer>> /\ call[d] # "idle" /\ call'[d] = "closed"
        /\ d # c => call'[c] = call[c]
    BY <1>7 DEF CloseToolCall, Step, Inv, TypeOK
  <2>2. out' = Append(out, LastUpdate(d)) /\ LastUpdate(d) \in AnyLine
    BY <1>7, LineTypes DEF CloseToolCall, Write
  <2>3. d = c => Closed
    BY <1>1, <2>2, Longer DEF LastUpdate, Line
  <2> QED
    BY <2>1, <2>3
<1>8. CASE \E t \in Tool : ReplyToClientRequest(t)
  BY <1>2, <1>4, <1>8 DEF Brackets
<1>9. CASE \E d \in Call, t \in Tool, g \in BOOLEAN : InvokeTool(d, t, g)
  BY <1>2, <1>5, <1>9 DEF Brackets
<1>10. CASE \E d \in Call : CallClient(d) \/ Answered(d) \/ ContextDone(d)
  BY <1>2, <1>6, <1>10 DEF Brackets
<1>11. CASE \E d \in Call : CloseToolCall(d)
  BY <1>2, <1>7, <1>11 DEF Brackets
<1> QED
  BY <1>3, <1>8, <1>9, <1>10, <1>11, ToolsKept DEF ToolStep

\* A turn that was answered writes nothing more.
LEMMA Silent == Inv /\ Brackets /\ [Next]_vars /\ pc = "done" => out' = out
<1> SUFFICES ASSUME Inv, Brackets, [Next]_vars, pc = "done" PROVE out' = out
  OBVIOUS
<1> USE DEF turnVars, toolVars, driverVars, ctxVars
<1>1. held = NoLine
  BY DEF Inv, TypeOK, After
<1>2. ~HandlerStep /\ ~AgentMessageChunk /\ ~StreamReplyReturns
  BY <1>1 DEF HandlerStep, StartPrompt, NewRuntimeToolInvoker, EmitUpdate, WriteUpdate, EmitReply,
     UpdateRefused, Decide, WriteSessionInfo, Respond, AgentMessageChunk, StreamReplyReturns
<1>3. ASSUME NEW c \in Call
      PROVE  ~ToolStep(c) /\ \A t \in Tool, g \in BOOLEAN : ~InvokeTool(c, t, g)
  <2>1. call[c] \in {"idle", "closed"}
    BY DEF Brackets
  <2> QED
    BY <2>1 DEF ToolStep, CallClient, Answered, ContextDone, CloseToolCall, InvokeTool
<1>4. ASSUME NEW t \in Tool, ReplyToClientRequest(t) \/ QueueClientReply(t) PROVE out' = out
  BY <1>4 DEF ReplyToClientRequest, QueueClientReply
<1> QED
  BY <1>2, <1>3, <1>4 DEF Next, Over, Initialize, EndContext, vars

\* The lines of a tool call stay in their order.
LEMMA OrderStep ==
  ASSUME Inv, Brackets, [Next]_vars, NEW c \in Call,
         NEW j \in DOMAIN out', NEW k \in DOMAIN out', j < k,
         OfCall(out'[j], c), OfCall(out'[k], c)
  PROVE  Place[out'[j].kind] < Place[out'[k].kind]
<1>1. out \in Seq(AnyLine)
  BY DEF Inv, Lines
<1>2. CASE out' = out
  BY <1>2 DEF Brackets
<1>3. ASSUME NEW l \in AnyLine, out' = Append(out, l), k = Len(out) + 1
      PROVE  j \in DOMAIN out /\ out'[j] = out[j] /\ out'[k] = l
  BY <1>1, <1>3, Longer
<1>4. ASSUME NEW l \in AnyLine, out' = Append(out, l), k # Len(out) + 1
      PROVE  j \in DOMAIN out /\ k \in DOMAIN out /\ out'[j] = out[j] /\ out'[k] = out[k]
  BY <1>1, <1>4, Longer
<1>5. CASE k \in DOMAIN out /\ j \in DOMAIN out /\ out'[j] = out[j] /\ out'[k] = out[k]
  BY <1>5 DEF Brackets
<1>6. CASE j \in DOMAIN out /\ out'[j] = out[j]
  <2>1. LineSays(out[j]) /\ OfCall(out[j], c)
    BY <1>6 DEF Brackets
  <2>2. ASSUME out'[k] = Line("tool_call", c) \/ out'[k] = LastUpdate(c)
               \/ out'[k] = Line("request", c)
        PROVE  out'[k].kind \in {"tool_call", "request", "tool_call_update"}
    BY <2>2 DEF LastUpdate, Line
  <2>3. CASE out'[k] = Line("tool_call", c) /\ call[c] = "idle"
    BY <2>1, <2>3 DEF LineSays, OfCall, WasAsked
  <2>4. CASE out'[k] = Line("request", c) /\ call[c] = "ask"
    BY <1>6, <2>1, <2>4 DEF LineSays, OfCall, WasAsked, Place, Line
  <2>5. CASE out'[k] = LastUpdate(c) /\ call[c] # "closed"
    BY <1>6, <2>1, <2>5 DEF LineSays, OfCall, Place, LastUpdate, Line
  <2>6. ASSUME NEW l \in AnyLine, out' = Append(out, l), k = Len(out) + 1
        PROVE  Place[out'[j].kind] < Place[out'[k].kind]
    <3>1. out'[k] = l /\ OfCall(l, c)
      BY <1>3, <2>6
    <3>2. l.kind \notin {"tool_call", "request", "tool_call_update", "response"} => FALSE
      BY <3>1 DEF OfCall
    <3>3. l.kind # "response"
      BY <3>1 DEF OfCall
    <3>4. \A d \in Call : /\ l = Line("tool_call", d) => d = c
                          /\ l = Line("request", d) => d = c
                          /\ l = LastUpdate(d) => d = c
      BY <3>1 DEF OfCall, LastUpdate, Line
    <3>5. \A m \in AnyLine : Append(out, m) = Append(out, l) => m = l
      BY <1>1, Longer
    <3> QED
      BY <1>1, <2>3, <2>4, <2>5, <2>6, <3>1, <3>2, <3>3, <3>4, <3>5, Written, Longer
  <2> QED
    BY <1>2, <1>4, <1>5, <2>6, Written
<1> QED
  BY <1>2, <1>3, <1>4, <1>5, <1>6, Written

\* Nothing is written once the turn was answered.
LEMMA LastStep ==
  ASSUME Inv, Brackets, [Next]_vars, NEW k \in DOMAIN out', out'[k].kind = "response"
  PROVE  k = Len(out')
<1>1. out \in Seq(AnyLine) /\ out' \in Seq(AnyLine)
  BY OutGrows
<1>2. CASE out' = out
  BY <1>2 DEF Brackets
<1>3. ASSUME out' # out PROVE pc # "done"
  BY <1>3, Silent
<1>4. ASSUME NEW l \in AnyLine, out' = Append(out, l), pc # "done" PROVE k = Len(out')
  <2>1. k = Len(out') \/ (k \in DOMAIN out /\ out'[k] = out[k])
    BY <1>1, <1>4, Longer
  <2>2. \A j \in DOMAIN out : out[j].kind # "response"
    BY <1>4 DEF Brackets, LineSays
  <2> QED
    BY <2>1, <2>2
<1> QED
  BY <1>2, <1>3, <1>4, OutGrows

\* The tool calls stay bracketed.
LEMMA BracketsStep == Inv /\ Brackets /\ [Next]_vars => Brackets'
<1> SUFFICES ASSUME Inv, Brackets, [Next]_vars PROVE Brackets'
  OBVIOUS
<1>1. \A c \in Call : \A j, k \in DOMAIN out' :
        j < k /\ OfCall(out'[j], c) /\ OfCall(out'[k], c) =>
          Place[out'[j].kind] < Place[out'[k].kind]
  BY OrderStep
<1> QED
  BY <1>1, SaysStep, LastStep, HeldStep, IdleStep, PlaceStep DEF Brackets, OfCall

-----------------------------------------------------------------------------
(* Which reply a tool call gets.                                           *)

\* Only readLoop answers, and takes replies.
LEMMA AnswerKept ==
  ASSUME [Next]_vars
  PROVE  UNCHANGED <<answer, taken>> \/ \E t \in Tool : ReplyToClientRequest(t)
<1> USE DEF toolVars, driverVars
<1>1. ASSUME StartPrompt \/ NewRuntimeToolInvoker \/ EmitUpdate \/ WriteUpdate
             \/ EmitReply \/ UpdateRefused \/ Decide \/ WriteSessionInfo
             \/ Respond \/ AgentMessageChunk \/ StreamReplyReturns
             \/ (\E C \in Offers : Initialize(C)) \/ EndContext
             \/ (\E t \in Tool : QueueClientReply(t))
             \/ UNCHANGED vars
      PROVE  UNCHANGED <<answer, taken>>
  BY <1>1 DEF StartPrompt, NewRuntimeToolInvoker, EmitUpdate, WriteUpdate, EmitReply, UpdateRefused,
     Decide, WriteSessionInfo, Respond, AgentMessageChunk, StreamReplyReturns,
     Initialize, EndContext, QueueClientReply, vars
<1>2. ASSUME NEW c \in Call, ToolStep(c) \/ \E t \in Tool, g \in BOOLEAN : InvokeTool(c, t, g)
      PROVE  UNCHANGED <<answer, taken>>
  BY <1>2 DEF ToolStep, CallClient, Answered, ContextDone, CloseToolCall, InvokeTool
<1> QED
  BY <1>1, <1>2 DEF Next, HandlerStep, Over

\* The requests of a tool call are where they were, unless it asks now.
LEMMA AskedStep ==
  ASSUME Inv, Brackets, [Next]_vars, NEW c \in Call
  PROVE  /\ Asked(c) \subseteq Asked(c)'
         /\ Asked(c)' = Asked(c) \/ call[c] = "ask"
<1>1. out \in Seq(AnyLine)
  BY DEF Inv, Lines
<1>2. CASE out' = out
  BY <1>2 DEF Asked
<1>3. ASSUME NEW l \in AnyLine, out' = Append(out, l)
      PROVE  /\ Asked(c) \subseteq Asked(c)'
             /\ l.kind # "request" \/ l.body # c => Asked(c)' = Asked(c)
  BY <1>1, <1>3, Longer DEF Asked
<1>4. CASE \E l \in AnyLine :
             out' = Append(out, l) /\ (l.kind # "request" \/ l.body # c \/ call[c] = "ask")
  BY <1>3, <1>4
<1>5. \A d \in Call : /\ Line("tool_call", d).kind # "request"
                      /\ LastUpdate(d).kind # "request"
                      /\ Line("request", d).body = d
  BY DEF Line, LastUpdate
<1> QED
  BY <1>2, <1>4, <1>5, Written

\* A tool call asks once.
LEMMA AskedOnce ==
  ASSUME Inv, Brackets, NEW c \in Call, NEW p \in Asked(c), NEW q \in Asked(c)
  PROVE  p = q
<1>1. out \in Seq(AnyLine) /\ p \in DOMAIN out /\ q \in DOMAIN out
  BY DEF Inv, Lines, Asked
<1>2. p \in Nat /\ q \in Nat
  BY <1>1
<1>3. ~(p < q) /\ ~(q < p)
  BY <1>1 DEF Brackets, Asked, OfCall, Place
<1> QED
  BY <1>2, <1>3

\* What an answer did to the state: readLoop answered the request that was the
\* last line, with the next reply of the tool or with a null result.
LEMMA ReplyTaken ==
  ASSUME Inv, Brackets, Answers, NEW t \in Tool, ReplyToClientRequest(t)
  PROVE  /\ asking \in Call /\ tool[asking] = t /\ asking' = None
         /\ UNCHANGED <<call, tool, out>>
         /\ Asked(asking) = {Len(out)}
         /\ \A d \in Call : d # asking => answer'[d] = answer[d]
         /\ \/ taken' = taken /\ answer'[asking] = NullResult
            \/ /\ taken' = [taken EXCEPT ![t] = taken[t] + 1]
               /\ answer'[asking].n = taken[t] + 1
               /\ answer'[asking].error = Script[t][taken[t] + 1]
<1>1. /\ asking \in Call /\ tool[asking] = t /\ asking' = None
      /\ UNCHANGED <<call, tool, out>>
      /\ \A d \in Call : d # asking => answer'[d] = answer[d]
  BY DEF ReplyToClientRequest, Inv, TypeOK
<1>2. Asked(asking) = {Len(out)}
  <2>1. out \in Seq(AnyLine) /\ out # <<>>
    BY <1>1, TurnStreamAssumption DEF Inv, Lines, Answers
  <2>2. Len(out) \in DOMAIN out
    BY <2>1
  <2>3. Len(out) \in Asked(asking)
    BY <1>1, <2>2, TurnStreamAssumption DEF Answers, Asked
  <2> QED
    BY <1>1, <2>3, AskedOnce
<1>3. \/ taken' = taken /\ answer'[asking] = NullResult
      \/ /\ taken' = [taken EXCEPT ![t] = taken[t] + 1]
         /\ answer'[asking].n = taken[t] + 1
         /\ answer'[asking].error = Script[t][taken[t] + 1]
  BY <1>1 DEF ReplyToClientRequest, NextReply, DefaultReply, Inv, TypeOK
<1> QED
  BY <1>1, <1>2, <1>3

\* The tool call that readLoop is answering wrote the last line.
LEMMA AskingLast ==
  ASSUME Inv, Brackets, Answers, [Next]_vars, asking' # None
  PROVE  out' # <<>> /\ out'[Len(out')].kind = "request" /\ out'[Len(out')].body = asking'
<1> USE DEF toolVars, driverVars
<1>1. CASE out' = out /\ asking' = asking
  BY <1>1 DEF Answers
<1>2. CASE \E c \in Call : CallClient(c)
  <2>1. PICK c \in Call : CallClient(c)
    BY <1>2
  <2>2. out' = Append(out, Line("request", c)) /\ Line("request", c) \in AnyLine /\ asking' = c
    BY <2>1, LineTypes DEF CallClient, Write
  <2>3. out \in Seq(AnyLine)
    BY DEF Inv, Lines
  <2> QED
    BY <2>2, <2>3, Longer DEF Line
<1>3. ASSUME NEW c \in Call,
             Answered(c) \/ ContextDone(c) \/ CloseToolCall(c)
             \/ \E t \in Tool, g \in BOOLEAN : InvokeTool(c, t, g)
      PROVE  asking' = asking
  BY <1>3 DEF Answered, ContextDone, CloseToolCall, InvokeTool
<1>4. ASSUME NEW t \in Tool, ReplyToClientRequest(t) PROVE FALSE
  BY <1>4 DEF ReplyToClientRequest
<1>5. asking' = asking \/ \E c \in Call : CallClient(c)
  BY <1>3, <1>4, ToolsKept DEF ToolStep
<1>6. ASSUME asking' = asking, out' # out PROVE FALSE
  <2>1. \A c \in Call : c # None
    BY TurnStreamAssumption
  <2> QED
    BY <1>6, <2>1, Written
<1> QED
  BY <1>1, <1>2, <1>5, <1>6

\* An answer was asked for, and is the reply the Driver took for it.
LEMMA TakenStep ==
  ASSUME Inv, Brackets, Answers, [Next]_vars, NEW c \in Call
  PROVE  /\ answer'[c] # NoAnswer => Asked(c)' # {}
         /\ answer'[c].n > 0 =>
              /\ answer'[c].n <= taken'[tool'[c]]
              /\ answer'[c].error = Script[tool'[c]][answer'[c].n]
<1>1. answer[c] = NoAnswer => ~(answer[c].n > 0)
  BY DEF NoAnswer
<1>2. answer[c] # NoAnswer => tool'[c] = tool[c] /\ tool[c] \in Tool
  BY ToolMoves, TurnStreamAssumption DEF Inv, Unanswered, TypeOK, Brackets
<1>3. Asked(c) \subseteq Asked(c)'
  BY AskedStep
<1>4. CASE UNCHANGED <<answer, taken>>
  BY <1>1, <1>2, <1>3, <1>4 DEF Answers
<1>5. ASSUME NEW t \in Tool, ReplyToClientRequest(t)
      PROVE  /\ answer'[c] # NoAnswer => Asked(c)' # {}
             /\ answer'[c].n > 0 =>
                  /\ answer'[c].n <= taken'[tool'[c]]
                  /\ answer'[c].error = Script[tool'[c]][answer'[c].n]
  <2>1. taken \in [Tool -> Nat] /\ answer \in [Call -> [n : Nat, error : BOOLEAN]]
    BY DEF Inv, TypeOK
  <2>2. CASE c = asking
    <3>1. Asked(c)' # {}
      BY <1>3, <1>5, <2>2, ReplyTaken
    <3>2. NullResult.n = 0
      BY DEF NullResult
    <3>3. tool'[c] = t
      BY <1>5, <2>2, ReplyTaken
    <3> QED
      BY <1>5, <2>1, <2>2, <3>1, <3>2, <3>3, ReplyTaken
  <2>3. CASE c # asking
    <3>1. answer'[c] = answer[c] /\ tool' = tool
      BY <1>5, <2>3, ReplyTaken
    <3>2. \A u \in Tool : taken[u] <= taken'[u] /\ taken'[u] \in Nat
      <4>1. taken' = taken \/ taken' = [taken EXCEPT ![t] = taken[t] + 1]
        BY <1>5, ReplyTaken
      <4>2. ASSUME NEW u \in Tool PROVE taken[u] <= taken'[u] /\ taken'[u] \in Nat
        <5>1. taken[u] \in Nat /\ taken[t] \in Nat
          BY <2>1
        <5>2. taken'[u] = taken[u] \/ taken'[u] = taken[u] + 1
          BY <2>1, <4>1
        <5> QED
          BY <5>1, <5>2
      <4> QED
        BY <4>2
    <3>3. answer[c].n > 0 => answer[c].n <= taken'[tool[c]]
      <4>1. ASSUME answer[c].n > 0
            PROVE  /\ tool[c] \in Tool /\ answer[c].n <= taken[tool[c]]
                   /\ answer[c].n \in Nat
        BY <1>1, <1>2, <2>1, <4>1 DEF Answers
      <4> QED
        BY <2>1, <3>2, <4>1
    <3> QED
      BY <1>3, <3>1, <3>3 DEF Answers
  <2> QED
    BY <2>2, <2>3
<1> QED
  BY <1>4, <1>5, AnswerKept

\* Replies of a tool are taken in the order of the requests.
LEMMA RepliesStep ==
  ASSUME Inv, Brackets, Answers, [Next]_vars, NEW c \in Call, NEW d \in Call,
         answer'[c].n > 0, answer'[d].n > 0, tool'[c] = tool'[d]
  PROVE  /\ c # d => answer'[c].n # answer'[d].n
         /\ \A p \in Asked(c)', q \in Asked(d)' : p < q => answer'[c].n < answer'[d].n
<1>1. \A e \in Call : answer[e].n > 0 =>
        /\ call[e] \notin {"idle", "ask"} /\ tool'[e] = tool[e]
        /\ Asked(e)' = Asked(e)
  BY ToolMoves, AskedStep DEF Inv, Unanswered, NoAnswer
<1>2. CASE UNCHANGED <<answer, taken>>
  BY <1>1, <1>2 DEF Answers
<1>3. ASSUME NEW t \in Tool, ReplyToClientRequest(t)
      PROVE  /\ c # d => answer'[c].n # answer'[d].n
             /\ \A p \in Asked(c)', q \in Asked(d)' : p < q => answer'[c].n < answer'[d].n
  <2>1. /\ asking \in Call /\ tool[asking] = t /\ UNCHANGED <<tool, out>>
        /\ Asked(asking) = {Len(out)}
    BY <1>3, ReplyTaken
  <2>2. \A e \in Call : Asked(e)' = Asked(e)
    BY <2>1 DEF Asked
  <2>3. \A e \in Call : e # asking => answer'[e] = answer[e]
    BY <1>3, ReplyTaken
  <2>4. answer'[asking].n > 0 => answer'[asking].n = taken[t] + 1
    BY <1>3, ReplyTaken DEF NullResult
  <2>5. taken[t] \in Nat /\ answer \in [Call -> [n : Nat, error : BOOLEAN]]
    BY DEF Inv, TypeOK
  <2>6. out \in Seq(AnyLine)
    BY DEF Inv, Lines
  <2>7. \A e \in Call : Asked(e) \subseteq 1 .. Len(out)
    BY <2>6 DEF Asked
  <2>8. CASE c # asking /\ d # asking
    BY <2>1, <2>2, <2>3, <2>8 DEF Answers
  <2>9. CASE c = asking /\ d = asking
    BY <2>1, <2>2, <2>6, <2>9
  <2>10. CASE c = asking /\ d # asking
    <3>1. answer'[d] = answer[d] /\ answer[d].n <= taken[t] /\ answer[d].n \in Nat
      BY <2>1, <2>3, <2>5, <2>10 DEF Answers
    <3>2. answer'[c].n = taken[t] + 1
      BY <2>4, <2>10
    <3>3. \A p \in Asked(c)', q \in Asked(d)' : ~(p < q)
      BY <2>1, <2>2, <2>6, <2>7, <2>10
    <3> QED
      BY <2>5, <3>1, <3>2, <3>3
  <2>11. CASE c # asking /\ d = asking
    <3>1. answer'[c] = answer[c] /\ answer[c].n <= taken[t] /\ answer[c].n \in Nat
      BY <2>1, <2>3, <2>5, <2>11 DEF Answers
    <3>2. answer'[d].n = taken[t] + 1
      BY <2>4, <2>11
    <3> QED
      BY <2>5, <3>1, <3>2
  <2> QED
    BY <2>8, <2>9, <2>10, <2>11
<1> QED
  BY <1>2, <1>3, AnswerKept

\* Answers stay in order.
LEMMA AnswersStep == Inv /\ Brackets /\ Answers /\ [Next]_vars => Answers'
<1> SUFFICES ASSUME Inv, Brackets, Answers, [Next]_vars PROVE Answers'
  OBVIOUS
<1> QED
  BY AskingLast, TakenStep, RepliesStep DEF Answers

-----------------------------------------------------------------------------
(* The text of the turn.                                                   *)

\* What one more line tells the client.
LEMMA ToldMore ==
  ASSUME NEW lines \in Seq(AnyLine), NEW l \in AnyLine
  PROVE  /\ l.kind # "agent_message_chunk" =>
              /\ Told(Append(lines, l)) = Told(lines)
              /\ Sorted(lines) => Sorted(Append(lines, l))
         /\ l.kind = "agent_message_chunk" =>
              /\ Told(Append(lines, l)) = Told(lines) \cup {l.body}
              /\ Sorted(lines) /\ (\A b \in Told(lines) : b < l.body) => Sorted(Append(lines, l))
<1> DEFINE more == Append(lines, l)
           n == Len(lines) + 1
           Chunk == {"agent_message_chunk"}
<1>1. /\ DOMAIN more = DOMAIN lines \cup {n} /\ n \notin DOMAIN lines
      /\ \A k \in DOMAIN lines : k < n /\ ~(n < k) /\ more[k] = lines[k]
      /\ more[n] = l /\ ~(n < n)
  BY Longer
<1> HIDE DEF more, n
<1>2. /\ \A k \in At(lines, Chunk) : k # n /\ k < n /\ ~(n < k) /\ more[k] = lines[k]
      /\ At(more, Chunk) = IF l.kind = "agent_message_chunk" THEN At(lines, Chunk) \cup {n}
                                                             ELSE At(lines, Chunk)
  BY <1>1 DEF At
<1>3. CASE l.kind # "agent_message_chunk"
  <2>1. Told(more) = Told(lines)
    BY <1>2, <1>3 DEF Told
  <2>2. Sorted(lines) => Sorted(more)
    BY <1>2, <1>3 DEF Sorted
  <2> QED
    BY <1>3, <2>1, <2>2 DEF more
<1>4. CASE l.kind = "agent_message_chunk"
  <2>1. Told(more) = Told(lines) \cup {l.body}
    BY <1>1, <1>2, <1>4 DEF Told
  <2>2. ASSUME Sorted(lines), \A b \in Told(lines) : b < l.body,
               NEW j \in At(more, Chunk), NEW k \in At(more, Chunk), j < k
        PROVE  more[j].body < more[k].body
    <3>1. j \in At(lines, Chunk)
      BY <1>1, <1>2, <1>4, <2>2
    <3>2. CASE k \in At(lines, Chunk)
      BY <1>2, <2>2, <3>1, <3>2 DEF Sorted
    <3>3. CASE k = n
      BY <1>1, <1>2, <2>2, <3>1, <3>3 DEF Told
    <3> QED
      BY <1>2, <1>4, <3>2, <3>3
  <2> QED
    <3>1. Sorted(lines) /\ (\A b \in Told(lines) : b < l.body) => Sorted(more)
      BY <2>2 DEF Sorted
    <3> QED
      BY <1>4, <2>1, <3>1 DEF more
<1> QED
  BY <1>3, <1>4

\* Steps outside the handler and the executor's text write no chunk.
LEMMA Quiet ==
  ASSUME Inv, Brackets, [Next]_vars
  PROVE  \/ HandlerStep \/ AgentMessageChunk \/ StreamReplyReturns
         \/ /\ UNCHANGED <<pc, held, chunkEmitted, reply, stop, streamed>>
            /\ \/ out' = out
               \/ \E l \in AnyLine : l.kind # "agent_message_chunk" /\ out' = Append(out, l)
<1> USE DEF turnVars, toolVars, driverVars, ctxVars
<1>1. ASSUME (\E C \in Offers : Initialize(C)) \/ EndContext \/ UNCHANGED vars
             \/ (\E t \in Tool : ReplyToClientRequest(t) \/ QueueClientReply(t))
      PROVE  UNCHANGED <<pc, held, chunkEmitted, reply, stop, streamed, out>>
  BY <1>1 DEF Initialize, EndContext, ReplyToClientRequest, QueueClientReply, vars
<1>2. ASSUME NEW c \in Call, ToolStep(c) \/ \E t \in Tool, g \in BOOLEAN : InvokeTool(c, t, g)
      PROVE  /\ UNCHANGED <<pc, held, chunkEmitted, reply, stop, streamed>>
             /\ \/ out' = out
                \/ \E l \in AnyLine : l.kind # "agent_message_chunk" /\ out' = Append(out, l)
  <2>1. UNCHANGED <<pc, held, chunkEmitted, reply, stop, streamed>>
    BY <1>2 DEF ToolStep, CallClient, Answered, ContextDone, CloseToolCall, InvokeTool
  <2>2. \/ out' = out
        \/ out' = Append(out, Line("tool_call", c))
        \/ out' = Append(out, Line("request", c))
        \/ out' = Append(out, LastUpdate(c))
    BY <1>2 DEF ToolStep, CallClient, Answered, ContextDone, CloseToolCall, InvokeTool, Write
  <2> QED
    BY <2>1, <2>2, LineTypes DEF Line, LastUpdate
<1> QED
  BY <1>1, <1>2 DEF Next, Over

\* What was told is in order, and where the handler is says which of it is out.
LEMMA ChunksStep == Inv /\ Brackets /\ Chunks /\ [Next]_vars => Chunks'
<1> SUFFICES ASSUME Inv, Brackets, Chunks, [Next]_vars PROVE Chunks'
  OBVIOUS
<1>1. out \in Seq(AnyLine) /\ held \in AnyLine /\ streamed \in Nat
  BY DEF Inv, Lines, TypeOK
<1>0. Told(out)' = Told(out') /\ Sorted(out)' = Sorted(out')
  BY DEF Told, Sorted, At
<1>2. out' = out => Told(out)' = Told(out) /\ Sorted(out)' = Sorted(out)
  BY <1>0
<1>3. streamed' = streamed /\ reply' = reply => Reported' = Reported
  BY DEF Reported
<1>4. ASSUME UNCHANGED <<pc, held, chunkEmitted, reply, stop, streamed>>,
             \/ out' = out
             \/ \E l \in AnyLine : l.kind # "agent_message_chunk" /\ out' = Append(out, l)
      PROVE  Chunks'
  <2>1. Told(out)' = Told(out) /\ (Sorted(out) => Sorted(out)')
    BY <1>1, <1>2, <1>4, ToldMore, <1>0
  <2> QED
    BY <1>3, <1>4, <2>1 DEF Chunks, Before, Line, NoLine
<1>5. CASE StartPrompt \/ NewRuntimeToolInvoker
  BY <1>1, <1>2, <1>3, <1>5 DEF StartPrompt, NewRuntimeToolInvoker, Chunks, Before
<1>6. CASE EmitUpdate
  BY <1>1, <1>2, <1>3, <1>6 DEF EmitUpdate, AssertContext, UpdateAt, Line, NoLine, Chunks, Before
<1>7. CASE AgentMessageChunk
  <2>1. /\ pc = "exec" /\ held = NoLine /\ streamed' = streamed + 1 /\ chunkEmitted' = TRUE
        /\ held' = Line("agent_message_chunk", streamed + 1)
        /\ UNCHANGED <<pc, reply, stop, out>>
    BY <1>7 DEF AgentMessageChunk, AssertContext
  <2>2. Told(out) = 1 .. streamed /\ Sorted(out) /\ stop = "none"
    BY <1>1, <2>1 DEF Chunks, NoLine, Line
  <2>3. 1 .. streamed = 1 .. ((streamed + 1) - 1) /\ 1 .. streamed \subseteq 0 .. streamed + 1
    BY <1>1
  <2> QED
    BY <1>1, <1>2, <2>1, <2>2, <2>3 DEF Chunks, Before
<1>8. CASE StreamReplyReturns
  <2>1. /\ pc = "exec" /\ held = NoLine /\ pc' \in {"reply", "failed"}
        /\ pc' = "reply" => reply' \in {"text", "blank"}
        /\ UNCHANGED <<held, chunkEmitted, stop, streamed, out>>
    BY <1>8 DEF StreamReplyReturns
  <2>2. Told(out) = 1 .. streamed /\ stop = "none"
    BY <1>1, <2>1 DEF Chunks, NoLine, Line
  <2> QED
    BY <1>1, <1>2, <2>1, <2>2 DEF Chunks, Before
<1>9. CASE EmitReply
  <2>1. /\ pc = "reply" /\ held = NoLine /\ UNCHANGED <<chunkEmitted, reply, stop, streamed, out>>
        /\ \/ /\ reply = "text" /\ ~chunkEmitted /\ pc' = "reply"
              /\ held' = Line("agent_message_chunk", 0)
           \/ (reply # "text" \/ chunkEmitted) /\ pc' = "final" /\ held' = NoLine
    BY <1>9 DEF EmitReply, AssertContext, UpdateAt
  <2>2. Told(out) = 1 .. streamed /\ stop = "none" /\ (chunkEmitted <=> streamed > 0)
    BY <2>1 DEF Chunks
  <2>3. reply # "text" \/ chunkEmitted => 1 .. streamed = Reported
    BY <1>1, <2>2 DEF Reported
  <2> QED
    BY <1>1, <1>2, <1>3, <2>1, <2>2, <2>3 DEF Chunks, Before
<1>10. CASE UpdateRefused
  BY <1>1, <1>2, <1>3, <1>10 DEF UpdateRefused, Chunks, Before
<1>11. CASE Decide
  BY <1>1, <1>2, <1>3, <1>11 DEF Decide, Chunks, Before
<1>12. CASE WriteSessionInfo
  <2>1. /\ out' = Append(out, Line("session_info_update", 0))
        /\ Line("session_info_update", 0) \in AnyLine
    BY <1>12, LineTypes DEF WriteSessionInfo, Write
  <2>2. Told(out)' = Told(out) /\ (Sorted(out) => Sorted(out)')
    BY <1>1, <2>1, ToldMore, <1>0 DEF Line
  <2> QED
    BY <1>1, <1>3, <1>12, <2>2 DEF WriteSessionInfo, Chunks, Before
<1>13. CASE Respond
  <2>1. out' = Append(out, Line("response", stop)) /\ Line("response", stop) \in AnyLine
    BY <1>13, LineTypes DEF Respond, Write
  <2>2. Told(out)' = Told(out) /\ (Sorted(out) => Sorted(out)')
    BY <1>1, <2>1, ToldMore, <1>0 DEF Line
  <2> QED
    BY <1>1, <1>3, <1>13, <2>2 DEF Respond, Chunks, Before
<1>14. CASE WriteUpdate
  <2>1. /\ held # NoLine /\ held' = NoLine /\ out' = Append(out, held) /\ pc' = After[pc]
        /\ UNCHANGED <<chunkEmitted, reply, stop, streamed>>
    BY <1>14 DEF WriteUpdate, Write
  <2>2. pc \in {"user", "mode", "commands", "config", "exec", "reply"}
    BY <2>1 DEF Inv, TypeOK, After
  <2>3. stop' = "none"
    BY <2>1, <2>2 DEF Chunks
  <2>4. CASE pc \in Before
    <3>1. streamed = 0 /\ Told(out) = {} /\ held.kind # "agent_message_chunk"
      BY <2>4 DEF Chunks
    <3>2. Told(out)' = {} /\ Sorted(out)'
      BY <1>1, <2>1, <3>1, ToldMore, <1>0 DEF Chunks
    <3>3. pc' \in {"snapshot", "commands", "config", "exec"}
      BY <2>1, <2>2, <2>4 DEF After, Before
    <3>4. 1 .. streamed = {}
      BY <3>1
    <3> QED
      BY <2>1, <2>3, <3>1, <3>2, <3>3, <3>4 DEF Chunks, Before, NoLine, Line
  <2>5. CASE pc = "exec"
    <3>1. held = Line("agent_message_chunk", streamed) /\ streamed > 0
          /\ Told(out) = 1 .. (streamed - 1)
      BY <2>1, <2>5 DEF Chunks
    <3>2. \A b \in Told(out) : b < streamed
      BY <1>1, <3>1
    <3>3. /\ (1 .. (streamed - 1)) \cup {streamed} = 1 .. streamed
          /\ 1 .. streamed \subseteq 0 .. streamed
      BY <1>1, <3>1
    <3>4. Told(out)' = 1 .. streamed /\ Sorted(out)'
      BY <1>1, <2>1, <3>1, <3>2, <3>3, ToldMore, <1>0 DEF Line, Chunks
    <3>5. pc' = "exec"
      BY <2>1, <2>5 DEF After
    <3> QED
      BY <2>1, <2>3, <3>1, <3>3, <3>4, <3>5 DEF Chunks, Before
  <2>6. CASE pc = "reply"
    <3>1. held = Line("agent_message_chunk", 0) /\ streamed = 0 /\ reply = "text"
          /\ Told(out) = {}
      <4>1. held = Line("agent_message_chunk", 0) /\ streamed = 0 /\ reply = "text"
            /\ Told(out) = 1 .. streamed
        BY <2>1, <2>6 DEF Chunks
      <4> QED
        BY <4>1
    <3>2. Told(out)' = {0} /\ Sorted(out)'
      BY <1>1, <2>1, <3>1, ToldMore, <1>0 DEF Line, Chunks
    <3>3. pc' = "final"
      BY <2>1, <2>6 DEF After
    <3>4. Reported' = {0} /\ {0} \subseteq 0 .. streamed
      BY <2>1, <3>1 DEF Reported
    <3> QED
      BY <2>1, <2>3, <3>1, <3>2, <3>3, <3>4 DEF Chunks, Before
  <2> QED
    BY <2>2, <2>4, <2>5, <2>6 DEF Before
<1> QED
  BY <1>4, <1>5, <1>6, <1>7, <1>8, <1>9, <1>10, <1>11, <1>12, <1>13, <1>14, Quiet DEF HandlerStep

-----------------------------------------------------------------------------
(* The theorems.                                                           *)

\* The invariant holds at the start.
LEMMA LinesInit == Init => LinesInv
<1> SUFFICES ASSUME Init PROVE LinesInv
  OBVIOUS
<1>1. out = <<>> /\ DOMAIN out = {}
  BY DEF Init
<1>2. Brackets
  BY <1>1 DEF Init, Brackets, NoLine, Line
<1>3. Answers
  BY <1>1 DEF Init, Answers, NoAnswer
<1>4. Chunks
  <2>1. At(out, {"agent_message_chunk"}) = {}
    BY <1>1 DEF At
  <2>2. Told(out) = {} /\ Sorted(out)
    BY <2>1 DEF Told, Sorted
  <2> QED
    BY <2>2 DEF Init, Chunks, NoLine, Line
<1> QED
  BY <1>2, <1>3, <1>4 DEF LinesInv

\* The whole invariant holds in every reachable state.
LEMMA LinesInvariance == Spec => [](Inv /\ LinesInv)
<1>1. Inv /\ LinesInv /\ [Next]_vars => LinesInv'
  BY BracketsStep, AnswersStep, ChunksStep DEF LinesInv
<1> QED
  BY <1>1, LinesInit, Invariance, PTL DEF Spec

\* The lines of a tool call are those that are about it.
LEMMA LinesAbout ==
  ASSUME NEW c \in Call
  PROVE  LinesOf(c) = {k \in DOMAIN out : OfCall(out[k], c)}
<1>1. c # None
  BY TurnStreamAssumption
<1>2. \A l : CallOf(l) = c <=> OfCall(l, c)
  BY <1>1 DEF CallOf, OfCall
<1> QED
  BY <1>2 DEF LinesOf

\* However the tool calls of a turn overlap, fail and are cancelled, for any
\* number of them and any tools, the client sees each as a bracket, and reads
\* "completed" only for a result it gave itself.
THEOREM Bracketed == Spec => []ToolCallsBracketed
<1> SUFFICES Inv /\ LinesInv => ToolCallsBracketed
  BY LinesInvariance, PTL
<1> SUFFICES ASSUME Inv, LinesInv, NEW c \in Call
             PROVE  LET lines == LinesOf(c)  events == ParseTurn(out).ToolEvents \cap lines
                    IN /\ lines # {} => "tool_call" \in Kinds(lines)
                       /\ \A j, k \in lines : j < k => Place[out[j].kind] < Place[out[k].kind]
                       /\ \A k \in lines, e \in ParseTurn(out).StopReason : k < e
                       /\ Responded =>
                            Kinds(events) = IF tool[c] = None THEN {}
                                            ELSE {"tool_call", "tool_call_update"}
                       /\ \A k \in lines :
                            out[k].kind = "tool_call_update" /\ out[k].body.status = "completed" =>
                              /\ "request" \in Kinds(lines)
                              /\ out[k].body.content # NoAnswer /\ ~out[k].body.content.error
  BY DEF ToolCallsBracketed
<1> DEFINE lines == LinesOf(c)
           events == ParseTurn(out).ToolEvents \cap lines
<1>1. lines = {k \in DOMAIN out : OfCall(out[k], c)}
  BY LinesAbout
<1>2. \A k \in DOMAIN out : LineSays(out[k])
  BY DEF LinesInv, Brackets
<1>3. events = {k \in lines : out[k].kind \in {"tool_call", "tool_call_update"}}
  BY <1>1 DEF ParseTurn, At
<1>4. call[c] # "idle" => \E k \in lines : out[k].kind = "tool_call"
  BY <1>1 DEF LinesInv, Brackets, OfCall
<1>5. \A k \in lines : call[c] # "idle"
  BY <1>1, <1>2 DEF LineSays, OfCall, WasAsked
<1>6. lines # {} => "tool_call" \in Kinds(lines)
  BY <1>4, <1>5 DEF Kinds
<1>7. \A j, k \in lines : j < k => Place[out[j].kind] < Place[out[k].kind]
  BY <1>1 DEF LinesInv, Brackets
<1>8. \A e \in ParseTurn(out).StopReason :
         e \in DOMAIN out /\ out[e].kind = "response" /\ LineSays(out[e]) /\ e = Len(out)
  BY <1>2 DEF ParseTurn, At, LinesInv, Brackets
<1>9. \A k \in lines, e \in ParseTurn(out).StopReason : k < e
  <2>1. ASSUME NEW k \in lines, NEW e \in ParseTurn(out).StopReason PROVE k < e
    <3>1. out \in Seq(AnyLine) /\ k \in DOMAIN out /\ k # e /\ e = Len(out)
      BY <1>1, <1>8 DEF Inv, Lines, OfCall
    <3> QED
      BY <3>1
  <2> QED
    BY <2>1
<1>10. ASSUME Responded
      PROVE  Kinds(events) = IF tool[c] = None THEN {} ELSE {"tool_call", "tool_call_update"}
  <2>1. pc = "done"
    BY <1>10, <1>8 DEF Responded, LineSays
  <2>2. call[c] \in {"idle", "closed"} /\ (tool[c] = None <=> call[c] = "idle")
    BY <2>1 DEF LinesInv, Brackets
  <2>3. call[c] = "closed" => \E k \in lines : out[k].kind = "tool_call_update"
    BY <1>1 DEF LinesInv, Brackets, OfCall
  <2>4. CASE tool[c] = None
    BY <1>3, <1>5, <2>2, <2>4 DEF Kinds
  <2>5. CASE tool[c] # None
    BY <1>3, <1>4, <2>2, <2>3, <2>5 DEF Kinds
  <2> QED
    BY <2>4, <2>5
<1>11. ASSUME NEW k \in lines, out[k].kind = "tool_call_update", out[k].body.status = "completed"
      PROVE  /\ "request" \in Kinds(lines)
             /\ out[k].body.content # NoAnswer /\ ~out[k].body.content.error
  <2>1. out[k].body.call = c /\ LineSays(out[k])
    BY <1>1, <1>2, <1>11 DEF OfCall
  <2>2. /\ out[k].body.content # NoAnswer /\ ~out[k].body.content.error
        /\ answer[c] # NoAnswer
    BY <1>11, <2>1 DEF LineSays
  <2>3. PICK p \in DOMAIN out : out[p].kind = "request" /\ out[p].body = c
    BY <2>2 DEF LinesInv, Answers, Asked
  <2>4. p \in lines
    BY <1>1, <2>3 DEF OfCall
  <2> QED
    BY <2>2, <2>3, <2>4 DEF Kinds
<1>12. \A k \in lines :
         out[k].kind = "tool_call_update" /\ out[k].body.status = "completed" =>
           /\ "request" \in Kinds(lines)
           /\ out[k].body.content # NoAnswer /\ ~out[k].body.content.error
  BY <1>11
<1> QED
  BY <1>6, <1>7, <1>10, <1>12, <1>9, Zenon

\* The text of a turn that ended normally reaches the client once, in order and before the
\* response,
\* for any bound on the updates the executor streams.
THEOREM RepliedOnce == Spec => []ReplyOnce
<1> SUFFICES Inv /\ LinesInv => ReplyOnce
  BY LinesInvariance, PTL
<1> SUFFICES ASSUME Inv, LinesInv, Responded, stop = "end_turn"
             PROVE  /\ Told(out) = Reported
                    /\ Sorted(out)
                    /\ \A k \in ParseTurn(out).AssistantText, e \in ParseTurn(out).StopReason :
                         k < e
  BY DEF ReplyOnce, ParseTurn, Told, Reported, Sorted
<1>1. \A e \in ParseTurn(out).StopReason :
        e \in DOMAIN out /\ out[e].kind = "response" /\ pc = "done" /\ e = Len(out)
  BY DEF ParseTurn, At, LinesInv, Brackets, LineSays
<1>2. ASSUME NEW k \in ParseTurn(out).AssistantText, NEW e \in ParseTurn(out).StopReason
      PROVE  k < e
  <2>1. out \in Seq(AnyLine) /\ k \in DOMAIN out /\ k # e /\ e = Len(out)
    BY <1>1 DEF Inv, Lines, ParseTurn, At
  <2> QED
    BY <2>1
<1>3. pc = "done"
  BY <1>1 DEF Responded
<1> QED
  BY <1>2, <1>3 DEF LinesInv, Chunks

\* Tool calls side by side get the prepared replies of their method in the order
\* of their requests, each once, and report no other: for any number of calls
\* and any script.
THEOREM RepliesInOrder == Spec => []PreparedRepliesInOrder
<1> SUFFICES Inv /\ LinesInv => PreparedRepliesInOrder
  BY LinesInvariance, PTL
<1> SUFFICES ASSUME Inv, LinesInv,
                    NEW j \in At(out, {"tool_call_update"}),
                    NEW k \in At(out, {"tool_call_update"}),
                    out[j].body.content.n > 0, out[k].body.content.n > 0,
                    tool[out[j].body.call] = tool[out[k].body.call]
             PROVE  LET c == out[j].body.call  m == out[j].body.content
                        d == out[k].body.call  n == out[k].body.content
                    IN /\ m.error = Script[tool[c]][m.n]
                       /\ Asked(c) # {}
                       /\ c # d => m.n # n.n
                       /\ \A p \in Asked(c), q \in Asked(d) : p < q => m.n < n.n
  BY DEF PreparedRepliesInOrder
<1>1. \A i \in At(out, {"tool_call_update"}) :
        /\ out[i].body.call \in Call
        /\ out[i].body.content.n > 0 => out[i].body.content = answer[out[i].body.call]
  BY DEF At, LinesInv, Brackets, LineSays, UpdateBody, NoAnswer
<1>2. \A c \in Call : answer[c].n > 0 => answer[c] # NoAnswer
  BY DEF NoAnswer
<1> DEFINE c == out[j].body.call
           d == out[k].body.call
<1>3. /\ c \in Call /\ out[j].body.content = answer[c] /\ answer[c].n > 0
      /\ d \in Call /\ out[k].body.content = answer[d] /\ answer[d].n > 0
      /\ tool[c] = tool[d]
  BY <1>1
<1> HIDE DEF c, d
<1>4. /\ answer[c].error = Script[tool[c]][answer[c].n]
      /\ Asked(c) # {}
      /\ c # d => answer[c].n # answer[d].n
      /\ \A p \in Asked(c), q \in Asked(d) : p < q => answer[c].n < answer[d].n
  BY <1>2, <1>3 DEF LinesInv, Answers
<1> QED
  BY <1>3, <1>4 DEF c, d

=============================================================================
