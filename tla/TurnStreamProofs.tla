-------------------------- MODULE TurnStreamProofs --------------------------
(***************************************************************************)
(* Proofs about TurnStream for any tool calls, tools and capabilities.     *)
(***************************************************************************)
EXTENDS TurnStream, TLAPS

Reply == [n : Nat, error : BOOLEAN]
Body ==
  Nat \cup Call \cup (SUBSET DOMAIN Needs) \cup {"cancelled", "end_turn", "error", "none"}
    \cup [call : Call, status : {"completed", "failed"}, content : Reply]
Kind == {"none", "user_message_chunk", "current_mode_update", "available_commands_update",
         "config_option_update", "agent_message_chunk", "session_info_update", "response",
         "tool_call", "request", "tool_call_update"}
AnyLine == [kind : Kind, body : Body]

\* What goes out are lines, and no update is a request.
Lines == held \in AnyLine /\ held.kind # "request" /\ out \in Seq(AnyLine)

\* A tool call that was not asked, or is being asked, has no answer yet.
Unanswered ==
  \A c \in Call : call[c] \in {"idle", "ask"} \/ asking = c => answer[c] = NoAnswer

\* Nothing that asks the context was written after its end; of what may still
\* be, there is one update at most.
Stopping ==
  /\ late <= 1
  /\ ctx = "live" \/ held # NoLine => late = 0

\* The tools of the turn's own copy of the capabilities were announced before
\* entry n of the output.
Announced(lines, tools, n) ==
  \E j \in 1 .. n - 1 : lines[j].kind = "available_commands_update" /\ lines[j].body = tools

\* The tools are announced before the executor runs, and a tool call asks the
\* client only for one of them.
Asking ==
  /\ pc \in {"start", "user", "snapshot", "mode", "commands", "config"} =>
       \A c \in Call : call[c] = "idle"
  /\ pc = "commands" /\ held # NoLine => held = UpdateAt("commands")
  /\ pc \in {"config", "exec"} => Announced(out, ToolInfos(caps), Len(out) + 1)
  /\ \A c \in Call : call[c] = "ask" =>
       tool[c] \in ToolInfos(caps) /\ Announced(out, ToolInfos(caps), Len(out) + 1)
  /\ \A k \in DOMAIN out : out[k].kind = "request" =>
       out[k].body \in Call /\ call[out[k].body] # "idle"

Inv == TypeOK /\ Lines /\ Unanswered /\ Stopping /\ Asking /\ OnlyAnnouncedTools

\* The invariant holds at the start.
LEMMA InvInit == Init => Inv
<1> SUFFICES ASSUME Init PROVE Inv
  OBVIOUS
<1>1. out = <<>> /\ Len(out) = 0 /\ DOMAIN out = {}
  BY DEF Init
<1>2. TypeOK
  <2>1. \A t \in Tool : taken[t] <= prepared[t] /\ prepared[t] <= Len(Script[t])
    BY TurnStreamAssumption DEF Init
  <2>2. streamed \in 0 .. MaxText /\ late \in Nat
    BY TurnStreamAssumption DEF Init
  <2>3. answer \in [Call -> [n : Nat, error : BOOLEAN]]
    BY DEF Init, NoAnswer
  <2> QED
    BY <2>1, <2>2, <2>3 DEF Init, TypeOK, After
<1>3. Lines
  <2>1. 0 \in Body
    BY DEF Body
  <2>2. held \in AnyLine /\ held.kind # "request"
    BY <2>1 DEF Init, AnyLine, Kind, NoLine, Line
  <2> QED
    BY <1>1, <2>2 DEF Lines
<1>5. Unanswered /\ Stopping
  BY DEF Init, Unanswered, Stopping
<1>4. Asking /\ OnlyAnnouncedTools
  BY <1>1 DEF Init, Asking, OnlyAnnouncedTools
<1> QED
  BY <1>2, <1>3, <1>4, <1>5 DEF Inv

\* Types are kept.
LEMMA TypeStep == Inv /\ [Next]_vars => TypeOK'
<1> SUFFICES ASSUME Inv, [Next]_vars PROVE TypeOK'
  OBVIOUS
<1> USE TurnStreamAssumption DEF turnVars, toolVars, driverVars, ctxVars
<1>1. ASSUME NEW C \in Offers, Initialize(C) PROVE TypeOK'
  BY <1>1 DEF Initialize, After, Inv, TypeOK
<1>2. ASSUME EndContext PROVE TypeOK'
  BY <1>2 DEF EndContext, After, Inv, TypeOK
<1>3. ASSUME NEW t \in Tool, QueueClientReply(t) PROVE TypeOK'
  BY <1>3 DEF QueueClientReply, After, Inv, TypeOK
<1>4. ASSUME StartPrompt PROVE TypeOK'
  BY <1>4 DEF StartPrompt, After, Inv, TypeOK
<1>5. ASSUME NewRuntimeToolInvoker PROVE TypeOK'
  BY <1>5 DEF NewRuntimeToolInvoker, After, Inv, TypeOK
<1>6. ASSUME EmitUpdate PROVE TypeOK'
  BY <1>6 DEF EmitUpdate, AssertContext, After, Inv, TypeOK
<1>7. ASSUME WriteUpdate PROVE TypeOK'
  BY <1>7 DEF WriteUpdate, Write, After, After, Inv, TypeOK
<1>8. ASSUME AgentMessageChunk PROVE TypeOK'
  BY <1>8 DEF AgentMessageChunk, AssertContext, After, Inv, TypeOK
<1>9. ASSUME StreamReplyReturns PROVE TypeOK'
  BY <1>9 DEF StreamReplyReturns, After, Inv, TypeOK
<1>10. ASSUME EmitReply PROVE TypeOK'
  BY <1>10 DEF EmitReply, AssertContext, After, Inv, TypeOK
<1>11. ASSUME UpdateRefused PROVE TypeOK'
  BY <1>11 DEF UpdateRefused, After, Inv, TypeOK
<1>12. ASSUME Decide PROVE TypeOK'
  BY <1>12 DEF Decide, After, Inv, TypeOK
<1>13. ASSUME WriteSessionInfo PROVE TypeOK'
  BY <1>13 DEF WriteSessionInfo, Write, After, Inv, TypeOK
<1>14. ASSUME Respond PROVE TypeOK'
  BY <1>14 DEF Respond, Write, After, Inv, TypeOK
<1>15. ASSUME NEW c \in Call, NEW t \in Tool, NEW g \in BOOLEAN, InvokeTool(c, t, g) PROVE TypeOK'
  BY <1>15 DEF InvokeTool, Write, Step, After, Inv, TypeOK
<1>16. ASSUME NEW c \in Call, CallClient(c) PROVE TypeOK'
  BY <1>16 DEF CallClient, Write, Step, After, Inv, TypeOK
<1>17. ASSUME NEW c \in Call, Answered(c) PROVE TypeOK'
  <2>1. \E s \in {"completed", "failed"} : Step(c, s)
    BY <1>17 DEF Answered
  <2> QED
    BY <1>17, <2>1 DEF Answered, Step, After, Inv, TypeOK, Unanswered
<1>18. ASSUME NEW c \in Call, ContextDone(c) PROVE TypeOK'
  BY <1>18 DEF ContextDone, Step, After, Inv, TypeOK
<1>19. ASSUME NEW c \in Call, CloseToolCall(c) PROVE TypeOK'
  BY <1>19 DEF CloseToolCall, Write, Step, After, Inv, TypeOK
<1>20. ASSUME NEW t \in Tool, ReplyToClientRequest(t) PROVE TypeOK'
  <2>0. /\ prepared' = prepared
        /\ \/ taken' = taken
           \/ taken[t] < prepared[t] /\ taken' = [taken EXCEPT ![t] = taken[t] + 1]
    BY <1>20 DEF ReplyToClientRequest
  <2>1. taken' \in [Tool -> Nat]
    <3>1. taken \in [Tool -> Nat]
      BY DEF Inv, TypeOK
    <3>2. taken[t] + 1 \in Nat
      BY <3>1
    <3> QED
      BY <2>0, <3>1, <3>2
  <2>2. ASSUME NEW u \in Tool PROVE taken'[u] <= prepared[u] /\ prepared[u] <= Len(Script[u])
    <3>1. taken \in [Tool -> Nat] /\ prepared[u] \in Nat /\ prepared[t] \in Nat
      BY DEF Inv, TypeOK
    <3>2. taken[u] <= prepared[u] /\ prepared[u] <= Len(Script[u])
      BY DEF Inv, TypeOK
    <3>3. taken'[u] = taken[u] \/ (u = t /\ taken'[u] = taken[t] + 1 /\ taken[t] < prepared[t])
      BY <2>0, <3>1
    <3> QED
      BY <3>1, <3>2, <3>3
  <2>3. taken[t] < prepared[t] =>
          [n |-> NextReply(t), error |-> Script[t][NextReply(t)]] \in [n : Nat, error : BOOLEAN]
    <3>1. ASSUME taken[t] < prepared[t] PROVE NextReply(t) \in 1 .. Len(Script[t])
      BY <3>1 DEF NextReply, Inv, TypeOK
    <3>2. taken[t] < prepared[t] => Script[t][NextReply(t)] \in BOOLEAN
      BY <3>1
    <3> QED
      BY <3>1, <3>2
  <2>4. DefaultReply \in [n : Nat, error : BOOLEAN]
    BY DEF DefaultReply, NullResult
  <2>5. answer' \in [Call -> [n : Nat, error : BOOLEAN]]
    <3>1. \E r \in [n : Nat, error : BOOLEAN] : answer' = [answer EXCEPT ![asking] = r]
      BY <1>20, <2>3, <2>4 DEF ReplyToClientRequest
    <3> QED
      BY <3>1 DEF Inv, TypeOK
  <2> QED
    BY <1>20, <2>0, <2>1, <2>2, <2>5 DEF ReplyToClientRequest, Inv, TypeOK
<1>21. CASE UNCHANGED vars
  BY <1>21 DEF vars, Inv, TypeOK
<1> QED
  BY <1>1, <1>2, <1>3, <1>4, <1>5, <1>6, <1>7, <1>8, <1>9, <1>10, <1>11,
     <1>12, <1>13, <1>14, <1>15, <1>16, <1>17, <1>18, <1>19, <1>20, <1>21
  DEF Next, HandlerStep, ToolStep, Over

\* An update of the handler is a line, and no request.
LEMMA UpdateType ==
  ASSUME Inv, pc \in {"user", "mode", "commands", "config", "reply"}
  PROVE  UpdateAt(pc) \in AnyLine /\ UpdateAt(pc).kind # "request"
<1>1. 0 \in Body /\ ToolInfos(caps) \in Body
  BY DEF Body, ToolInfos
<1> QED
  BY <1>1 DEF UpdateAt, Line, AnyLine, Kind

\* So are a chunk, the result, and the last update of a tool call.
LEMMA LineTypes ==
  ASSUME Inv
  PROVE  /\ \A n \in Nat : Line("agent_message_chunk", n) \in AnyLine
         /\ Line("session_info_update", 0) \in AnyLine
         /\ Line("response", stop) \in AnyLine
         /\ \A c \in Call :
              {Line("tool_call", c), Line("request", c), LastUpdate(c)} \subseteq AnyLine
<1>1. Nat \subseteq Body /\ Call \subseteq Body /\ stop \in Body
  BY DEF Inv, TypeOK, Body
<1>2. ASSUME NEW c \in Call PROVE LastUpdate(c).body \in Body /\ LastUpdate(c) \in AnyLine
  <2>1. answer[c] \in Reply /\ NoAnswer \in Reply
    BY DEF Inv, TypeOK, NoAnswer, Reply
  <2> DEFINE b == [call |-> c, status |-> IF call[c] = "completed" THEN "completed" ELSE "failed",
                   content |-> IF call[c] \in {"completed", "failed"} THEN answer[c] ELSE NoAnswer]
  <2>2. b \in [call : Call, status : {"completed", "failed"}, content : Reply]
    BY <2>1
  <2>3. b \in Body
    BY <2>2 DEF Body
  <2>4. LastUpdate(c) = [kind |-> "tool_call_update", body |-> b]
    BY DEF LastUpdate, Line
  <2> QED
    BY <2>3, <2>4 DEF AnyLine, Kind
<1> QED
  BY <1>1, <1>2 DEF Line, AnyLine, Kind

\* A step writes nothing, a line that is no request, or the request of a tool call.
LEMMA OutCases ==
  ASSUME Inv, [Next]_vars
  PROVE  \/ out' = out
         \/ \E l \in AnyLine : l.kind # "request" /\ out' = Append(out, l)
         \/ \E c \in Call : CallClient(c)
<1> USE TurnStreamAssumption DEF turnVars, toolVars, driverVars, ctxVars
<1>1. ASSUME (\E C \in Offers : Initialize(C)) \/ EndContext \/ StartPrompt \/ NewRuntimeToolInvoker
             \/ EmitUpdate \/ AgentMessageChunk \/ StreamReplyReturns \/ EmitReply \/ UpdateRefused
             \/ Decide \/ UNCHANGED vars
      PROVE  out' = out
  BY <1>1 DEF Initialize, EndContext, StartPrompt, NewRuntimeToolInvoker, EmitUpdate,
     AgentMessageChunk, StreamReplyReturns, EmitReply, UpdateRefused, Decide, vars
<1>2. ASSUME NEW t \in Tool, QueueClientReply(t) \/ ReplyToClientRequest(t) PROVE out' = out
  BY <1>2 DEF QueueClientReply, ReplyToClientRequest
<1>3. ASSUME NEW c \in Call, Answered(c) \/ ContextDone(c) PROVE out' = out
  BY <1>3 DEF Answered, ContextDone
<1> DEFINE Update == \E l \in AnyLine : l.kind # "request" /\ out' = Append(out, l)
<1>4. CASE WriteUpdate
  BY <1>4 DEF WriteUpdate, Write, Inv, Lines
<1>5. CASE WriteSessionInfo
  BY <1>5, LineTypes DEF WriteSessionInfo, Write, Line
<1>6. CASE Respond
  BY <1>6, LineTypes DEF Respond, Write, Line
<1>7. ASSUME NEW c \in Call, NEW t \in Tool, NEW g \in BOOLEAN, InvokeTool(c, t, g) PROVE Update
  BY <1>7, LineTypes DEF InvokeTool, Write, Line
<1>8. ASSUME NEW c \in Call, CloseToolCall(c) PROVE Update
  BY <1>8, LineTypes DEF CloseToolCall, Write, LastUpdate, Line
<1> QED
  BY <1>1, <1>2, <1>3, <1>4, <1>5, <1>6, <1>7, <1>8 DEF Next, HandlerStep, ToolStep, Over

\* Lines go out and updates are lines.
LEMMA LinesStep == Inv /\ [Next]_vars => Lines'
<1> SUFFICES ASSUME Inv, [Next]_vars PROVE Lines'
  OBVIOUS
<1> USE TurnStreamAssumption DEF turnVars, toolVars, driverVars, ctxVars
<1>1. out' \in Seq(AnyLine)
  <2>1. out \in Seq(AnyLine)
    BY DEF Inv, Lines
  <2>2. \A c \in Call : CallClient(c) => \E l \in AnyLine : out' = Append(out, l)
    BY LineTypes DEF CallClient, Write
  <2> QED
    BY <2>1, <2>2, OutCases
<1>2. CASE EmitUpdate
  BY <1>1, <1>2, UpdateType DEF EmitUpdate, AssertContext, Lines
<1>3. CASE AgentMessageChunk
  BY <1>1, <1>3, LineTypes DEF AgentMessageChunk, AssertContext, Line, Lines, Inv, TypeOK
<1>4. CASE EmitReply
  BY <1>1, <1>4, UpdateType DEF EmitReply, AssertContext, Lines, Inv
<1>5. CASE WriteUpdate
  BY <1>1, <1>5 DEF WriteUpdate, Lines, NoLine, Line, AnyLine, Kind, Body
<1>6. CASE UNCHANGED held
  BY <1>1, <1>6 DEF Inv, Lines
<1>7. ASSUME NEW c \in Call, ToolStep(c) \/ \E t \in Tool, g \in BOOLEAN : InvokeTool(c, t, g)
      PROVE  UNCHANGED held
  BY <1>7 DEF ToolStep, CallClient, Answered, ContextDone, CloseToolCall, InvokeTool
<1>8. ASSUME NEW t \in Tool, QueueClientReply(t) \/ ReplyToClientRequest(t) PROVE UNCHANGED held
  BY <1>8 DEF QueueClientReply, ReplyToClientRequest
<1>9. ASSUME (\E C \in Offers : Initialize(C)) \/ EndContext \/ StartPrompt \/ NewRuntimeToolInvoker
             \/ StreamReplyReturns \/ UpdateRefused \/ Decide \/ WriteSessionInfo \/ Respond
             \/ UNCHANGED vars
      PROVE  UNCHANGED held
  BY <1>9 DEF Initialize, EndContext, StartPrompt, NewRuntimeToolInvoker, StreamReplyReturns,
     UpdateRefused, Decide, WriteSessionInfo, Respond, vars
<1> QED
  BY <1>2, <1>3, <1>4, <1>5, <1>6, <1>7, <1>8, <1>9 DEF Next, HandlerStep, Over

\* The steps of the handler, of the executor's chunks and around the turn do not
\* touch the tool calls.
LEMMA ToolsKept ==
  ASSUME [Next]_vars
  PROVE  \/ UNCHANGED <<call, tool, answer, asking>>
         \/ \E c \in Call : ToolStep(c) \/ \E t \in Tool, g \in BOOLEAN : InvokeTool(c, t, g)
         \/ \E t \in Tool : ReplyToClientRequest(t)
<1> USE DEF toolVars, driverVars
<1>1. ASSUME StartPrompt \/ NewRuntimeToolInvoker \/ EmitUpdate \/ WriteUpdate
             \/ EmitReply \/ UpdateRefused \/ Decide \/ WriteSessionInfo
             \/ Respond \/ AgentMessageChunk \/ StreamReplyReturns
             \/ (\E C \in Offers : Initialize(C)) \/ EndContext
             \/ (\E t \in Tool : QueueClientReply(t))
             \/ UNCHANGED vars
      PROVE  UNCHANGED <<call, tool, answer, asking>>
  BY <1>1 DEF StartPrompt, NewRuntimeToolInvoker, EmitUpdate, WriteUpdate, EmitReply, UpdateRefused,
     Decide, WriteSessionInfo, Respond, AgentMessageChunk, StreamReplyReturns,
     Initialize, EndContext, QueueClientReply, vars
<1> QED
  BY <1>1 DEF Next, HandlerStep, Over

\* A tool call is answered after it asked.
LEMMA UnansweredStep == Inv /\ [Next]_vars => Unanswered'
<1> SUFFICES ASSUME Inv, [Next]_vars PROVE Unanswered'
  OBVIOUS
<1> USE TurnStreamAssumption DEF turnVars, toolVars, driverVars, ctxVars
<1>1. CASE UNCHANGED <<call, tool, answer, asking>>
  BY <1>1 DEF Inv, Unanswered
<1>2. ASSUME NEW c \in Call, CallClient(c) PROVE Unanswered'
  BY <1>2 DEF CallClient, Step, Inv, TypeOK, Unanswered
<1>3. ASSUME NEW c \in Call, Answered(c) \/ ContextDone(c) \/ CloseToolCall(c) PROVE Unanswered'
  BY <1>3 DEF Answered, ContextDone, CloseToolCall, Step, Inv, TypeOK, Unanswered
<1>4. ASSUME NEW c \in Call, NEW t \in Tool, NEW g \in BOOLEAN, InvokeTool(c, t, g)
      PROVE  Unanswered'
  BY <1>4 DEF InvokeTool, Step, Inv, TypeOK, Unanswered
<1>5. ASSUME NEW t \in Tool, ReplyToClientRequest(t) PROVE Unanswered'
  <2>1. asking \in Call /\ call[asking] \in {"await", "given_up"} /\ asking' = None /\ call' = call
    BY <1>5 DEF ReplyToClientRequest, Inv, TypeOK
  <2>2. \A c \in Call : c # asking => answer'[c] = answer[c]
    BY <1>5 DEF ReplyToClientRequest, Inv, TypeOK
  <2> QED
    BY <2>1, <2>2 DEF Inv, Unanswered
<1> QED
  BY <1>1, <1>2, <1>3, <1>4, <1>5, ToolsKept DEF ToolStep

\* After the end of the context only what was held goes out.
LEMMA StoppingStep == Inv /\ [Next]_vars => Stopping'
<1> SUFFICES ASSUME Inv, [Next]_vars PROVE Stopping'
  OBVIOUS
<1> USE TurnStreamAssumption DEF turnVars, toolVars, driverVars, ctxVars
<1>1. CASE EmitUpdate
  BY <1>1 DEF EmitUpdate, AssertContext, Inv, Stopping
<1>2. CASE AgentMessageChunk
  BY <1>2 DEF AgentMessageChunk, AssertContext, Inv, Stopping
<1>3. CASE EmitReply
  BY <1>3 DEF EmitReply, AssertContext, Inv, Stopping
<1>4. CASE WriteUpdate
  BY <1>4 DEF WriteUpdate, Inv, TypeOK, Stopping
<1>5. CASE EndContext
  BY <1>5 DEF EndContext, Inv, Stopping
<1>6. CASE UNCHANGED <<ctx, held, late>>
  BY <1>6 DEF Inv, Stopping
<1>7. ASSUME NEW c \in Call, ToolStep(c) \/ \E t \in Tool, g \in BOOLEAN : InvokeTool(c, t, g)
      PROVE  UNCHANGED <<ctx, held, late>>
  BY <1>7 DEF ToolStep, CallClient, Answered, ContextDone, CloseToolCall, InvokeTool
<1>8. ASSUME NEW t \in Tool, QueueClientReply(t) \/ ReplyToClientRequest(t)
      PROVE  UNCHANGED <<ctx, held, late>>
  BY <1>8 DEF QueueClientReply, ReplyToClientRequest
<1>9. ASSUME (\E C \in Offers : Initialize(C)) \/ StartPrompt \/ NewRuntimeToolInvoker
             \/ StreamReplyReturns \/ UpdateRefused \/ Decide \/ WriteSessionInfo \/ Respond
             \/ UNCHANGED vars
      PROVE  UNCHANGED <<ctx, held, late>>
  BY <1>9 DEF Initialize, StartPrompt, NewRuntimeToolInvoker, StreamReplyReturns, UpdateRefused,
     Decide, WriteSessionInfo, Respond, vars
<1> QED
  BY <1>1, <1>2, <1>3, <1>4, <1>5, <1>6, <1>7, <1>8, <1>9 DEF Next, HandlerStep, Over

\* An announcement stays where it is.
LEMMA AnnouncedStays ==
  ASSUME NEW lines \in Seq(AnyLine), NEW more \in Seq(AnyLine),
         more = lines \/ \E l \in AnyLine : more = Append(lines, l),
         NEW tools, NEW n \in 1 .. Len(lines) + 1, Announced(lines, tools, n)
  PROVE  Announced(more, tools, n) /\ Announced(more, tools, Len(more) + 1)
<1>1. PICK j \in 1 .. n - 1 : lines[j].kind = "available_commands_update" /\ lines[j].body = tools
  BY DEF Announced
<1>2. j \in 1 .. Len(lines) /\ j \in 1 .. Len(more) /\ more[j] = lines[j]
  BY <1>1
<1> QED
  BY <1>1, <1>2 DEF Announced

\* A line of a longer output is an old one or the new one.
LEMMA AppendedLine ==
  ASSUME NEW lines \in Seq(AnyLine), NEW l \in AnyLine, NEW k \in DOMAIN Append(lines, l)
  PROVE  \/ k \in DOMAIN lines /\ Append(lines, l)[k] = lines[k]
         \/ k = Len(lines) + 1 /\ Append(lines, l)[k] = l
<1>1. k \in 1 .. Len(lines) \/ k = Len(lines) + 1
  OBVIOUS
<1>2. CASE k \in 1 .. Len(lines)
  BY <1>2
<1>3. CASE k = Len(lines) + 1
  <2>1. Append(lines, l)[Len(lines) + 1] = l
    OBVIOUS
  <2> QED
    BY <1>3, <2>1
<1> QED
  BY <1>1, <1>2, <1>3

\* What the output of the next step is.
LEMMA OutGrows ==
  ASSUME Inv, [Next]_vars
  PROVE  /\ out \in Seq(AnyLine) /\ out' \in Seq(AnyLine)
         /\ out' = out \/ \E l \in AnyLine : out' = Append(out, l)
<1>1. \A c \in Call : CallClient(c) => \E l \in AnyLine : out' = Append(out, l)
  BY LineTypes DEF CallClient, Write
<1> QED
  BY <1>1, OutCases, LinesStep DEF Inv, Lines

\* Where the handler is before the executor can run.
Before == {"start", "user", "snapshot", "mode", "commands", "config"}

\* How the handler moves towards the executor.
LEMMA Moves ==
  ASSUME Inv, [Next]_vars
  PROVE  /\ caps' = caps \/ (pc = "snapshot" /\ pc' = "mode")
         /\ pc' \in Before => pc \in Before
         /\ pc' \in {"config", "exec"} =>
              pc' = pc \/ (WriteUpdate /\ pc \in {"commands", "config", "exec"})
         /\ pc' = "commands" /\ held' # NoLine =>
              held' = UpdateAt("commands") \/ (pc = "commands" /\ held' = held)
<1> USE TurnStreamAssumption DEF turnVars, toolVars, driverVars, ctxVars
<1> DEFINE Goal ==
      /\ caps' = caps \/ (pc = "snapshot" /\ pc' = "mode")
      /\ pc' \in Before => pc \in Before
      /\ pc' \in {"config", "exec"} =>
           pc' = pc \/ (WriteUpdate /\ pc \in {"commands", "config", "exec"})
      /\ pc' = "commands" /\ held' # NoLine =>
           held' = UpdateAt("commands") \/ (pc = "commands" /\ held' = held)
<1>1. CASE UNCHANGED <<caps, pc, held>>
  BY <1>1
<1>2. CASE WriteUpdate
  BY <1>2 DEF WriteUpdate, After, Before, Inv, TypeOK
<1>3. CASE EmitUpdate
  BY <1>3 DEF EmitUpdate, AssertContext
<1>4. CASE AgentMessageChunk \/ EmitReply
  BY <1>4 DEF AgentMessageChunk, EmitReply, AssertContext, Before
<1>5. CASE StartPrompt \/ NewRuntimeToolInvoker
  BY <1>5 DEF StartPrompt, NewRuntimeToolInvoker, Before
<1>6. CASE StreamReplyReturns \/ UpdateRefused
  BY <1>6 DEF StreamReplyReturns, UpdateRefused, Before
<1>7. CASE Decide \/ WriteSessionInfo \/ Respond
  BY <1>7 DEF Decide, WriteSessionInfo, Respond, Before
<1>8. ASSUME NEW c \in Call, ToolStep(c) \/ \E t \in Tool, g \in BOOLEAN : InvokeTool(c, t, g)
      PROVE  UNCHANGED <<caps, pc, held>>
  BY <1>8 DEF ToolStep, CallClient, Answered, ContextDone, CloseToolCall, InvokeTool
<1>9. ASSUME NEW t \in Tool, QueueClientReply(t) \/ ReplyToClientRequest(t)
      PROVE  UNCHANGED <<caps, pc, held>>
  BY <1>9 DEF QueueClientReply, ReplyToClientRequest
<1>10. ASSUME (\E C \in Offers : Initialize(C)) \/ EndContext \/ UNCHANGED vars
       PROVE  UNCHANGED <<caps, pc, held>>
  BY <1>10 DEF Initialize, EndContext, vars
<1> QED
  BY <1>1, <1>2, <1>3, <1>4, <1>5, <1>6, <1>7, <1>8, <1>9, <1>10 DEF Next, HandlerStep, Over

\* How a tool call moves: it starts while the executor runs, keeps its tool, and
\* asks the client only for a tool of the copied capabilities.
LEMMA ToolMoves ==
  ASSUME Inv, [Next]_vars, NEW c \in Call
  PROVE  /\ call[c] # "idle" => call'[c] # "idle" /\ tool'[c] = tool[c]
         /\ call[c] = "idle" /\ call'[c] # "idle" => pc = "exec" /\ pc' = "exec"
         /\ call'[c] = "ask" =>
              call[c] = "ask" \/ (pc = "exec" /\ caps' = caps /\ tool'[c] \in ToolInfos(caps))
<1> USE TurnStreamAssumption DEF turnVars, toolVars, driverVars, ctxVars
<1>1. CASE UNCHANGED <<call, tool, answer, asking>>
  BY <1>1
<1>2. ASSUME NEW d \in Call, ToolStep(d) PROVE UNCHANGED tool /\
          \A e \in Call : \/ call'[e] = call[e]
                          \/ (call[e] # "idle" /\ call'[e] \notin {"idle", "ask"})
  BY <1>2 DEF ToolStep, CallClient, Answered, ContextDone, CloseToolCall, Step, Inv, TypeOK
<1>3. ASSUME NEW d \in Call, NEW t \in Tool, NEW g \in BOOLEAN, InvokeTool(d, t, g)
      PROVE  /\ pc = "exec" /\ pc' = "exec" /\ caps' = caps /\ call[d] = "idle"
             /\ call'[d] \in {"ask", "refused"} /\ tool'[d] = t
             /\ call'[d] = "ask" => t \in ToolInfos(caps)
             /\ \A e \in Call \ {d} : call'[e] = call[e] /\ tool'[e] = tool[e]
  BY <1>3 DEF InvokeTool, Step, Supported, Inv, TypeOK
<1>4. ASSUME NEW t \in Tool, ReplyToClientRequest(t) PROVE UNCHANGED <<call, tool>>
  BY <1>4 DEF ReplyToClientRequest
<1> QED
  BY <1>1, <1>2, <1>3, <1>4, ToolsKept

\* Announcements and requests keep their order.
LEMMA AskingStep == Inv /\ [Next]_vars => Asking'
<1> SUFFICES ASSUME Inv, [Next]_vars PROVE Asking'
  OBVIOUS
<1> USE TurnStreamAssumption DEF turnVars, toolVars, driverVars, ctxVars
<1> DEFINE Ready == Announced(out, ToolInfos(caps), Len(out) + 1)
<1>1. caps' = caps => /\ ToolInfos(caps)' = ToolInfos(caps)
                      /\ UpdateAt("commands")' = UpdateAt("commands")
  BY DEF ToolInfos, UpdateAt
<1>2. caps' = caps /\ Ready => Announced(out', ToolInfos(caps'), Len(out') + 1)
  BY <1>1, OutGrows, AnnouncedStays DEF ToolInfos
<1>3. pc' \in Before => \A c \in Call : call'[c] = "idle"
  BY Moves, ToolMoves DEF Before, Inv, Asking
<1>4. pc' = "commands" /\ held' # NoLine => held' = UpdateAt("commands")'
  BY <1>1, Moves DEF Inv, Asking
<1>5. pc' \in {"config", "exec"} => Announced(out', ToolInfos(caps'), Len(out') + 1)
  <2>1. CASE pc' \in {"config", "exec"} /\ pc \in {"config", "exec"}
    BY <2>1, <1>2, Moves DEF Inv, Asking
  <2>2. CASE WriteUpdate /\ pc = "commands"
    <3>1. held = Line("available_commands_update", ToolInfos(caps)) /\ out' = Append(out, held)
      BY <2>2 DEF WriteUpdate, Write, UpdateAt, Inv, Asking
    <3>2. caps' = caps /\ Len(out') = Len(out) + 1 /\ out'[Len(out) + 1] = held
      BY <2>2, <3>1, OutGrows DEF WriteUpdate
    <3>3. Len(out) + 1 \in 1 .. (Len(out') + 1) - 1
      BY <3>2, OutGrows
    <3> QED
      BY <3>1, <3>2, <3>3 DEF Announced, Line, ToolInfos
  <2> QED
    BY <2>1, <2>2, Moves
<1>6. ASSUME NEW c \in Call, call'[c] = "ask"
      PROVE  tool'[c] \in ToolInfos(caps') /\ Announced(out', ToolInfos(caps'), Len(out') + 1)
  <2>1. Ready /\ tool'[c] \in ToolInfos(caps)
    BY <1>6, ToolMoves DEF Inv, Asking
  <2>2. caps' = caps
    BY <1>6, Moves, ToolMoves DEF Inv, Asking, Before
  <2> QED
    BY <1>2, <2>1, <2>2 DEF ToolInfos
<1>7. ASSUME NEW k \in DOMAIN out', out'[k].kind = "request"
      PROVE  out'[k].body \in Call /\ call'[out'[k].body] # "idle"
  <2>1. CASE k \in DOMAIN out /\ out'[k] = out[k]
    BY <1>7, <2>1, ToolMoves DEF Inv, Asking
  <2>2. ASSUME NEW c \in Call, CallClient(c), k = Len(out) + 1
        PROVE  out'[k].body = c /\ call'[c] # "idle"
    BY <2>2, OutGrows DEF CallClient, Write, Line, Step, Inv, TypeOK
  <2>3. ASSUME NEW l \in AnyLine, out' = Append(out, l)
        PROVE  (k \in DOMAIN out /\ out'[k] = out[k]) \/ (k = Len(out) + 1 /\ out'[k] = l)
    <3>1. out \in Seq(AnyLine) /\ k \in DOMAIN Append(out, l)
      BY <1>7, <2>3, OutGrows
    <3>2. \/ k \in DOMAIN out /\ Append(out, l)[k] = out[k]
          \/ k = Len(out) + 1 /\ Append(out, l)[k] = l
      BY <3>1, AppendedLine
    <3> QED
      BY <2>3, <3>1, <3>2
  <2>4. \A c \in Call : CallClient(c) => \E l \in AnyLine : out' = Append(out, l)
    BY LineTypes DEF CallClient, Write
  <2> QED
    BY <1>7, <2>1, <2>2, <2>3, <2>4, OutCases
<1> QED
  BY <1>3, <1>4, <1>5, <1>6, <1>7 DEF Asking, Before

\* Every request is for a tool that was announced before it.
LEMMA OnlyAnnouncedStep == Inv /\ [Next]_vars => OnlyAnnouncedTools'
<1> SUFFICES ASSUME Inv, [Next]_vars,
                    NEW k \in DOMAIN out', out'[k].kind = "request"
             PROVE  \E j \in 1 .. k - 1 : /\ out'[j].kind = "available_commands_update"
                                         /\ tool'[out'[k].body] \in out'[j].body
  BY DEF OnlyAnnouncedTools
<1>1. out \in Seq(AnyLine) /\ out' \in Seq(AnyLine) /\ \A j \in DOMAIN out : out'[j] = out[j]
  BY OutGrows
<1>2. CASE k \in DOMAIN out /\ out'[k] = out[k]
  <2>1. PICK j \in 1 .. k - 1 : /\ out[j].kind = "available_commands_update"
                               /\ tool[out[k].body] \in out[j].body
    BY <1>2 DEF Inv, OnlyAnnouncedTools
  <2>2. out[k].body \in Call /\ call[out[k].body] # "idle"
    BY <1>2 DEF Inv, Asking
  <2>3. tool'[out[k].body] = tool[out[k].body]
    BY <2>2, ToolMoves
  <2>4. out'[j] = out[j]
    BY <1>1, <1>2
  <2> QED
    BY <1>2, <2>1, <2>3, <2>4
<1>3. ASSUME NEW c \in Call, CallClient(c), k = Len(out) + 1
      PROVE  \E j \in 1 .. k - 1 : /\ out'[j].kind = "available_commands_update"
                                  /\ tool'[out'[k].body] \in out'[j].body
  <2>1. call[c] = "ask" /\ out' = Append(out, Line("request", c)) /\ tool' = tool
    BY <1>3 DEF CallClient, Write, turnVars
  <2>2. tool[c] \in ToolInfos(caps) /\ Announced(out, ToolInfos(caps), Len(out) + 1)
    BY <2>1 DEF Inv, Asking
  <2>3. PICK j \in 1 .. (Len(out) + 1) - 1 :
          out[j].kind = "available_commands_update" /\ out[j].body = ToolInfos(caps)
    BY <2>2 DEF Announced
  <2>4. out'[j] = out[j] /\ out'[k] = Line("request", c)
    BY <1>1, <1>3, <2>1, <2>3
  <2> QED
    BY <1>3, <2>1, <2>2, <2>3, <2>4 DEF Line
<1>4. ASSUME NEW l \in AnyLine, out' = Append(out, l)
      PROVE  (k \in DOMAIN out /\ out'[k] = out[k]) \/ (k = Len(out) + 1 /\ out'[k] = l)
  <2>1. out \in Seq(AnyLine) /\ k \in DOMAIN Append(out, l)
    BY <1>4, OutGrows
  <2>2. \/ k \in DOMAIN out /\ Append(out, l)[k] = out[k]
        \/ k = Len(out) + 1 /\ Append(out, l)[k] = l
    BY <2>1, AppendedLine
  <2> QED
    BY <1>4, <2>1, <2>2
<1>5. \A c \in Call : CallClient(c) => \E l \in AnyLine : out' = Append(out, l)
  BY LineTypes DEF CallClient, Write
<1> QED
  BY <1>1, <1>2, <1>3, <1>4, <1>5, OutCases

\* The invariant holds in every reachable state.
LEMMA Invariance == Spec => []Inv
<1>1. Inv /\ [Next]_vars => Inv'
  BY TypeStep, LinesStep, UnansweredStep, StoppingStep, AskingStep, OnlyAnnouncedStep DEF Inv
<1> QED
  BY <1>1, InvInit, PTL DEF Spec

\* Every variable of the turn keeps its type, for any tool calls, tools and
\* scripts: the Driver uses no reply that was not prepared, and readLoop answers
\* only a tool call that waits or has given up.
THEOREM TypeCorrect == Spec => []TypeOK
<1>1. Inv => TypeOK
  BY DEF Inv
<1> QED
  BY <1>1, Invariance, PTL

\* Once the context has ended, at most one update that asked it is still
\* written.
THEOREM UpdatesDoStop == Spec => []UpdatesStop
<1>1. Inv => UpdatesStop
  BY DEF Inv, Stopping, UpdatesStop
<1> QED
  BY <1>1, Invariance, PTL

\* The client is asked only for tools announced to it before in the same turn,
\* for any tool calls side by side and any initialize in between.
THEOREM AskedAreAnnounced == Spec => []OnlyAnnouncedTools
<1>1. Inv => OnlyAnnouncedTools
  BY DEF Inv
<1> QED
  BY <1>1, Invariance, PTL

=============================================================================
