----------------------------- MODULE TurnStream -----------------------------
(***************************************************************************)
(* One session/prompt as its client sees it: the lines of the turn in the  *)
(* order in which they leave the server, with the tool calls the executor  *)
(* makes side by side (tool_invoker.go), the updates it streams            *)
(* (session_updates.go, handlePrompt) and the Turn that the acptest Driver *)
(* makes of them, whose prepared replies answer the tool calls.            *)
(*                                                                         *)
(* A line is written when readLoop has taken it, and readLoop answers a    *)
(* request before it takes the next line (module Driver).  The answer      *)
(* finds its caller as RpcContract says.  Which of two stop reasons a turn *)
(* ends with is PromptTurn's concern: here it is either.                   *)
(***************************************************************************)
EXTENDS Naturals, Sequences

CONSTANTS
  Call,        \* what the executor may call InvokeTool for, each at most once
  Tool,        \* the tools it names, unknown ones included
  Offers,      \* the sets of capabilities that an initialize may bring
  MaxText,     \* bound on the updates it streams
  Script,      \* [Tool -> the replies a test prepares, each by whether it is an error]
  None

\* The capability that each tool of the invoker needs.
Needs == [fs_read_text_file |-> "readTextFile", fs_write_text_file |-> "writeTextFile",
          terminal_create |-> "terminal", terminal_output |-> "terminal",
          terminal_wait_for_exit |-> "terminal", terminal_kill |-> "terminal",
          terminal_release |-> "terminal"]
Capability == {"readTextFile", "writeTextFile", "terminal"}

ASSUME TurnStreamAssumption ==
  /\ Offers \subseteq SUBSET Capability
  /\ MaxText \in Nat /\ Script \in [Tool -> Seq(BOOLEAN)]
  /\ None \notin Call \cup Tool

VARIABLES
  clientCaps,  \* those of the last initialize
  caps,        \* the copy in the turn's invoker
  ctx,         \* "live" or "ended": promptCtx
  pc,          \* where handlePrompt is
  held,        \* an update that was allowed and is not written yet
  chunkEmitted,
  reply,       \* what StreamReply returned
  stop,        \* the result of the turn
  call,        \* [Call -> where its InvokeTool is]
  tool,        \* [Call -> Tool \cup {None}]
  answer,      \* [Call -> the reply that was read for it]
  prepared,    \* [Tool -> how many replies of its script are queued]
  taken,       \* [Tool -> how many of them are used]
  asking,      \* the tool call readLoop is answering
  out,         \* the lines of the turn
  streamed,    \* how many agent chunks were accepted
  late         \* updates that ask the context, written after its end

turnVars == <<caps, pc, held, chunkEmitted, reply, stop, streamed, late>>
toolVars == <<call, tool, answer>>
driverVars == <<prepared, taken, asking>>
ctxVars == <<clientCaps, ctx>>
vars == <<turnVars, toolVars, driverVars, ctxVars, out>>

NoAnswer == [n |-> 0, error |-> TRUE]
NullResult == [n |-> 0, error |-> FALSE]
Line(kind, body) == [kind |-> kind, body |-> body]
NoLine == Line("none", 0)

Init ==
  /\ clientCaps \in Offers
  /\ caps = {}
  /\ ctx = "live"
  /\ pc = "start"
  /\ held = NoLine
  /\ chunkEmitted = FALSE
  /\ reply = "none"
  /\ stop = "none"
  /\ call = [c \in Call |-> "idle"]
  /\ tool = [c \in Call |-> None]
  /\ answer = [c \in Call |-> NoAnswer]
  /\ prepared = [t \in Tool |-> 0]
  /\ taken = [t \in Tool |-> 0]
  /\ asking = None
  /\ out = <<>>
  /\ streamed = 0
  /\ late = 0

-----------------------------------------------------------------------------
(* Around the turn.                                                        *)

\* initialize may come at any time; a turn keeps its copy.
Initialize(C) ==
  /\ pc # "done"
  /\ clientCaps' = C
  /\ UNCHANGED <<turnVars, toolVars, driverVars, ctx, out>>

EndContext ==
  /\ ctx = "live" /\ pc # "done"
  /\ ctx' = "ended"
  /\ UNCHANGED <<turnVars, toolVars, driverVars, clientCaps, out>>

\* A test prepares replies for a method before it prompts; the tools have one
\* method each.
QueueClientReply(t) ==
  /\ pc = "start"
  /\ prepared[t] < Len(Script[t])
  /\ prepared' = [prepared EXCEPT ![t] = @ + 1]
  /\ UNCHANGED <<turnVars, toolVars, taken, asking, ctxVars, out>>

\* Mutant: nobody waits for readLoop.
Write_Unread(l) == out' = Append(out, l)

\* rpcWriter.write: the line is whole, and readLoop has taken it.
Write(l) ==
  /\ asking = None
  /\ out' = Append(out, l)

-----------------------------------------------------------------------------
(* handlePrompt and the updates it allows.                                 *)

\* The parameters are good and the prompt has text; the flag may be set.
StartPrompt ==
  /\ pc = "start"
  /\ \/ pc' = "respond" /\ stop' = "cancelled"
     \/ pc' = "user" /\ UNCHANGED stop
  /\ UNCHANGED <<caps, held, chunkEmitted, reply, streamed, late, toolVars, driverVars, ctxVars,
                 out>>

NewRuntimeToolInvoker ==
  /\ pc = "snapshot"
  /\ caps' = clientCaps
  /\ pc' = "mode"
  /\ UNCHANGED <<held, chunkEmitted, reply, stop, streamed, late, toolVars, driverVars, ctxVars,
                 out>>

\* The tools of a client with capabilities C.
ToolInfos(C) == {t \in DOMAIN Needs : Needs[t] \in C}

\* The update that a point of the handler emits, and where it goes on.
UpdateAt(p) ==
  CASE p = "user"     -> Line("user_message_chunk", 0)
    [] p = "mode"     -> Line("current_mode_update", 0)
    [] p = "commands" -> Line("available_commands_update", ToolInfos(caps))
    [] p = "config"   -> Line("config_option_update", 0)
    [] p = "reply"    -> Line("agent_message_chunk", 0)
After == [user |-> "snapshot", mode |-> "commands", commands |-> "config", config |-> "exec",
          exec |-> "exec", reply |-> "final"]

\* Mutant: the context is not looked at.
AssertContext_Never(l) == held = NoLine /\ held' = l

\* assertContext, and then, not in the same step, the write.
AssertContext(l) ==
  /\ held = NoLine
  /\ ctx = "live"
  /\ held' = l

\* UserMessageChunk, emitSessionContextUpdates, and the reply as a chunk.
EmitUpdate ==
  /\ pc \in {"user", "mode", "commands", "config"}
  /\ AssertContext(UpdateAt(pc))
  /\ UNCHANGED <<caps, pc, chunkEmitted, reply, stop, streamed, late, toolVars, driverVars, ctxVars,
                 out>>

WriteUpdate ==
  /\ held # NoLine
  /\ Write(held)
  /\ held' = NoLine
  /\ late' = IF ctx = "ended" THEN late + 1 ELSE late
  /\ pc' = After[pc]
  /\ UNCHANGED <<caps, chunkEmitted, reply, stop, streamed, toolVars, driverVars, ctxVars>>

\* Mutant: a chunk is counted before the context is looked at.
AgentMessageChunk_CountsFirst ==
  /\ pc = "exec" /\ held = NoLine
  /\ streamed < MaxText
  /\ chunkEmitted' = TRUE
  /\ IF ctx = "live" THEN held' = Line("agent_message_chunk", streamed + 1)
                     ELSE UNCHANGED held
  /\ streamed' = IF ctx = "live" THEN streamed + 1 ELSE streamed
  /\ UNCHANGED <<caps, pc, reply, stop, late, toolVars, driverVars, ctxVars, out>>

\* The executor streams text, one update at a time; a refused one changes
\* nothing.
AgentMessageChunk ==
  /\ pc = "exec"
  /\ streamed < MaxText
  /\ AssertContext(Line("agent_message_chunk", streamed + 1))
  /\ streamed' = streamed + 1
  /\ chunkEmitted' = TRUE
  /\ UNCHANGED <<caps, pc, reply, stop, late, toolVars, driverVars, ctxVars, out>>

\* StreamReply returns, after its tool calls, with text, without, or an error.
StreamReplyReturns ==
  /\ pc = "exec" /\ held = NoLine
  /\ \A c \in Call : call[c] \in {"idle", "closed"}
  /\ \/ reply' \in {"text", "blank"} /\ pc' = "reply"
     \/ pc' = "failed" /\ UNCHANGED reply
  /\ UNCHANGED <<caps, held, chunkEmitted, stop, streamed, late, toolVars, driverVars, ctxVars,
                 out>>

\* The reply becomes a chunk unless it is blank or the executor streamed.
EmitReply ==
  /\ pc = "reply"
  /\ IF reply = "text" /\ ~chunkEmitted
     THEN AssertContext(UpdateAt(pc)) /\ UNCHANGED pc
     ELSE held = NoLine /\ pc' = "final" /\ UNCHANGED held
  /\ UNCHANGED <<caps, chunkEmitted, reply, stop, streamed, late, toolVars, driverVars, ctxVars,
                 out>>

\* An update is refused, and with it the turn.
UpdateRefused ==
  /\ pc \in {"user", "mode", "commands", "config", "reply"}
  /\ pc = "reply" => reply = "text" /\ ~chunkEmitted
  /\ held = NoLine
  /\ ctx = "ended"
  /\ pc' = "failed"
  /\ UNCHANGED <<caps, held, chunkEmitted, reply, stop, streamed, late, toolVars, driverVars,
                 ctxVars,
                 out>>

\* The flag decides, and after a failure the context too.
Decide ==
  /\ \/ pc = "final" /\ \E v \in {"cancelled", "end_turn"} : stop' = v
     \/ pc = "failed" /\ \E v \in {"cancelled", "error"} : stop' = v
  /\ pc' = IF stop' = "end_turn" THEN "info" ELSE "respond"
  /\ UNCHANGED <<caps, held, chunkEmitted, reply, streamed, late, toolVars, driverVars, ctxVars,
                 out>>

\* session_info_update, whatever became of the context.
WriteSessionInfo ==
  /\ pc = "info"
  /\ Write(Line("session_info_update", 0))
  /\ pc' = "respond"
  /\ UNCHANGED <<caps, held, chunkEmitted, reply, stop, streamed, late, toolVars, driverVars,
                 ctxVars>>

Respond ==
  /\ pc = "respond"
  /\ Write(Line("response", stop))
  /\ pc' = "done"
  /\ UNCHANGED <<caps, held, chunkEmitted, reply, stop, streamed, late, toolVars, driverVars,
                 ctxVars>>

-----------------------------------------------------------------------------
(* InvokeTool, in goroutines of the executor.  Its lines do not ask the    *)
(* context.                                                                *)

Step(c, l) == call' = [call EXCEPT ![c] = l]

\* Mutant: the check uses the capabilities of the last initialize.
Supported_Latest(t) == t \in ToolInfos(clientCaps)
Supported(t) == t \in ToolInfos(caps)

\* The tool call is announced; then the copied capabilities and the arguments
\* decide whether the client is asked.
InvokeTool(c, t, goodArgs) ==
  /\ pc = "exec"
  /\ call[c] = "idle"
  /\ Write(Line("tool_call", c))
  /\ tool' = [tool EXCEPT ![c] = t]
  /\ Step(c, IF Supported(t) /\ goodArgs THEN "ask" ELSE "refused")
  /\ UNCHANGED <<turnVars, answer, driverVars, ctxVars>>

\* callClient: readLoop takes the request and turns to its answer.
CallClient(c) ==
  /\ call[c] = "ask"
  /\ Write(Line("request", c))
  /\ asking' = c
  /\ Step(c, "await")
  /\ UNCHANGED <<turnVars, tool, answer, prepared, taken, ctxVars>>

\* callClient returns: a result, null included, or an error, which is the client's
\* or that its result cannot be decoded.
Answered(c) ==
  /\ call[c] = "await" /\ answer[c] # NoAnswer
  /\ \/ Step(c, "completed") /\ ~answer[c].error
     \/ Step(c, "failed") /\ answer[c] # NullResult
  /\ UNCHANGED <<turnVars, tool, answer, driverVars, ctxVars, out>>

ContextDone(c) ==
  /\ call[c] = "await" /\ ctx = "ended"
  /\ Step(c, "given_up")
  /\ UNCHANGED <<turnVars, tool, answer, driverVars, ctxVars, out>>

LastUpdate(c) ==
  Line("tool_call_update",
       [call |-> c, status |-> IF call[c] = "completed" THEN "completed" ELSE "failed",
        content |-> IF call[c] \in {"completed", "failed"} THEN answer[c] ELSE NoAnswer])

\* Mutant: a tool call that was given up is not reported.
CloseToolCall_Silent(c) ==
  /\ call[c] \in {"refused", "failed", "completed", "given_up"}
  /\ IF call[c] = "given_up" THEN UNCHANGED out ELSE Write(LastUpdate(c))
  /\ Step(c, "closed")
  /\ UNCHANGED <<turnVars, tool, answer, driverVars, ctxVars>>

\* Every tool call that was announced gets its last update.
CloseToolCall(c) ==
  /\ call[c] \in {"refused", "failed", "completed", "given_up"}
  /\ Write(LastUpdate(c))
  /\ Step(c, "closed")
  /\ UNCHANGED <<turnVars, tool, answer, driverVars, ctxVars>>

-----------------------------------------------------------------------------
(* The Driver: the answer to a request, and the Turn.                      *)

\* Mutant: the reply that was queued last is used first.
NextReply_Lifo(t) == prepared[t] - taken[t]
NextReply(t) == taken[t] + 1

\* Mutant: a request that nobody prepared a reply for is not answered.
DefaultReply_None == NoAnswer
DefaultReply == NullResult

\* replyToClientRequest: the first prepared reply of the method, or a null
\* result.
ReplyToClientRequest(t) ==
  /\ asking # None /\ tool[asking] = t
  /\ \/ /\ taken[t] < prepared[t]
        /\ taken' = [taken EXCEPT ![t] = @ + 1]
        /\ answer' = [answer EXCEPT ![asking] =
                        [n |-> NextReply(t), error |-> Script[t][NextReply(t)]]]
     \/ /\ taken[t] = prepared[t]
        /\ answer' = [answer EXCEPT ![asking] = DefaultReply]
        /\ UNCHANGED taken
  /\ asking' = None
  /\ UNCHANGED <<turnVars, call, tool, prepared, ctxVars, out>>

\* Where lines of these kinds are: a selection that keeps the order is known by
\* its positions.
At(lines, kinds) == {k \in DOMAIN lines : lines[k].kind \in kinds}

\* The Turn that parseTurn makes of the lines of an exchange.
ParseTurn(lines) ==
  [StopReason    |-> At(lines, {"response"}),
   AssistantText |-> At(lines, {"agent_message_chunk"}),
   ToolEvents    |-> At(lines, {"tool_call", "tool_call_update"})]

-----------------------------------------------------------------------------

\* The turn was answered.
Over == pc = "done" /\ UNCHANGED vars

HandlerStep ==
  \/ StartPrompt
  \/ NewRuntimeToolInvoker
  \/ EmitUpdate
  \/ WriteUpdate
  \/ EmitReply
  \/ UpdateRefused
  \/ Decide
  \/ WriteSessionInfo
  \/ Respond
ToolStep(c) ==
  \/ CallClient(c)
  \/ Answered(c)
  \/ ContextDone(c)
  \/ CloseToolCall(c)

Next ==
  \/ \E C \in Offers : Initialize(C)
  \/ EndContext
  \/ \E t \in Tool : ReplyToClientRequest(t) \/ QueueClientReply(t)
  \/ HandlerStep
  \/ AgentMessageChunk \/ StreamReplyReturns
  \/ \E c \in Call : ToolStep(c) \/ \E t \in Tool, good \in BOOLEAN : InvokeTool(c, t, good)
  \/ Over

Spec == Init /\ [][Next]_vars

(* What can run does, readLoop included; the executor owes nothing.        *)
Fairness ==
  /\ WF_vars(HandlerStep)
  /\ \A c \in Call : WF_vars(ToolStep(c))
  /\ \A t \in Tool : WF_vars(ReplyToClientRequest(t))

FairSpec == Spec /\ Fairness

-----------------------------------------------------------------------------
(* Properties.                                                             *)

\* Every variable has its type; what is held or asked belongs to the moment.
TypeOK ==
  /\ clientCaps \in Offers /\ caps \in Offers \cup {{}}
  /\ ctx \in {"live", "ended"}
  /\ pc \in DOMAIN After \cup {"start", "snapshot", "failed", "final", "info", "respond", "done"}
  /\ held # NoLine => pc \in DOMAIN After
  /\ chunkEmitted \in BOOLEAN
  /\ reply \in {"none", "text", "blank"}
  /\ stop \in {"none", "cancelled", "end_turn", "error"}
  /\ call \in [Call -> {"idle", "ask", "await", "refused", "failed", "completed", "given_up",
                        "closed"}]
  /\ tool \in [Call -> Tool \cup {None}]
  /\ answer \in [Call -> [n : Nat, error : BOOLEAN]]
  /\ {prepared, taken} \subseteq [Tool -> Nat]
  /\ \A t \in Tool : taken[t] <= prepared[t] /\ prepared[t] <= Len(Script[t])
  /\ asking \in Call \cup {None}
  /\ asking # None => call[asking] \in {"await", "given_up"}
  /\ streamed \in 0 .. MaxText
  /\ late \in Nat

CallOf(l) ==
  CASE l.kind \in {"tool_call", "request"} -> l.body
    [] l.kind = "tool_call_update" -> l.body.call
    [] OTHER -> None
LinesOf(c) == {k \in DOMAIN out : CallOf(out[k]) = c}
Kinds(K) == {out[k].kind : k \in K}
Responded == ParseTurn(out).StopReason # {}
Place == [tool_call |-> 1, request |-> 2, tool_call_update |-> 3]

\* However the tool calls of a turn overlap, fail and are cancelled, the client
\* sees each as a bracket: its tool_call, at most one request, one last update,
\* all before the response.  It reads "completed" only for a result the client
\* gave to that request, and the ToolEvents of the Turn are these pairs.
ToolCallsBracketed ==
  \A c \in Call :
    LET lines == LinesOf(c)  events == ParseTurn(out).ToolEvents \cap lines
    IN /\ lines # {} => "tool_call" \in Kinds(lines)
       /\ \A j, k \in lines : j < k => Place[out[j].kind] < Place[out[k].kind]
       /\ \A k \in lines, e \in ParseTurn(out).StopReason : k < e
       /\ Responded =>
            Kinds(events) = IF tool[c] = None THEN {} ELSE {"tool_call", "tool_call_update"}
       /\ \A k \in lines :
            out[k].kind = "tool_call_update" /\ out[k].body.status = "completed" =>
              /\ "request" \in Kinds(lines)
              /\ out[k].body.content # NoAnswer /\ ~out[k].body.content.error

\* The client is asked only for tools that this turn has announced to it
\* before, whatever initialize brings between the copy of the capabilities,
\* the announcement and the tool call.
OnlyAnnouncedTools ==
  \A k \in DOMAIN out :
    out[k].kind = "request" =>
      \E j \in 1 .. k - 1 :
        out[j].kind = "available_commands_update" /\ tool[out[k].body] \in out[j].body

\* The text of a turn that ended normally reaches the client once and before the
\* response: what the executor streamed, or its reply if it streamed nothing,
\* also when the context ended on the way.
ReplyOnce ==
  Responded /\ stop = "end_turn" =>
    LET text == ParseTurn(out).AssistantText
    IN /\ {out[k].body : k \in text} =
            IF streamed > 0 THEN 1 .. streamed ELSE IF reply = "text" THEN {0} ELSE {}
       /\ \A j, k \in text : j < k => out[j].body < out[k].body
       /\ \A k \in text, e \in ParseTurn(out).StopReason : k < e

Asked(c) == {k \in DOMAIN out : out[k].kind = "request" /\ out[k].body = c}

\* Tool calls side by side get the prepared replies of their method in the
\* order in which their requests reached the client, each reply once, and
\* report that reply and no other.
PreparedRepliesInOrder ==
  \A j, k \in At(out, {"tool_call_update"}) :
    LET c == out[j].body.call  m == out[j].body.content
        d == out[k].body.call  n == out[k].body.content
    IN m.n > 0 /\ n.n > 0 /\ tool[c] = tool[d] =>
         /\ m.error = Script[tool[c]][m.n]
         /\ Asked(c) # {}
         /\ c # d => m.n # n.n
         /\ \A p \in Asked(c), q \in Asked(d) : p < q => m.n < n.n

\* Once the context has ended, at most one more of the updates that ask it
\* reaches the client: the one that had asked before.  (The executor emits its
\* updates one at a time.)
UpdatesStop == late <= 1

\* A tool call that was announced comes to its last update without anybody
\* cancelling it: readLoop answers every request, prepared or not.
ToolCallsEnd == \A c \in Call : (call[c] # "idle") ~> (call[c] = "closed")

=============================================================================
