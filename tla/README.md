# A formal model of go-acp-server

TLA+ specifications of the server, TLC configurations that check them on small instances, and
TLAPS proofs of what matters most for instances of any size. Paths of the code are relative to
the repository's root; `R` stands for `request_handlers.go`, `S` for `server.go`, `W` for
`connections/websocket.go`, `H` for `connections/http.go`, `T` for `tool_invoker.go`, `U` for
`session_updates.go`, `D` for `acptest/driver.go`.

## 1. The system

go-acp-server is the agent's side of the Agent Client Protocol. `Server.Serve` reads JSON-RPC
lines in a *scan loop*. The loop handles notifications (`session/cancel`) and responses of the
client itself and starts a goroutine per request. Handlers share four pieces of state: the
session table, the table of cancellations, the table of pending client calls and the output. A
`session/prompt` calls the user's `PromptExecutor.StreamReply`, which streams updates and may
call tools; a tool call is a request to the client whose response the scan loop reads. The
transports (`connections/`) run `Serve` over HTTP or WebSocket with one lock per server, and
`acptest.Driver` runs it behind two pipes for tests.

| Component | State | Operations | Interacts through | Hard behaviour | Correct when |
|---|---|---|---|---|---|
| Client RPC bridge (`S` 195-259, `R` 458-477) | `requestIDCounter`, `pendingResponses`, `earlyResponses`, a channel per call | `callClient`, `handleClientResponse` | the scan loop and goroutines of the executor share `pendingMu` and channels | answers that are early, late, repeated or foreign; cancellation racing the answer | no answer is lost or misdelivered, the scan loop never blocks, entries do not leak |
| Prompt turns and cancellation (`R` 226-330, 421-456, `S` 145-193) | `cancelFlags`, `activeCancels`, a context per turn | `session/new`, `load`, `prompt`, `cancel`, end of input and of the context | scan loop and handlers share `cancelMu`; the executor sees a context | a cancellation between any two steps of a turn, turns side by side, a deferred clean-up | a cancellation ends a turn it was meant for and nothing else |
| Session store (`R` 88-224, 272-301, 415-419) and capabilities (`R` 47-75, `S` 302-306) | `sessions`, a binding and `updatedAt` per session, `clientCaps` | `initialize`, `session/new`, `load`, `list`, the snapshot and the touch of a prompt | `sessionsMu` (RW), `session.mu`, `clientCapsMu` (RW) | copies used after the unlock, a list made row by row, nested locks | answers are never older than what the client knew when it asked; lists are complete |
| WebSocket transport and `Endpoint` (`W`, `connections/endpoint.go`, `S` 144-193, 373-389) | two pipes, two pumps, `Endpoint.mu`, `s.writer` | `ServeWebSocket`, `ReadText`, `WriteText`, `Close` | pumps, scan loop, handlers; connections share a server | any of them stops first; unbuffered pipes; a scanner that gives up | a peer gets its own answers, all goroutines end, other connections get their turn |
| acptest `Driver` (`D`) | table of calls, list of messages, `writeMu`, flags of its end | `Do`, `readLoop`, `replyToClientRequest`, `Close` | pipes to a `Serve` in the same process | a ring of locks and unbuffered pipes; timeouts and `Close` at any moment | exchanges are complete, no deadlock, `Do` and `Close` return |
| Tool invoker (`T`) | a copy of the capabilities, the directory of the turn | `InvokeTool`, `ToolInfos`, `resolvePath` | `callClient`, updates, the client's answers | tool calls side by side that are refused, fail or are cancelled between their two updates; an `initialize` during the turn | updates bracket the call and tell its outcome; only announced tools are asked for |
| Streaming updates (`U`) | `chunkEmitted` | one method per kind of update | the turn's context, `rpcWriter` | the context ends between the look at it and the write; a refused chunk | the text of a turn arrives once; updates stop with the context |
| Line writer (`S` 350-389) | a buffered writer and its mutex | `write` | everything that writes | a partial write | lines are whole |
| HTTP transport (`H`) | a buffer of output per request | `ServeHTTP` | `Endpoint.mu` | a tool call waits for a client that cannot see it | a 200 is complete; the endpoint is given back |
| Prompt session context (`session_context.go`) | a value in the context | accessors | the executor | none | the copy is the snapshot |
| Protocol types (`protocol.go`) | none | encoding, decoding | JSON | none | out of scope |
| Prompt executor | external | `StreamReply` | context, tools, updates | returns whenever it likes | it obeys its context |

## 2. Modules

| Module | Models |
|---|---|
| `RpcContract` | what `callClient` promises: identifiers in order, one outcome each, a reply only to its own call |
| `ClientRpc` | the bridge: every step of `callClient` and every critical section of `pendingMu` |
| `PromptTurn` | one run of `Serve`: handlers, flag, registry, contexts, end of input |
| `SessionStore` | the sessions and the capabilities under requests side by side |
| `WebSocketBridge` | several `ServeWebSocket` on one `Endpoint`, with `Serve` as the transport sees it |
| `EndpointContract` | what an `Endpoint` promises the connections that share it, without pumps, pipes, buffers and locks |
| `HttpBridge` | extends `WebSocketBridge`: HTTP requests and WebSocket connections on one `Endpoint` |
| `Driver` | `Driver` composed with `Serve` and its handlers |
| `TurnStream` | one prompt as its client sees it: updates, tool calls side by side, prepared replies, the `Turn` |
| `MC*` | constants and symmetry of the instances |
| `*Proofs` | the theorems; those about the lines that `TurnStream` writes are in `TurnLinesProofs` |

Conventions: variables carry the names of the fields they model; `pc[r]` is where a goroutine is;
*an action is a critical section, or a stretch of a goroutine between two of them that touches
nothing shared*. Variables marked *history* in a module record what happened; no guard of the
code's actions reads them, except to bound how often the client does something and in `ListRow`,
where what a list has seen is what the loop has gone through. A definition whose comment starts
with "Mutant" is a plausible bug of the action that follows it; the properties are checked to
detect them.

### ClientRpc

| Code | Action |
|---|---|
| `nextRequestID` (`S` 195) | `NextRequestID` |
| `registerPendingResponse` (`S` 200) | `RegisterPendingResponse`: takes an early answer out, or registers a channel |
| the write (`S` 229-239) | `WriteRequest`, which may fail |
| the select (`S` 241-258) | `SelectResponse`, `SelectDone`, both possible when both are ready |
| `unregisterPendingResponse`, deferred (`S` 217) | `UnregisterPendingResponse` |
| `handleClientResponse` (`R` 458-477) | `HandleClientResponse` under the lock, `SendToChannel` after it |

Keys stand for the text of `rpcIDKey`; `Foreign` are keys that no call of ours can have. A
caller is one goroutine of the executor; `NextTurn` gives it a new context.

### PromptTurn

`ReadRequest` is the scan loop that starts a goroutine; `CancelSession` and `CallCancel` are the
two halves of `cancelSession` (the flag and the look-up under the lock, the call after it), and
the scan loop reads nothing in between. `NewSession`, `LoadSession` and `StartPrompt` are the
handlers up to their first answer or flag. A prompt then goes through `CheckFlag` (`R` 245),
`SetActiveCancel` (251), `EmitContext`/`WriteContext` (254-290), `StreamReply` (292),
`EmitReply`/`WriteReply` (312), `FinalCheck` (323) or, from a failure, `FailedFlag` and
`FailedContext`, the two reads of the test at `R` 304; `Respond` writes the answer and
`ClearActiveCancel` is the deferred clean-up. `EndOfInput`, `EndServeContext`, `ServeReturns` and
`OutputFails` are the rest of `Serve`. `Sequential` restricts the client: it waits for the answer
of a session's request before it sends another for that session. `hit`, `due` and `cancels` say
which turn each `session/cancel` was read for.

A write holds the mutex of `rpcWriter` until the client has read, and looks at no context
(`S` 379-388): `output` is `open`, `stalled` while the client does not read
(`OutputStalls`/`OutputResumes`), or `gone` (`OutputFails`). Nothing is written while it is stalled
(`CanWrite`), and an update is two steps, since the context may end, or be cancelled, while it
waits. A write that fails is only logged (`S` 284, 373-389), so a turn goes on without a reader.

### SessionStore

A binding (`cwd`, `mcpServers`) and the capabilities are represented by how often they were
written. `LockSessions` and `PutSession` are the two sides of waiting for `sessionsMu.Lock`: in
between, as Go's `RWMutex` does, no new reader is let in, and `PutSession` waits for readers to
leave. `LockForReading`, `ListRow` and `ListEnds` are `session/list`, which holds `sessionsMu`
across its rows while `BindSession` and `StreamReply` work under `session.mu` alone. `GetSession`
is a read lock of its own. `before[r]` are the requests that were answered when `r` was sent;
`saw` and `stamps` are what a request wrote or read. The clock does not go backwards. `Reject` is
for the requests whose parameters `Read` found bad, and for no other.

### WebSocketBridge

`ReadText`/`ReadAnswer`/`ReadFails`/`ReadEnds`/`WriteStringFails` are the inbound pump,
`PipeLine`/`WriteText`/`WriteTextFails`/`LineTooLong`/`OutputEnds` the outbound pump,
`Lock`/`ScanLine`/`ScanAnswer`/`ScanEnds`/`ServeEnds` are `Endpoint.Serve` around
`Server.Serve`, and `CloseOut`/`CloseConn`/`CloseIn`/`Join` the end of `ServeWebSocket` in the
order of its lines. A handler writes its response (`WriteResponse`); those in `Asks` make a tool
call first: `AskClient` writes the request, and `CallOver` is the `select` of `callClient`, which
ends with an answer from any connection or with the context of `ServeWebSocket`, and not because
the peer has left (`S` 241-258). Pipes have no buffer, so a write is complete when the pump has
taken the line. `writer` is `s.writer`, which every `Serve` overwrites. What the peer and the
caller's context may do, and need not, is in `Peer`: it sends, answers, reads (`WriteText` returns)
and leaves.

### HttpBridge

A POST is a connection of `WebSocketBridge` without pumps, whose output is a buffer and whose body
stands in place of the inbound pump. `PostArrives` is its head; after it, also while the POST has
the lock and `Serve` reads (`H` 38-42), `PostClient` sends a line of the body, an answer to a tool
call or the end of the body, or goes away. `ServePost` takes `Endpoint.mu`,
`ScanLine`/`ScanAnswer`/`BodyEnds` are the scan loop, `AskBuffer` the request of a tool call, which
goes to the buffer, `WriteBuffer` a response, and `SendReply` the end of the HTTP handler
(`H` 42-53). A body over its limit, a line over the limit of the scanner and a client that is gone
end the reading with an error. The 400 of `H` 44 needs `io.EOF`, which a scanner never returns.

`HttpBridge` implements `EndpointContract` (`EndpointSpec`): the connection that has the server is
the one that holds `Endpoint.mu`, a connection has begun once it has had the lock, and a request
is `sent` when it is read from the peer or from a body, `handled` from its start to the end of the
write of its response, tool calls included (`Stage`), and `answered` then. `Got` is what the peer
was given: the messages of a WebSocket connection as they are written, the whole buffer of a POST
with its 200 and nothing with its 500. In the contract `Lock`, `ServeEnds`, `Join` and `SendReply`
are `Begin`, `End` and `Return`, `PipeLine` and `WriteBuffer` are `Answer`, `WriteText` is
`Deliver`; tool calls, closing and the ends of pumps are stutters.

### TurnStream

| Code | Action |
|---|---|
| `handlePrompt` up to its first update (`R` 226-262) | `StartPrompt`: the turn goes on, or is cancelled by its flag |
| `newRuntimeToolInvoker` (`T` 73) | `NewRuntimeToolInvoker` copies the capabilities |
| the updates of the handler (`R` 258-290, 312, 328) | `EmitUpdate`, `EmitReply`, `UpdateRefused`, `WriteUpdate`, `WriteSessionInfo` |
| `AgentMessageChunk` of the executor (`U`) | `AgentMessageChunk`; other updates of it take the same path |
| `InvokeTool` (`T` 159-363) | `InvokeTool`, `CallClient`, `Answered`, `ContextDone`, `CloseToolCall` |
| `replyToClientRequest`, `QueueClientReply` (`D`) | `ReplyToClientRequest`, `QueueClientReply` |
| `parseTurn` (`D`) | `ParseTurn`, by the places of lines in the output (`At`) |
| `Initialize`, the end of the context | `Initialize`, `EndContext` |

`assertContext` (`U` 202) and the write are two steps: `AssertContext` puts the update in `held`,
`WriteUpdate` writes it. A line is written when `readLoop` has taken it, and `readLoop` answers a
request before it takes the next line. What the other modules decide is taken over as their
result: the stop reason of a turn is either of those `PromptTurn` may give, and an answer finds
its call as `RpcContract` says. Assumed here: the prompt has text; the output does not fail
(`PromptTurn` has that); `StreamReply` emits its updates one at a time and returns after the tool
calls that it started; tool-call identifiers are distinct; replies are prepared before the prompt.

### Driver

`Register`/`LockWrite`/`WriteFails`/`SelectResponse`/`SelectTimeout`/`SelectDone`/`Unregister`
are `Do`, `ReadLine`/`Deliver`/`Reply`/`ReplyFails`/`ReaderEnds` are `readLoop`,
`CloseBegins`/`Cancel`/`CloseIn`/`CloseReturns` are `Close` and the `Scan*` and `Handler*`
actions are the server at the other end. A line is its kind and the call that it belongs to.

## 3. Runs

`tlc -config <cfg> <module>`; sizes and times are for two workers on a small machine.

| Run (cfg, module) | Instance | Asks |
|---|---|---|
| `ClientRpc_bridge.cfg`, `MCClientRpc` | 2 callers, 2 identifiers, 1 foreign key; 376k states | `ReaderNeverBlocks`, `NoLostResponse`, `PendingIsLive`, the refinement `ContractSpec`, and `AnsweredOrCancelledReturns` |
| `PromptTurn_sequential.cfg`, `MCPromptTurn` | waiting client, 3 requests, 1 session, 2 cancellations; 690k | `CancelHonoured` |
| `PromptTurn_mixed.cfg`, `MCPromptTurn` | any client, 2 requests of any method, a session and a made-up one, 1 cancellation, an output that stalls, resumes and fails; 374k | `CancelTakesEffect`, `NoStaleRegistration`, `CancelledHasCause`, `EndedTurnFinishes`, `ServeStops` |
| `PromptTurn_lost_cancel.cfg`, `MCPromptTurn` | waiting client, 2 prompts | refutes `CancelReachesContext` |
| `SessionStore_store.cfg`, `MCSessionStore` | 3 requests of any method, 2 sessions, clock 1..2; 1263k | `ReadsAreFresh`, `TimesNeverGoBack`, `ListsAreComplete`, `KnownStaysKnown` |
| `SessionStore_progress.cfg`, `MCSessionStore` | 2 requests; 19k | `RequestsComplete` |
| `HttpBridge_shared.cfg`, `MCHttpBridge` | a WebSocket connection and a POST, 3 messages: one malformed, one long, one with a tool call; 408k | `NothingLeftBehind`, `HttpReplyComplete`, the refinement `EndpointSpec`, `EndedConnectionReturns`, `PostFreesEndpoint` |
| `WebSocketBridge_hang.cfg`, `MCWebSocketBridge` | 2 connections | refutes `EndpointIsShared` |
| `WebSocketBridge_lost_line.cfg`, `MCWebSocketBridge` | 1 message | refutes `EveryLineEmitted` |
| `Driver_pipes.cfg`, `MCDriver` | 2 calls, one with a long line, 1 line before each response; 163k | `ExchangeComplete`, `PipesDoNotDeadlock`, `ShutdownCompletes` |
| `Driver_timeout.cfg`, `MCDriver` | 2 calls, one with a long line | refutes `TimeoutBoundsDo` |
| `TurnStream_turn.cfg`, `MCTurnStream` | 2 tool calls of one tool, 1 chunk, 2 prepared replies (a result, an error), capabilities with the tool or without; 432k | `ToolCallsBracketed`, `OnlyAnnouncedTools`, `ReplyOnce`, `PreparedRepliesInOrder`, `UpdatesStop`, `ToolCallsEnd` |

Each module has one type invariant, `TypeOK`, checked by the run that has the largest instance of
it, except `PromptTurn`'s, which is checked with the waiting client and proved for all.

### Why the bounds are enough

* *Bridge.* The hazards are between one call and the scan loop, or between two calls that share
  the counter: two callers with two identifiers are the smallest instance with both. One caller
  can also make both calls, so that a late answer meets the next call.
* *Turns.* Every hazard is between a cancellation, the turn before and the turn after: three
  requests on one session in the sequential run allow a clean-up, a running turn and a load
  between them, and two cancellations show one that is read too late for its turn. The run with
  any client has two requests side by side, its two sessions show a cancellation that reaches the
  wrong one, and the second of them one that does not exist; its safety properties are proved
  for any number of requests.
* *Store.* One request makes something known, one is on its way, one asks. Two values of the
  clock are enough to go back, two sessions to have one present and one created meanwhile.
* *Transport, driver.* One actor stops while another holds the lock or the pipe: two of each.
  `Long` has a line over the limit of the scanners (4 MB), the only size that matters. A POST and
  a WebSocket connection meet at the lock and at `s.writer`; two connections of one kind meet
  there in the same way, which the runs `WebSocketBridge_*` and the theorems cover.
* *Turn stream.* Two tool calls of one method are needed for replies to be swapped, one chunk for
  a reply to be repeated, two sets of capabilities for a copy to be stale. The seven tools differ
  only in what they need (`Needs`), so one stands for them.

The theorems in section 5 remove these bounds for all the safety properties. Symmetry is declared
only over requests, and never where liveness is checked.

### Deadlock

Deadlock is checked in the runs of `ClientRpc`, `PromptTurn`, `SessionStore` and `TurnStream`,
whose only deliberate stutter is the end of `Serve`, every request answered, or the turn answered.
It is not checked where the system really may stop: a `Driver` on which nobody calls `Close` is
left with goroutines that wait, and `WebSocketBridge` and `HttpBridge` stop when all connections
have returned, or hang as `EndpointIsShared` shows, or when a POST asks a client that cannot see
it; `PipesDoNotDeadlock`, `ShutdownCompletes`, `EndedConnectionReturns` and `PostFreesEndpoint`
say which waits must end. The run of `PromptTurn` is never stuck in a stalled output because a
client can always resume.

### Fairness

Only weak fairness is used, for the Go scheduler: a goroutine that is able to go on eventually
does. A step that waits for somebody outside is never fair: no client, peer or caller has to send,
read, answer, end its body, cancel, time out or call `Close`, and the clock does not have to move.
Where a liveness property needs one of these, it says so as a premise or an exception:

* `PromptTurn`: `EndedTurnFinishes` and `ServeStops` are for a client that from some time on reads
  or is gone (`ReaderGoesOn`); one that is there and does not read keeps a turn in its write for
  ever, whatever contexts end, and `Serve` with it. `StreamReply` returns *once its context is
  done*. An executor that ignores its context keeps its turn; that it takes a context asks this.
* `WebSocketBridge`, `HttpBridge`: a handler comes to its write, which is the concern of
  `PromptTurn`. `EndedConnectionReturns` has three exceptions: a write to a pipe that nobody reads
  (`WriteStuck`, finding 2), a peer that is there and does not read (`PeerStalls`), and a tool call
  without an answer (`CallWaits`), which the peer's leaving does not end. `PostFreesEndpoint` asks
  that the body has ended and its tool calls were answered, or that the client has gone.
* `SessionStore`: steps at a write and `StreamReply` are not fair, so that `RequestsComplete` ends
  where a request comes to its first write. Bad parameters are rejected before any lock and are no
  way out for others.
* `Driver`: a handler takes its own steps at will and must only end once the context of `Serve`
  is done, by which the steps a handler *waits* for are still what has to be shown. Both ends of
  the pipes are in the model.
* `TurnStream`: nothing of the executor; `ToolCallsEnd` is owed by the tool calls and by
  `readLoop`, which takes every line at once.

## 4. Findings

1. **A cancellation that cannot interrupt** (`R` 441, run `PromptTurn_lost_cancel`). The answer of
   a turn is written before its deferred `clearActiveCancel`. A client that waits for the answer
   and prompts again can have its new turn registered in between, and the clean-up deletes the
   entry of the new turn: it cannot be interrupted. `CancelHonoured` shows what is left: the flag
   is still set, so that the turn ends as cancelled after `StreamReply` returned by itself.
2. **An endpoint held for ever** (`W` 83, run `WebSocketBridge_hang`). When `WriteText` fails, the
   outbound pump leaves without closing the read end of its pipe. A handler that writes later
   blocks, `Serve` waits for it, and `Endpoint.mu` is never released. The run has no tool calls, so
   that it shows this cause; with them there is a second one, which `CallWaits` names: a prompt
   that waits in `callClient` (`S` 241) for a peer that has left waits for a context that
   `ServeWebSocket` never cancels.
3. **A last line that is dropped** (`W` 98, run `WebSocketBridge_lost_line`). `conn.Close` comes
   before the wait for the outbound pump, which may still hold the line that it has read.
4. **A timeout that starts too late** (`D` 376, run `Driver_timeout`). `Do` writes before its
   `select`. After a line over 4 MB `Serve` has stopped reading, and the write never returns.

## 5. Proofs

`tlapm <module>` checks each of the eight proof modules with no obligation left. The assumptions
are those about constants named in the modules (`RpcAssumption`, `TurnAssumption`,
`BridgeAssumption`, `HttpAssumption`, `StoreAssumption`, `DriverAssumption`,
`TurnStreamAssumption`): they only keep the special values apart and bounds
natural. Sets are never assumed finite.

* **`ClientRpcProofs`**: `TypeCorrect`, `ReaderIsNeverBlocked`, `PendingIsAlwaysLive`,
  `ResponsesAreNotLost`, `BridgeImplementsContract`. None of the properties is inductive: that
  the channel is empty when the scan loop sends depends on where the identifier was before. The
  invariant `IInv` says that an identifier has one owner (`OwnIds`), that before its registration
  only an early answer can exist (`UnregisteredClean`), that one in the table was not answered
  (`PendingClean`), that a caller who waits is in the table or has its answer (`WaitingServed`),
  and that what is kept was received (`RepliesKept`). The refinement maps `issued` to
  `requestIDCounter`; `ContractStep` shows a contract step or a stutter for each action.
* **`PromptTurnProofs`**: `TypeCorrect`, `RegistryIsNeverStale`, `CancellationsHaveCause`,
  `CancelsAreHonoured`, `CancelsTakeEffect`. The argument is in layers, each of which uses the
  ones below. `Base`: types and what the place of a handler says of its request. `Registry`: an
  entry belongs to a turn that has still to delete it. `Cause`: a flag, a target or a cancelled
  context goes back to a `session/cancel` or to the end of `Serve`. `Bookkeeping`: what the
  history says of who was there. From these `CancelsAreHonoured` follows with an invariant which
  says where the cancellation of a turn that was hit is, in the flag or in its context, and
  `CancelsTakeEffect` with one that says who took the flag.
* **`WebSocketBridgeProofs`**: `TypeCorrect`, `RepliesAreNotMixed`, `NothingIsLeftBehind`. The
  invariant `Inv` ties `Endpoint.mu` to `s.writer` (`OneServes`), shows that handlers run inside
  the `Serve` that started them (`HandlersInside`), that lines on their way belong to the
  connection they are on (`LinesHome`), and that pumps are joined (`PumpsJoined`).
* **`SessionStoreProofs`**: `TypeCorrect`, `StoreIsLinearizable`, `TimesAreMonotone`,
  `SessionsStayKnown`, `ListsHoldEverything`. One lemma, `Growth`, says what every step does:
  versions and times grow, and what a request sees is what the store holds. Then what was seen is
  at most what is stored (`Seen`), an answered request sees nothing more, and a later one sees at
  least that; `Tells` adds what may be answered.

* **`HttpBridgeProofs`**: `SharedTypeCorrect`, `SharedRepliesAreNotMixed`,
  `HttpRepliesAreComplete`, `SharedNothingIsLeftBehind`, `TransportsImplementEndpoint`. The
  invariant of `WebSocketBridgeProofs` goes on to hold, since most steps are steps of
  `WebSocketBridge` (`HttpCases`); `PostInv` adds what the place of a POST says of its answer
  (`PostState`), that the scanner has one line before it and leaves none unless it fails, which is
  why the body of a 200 was read to its end (`OneLine`), and that what a handler of a POST did is
  in the buffer of that POST (`Buffered`), which needs the lock and `s.writer` to agree. The
  refinement needs one more fact: whoever holds the lock is inside `Serve` (`Holder`), so that a
  connection that returns no longer has the server. `Unseen` collects the stutters; `SharedSeen`,
  `SocketSeen`, `PostSeen` and `HandlerSeen` name the contract's step for every other action. A
  write becomes an `Answer` in the turn of its own connection because of `HandlersInside` and
  `OneServes`, and the reply of a POST is exactly its answers because of `Buffered` and
  `LinesHome`. `RepliesStayHome`, which the contract includes for all that a peer was given, is
  proved of both modules and is no property of a run.
* **`DriverProofs`**: `TypeCorrect`, `ExchangesAreComplete`. `Started` ties the range of an
  exchange to the handler of its call, `Writing` the line in the pipe to its writer, and
  `Delivered` follows a response from `readLoop` through the channel to the return of `Do`.
* **`TurnStreamProofs`**: `TypeCorrect`, `UpdatesDoStop`, `AskedAreAnnounced`. `Stopping` says
  that an update held when the context ends is the last one; `Asking` that the tools of the copy
  are announced before the executor runs (`Announced`), and that a call which asks is for one of
  them. Lines are only ever added (`OutGrows`), so an announcement stays before what follows it.
* **`TurnLinesProofs`**: `Bracketed`, `RepliedOnce`, `RepliesInOrder`. The three properties are
  about the output alone, and none is inductive: that the second line of a tool call comes after
  the first depends on how far the call is, and that the reply is not repeated on `chunkEmitted`.
  `LinesInv` goes both ways between the output and the state. `LineSays` reads the state off each
  line, and `Brackets` the lines off the state of each tool call, in the order `Place` gives to
  the kinds; outside `StreamReply` no call is open, so that the response follows all of them and
  is the last line. `Answers` says that a request which waits for `readLoop` is the last line,
  hence that replies are numbered in the order of the requests, `Chunks` which chunks are out at
  each point of the handler. What is selected from the output is stated by positions (`At`), so
  that no induction over the sequence is needed: a step adds at most one line (`Longer`).

Only model-checked: liveness, which is out of this prover's reach (`AnsweredOrCancelledReturns`,
`EndedTurnFinishes`, `ServeStops`, `RequestsComplete`, `EndedConnectionReturns`,
`PostFreesEndpoint`, `PipesDoNotDeadlock`, `ShutdownCompletes`, `ToolCallsEnd`).

## 6. What is not modelled

* The bytes of the line writer. Its mutex is held over `Write`, `WriteByte` and `Flush`
  (`S` 379-388), so that lines are whole; that it keeps its first error is in `PromptTurn`.
* Text: JSON, the wording of errors, `rpcIDKey`, `resolvePath`, previews, block and update
  contents, logging, the types of `protocol.go`. A message is its kind. In `acptest` the current
  session, which a test's own calls keep, and the formatting of a `Turn`.
* Several prompts at once in `TurnStream`: `parseTurn` takes the updates of any session, so that
  a `Turn` says something for one prompt at a time. `PromptTurn` has turns side by side.
* A `session_context.go` value is written once and only read; `SessionStore` has the copy it
  holds.
* The filter of `session/list`, which works on rows already read, and titles, which nothing sets.
* `session/cancel` next to a `session/load` that is not answered: neither code nor documents say
  which should win, and the properties about cancellation leave it out.
* Memory: early answers nobody asks for, flags of made-up sessions and the contexts of finished
  turns are kept; no behaviour depends on them.
* `Raw` (`U` 187-200), by which an executor can stream an `agent_message_chunk` of its own making:
  it does not set `chunkEmitted`, so that the reply is sent as well. `ReplyOnce` is about the
  chunks of `AgentMessageChunk`.
* Panics of a user's executor or client handler, and a client handler that calls `Do`.

## 7. What could come next

1. An abstract turn, with a cancellation at one instant, that `PromptTurn` implements for waiting
   clients.
2. The waits of `Driver` as a safety invariant: whoever waits for a pipe or a lock waits for
   someone who can go on.
