-------------------------- MODULE WebSocketBridge --------------------------
(***************************************************************************)
(* Connections that share one server through an Endpoint: ServeWebSocket   *)
(* with its two pumps and two pipes, Endpoint.Serve with its lock, and of  *)
(* Server.Serve what the transport sees, which is s.writer, the scan loop, *)
(* a goroutine per request and wg.Wait (connections/websocket.go,          *)
(* connections/endpoint.go, server.go).                                    *)
(*                                                                         *)
(* A message carries one request, or the answer to a tool call.  A         *)
(* goroutine handles a request and writes one line, its response, or two:  *)
(* a tool call (callClient) writes a request of its own first and waits    *)
(* for the answer.  For a message that is no JSON-RPC message the scan     *)
(* loop writes the error itself.  io.Pipe has no buffer: a write waits for *)
(* the reader, or fails when the write end is closed.  The peer need not   *)
(* read, send or answer.  The error that ServeWebSocket returns is left    *)
(* out.                                                                    *)
(***************************************************************************)
EXTENDS FiniteSets

CONSTANTS
  Conn,      \* calls of ServeWebSocket, one per connection
  Request,   \* messages the peers may send
  Bad,       \* those that are no valid JSON-RPC request
  Long,      \* those that are, or are answered with, a line over 4 MB
  Asks,      \* those whose handler makes a tool call
  None       \* no connection, no request

ASSUME BridgeAssumption ==
  /\ None \notin Conn \cup Request
  /\ Bad \cup Long \subseteq Request
  /\ Asks \subseteq Request \ Bad

VARIABLES
  mu,         \* Endpoint.mu: the connection that holds it
  writer,     \* s.writer: the connection it writes to
  main,       \* [Conn -> where ServeWebSocket is]
  inPump,     \* [Conn -> where the goroutine that reads the connection is]
  inOpen,     \* [Conn -> BOOLEAN] inWriter is not closed
  inAnswer,   \* [Conn -> Asks \cup {None}] the answer that inPump is writing
  answered,   \* tool calls whose answer was read, before or after they asked
  outPump,    \* [Conn -> where the goroutine that writes the connection is]
  held,       \* [Conn -> Request \cup {None}] the line outPump is writing
  outOpen,    \* [Conn -> BOOLEAN] outWriter is not closed
  conn,       \* [Conn -> "open", "gone" (the peer left) or "closed" (Close was called)]
  ctxDone,    \* [Conn -> BOOLEAN]
  job,        \* [Request -> where the request is]
  home,       \* [Request -> Conn \cup {None}] the connection it was sent on
  wlock,      \* [Conn -> Request \cup {None}] the handler inside rpcWriter.write
  emitted     \* [Conn -> SUBSET Request] responses the peer got

callVars == <<inAnswer, answered>>
inVars == <<inPump, inOpen, callVars>>
outVars == <<outPump, held, outOpen>>
peerVars == <<conn, ctxDone>>
vars == <<mu, writer, main, inPump, inOpen, inAnswer, answered, outPump, held, outOpen,
          conn, ctxDone, job, home, wlock, emitted>>

\* The handler of the request is inside Serve's WaitGroup.
Running == {"run", "ask", "wait", "write"}

Init ==
  /\ mu = None
  /\ writer = None
  /\ main = [c \in Conn |-> "lock"]
  /\ inPump = [c \in Conn |-> "read"]
  /\ inOpen = [c \in Conn |-> TRUE]
  /\ inAnswer = [c \in Conn |-> None]
  /\ answered = {}
  /\ outPump = [c \in Conn |-> "scan"]
  /\ held = [c \in Conn |-> None]
  /\ outOpen = [c \in Conn |-> TRUE]
  /\ conn = [c \in Conn |-> "open"]
  /\ ctxDone = [c \in Conn |-> FALSE]
  /\ job = [r \in Request |-> "unsent"]
  /\ home = [r \in Request |-> None]
  /\ wlock = [c \in Conn |-> None]
  /\ emitted = [c \in Conn |-> {}]

-----------------------------------------------------------------------------
(* The peer and the caller's context.                                      *)

PeerLeaves(c) ==
  /\ conn[c] = "open"
  /\ conn' = [conn EXCEPT ![c] = "gone"]
  /\ UNCHANGED <<mu, writer, main, inVars, outVars, ctxDone, job, home, wlock, emitted>>

ContextEnds(c) ==
  /\ ~ctxDone[c]
  /\ main[c] # "returned"
  /\ ctxDone' = [ctxDone EXCEPT ![c] = TRUE]
  /\ UNCHANGED <<mu, writer, main, inVars, outVars, conn, job, home, wlock, emitted>>

Broken(c) == conn[c] # "open" \/ ctxDone[c]

-----------------------------------------------------------------------------
(* The inbound pump.                                                       *)

ReadText(c, r) ==
  /\ inPump[c] = "read"
  /\ conn[c] = "open"
  /\ job[r] = "unsent"
  /\ inPump' = [inPump EXCEPT ![c] = "write"]
  /\ job' = [job EXCEPT ![r] = "carried"]
  /\ home' = [home EXCEPT ![r] = c]
  /\ UNCHANGED <<mu, writer, main, inOpen, callVars, outVars, peerVars, wlock, emitted>>

\* An answer to any tool call at all: identifiers can be guessed, and an answer
\* that comes before the call is kept for it.
ReadAnswer(c, r) ==
  /\ inPump[c] = "read"
  /\ conn[c] = "open"
  /\ r \in Asks \ answered
  /\ inPump' = [inPump EXCEPT ![c] = "write"]
  /\ inAnswer' = [inAnswer EXCEPT ![c] = r]
  /\ UNCHANGED <<mu, writer, main, inOpen, answered, outVars, peerVars, job, home, wlock,
                 emitted>>

\* The pump ends; its deferred Close ends the input of Serve.
InPumpEnds(c) ==
  /\ inPump' = [inPump EXCEPT ![c] = "done"]
  /\ inOpen' = [inOpen EXCEPT ![c] = FALSE]
  /\ UNCHANGED <<mu, writer, main, callVars, outVars, peerVars, job, home, wlock, emitted>>

ReadFails(c) ==
  /\ inPump[c] = "read"
  /\ Broken(c)
  /\ InPumpEnds(c)

\* The peer sends no more, and still reads.
ReadEnds(c) ==
  /\ inPump[c] = "read"
  /\ ~Broken(c)
  /\ InPumpEnds(c)

\* WriteString fails once inWriter was closed.
WriteStringFails(c) ==
  /\ inPump[c] = "write"
  /\ ~inOpen[c]
  /\ InPumpEnds(c)

-----------------------------------------------------------------------------
(* Endpoint.Serve and Server.Serve, called by ServeWebSocket.              *)

Lock(c) ==
  /\ main[c] = "lock"
  /\ mu = None
  /\ mu' = c
  /\ writer' = c
  /\ main' = [main EXCEPT ![c] = "serve"]
  /\ UNCHANGED <<inVars, outVars, peerVars, job, home, wlock, emitted>>

\* The loop is not inside the write of an error response.
InScan(c) ==
  /\ main[c] = "serve"
  /\ \A r \in Bad : home[r] = c => job[r] \notin {"run", "write"}

\* The scanner takes the line out of the pipe; its handler is started, or the
\* loop goes on to write an error.
ScanLine(r) ==
  /\ job[r] = "carried"
  /\ InScan(home[r])
  /\ inPump[home[r]] = "write"
  /\ job' = [job EXCEPT ![r] = "run"]
  /\ inPump' = [inPump EXCEPT ![home[r]] = "read"]
  /\ UNCHANGED <<mu, writer, main, inOpen, callVars, outVars, peerVars, home, wlock, emitted>>

\* handleClientResponse.  A session/cancel, which the loop handles as well, ends
\* the wait of a tool call just as an answer does.
ScanAnswer(c) ==
  /\ InScan(c)
  /\ inPump[c] = "write" /\ inAnswer[c] # None
  /\ answered' = answered \cup {inAnswer[c]}
  /\ inAnswer' = [inAnswer EXCEPT ![c] = None]
  /\ inPump' = [inPump EXCEPT ![c] = "read"]
  /\ UNCHANGED <<mu, writer, main, inOpen, outVars, peerVars, job, home, wlock, emitted>>

\* The line that comes next is too long for the scanner.
NextTooLong(c) ==
  inPump[c] = "write" /\ \E r \in Long : home[r] = c /\ job[r] = "carried"

\* The input ends, or the scanner gives up on a line and leaves the pump in the
\* middle of its write.
ScanEnds(c) ==
  /\ InScan(c)
  /\ ~inOpen[c] \/ NextTooLong(c)
  /\ main' = [main EXCEPT ![c] = "wait"]
  /\ UNCHANGED <<mu, writer, inVars, outVars, peerVars, job, home, wlock, emitted>>

\* The select of callClient: the answer, or the end of the context, which is
\* not cancelled because the peer has left.
\* Mutant: a tool call does not look at its context.
CallOver_Waits(r) == r \in answered
CallOver(r) == r \in answered \/ ctxDone[home[r]]

\* The handler comes to its response, after its tool call if it makes one.
Ready(r) == IF r \in Asks THEN job[r] = "wait" /\ CallOver(r) ELSE job[r] = "run"

\* A handler enters rpcWriter.write, on whatever s.writer is now.
EnterWrite(r, l) ==
  /\ wlock[writer] = None
  /\ wlock' = [wlock EXCEPT ![writer] = r]
  /\ job' = [job EXCEPT ![r] = l]
  /\ UNCHANGED <<mu, writer, main, inVars, outVars, peerVars, home, emitted>>

\* callClient writes its request.
AskClient(r) == r \in Asks /\ job[r] = "run" /\ EnterWrite(r, "ask")

WriteResponse(r) == Ready(r) /\ EnterWrite(r, "write")

\* Mutant: Serve does not wait for its handlers.
ServeEnds_NoWait(c) ==
  /\ main[c] = "wait"
  /\ main' = [main EXCEPT ![c] = "closeOut"]
  /\ mu' = None
  /\ UNCHANGED <<writer, inVars, outVars, peerVars, job, home, wlock, emitted>>

\* wg.Wait is over: Serve returns and the deferred Unlock follows.
ServeEnds(c) ==
  /\ main[c] = "wait"
  /\ \A r \in Request : home[r] = c => job[r] \notin Running
  /\ main' = [main EXCEPT ![c] = "closeOut"]
  /\ mu' = None
  /\ UNCHANGED <<writer, inVars, outVars, peerVars, job, home, wlock, emitted>>

-----------------------------------------------------------------------------
(* The outbound pump.                                                      *)

\* The pump's scanner takes the line out of the pipe, and the handler's write
\* returns.
PipeLine(c) ==
  /\ outPump[c] = "scan"
  /\ wlock[c] # None
  /\ held' = [held EXCEPT ![c] = wlock[c]]
  /\ outPump' = [outPump EXCEPT ![c] = "emit"]
  /\ job' = [job EXCEPT ![wlock[c]] = IF @ = "ask" THEN "wait" ELSE "done"]
  /\ wlock' = [wlock EXCEPT ![c] = None]
  /\ UNCHANGED <<mu, writer, main, inVars, outOpen, peerVars, home, emitted>>

\* The response that the pump holds; the request of a tool call is none.
HeldResponse(c) == {r \in Request : held[c] = r /\ job[r] = "done"}

\* Mutant: the line is still there after it was emitted.
WriteText_Keep(c) ==
  /\ outPump[c] = "emit"
  /\ conn[c] = "open"
  /\ emitted' = [emitted EXCEPT ![c] = @ \cup HeldResponse(c)]
  /\ outPump' = [outPump EXCEPT ![c] = "scan"]
  /\ UNCHANGED <<mu, writer, main, inVars, held, outOpen, peerVars, job, home, wlock>>

WriteText(c) ==
  /\ outPump[c] = "emit"
  /\ conn[c] = "open"
  /\ emitted' = [emitted EXCEPT ![c] = @ \cup HeldResponse(c)]
  /\ held' = [held EXCEPT ![c] = None]
  /\ outPump' = [outPump EXCEPT ![c] = "scan"]
  /\ UNCHANGED <<mu, writer, main, inVars, outOpen, peerVars, job, home, wlock>>

\* The scanner gives up on a line that is too long, in the middle of the
\* handler's write.
LineTooLong(c) ==
  /\ outPump[c] = "scan"
  /\ wlock[c] \in Long
  /\ outPump' = [outPump EXCEPT ![c] = "done"]
  /\ UNCHANGED <<mu, writer, main, inVars, held, outOpen, peerVars, job, home, wlock,
                 emitted>>

\* The pump gives up and leaves the read end of the pipe open.
WriteTextFails(c) ==
  /\ outPump[c] = "emit"
  /\ Broken(c)
  /\ held' = [held EXCEPT ![c] = None]
  /\ outPump' = [outPump EXCEPT ![c] = "done"]
  /\ UNCHANGED <<mu, writer, main, inVars, outOpen, peerVars, job, home, wlock, emitted>>

OutputEnds(c) ==
  /\ outPump[c] = "scan"
  /\ ~outOpen[c]
  /\ outPump' = [outPump EXCEPT ![c] = "done"]
  /\ UNCHANGED <<mu, writer, main, inVars, held, outOpen, peerVars, job, home, wlock,
                 emitted>>

-----------------------------------------------------------------------------
(* The end of ServeWebSocket.                                              *)

CloseOut(c) ==
  /\ main[c] = "closeOut"
  /\ outOpen' = [outOpen EXCEPT ![c] = FALSE]
  /\ main' = [main EXCEPT ![c] = "closeConn"]
  /\ UNCHANGED <<mu, writer, inVars, outPump, held, peerVars, job, home, wlock, emitted>>

CloseConn(c) ==
  /\ main[c] = "closeConn"
  /\ conn' = [conn EXCEPT ![c] = IF @ = "open" THEN "closed" ELSE @]
  /\ main' = [main EXCEPT ![c] = "closeIn"]
  /\ UNCHANGED <<mu, writer, inVars, outVars, ctxDone, job, home, wlock, emitted>>

\* Mutant: the pipe to the scanner is left open.
CloseIn_Skip(c) ==
  /\ main[c] = "closeIn"
  /\ main' = [main EXCEPT ![c] = "join"]
  /\ UNCHANGED <<mu, writer, inVars, outVars, peerVars, job, home, wlock, emitted>>

CloseIn(c) ==
  /\ main[c] = "closeIn"
  /\ inOpen' = [inOpen EXCEPT ![c] = FALSE]
  /\ main' = [main EXCEPT ![c] = "join"]
  /\ UNCHANGED <<mu, writer, inPump, callVars, outVars, peerVars, job, home, wlock, emitted>>

Join(c) ==
  /\ main[c] = "join"
  /\ inPump[c] = "done" /\ outPump[c] = "done"
  /\ main' = [main EXCEPT ![c] = "returned"]
  /\ UNCHANGED <<mu, writer, inVars, outVars, peerVars, job, home, wlock, emitted>>

-----------------------------------------------------------------------------

InPump(c) == ReadFails(c) \/ WriteStringFails(c)
OutPump(c) == PipeLine(c) \/ LineTooLong(c) \/ WriteTextFails(c) \/ OutputEnds(c)
Main(c) == Lock(c) \/ ScanAnswer(c) \/ ScanEnds(c) \/ ServeEnds(c) \/ CloseOut(c)
             \/ CloseConn(c) \/ CloseIn(c) \/ Join(c)
Handler(r) == ScanLine(r) \/ AskClient(r) \/ WriteResponse(r)
Peer(c) ==
  \/ PeerLeaves(c) \/ ContextEnds(c) \/ ReadEnds(c) \/ WriteText(c)
  \/ \E r \in Request : ReadText(c, r) \/ ReadAnswer(c, r)

Next ==
  \/ \E c \in Conn : Peer(c) \/ InPump(c) \/ OutPump(c) \/ Main(c)
  \/ \E r \in Request : Handler(r)

Spec == Init /\ [][Next]_vars

(* Goroutines that can run do.  A handler comes to its tool call and to its *)
(* response, which is PromptTurn's concern; a connection answers a read or  *)
(* a write at once when it is broken.  Of the peers and the contexts        *)
(* nothing is assumed, nor of WriteText, which waits for the peer to read.  *)
Fairness ==
  /\ \A c \in Conn : WF_vars(InPump(c)) /\ WF_vars(OutPump(c)) /\ WF_vars(Main(c))
  /\ \A r \in Request : WF_vars(Handler(r))

FairSpec == Spec /\ Fairness

-----------------------------------------------------------------------------
(* Properties.                                                             *)

\* Every variable has its type, and the pump holds a line exactly while it
\* writes one.
TypeOK ==
  /\ mu \in Conn \cup {None}
  /\ writer \in Conn \cup {None}
  /\ main \in [Conn -> {"lock", "serve", "wait", "closeOut", "closeConn", "closeIn", "join",
                        "returned"}]
  /\ inPump \in [Conn -> {"read", "write", "done"}]
  /\ inOpen \in [Conn -> BOOLEAN]
  /\ inAnswer \in [Conn -> Asks \cup {None}]
  /\ answered \in SUBSET Asks
  /\ outPump \in [Conn -> {"scan", "emit", "done"}]
  /\ held \in [Conn -> Request \cup {None}]
  /\ \A c \in Conn : outPump[c] = "emit" <=> held[c] # None
  /\ outOpen \in [Conn -> BOOLEAN]
  /\ conn \in [Conn -> {"open", "gone", "closed"}]
  /\ ctxDone \in [Conn -> BOOLEAN]
  /\ job \in [Request -> Running \cup {"unsent", "carried", "done"}]
  /\ home \in [Request -> Conn \cup {None}]
  /\ wlock \in [Conn -> Request \cup {None}]
  /\ emitted \in [Conn -> SUBSET Request]

\* A peer only gets answers to what it asked, although one field of the
\* server, overwritten by every Serve, says where all handlers write.
RepliesStayHome ==
  \A c \in Conn : \A r \in emitted[c] : home[r] = c

\* Nothing reads or writes a connection after ServeWebSocket returned, and no
\* handler of it is left.
NothingLeftBehind ==
  \A c \in Conn : main[c] = "returned" =>
    /\ inPump[c] = "done" /\ outPump[c] = "done" /\ wlock[c] = None
    /\ \A r \in Request : home[r] = c => job[r] \in {"carried", "done"}

\* Serve has ended, or has only its handlers to wait for.
Ending(c) ==
  \/ main[c] = "serve" /\ inPump[c] = "done"
  \/ main[c] \in {"wait", "closeOut", "closeConn", "closeIn", "join"}

\* Something writes to a pipe that nobody reads any more.
WriteStuck(c) == outPump[c] = "done" /\ wlock[c] # None
\* The connection is whole and its peer does not read.
PeerStalls(c) == outPump[c] = "emit" /\ ~Broken(c)
\* A tool call waits for an answer; that the peer has left does not end it.
CallWaits(c) == \E r \in Asks : home[r] = c /\ job[r] = "wait" /\ ~CallOver(r)

\* Once it has the endpoint and its input has ended, or the scanner has given up
\* on it with the inbound pump in the middle of a write, ServeWebSocket returns,
\* unless a handler is kept: by a write, by the peer or by a tool call.
EndedConnectionReturns ==
  \A c \in Conn :
    Ending(c) ~> (main[c] = "returned" \/ WriteStuck(c) \/ PeerStalls(c) \/ CallWaits(c))

\* A connection that shares the endpoint gets its turn once the peer of the
\* one that has it is gone.
EndpointIsShared ==
  \A c, d \in Conn :
    (main[c] = "lock" /\ mu = d /\ conn[d] = "gone") ~> (mu # d)

\* Each line that the server wrote was emitted when ServeWebSocket returns, if
\* the peer stayed to read it and the context went on.
EveryLineEmitted ==
  \A c \in Conn :
    main[c] = "returned" /\ conn[c] = "closed" /\ ~ctxDone[c] =>
      \A r \in Request : home[r] = c /\ job[r] = "done" => r \in emitted[c]

=============================================================================
