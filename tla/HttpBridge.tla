----------------------------- MODULE HttpBridge -----------------------------
(***************************************************************************)
(* The endpoint of WebSocketBridge, shared with HTTP clients as well: a    *)
(* POST (connections/http.go) waits for the same lock, its body is all the *)
(* input of one Server.Serve, and its client sees the output, which is     *)
(* collected in a buffer, only when Serve has returned.  A tool call that  *)
(* a prompt of the body makes (callClient) therefore asks a client that    *)
(* cannot see the request.                                                 *)
(*                                                                         *)
(* A POST is a connection of WebSocketBridge: "emitted" is its buffer, it  *)
(* has no outbound pump, and in place of the inbound one the scanner reads *)
(* the body, which goes on arriving while the POST has the lock.  "read":  *)
(* more may come; "write": a line is there; "done": the body has ended or  *)
(* was closed.  Requests with another method (405) and a handler without   *)
(* an endpoint (500) touch no state; io.EOF (400) is no error of Serve's.  *)
(***************************************************************************)
EXTENDS WebSocketBridge

CONSTANT Post    \* the HTTP requests among the connections

ASSUME HttpAssumption == Post \subseteq Conn

VARIABLES
  status,    \* [Post -> "unsent", "none" until it is answered, then "200" or "500"]
  scanErr    \* [Post -> BOOLEAN] the scanner ended with an error

httpVars == <<status, scanErr>>
allVars == <<vars, httpVars>>
pumpVars == <<inVars, outVars, peerVars>>

HttpInit ==
  /\ Init
  /\ status = [p \in Post |-> "unsent"]
  /\ scanErr = [p \in Post |-> FALSE]

-----------------------------------------------------------------------------

\* The head of a POST arrives and its handler starts.
PostArrives(p) ==
  /\ status[p] = "unsent"
  /\ status' = [status EXCEPT ![p] = "none"]
  /\ outPump' = [outPump EXCEPT ![p] = "done"]
  /\ UNCHANGED <<mu, writer, main, inVars, held, outOpen, peerVars, job, home, wlock, emitted,
                 scanErr>>

\* The client sends a line of the body or its end, whenever it likes, or goes
\* away, which nobody notices before Serve runs.
PostClient(p) ==
  /\ status[p] = "none"
  /\ \/ \E r \in Request : ReadText(p, r) \/ ReadAnswer(p, r)
     \/ ReadEnds(p)
     \/ ContextEnds(p)
  /\ UNCHANGED httpVars

ServePost(p) ==
  /\ status[p] = "none"
  /\ Lock(p)
  /\ UNCHANGED httpVars

\* The body ends, or a line or the body over its limit or a lost client ends
\* the reading with an error.
BodyEnds(p) ==
  /\ InScan(p)
  /\ \/ inPump[p] = "done" /\ UNCHANGED scanErr
     \/ (NextTooLong(p) \/ ctxDone[p]) /\ scanErr' = [scanErr EXCEPT ![p] = TRUE]
  /\ main' = [main EXCEPT ![p] = "wait"]
  /\ UNCHANGED <<mu, writer, pumpVars, job, home, wlock, emitted, status>>

\* callClient writes its request into the buffer, where its client cannot see it.
AskBuffer(r) ==
  /\ writer \in Post
  /\ r \in Asks /\ job[r] = "run"
  /\ job' = [job EXCEPT ![r] = "wait"]
  /\ UNCHANGED <<mu, writer, main, pumpVars, home, wlock, emitted, httpVars>>

\* A handler writes its response; s.writer is a buffer.
WriteBuffer(r) ==
  /\ writer \in Post
  /\ Ready(r)
  /\ emitted' = [emitted EXCEPT ![writer] = @ \cup {r}]
  /\ job' = [job EXCEPT ![r] = "done"]
  /\ UNCHANGED <<mu, writer, main, pumpVars, home, wlock, httpVars>>

\* Mutant: the error of Serve is not looked at.
SendReply_IgnoresError(p) ==
  /\ main[p] = "closeOut"
  /\ main' = [main EXCEPT ![p] = "returned"]
  /\ status' = [status EXCEPT ![p] = "200"]
  /\ inPump' = [inPump EXCEPT ![p] = "done"]
  /\ UNCHANGED <<mu, writer, inOpen, callVars, outVars, peerVars, job, home, wlock, emitted,
                 scanErr>>

\* Serve has returned: the client gets the buffer, or an error instead of it, and
\* the body is closed, read or not.
SendReply(p) ==
  /\ main[p] = "closeOut"
  /\ main' = [main EXCEPT ![p] = "returned"]
  /\ status' = [status EXCEPT ![p] = IF scanErr[p] THEN "500" ELSE "200"]
  /\ inPump' = [inPump EXCEPT ![p] = "done"]
  /\ UNCHANGED <<mu, writer, inOpen, callVars, outVars, peerVars, job, home, wlock, emitted,
                 scanErr>>

-----------------------------------------------------------------------------

Socket == Conn \ Post

PostMain(p) ==
  \/ ServePost(p)
  \/ (ScanAnswer(p) \/ ServeEnds(p)) /\ UNCHANGED httpVars
  \/ BodyEnds(p)
  \/ SendReply(p)
AnyHandler(r) ==
  \/ /\ ScanLine(r) \/ (writer \in Socket /\ (AskClient(r) \/ WriteResponse(r)))
     /\ UNCHANGED httpVars
  \/ AskBuffer(r)
  \/ WriteBuffer(r)

HttpNext ==
  \/ \E c \in Socket :
       (Peer(c) \/ InPump(c) \/ OutPump(c) \/ Main(c)) /\ UNCHANGED httpVars
  \/ \E p \in Post : PostArrives(p) \/ PostClient(p) \/ PostMain(p)
  \/ \E r \in Request : AnyHandler(r)

HttpSpec == HttpInit /\ [][HttpNext]_allVars

(* As in WebSocketBridge: what can run does, and no client owes anything.  *)
HttpFairness ==
  /\ \A c \in Socket : WF_vars(InPump(c)) /\ WF_vars(OutPump(c)) /\ WF_vars(Main(c))
  /\ \A p \in Post : WF_allVars(PostMain(p))
  /\ \A r \in Request : WF_allVars(AnyHandler(r))

HttpFairSpec == HttpSpec /\ HttpFairness

-----------------------------------------------------------------------------
(* Properties.                                                             *)

\* A POST that is answered with 200 holds the response to every request of its
\* body and nothing else, however many connections share the server and whoever
\* held the lock before.
HttpReplyComplete ==
  \A p \in Post : status[p] = "200" => emitted[p] = {r \in Request : home[r] = p}

\* A POST keeps the endpoint no longer than its body and its tool calls take: if
\* the body has come to its end and the calls of its requests were answered, or
\* if its client has gone, it gives the endpoint back.  (Otherwise it may keep it:
\* a client may stop in the middle of its body, and none can see what it is asked.)
PostFreesEndpoint ==
  \A p \in Post :
    (mu = p /\ (ctxDone[p] \/ (Ending(p) /\ \A r \in Asks : home[r] = p => r \in answered)))
      ~> (mu # p)

\* What the pumps, pipes, buffers and locks amount to, as the contract sees it:
\* where a request is, and what a peer was given, which is for a POST its reply.
Stage ==
  [unsent |-> "new", carried |-> "sent", run |-> "handled", ask |-> "handled",
   wait |-> "handled", write |-> "handled", done |-> "answered"]
Got(c) == IF c \in Post /\ status[c] # "200" THEN {} ELSE emitted[c]

\* Both transports, side by side on one server, keep the contract of an
\* endpoint: handlers run only in the turn of their connection, although any of
\* them could be the slow one; the turn ends when they are all through; and a
\* peer is given answers to its own requests, none after the return.
Endpoint == INSTANCE EndpointContract
  WITH serving <- mu,
       begun <- {c \in Conn : main[c] # "lock"},
       stage <- [r \in Request |-> Stage[job[r]]],
       got <- [c \in Conn |-> Got(c)],
       returned <- {c \in Conn : main[c] = "returned"}
EndpointSpec == Endpoint!Spec

=============================================================================
