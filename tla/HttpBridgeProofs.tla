-------------------------- MODULE HttpBridgeProofs --------------------------
(***************************************************************************)
(* Proofs about HttpBridge for any number of connections, POSTs and        *)
(* messages.  The invariant of WebSocketBridgeProofs goes on to hold, and  *)
(* what it says of a POST is completed here.                               *)
(***************************************************************************)
EXTENDS HttpBridge, WebSocketBridgeProofs

\* A POST that has not arrived has not begun; one that was answered with 200 was
\* read without an error.
PostState ==
  /\ status \in [Post -> {"unsent", "none", "200", "500"}]
  /\ scanErr \in [Post -> BOOLEAN]
  /\ \A p \in Post :
       /\ status[p] = "unsent" => main[p] = "lock" /\ outPump[p] = "scan"
       /\ status[p] # "unsent" => outPump[p] = "done"
       /\ status[p] = "200" => main[p] = "returned" /\ ~scanErr[p]
       /\ scanErr[p] => main[p] \notin {"lock", "serve"}

\* The scanner of a POST has one line before it, a request or an answer, and
\* leaves none there unless it fails.
OneLine ==
  \A p \in Post :
    /\ inPump[p] = "read" => inAnswer[p] = None
    /\ main[p] \notin {"lock", "serve"} /\ ~scanErr[p] => inPump[p] = "done"
    /\ \A r \in Request : home[r] = p /\ job[r] = "carried" =>
         /\ inPump[p] # "read" /\ (inPump[p] = "done" => scanErr[p])
         /\ inAnswer[p] = None
         /\ \A q \in Request : home[q] = p /\ job[q] = "carried" => q = r

\* What a handler of a POST writes goes to the buffer of that POST at once.
Buffered ==
  \A r \in Request : home[r] \in Post =>
    /\ job[r] \notin {"ask", "write"}
    /\ job[r] = "done" => r \in emitted[home[r]]

PostInv == PostState /\ OneLine /\ Buffered

\* The invariant holds at the start.
LEMMA PostInit == HttpInit => Inv /\ PostInv
  BY InvInit, BridgeAssumption, HttpAssumption
  DEF HttpInit, Init, PostInv, PostState, OneLine, Buffered

\* The steps of WebSocketBridge keep its invariant.
LEMMA BridgeStep == Inv /\ [Next]_vars => Inv'
  BY TypeStep, SentStep, OneServesStep, HandlersInsideStep, LinesHomeStep, PumpsJoinedStep DEF Inv

\* A step of HttpBridge is one of these.
LEMMA HttpCases ==
  ASSUME HttpNext
  PROVE  \/ Next /\ UNCHANGED httpVars /\ \E c \in Socket :
              Peer(c) \/ InPump(c) \/ OutPump(c) \/ Main(c)
         \/ Next /\ UNCHANGED httpVars /\ \E r \in Request : ScanLine(r)
         \/ Next /\ UNCHANGED httpVars /\ \E r \in Request : writer \in Socket /\ Enters(r)
         \/ Next /\ \E p \in Post : PostClient(p) \/ ServePost(p)
         \/ Next /\ UNCHANGED httpVars /\ \E p \in Post : ScanAnswer(p) \/ ServeEnds(p)
         \/ \E p \in Post : PostArrives(p)
         \/ \E p \in Post : BodyEnds(p)
         \/ \E p \in Post : SendReply(p)
         \/ \E r \in Request : AskBuffer(r)
         \/ \E r \in Request : WriteBuffer(r)
<1>1. ASSUME NEW c \in Socket, Peer(c) \/ InPump(c) \/ OutPump(c) \/ Main(c) PROVE Next
  BY <1>1 DEF Next, Socket
<1>2. ASSUME NEW r \in Request, ScanLine(r) \/ AskClient(r) \/ WriteResponse(r) PROVE Next
  BY <1>2 DEF Next, Handler
<1>3. ASSUME NEW r \in Request, AskClient(r) \/ WriteResponse(r) PROVE Enters(r)
  BY <1>3, HandlerEnters
<1>4. ASSUME NEW p \in Post, PostClient(p) PROVE Next
  BY <1>4, HttpAssumption DEF Next, Peer, PostClient
<1>5. ASSUME NEW p \in Post, ServePost(p) PROVE Next
  BY <1>5, HttpAssumption DEF Next, Main, ServePost
<1>6. ASSUME NEW p \in Post, ScanAnswer(p) \/ ServeEnds(p) PROVE Next
  BY <1>6, HttpAssumption DEF Next, Main
<1> QED
  BY <1>1, <1>2, <1>3, <1>4, <1>5, <1>6 DEF HttpNext, PostMain, AnyHandler

\* The new steps keep the invariant of WebSocketBridge too.
LEMMA InvStep == Inv /\ PostInv /\ [HttpNext]_allVars => Inv'
<1> SUFFICES ASSUME Inv, PostInv, [HttpNext]_allVars PROVE Inv'
  OBVIOUS
<1> USE DEF pumpVars, inVars, callVars, outVars, peerVars, httpVars, Running
<1>1. ASSUME [Next]_vars PROVE Inv'
  BY <1>1, BridgeStep
<1>2. ASSUME NEW p \in Post, PostArrives(p) PROVE Inv'
  <2>1. p \in Conn /\ main[p] = "lock" /\ outPump[p] = "scan"
    BY <1>2, HttpAssumption DEF PostArrives, PostInv, PostState
  <2>2. TypeOK'
    BY <1>2, <2>1 DEF PostArrives, Inv, TypeOK
  <2>3. Sent' /\ OneServes' /\ HandlersInside' /\ PumpsJoined'
    BY <1>2, <2>1 DEF PostArrives, Inv, TypeOK, Sent, OneServes, HandlersInside, PumpsJoined
  <2>4. LinesHome'
    BY <1>2, <2>1 DEF PostArrives, Inv, TypeOK, LinesHome
  <2> QED
    BY <2>2, <2>3, <2>4 DEF Inv
<1>3. ASSUME NEW p \in Post, BodyEnds(p) PROVE Inv'
  <2>1. p \in Conn /\ main[p] = "serve"
    BY <1>3, HttpAssumption DEF BodyEnds, InScan
  <2>2. TypeOK' /\ Sent' /\ LinesHome'
    BY <1>3, <2>1 DEF BodyEnds, Inv, TypeOK, Sent, LinesHome
  <2>3. OneServes' /\ HandlersInside' /\ PumpsJoined'
    BY <1>3, <2>1, BridgeAssumption
    DEF BodyEnds, Inv, TypeOK, Sent, OneServes, HandlersInside, PumpsJoined
  <2> QED
    BY <2>2, <2>3 DEF Inv
<1>4. ASSUME NEW p \in Post, SendReply(p) PROVE Inv'
  <2>1. p \in Conn /\ main[p] = "closeOut"
    BY <1>4, HttpAssumption DEF SendReply
  <2>2. outPump[p] = "done"
    BY <2>1 DEF PostInv, PostState
  <2>3. TypeOK' /\ Sent' /\ LinesHome'
    BY <1>4, <2>1 DEF SendReply, Inv, TypeOK, Sent, LinesHome
  <2>4. OneServes' /\ HandlersInside' /\ PumpsJoined'
    BY <1>4, <2>1, <2>2, BridgeAssumption
    DEF SendReply, Inv, TypeOK, Sent, OneServes, HandlersInside, PumpsJoined
  <2> QED
    BY <2>3, <2>4 DEF Inv
<1>5. ASSUME NEW r \in Request, AskBuffer(r) PROVE Inv'
  <2>1. job[r] = "run" /\ job' = [job EXCEPT ![r] = "wait"]
    BY <1>5 DEF AskBuffer
  <2>2. TypeOK' /\ Sent' /\ OneServes' /\ HandlersInside' /\ PumpsJoined'
    BY <1>5, <2>1 DEF AskBuffer, Inv, TypeOK, Sent, OneServes, HandlersInside, PumpsJoined
  <2>3. LinesHome'
    BY <1>5, <2>1 DEF AskBuffer, Inv, TypeOK, LinesHome
  <2> QED
    BY <2>2, <2>3 DEF Inv
<1>6. ASSUME NEW r \in Request, WriteBuffer(r) PROVE Inv'
  <2>1. writer \in Conn /\ job[r] \in {"run", "wait"}
    BY <1>6, HttpAssumption DEF WriteBuffer, Ready
  <2>2. home[r] = writer
    BY <2>1, BridgeAssumption DEF Inv, Sent, OneServes, HandlersInside
  <2>3. TypeOK' /\ Sent' /\ OneServes' /\ HandlersInside' /\ PumpsJoined'
    BY <1>6, <2>1 DEF WriteBuffer, Inv, TypeOK, Sent, OneServes, HandlersInside, PumpsJoined
  <2>4. LinesHome'
    BY <1>6, <2>1, <2>2 DEF WriteBuffer, Inv, TypeOK, LinesHome
  <2> QED
    BY <2>3, <2>4 DEF Inv
<1> QED
  BY <1>1, <1>2, <1>3, <1>4, <1>5, <1>6, HttpCases DEF allVars

\* What a step does that is none of a POST's.
PostKept ==
  /\ UNCHANGED httpVars
  /\ \A p \in Post : /\ main'[p] = main[p] /\ emitted'[p] = emitted[p]
                    /\ inPump'[p] = inPump[p] /\ outPump'[p] = outPump[p]
                    /\ inAnswer'[p] = inAnswer[p]
  /\ \A r \in Request : home[r] \in Post \/ home'[r] \in Post =>
       home'[r] = home[r] /\ job'[r] = job[r]

\* Such a step keeps the invariant.
LEMMA PostInvKept == PostInv /\ PostKept => PostInv'
<1> SUFFICES ASSUME PostInv, PostKept PROVE PostInv'
  OBVIOUS
<1>1. PostState'
  BY DEF PostInv, PostKept, PostState, httpVars
<1>2. OneLine'
  BY DEF PostInv, PostKept, OneLine, httpVars
<1>3. Buffered'
  BY DEF PostInv, PostKept, Buffered
<1> QED
  BY <1>1, <1>2, <1>3 DEF PostInv

\* The steps of a WebSocket connection are such steps.
LEMMA SocketKeeps ==
  ASSUME Inv, NEW c \in Socket, UNCHANGED httpVars,
         Peer(c) \/ InPump(c) \/ OutPump(c) \/ Main(c)
  PROVE  PostKept
<1> USE DEF pumpVars, inVars, callVars, outVars, peerVars
<1>1. c \in Conn /\ c \notin Post
  BY DEF Socket
<1>2. CASE PeerLeaves(c) \/ ContextEnds(c) \/ ReadEnds(c) \/ InPump(c)
  BY <1>1, <1>2, HttpAssumption DEF PeerLeaves, ContextEnds, ReadEnds, InPump, ReadFails,
     WriteStringFails, InPumpEnds, PostKept, Inv, TypeOK
<1>3. ASSUME NEW r \in Request, ReadText(c, r) PROVE PostKept
  <2>1. home[r] \notin Post
    BY <1>3, BridgeAssumption, HttpAssumption DEF ReadText, Inv, Sent
  <2> QED
    BY <1>1, <1>3, <2>1, HttpAssumption DEF ReadText, PostKept, Inv, TypeOK
<1>4. ASSUME NEW r \in Request, ReadAnswer(c, r) PROVE PostKept
  BY <1>1, <1>4, HttpAssumption DEF ReadAnswer, PostKept, Inv, TypeOK
<1>5. CASE PipeLine(c)
  <2>1. wlock[c] \in Request /\ home[wlock[c]] = c
    BY <1>1, <1>5 DEF PipeLine, Inv, TypeOK, LinesHome
  <2> QED
    BY <1>1, <1>5, <2>1, HttpAssumption DEF PipeLine, PostKept, Inv, TypeOK
<1>6. CASE LineTooLong(c) \/ WriteText(c) \/ WriteTextFails(c) \/ OutputEnds(c)
  BY <1>1, <1>6, HttpAssumption DEF LineTooLong, WriteText, WriteTextFails, OutputEnds, PostKept,
     Inv, TypeOK
<1>7. CASE Main(c)
  BY <1>1, <1>7, HttpAssumption DEF Main, Lock, ScanAnswer, ScanEnds, ServeEnds, CloseOut,
     CloseConn, CloseIn, Join, PostKept, Inv, TypeOK
<1> QED
  BY <1>2, <1>3, <1>4, <1>5, <1>6, <1>7 DEF Peer, OutPump

\* The client of a POST may send and leave at any time.
LEMMA PostClientKeeps ==
  ASSUME Inv, PostInv, NEW p \in Post, PostClient(p)
  PROVE  PostInv'
<1> USE DEF inVars, callVars, outVars, peerVars, httpVars
<1>1. p \in Conn /\ TypeOK /\ PostState /\ OneLine /\ Buffered
  BY HttpAssumption DEF Inv, PostInv
<1>2. PostState'
  <2>1. UNCHANGED <<main, outPump, status, scanErr>>
    BY DEF PostClient, ReadText, ReadAnswer, ReadEnds, InPumpEnds, ContextEnds
  <2> QED
    BY <1>1, <2>1 DEF PostState
<1>3. CASE ContextEnds(p)
  BY <1>1, <1>2, <1>3 DEF ContextEnds, PostClient, OneLine, Buffered, PostInv
<1>4. CASE ReadEnds(p)
  BY <1>1, <1>2, <1>4 DEF ReadEnds, InPumpEnds, PostClient, TypeOK, OneLine, Buffered, PostInv
<1>5. CASE \E r \in Request : ReadText(p, r) \/ ReadAnswer(p, r)
  <2>1. PICK r \in Request : ReadText(p, r) \/ ReadAnswer(p, r)
    BY <1>5
  <2>2. /\ inAnswer[p] = None /\ (main[p] \in {"lock", "serve"} \/ scanErr[p])
        /\ \A q \in Request : ~(home[q] = p /\ job[q] = "carried")
    BY <1>1, <2>1 DEF ReadText, ReadAnswer, OneLine
  <2>3. CASE ReadText(p, r)
    <3>1. home[r] \notin Post
      BY <2>3, BridgeAssumption, HttpAssumption DEF ReadText, Inv, Sent
    <3> QED
      BY <1>1, <1>2, <2>2, <2>3, <3>1
      DEF ReadText, PostClient, TypeOK, OneLine, Buffered, PostInv
  <2>4. CASE ReadAnswer(p, r)
    BY <1>1, <1>2, <2>2, <2>4 DEF ReadAnswer, PostClient, TypeOK, OneLine, Buffered, PostInv
  <2> QED
    BY <2>1, <2>3, <2>4
<1> QED
  BY <1>3, <1>4, <1>5 DEF PostClient

\* Every step keeps what is said of POSTs.
LEMMA PostStep == Inv /\ PostInv /\ [HttpNext]_allVars => PostInv'
<1> SUFFICES ASSUME Inv, PostInv, [HttpNext]_allVars PROVE PostInv'
  OBVIOUS
<1> USE DEF pumpVars, inVars, callVars, outVars, peerVars, httpVars
<1>0. TypeOK /\ PostState /\ OneLine /\ Buffered
  BY DEF Inv, PostInv
<1>1. ASSUME NEW r \in Request, ScanLine(r), UNCHANGED httpVars PROVE PostInv'
  <2>1. home[r] \in Conn /\ inPump[home[r]] = "write"
    BY <1>1 DEF ScanLine, Inv, Sent
  <2>2. PostState' /\ Buffered'
    BY <1>0, <1>1, <2>1 DEF ScanLine, TypeOK, PostState, Buffered
  <2>3. OneLine'
    BY <1>0, <1>1, <2>1 DEF ScanLine, InScan, TypeOK, PostState, OneLine
  <2> QED
    BY <2>2, <2>3 DEF PostInv
<1>2. ASSUME NEW r \in Request, writer \in Socket, Enters(r), UNCHANGED httpVars PROVE PostKept
  <2>1. home[r] = writer
    BY <1>2 DEF Enters, Running, Inv, Sent, OneServes, HandlersInside
  <2> QED
    BY <1>2, <2>1 DEF Enters, EnterWrite, Socket, PostKept, Inv, TypeOK
<1>3. ASSUME NEW p \in Post, ServePost(p) PROVE PostInv'
  <2>1. p \in Conn /\ main[p] = "lock"
    BY <1>3, HttpAssumption DEF ServePost, Lock
  <2>2. PostState' /\ Buffered'
    BY <1>0, <1>3, <2>1 DEF ServePost, Lock, PostState, Buffered, TypeOK
  <2>3. OneLine'
    BY <1>0, <1>3, <2>1 DEF ServePost, Lock, OneLine, TypeOK
  <2> QED
    BY <2>2, <2>3 DEF PostInv
<1>4. ASSUME NEW p \in Post, ScanAnswer(p), UNCHANGED httpVars PROVE PostInv'
  <2>1. /\ p \in Conn /\ main[p] = "serve" /\ inAnswer[p] # None
        /\ \A q \in Request : ~(home[q] = p /\ job[q] = "carried")
    BY <1>0, <1>4, HttpAssumption DEF ScanAnswer, InScan, OneLine
  <2>2. PostState' /\ Buffered'
    BY <1>0, <1>4, <2>1 DEF ScanAnswer, PostState, Buffered
  <2>3. OneLine'
    BY <1>0, <1>4, <2>1 DEF ScanAnswer, OneLine, TypeOK
  <2> QED
    BY <2>2, <2>3 DEF PostInv
<1>5. ASSUME NEW p \in Post, ServeEnds(p), UNCHANGED httpVars PROVE PostInv'
  BY <1>0, <1>5, HttpAssumption DEF ServeEnds, PostInv, PostState, OneLine, Buffered, TypeOK
<1>6. ASSUME NEW p \in Post, PostArrives(p) PROVE PostInv'
  BY <1>0, <1>6, HttpAssumption DEF PostArrives, PostInv, PostState, OneLine, Buffered, TypeOK
<1>7. ASSUME NEW p \in Post, BodyEnds(p) PROVE PostInv'
  <2>1. p \in Conn /\ main[p] = "serve" /\ status[p] \notin {"unsent", "200"} /\ ~scanErr[p]
    BY <1>0, <1>7, HttpAssumption DEF BodyEnds, InScan, PostState
  <2>2. /\ main' = [main EXCEPT ![p] = "wait"]
        /\ UNCHANGED <<inPump, inAnswer, outPump, job, home, emitted, status>>
        /\ \/ inPump[p] = "done" /\ scanErr' = scanErr
           \/ scanErr' = [scanErr EXCEPT ![p] = TRUE]
    BY <1>7 DEF BodyEnds
  <2>3. PostState' /\ Buffered'
    <3>1. scanErr' \in [Post -> BOOLEAN] /\ \A q \in Post : q # p => scanErr'[q] = scanErr[q]
      BY <1>0, <2>2 DEF PostState
    <3>2. PostState'
      BY <1>0, <2>1, <2>2, <3>1 DEF PostState, TypeOK
    <3> QED
      BY <1>0, <2>2, <3>2 DEF Buffered
  <2>4. OneLine'
    BY <1>0, <2>1, <2>2 DEF OneLine, PostState, TypeOK
  <2> QED
    BY <2>3, <2>4 DEF PostInv
<1>8. ASSUME NEW p \in Post, SendReply(p) PROVE PostInv'
  <2>1. p \in Conn /\ main[p] = "closeOut" /\ status[p] # "unsent"
    BY <1>0, <1>8, HttpAssumption DEF SendReply, PostState
  <2>2. PostState' /\ Buffered'
    BY <1>0, <1>8, <2>1 DEF SendReply, PostState, Buffered, TypeOK
  <2>3. OneLine'
    BY <1>0, <1>8, <2>1 DEF SendReply, OneLine, TypeOK
  <2> QED
    BY <2>2, <2>3 DEF PostInv
<1>9. ASSUME NEW r \in Request, AskBuffer(r) PROVE PostInv'
  BY <1>0, <1>9 DEF AskBuffer, PostInv, PostState, OneLine, Buffered, TypeOK
<1>10. ASSUME NEW r \in Request, WriteBuffer(r) PROVE PostInv'
  <2>1. home[r] = writer /\ writer \in Conn
    BY <1>10, BridgeAssumption, HttpAssumption
    DEF WriteBuffer, Ready, Running, Inv, Sent, OneServes, HandlersInside
  <2>2. PostState' /\ OneLine'
    BY <1>0, <1>10 DEF WriteBuffer, PostState, OneLine, TypeOK
  <2>3. Buffered'
    BY <1>0, <1>10, <2>1 DEF WriteBuffer, Buffered, TypeOK
  <2> QED
    BY <2>2, <2>3 DEF PostInv
<1>11. CASE UNCHANGED allVars
  BY <1>11, PostInvKept DEF allVars, vars, PostKept
<1> QED
  BY <1>1, <1>2, <1>3, <1>4, <1>5, <1>6, <1>7, <1>8, <1>9, <1>10, <1>11, PostInvKept,
     SocketKeeps, PostClientKeeps, HttpCases

\* Both invariants hold in every state.
LEMMA HttpInvariance == HttpSpec => [](Inv /\ PostInv)
  BY PostInit, InvStep, PostStep, PTL DEF HttpSpec

\* However POSTs and WebSocket connections share the server, a peer only gets
\* answers to what it asked.
THEOREM SharedRepliesAreNotMixed == HttpSpec => []RepliesStayHome
<1>1. Inv => RepliesStayHome
  BY DEF Inv, LinesHome, RepliesStayHome
<1> QED
  BY <1>1, HttpInvariance, PTL

\* A POST answered with 200 holds all the responses to its requests and nothing
\* else (serveHTTP).
THEOREM HttpRepliesAreComplete == HttpSpec => []HttpReplyComplete
<1>1. ASSUME Inv, PostInv, NEW p \in Post, status[p] = "200"
      PROVE  emitted[p] = {r \in Request : home[r] = p}
  <2>1. p \in Conn /\ main[p] = "returned" /\ ~scanErr[p]
    BY <1>1, HttpAssumption DEF PostInv, PostState
  <2>2. \A r \in Request : home[r] = p => job[r] = "done"
    <3> SUFFICES ASSUME NEW r \in Request, home[r] = p PROVE job[r] = "done"
      OBVIOUS
    <3>1. job[r] \notin Running
      BY <1>1, <2>1 DEF Inv, HandlersInside
    <3>2. job[r] # "carried"
      BY <1>1, <2>1 DEF PostInv, OneLine
    <3>3. job[r] # "unsent"
      BY <1>1, <2>1, BridgeAssumption DEF Inv, Sent
    <3> QED
      BY <1>1, <3>1, <3>2, <3>3 DEF Inv, TypeOK
  <2>3. emitted[p] \subseteq {r \in Request : home[r] = p}
    BY <1>1, <2>1 DEF Inv, TypeOK, LinesHome
  <2> QED
    BY <1>1, <2>2, <2>3 DEF PostInv, Buffered
<1>2. Inv /\ PostInv => HttpReplyComplete
  BY <1>1 DEF HttpReplyComplete
<1> QED
  BY <1>2, HttpInvariance, PTL

\* Nothing of a connection or a POST still runs when it has returned.
THEOREM SharedNothingIsLeftBehind == HttpSpec => []NothingLeftBehind
  BY InvNothingLeft, HttpInvariance, PTL

\* However POSTs and WebSocket connections share the server, every variable keeps
\* its type.
THEOREM SharedTypeCorrect == HttpSpec => []TypeOK
<1>1. Inv => TypeOK
  BY DEF Inv
<1> QED
  BY <1>1, HttpInvariance, PTL

-----------------------------------------------------------------------------
(* Both transports keep the contract of an endpoint.                       *)

\* Whoever holds the lock is inside Serve.
Holder == mu # None => main[mu] \in {"serve", "wait"}

\* The lock is given back before anything else happens to its connection.
LEMMA HolderStep == Inv /\ PostInv /\ Holder /\ [HttpNext]_allVars => Holder'
<1> SUFFICES ASSUME Inv, PostInv, Holder, [HttpNext]_allVars PROVE Holder'
  OBVIOUS
<1> USE BridgeAssumption, HttpAssumption
    DEF pumpVars, inVars, callVars, outVars, peerVars, httpVars, Holder
<1>1. ASSUME NEW c \in Conn, Lock(c) PROVE Holder'
  BY <1>1 DEF Lock, Inv, TypeOK
<1>2. ASSUME NEW c \in Conn, ServeEnds(c) PROVE Holder'
  BY <1>2 DEF ServeEnds
<1>3. ASSUME NEW c \in Conn,
             ScanEnds(c) \/ CloseOut(c) \/ CloseConn(c) \/ CloseIn(c) \/ Join(c)
             \/ (c \in Post /\ (BodyEnds(c) \/ SendReply(c)))
      PROVE  Holder'
  BY <1>3 DEF ScanEnds, CloseOut, CloseConn, CloseIn, Join, BodyEnds, SendReply, InScan, Inv, TypeOK
<1>4. ASSUME NEW c \in Conn, Peer(c) \/ InPump(c) \/ OutPump(c) \/ ScanAnswer(c)
      PROVE  UNCHANGED <<mu, main>>
  BY <1>4 DEF Peer, PeerLeaves, ContextEnds, ReadEnds, InPump, ReadFails, WriteStringFails,
     InPumpEnds, OutPump, PipeLine, LineTooLong, WriteText, WriteTextFails, OutputEnds, ReadText,
     ReadAnswer, ScanAnswer
<1>5. ASSUME NEW r \in Request, ScanLine(r) \/ Enters(r) \/ AskBuffer(r) \/ WriteBuffer(r)
      PROVE  UNCHANGED <<mu, main>>
  BY <1>5 DEF ScanLine, Enters, EnterWrite, AskBuffer, WriteBuffer
<1>6. ASSUME NEW p \in Post, PostArrives(p) \/ PostClient(p) PROVE UNCHANGED <<mu, main>>
  BY <1>6 DEF PostArrives, PostClient, ReadText, ReadAnswer, ReadEnds, InPumpEnds, ContextEnds
<1>7. CASE UNCHANGED <<mu, main>>
  BY <1>7
<1>8. CASE UNCHANGED allVars
  BY <1>8 DEF allVars, vars
<1> QED
  BY <1>1, <1>2, <1>3, <1>4, <1>5, <1>6, <1>7, <1>8, HttpCases DEF Main, ServePost, Socket

\* It holds in every state.
LEMMA HolderInvariance == HttpSpec => []Holder
<1>1. HttpInit => Holder
  BY DEF HttpInit, Init, Holder
<1> QED
  BY <1>1, HolderStep, HttpInvariance, PTL DEF HttpSpec

\* What the contract sees of the state.
Begun == {c \in Conn : main[c] # "lock"}
Returned == {c \in Conn : main[c] = "returned"}
Stages == [r \in Request |-> Stage[job[r]]]
Given == [c \in Conn |-> Got(c)]
Seen == <<mu, Begun, home, Stages, Given, Returned>>

\* Steps of pumps and pipes, of tool calls and of the way out are not seen.
LEMMA Unseen ==
  ASSUME TypeOK, UNCHANGED <<mu, home, emitted, status>>,
         \A c \in Conn : \/ main'[c] = main[c]
                         \/ /\ main[c] \notin {"lock", "returned"}
                            /\ main'[c] \notin {"lock", "returned"},
         \A r \in Request : job'[r] = job[r] \/ (job[r] \in Running /\ job'[r] \in Running)
  PROVE  UNCHANGED Seen
<1>1. Begun' = Begun /\ Returned' = Returned
  BY DEF Begun, Returned
<1>2. Stages' = Stages
  <2>1. \A r \in Request : Stage[job'[r]] = Stage[job[r]]
    BY DEF Stage, Running
  <2> QED
    BY <2>1 DEF Stages, Stage
<1>3. Given' = Given
  BY DEF Given, Got
<1> QED
  BY <1>1, <1>2, <1>3 DEF Seen

\* What is seen of a request, and of the answers to a peer.
LEMMA SeenParts ==
  ASSUME TypeOK
  PROVE  /\ \A r \in Request : Stages[r] = Stage[job[r]]
         /\ \A r \in Request, v \in {"carried", "run", "done"} :
              job' = [job EXCEPT ![r] = v] => Stages' = [Stages EXCEPT ![r] = Stage[v]]
         /\ job' = job => Stages' = Stages
         /\ main' = main => Begun' = Begun /\ Returned' = Returned
         /\ UNCHANGED <<emitted, status>> => Given' = Given
<1>1. ASSUME NEW r \in Request, NEW v \in {"carried", "run", "done"},
             job' = [job EXCEPT ![r] = v]
      PROVE  Stages' = [Stages EXCEPT ![r] = Stage[v]]
  <2>1. \A q \in Request : Stage[job'[q]] = IF q = r THEN Stage[v] ELSE Stage[job[q]]
    BY <1>1 DEF TypeOK
  <2>2. Stages' = [q \in Request |-> IF q = r THEN Stage[v] ELSE Stage[job[q]]]
    BY <2>1 DEF Stages, Stage
  <2> QED
    BY <2>2 DEF Stages
<1>2. job' = job => Stages' = Stages
  BY DEF Stages, Stage
<1>3. UNCHANGED <<emitted, status>> => Given' = Given
  BY DEF Given, Got
<1>4. \A r \in Request : Stages[r] = Stage[job[r]]
  BY DEF Stages
<1> QED
  BY <1>1, <1>2, <1>3, <1>4 DEF Begun, Returned

\* A request that goes on inside the turn of its connection.
LEMMA Advances ==
  ASSUME TypeOK, NEW r \in Request, NEW from, NEW to,
         mu = home[r], Stages[r] = from, Stages' = [Stages EXCEPT ![r] = to],
         UNCHANGED <<mu, home, main, Given>>
  PROVE  Endpoint!Advance(r, from, to)
<1>1. Begun' = Begun /\ Returned' = Returned
  BY DEF Begun, Returned
<1> QED
  BY <1>1 DEF Endpoint!Advance, Begun, Returned, Stages, Given

\* The handler of a request is in the turn of its connection.
LEMMA HandlerTurn ==
  ASSUME Inv, NEW r \in Request, job[r] \in Running
  PROVE  mu = home[r] /\ writer = home[r]
BY BridgeAssumption DEF Running, Inv, Sent, OneServes, HandlersInside

\* A response that was written: the contract's answer.
LEMMA AnswerSeen ==
  ASSUME Inv, NEW r \in Request, job[r] \in Running, job' = [job EXCEPT ![r] = "done"],
         UNCHANGED <<mu, home, main, Given>>
  PROVE  Endpoint!Next
<1>1. TypeOK /\ mu = home[r]
  BY HandlerTurn DEF Inv
<1>2. Stages[r] = Stage[job[r]] /\ Stages' = [Stages EXCEPT ![r] = Stage["done"]]
  BY <1>1, SeenParts
<1>3. Stage[job[r]] = "handled" /\ Stage["done"] = "answered"
  BY DEF Stage, Running
<1>4. Endpoint!Answer(r)
  BY <1>1, <1>2, <1>3, Advances DEF Endpoint!Answer
<1> QED
  BY <1>4 DEF Endpoint!Next

\* What both transports do: the peer sends or goes, the lock is taken and given
\* back.
LEMMA SharedSeen ==
  ASSUME Inv, PostInv, NEW c \in Conn, UNCHANGED httpVars,
         \/ ContextEnds(c) \/ ReadEnds(c) \/ ScanAnswer(c) \/ Lock(c) \/ ServeEnds(c)
         \/ \E r \in Request : ReadText(c, r) \/ ReadAnswer(c, r)
  PROVE  Endpoint!Next \/ UNCHANGED Seen
<1> USE BridgeAssumption DEF pumpVars, inVars, callVars, outVars, peerVars, httpVars
<1>0. TypeOK /\ status' = status
  BY DEF Inv
<1>1. CASE ContextEnds(c) \/ ReadEnds(c) \/ ScanAnswer(c) \/ \E r \in Request : ReadAnswer(c, r)
  <2>1. UNCHANGED <<mu, home, emitted, main, job>>
    BY <1>1 DEF ContextEnds, ReadEnds, InPumpEnds, ScanAnswer, ReadAnswer
  <2> QED
    BY <1>0, <2>1, Unseen
<1>2. CASE Lock(c)
  <2>1. /\ mu = None /\ mu' = c /\ c \notin Begun /\ UNCHANGED <<home, job, emitted>>
        /\ Begun' = Begun \cup {c} /\ Returned' = Returned
    BY <1>0, <1>2 DEF Lock, Begun, Returned, TypeOK
  <2>2. Stages' = Stages /\ Given' = Given
    BY <1>0, <2>1, SeenParts
  <2>3. Endpoint!Begin(c)
    BY <2>1, <2>2 DEF Endpoint!Begin, Begun, Returned, Stages, Given
  <2> QED
    BY <2>3 DEF Endpoint!Next
<1>3. CASE ServeEnds(c)
  <2>1. /\ mu = c /\ mu' = None /\ UNCHANGED <<home, job, emitted>>
        /\ \A r \in Request : home[r] = c => job[r] \notin Running
        /\ Begun' = Begun /\ Returned' = Returned
    BY <1>0, <1>3 DEF ServeEnds, Begun, Returned, Inv, TypeOK, OneServes
  <2>2. Stages' = Stages /\ Given' = Given
    BY <1>0, <2>1, SeenParts
  <2>3. \A r \in Request : home[r] = c => Stages[r] # "handled"
    BY <1>0, <2>1 DEF Stages, Stage, TypeOK, Running
  <2>4. Endpoint!End(c)
    BY <2>1, <2>2, <2>3 DEF Endpoint!End, Begun, Returned, Stages, Given
  <2> QED
    BY <2>4 DEF Endpoint!Next
<1>4. CASE \E r \in Request : ReadText(c, r)
  <2>1. PICK r \in Request : ReadText(c, r)
    BY <1>4
  <2>2. /\ job[r] = "unsent" /\ c \notin Returned /\ UNCHANGED <<mu, main, emitted>>
        /\ job' = [job EXCEPT ![r] = "carried"] /\ home' = [home EXCEPT ![r] = c]
    BY <1>0, <2>1 DEF ReadText, Inv, PumpsJoined, Returned
  <2>3. /\ Begun' = Begun /\ Returned' = Returned /\ Given' = Given
    BY <1>0, <2>2, SeenParts
  <2>4. Stages[r] = Stage["unsent"] /\ Stages' = [Stages EXCEPT ![r] = Stage["carried"]]
    BY <1>0, <2>2, SeenParts
  <2>5. Stage["unsent"] = "new" /\ Stage["carried"] = "sent"
    BY DEF Stage
  <2>6. Endpoint!Send(c, r)
    BY <2>2, <2>3, <2>4, <2>5 DEF Endpoint!Send, Stages, Given, Begun, Returned
  <2> QED
    BY <2>6 DEF Endpoint!Next
<1> QED
  BY <1>1, <1>2, <1>3, <1>4

\* The other steps of WebSocket connections.
LEMMA SocketSeen ==
  ASSUME Inv, PostInv, Holder, NEW c \in Socket, UNCHANGED httpVars,
         Peer(c) \/ InPump(c) \/ OutPump(c) \/ Main(c)
  PROVE  Endpoint!Next \/ UNCHANGED Seen
<1> USE BridgeAssumption DEF pumpVars, inVars, callVars, outVars, peerVars, httpVars
<1>0. TypeOK /\ c \in Conn /\ c \notin Post /\ status' = status
  BY DEF Inv, Socket
<1>1. CASE PeerLeaves(c) \/ InPump(c) \/ LineTooLong(c) \/ WriteTextFails(c) \/ OutputEnds(c)
  <2>1. UNCHANGED <<mu, home, emitted, main, job>>
    BY <1>1 DEF PeerLeaves, InPump, ReadFails, WriteStringFails, InPumpEnds, LineTooLong,
       WriteTextFails, OutputEnds
  <2> QED
    BY <1>0, <2>1, Unseen
<1>2. CASE ScanEnds(c) \/ CloseOut(c) \/ CloseConn(c) \/ CloseIn(c)
  <2>1. /\ UNCHANGED <<mu, home, emitted, job>>
        /\ main[c] \notin {"lock", "returned"} /\ main'[c] \notin {"lock", "returned"}
        /\ \A d \in Conn : d # c => main'[d] = main[d]
    BY <1>0, <1>2 DEF ScanEnds, CloseOut, CloseConn, CloseIn, InScan, TypeOK
  <2> QED
    BY <1>0, <2>1, Unseen
<1>3. CASE Join(c)
  <2>1. /\ c \in Begun \ Returned /\ mu # c /\ UNCHANGED <<mu, home, job, emitted>>
        /\ Begun' = Begun /\ Returned' = Returned \cup {c}
    BY <1>0, <1>3 DEF Join, Begun, Returned, Holder, TypeOK
  <2>2. Stages' = Stages /\ Given' = Given
    BY <1>0, <2>1, SeenParts
  <2>3. Endpoint!Return(c, FALSE)
    BY <2>1, <2>2 DEF Endpoint!Return, Begun, Returned, Stages, Given
  <2> QED
    BY <1>0, <2>3 DEF Endpoint!Next
<1>4. CASE PipeLine(c)
  <2>1. PICK r \in Request : r = wlock[c]
    BY <1>0, <1>4 DEF PipeLine, TypeOK
  <2>2. job[r] \in {"ask", "write"} /\ UNCHANGED <<mu, home, main, emitted>>
    BY <1>0, <1>4, <2>1 DEF PipeLine, Inv, LinesHome
  <2>3. CASE job[r] = "ask"
    <3>1. \A q \in Request : job'[q] = job[q] \/ (job[q] = "ask" /\ job'[q] = "wait")
      BY <1>0, <1>4, <2>1, <2>3 DEF PipeLine, TypeOK
    <3> QED
      BY <1>0, <2>2, <3>1, Unseen DEF Running
  <2>4. CASE job[r] = "write"
    <3>1. job' = [job EXCEPT ![r] = "done"]
      BY <1>4, <2>1, <2>4 DEF PipeLine
    <3>2. Given' = Given
      BY <1>0, <2>2, SeenParts
    <3> QED
      BY <2>2, <2>4, <3>1, <3>2, AnswerSeen DEF Running
  <2> QED
    BY <2>2, <2>3, <2>4
<1>5. CASE WriteText(c)
  <2>1. PICK r \in Request : r = held[c]
    BY <1>0, <1>5 DEF WriteText, TypeOK
  <2>2. home[r] = c /\ c \notin Returned /\ UNCHANGED <<mu, home, main, job>>
    BY <1>0, <1>5, <2>1 DEF WriteText, Inv, LinesHome, PumpsJoined, Returned
  <2>3. CASE job[r] # "done"
    <3>1. HeldResponse(c) = {}
      BY <2>1, <2>3 DEF HeldResponse
    <3>2. emitted' = emitted
      BY <1>0, <1>5, <3>1 DEF WriteText, TypeOK
    <3> QED
      BY <1>0, <2>2, <3>2, Unseen
  <2>4. CASE job[r] = "done"
    <3>1. HeldResponse(c) = {r}
      BY <2>1, <2>4 DEF HeldResponse
    <3>2. emitted' = [emitted EXCEPT ![c] = emitted[c] \cup {r}]
      BY <1>5, <3>1 DEF WriteText
    <3>3. Stages[r] = "answered" /\ Stages' = Stages /\ Begun' = Begun /\ Returned' = Returned
      BY <1>0, <2>2, <2>4, SeenParts DEF Stage
    <3>4. Given' = [Given EXCEPT ![c] = Given[c] \cup {r}]
      <4>1. \A d \in Conn : Got(d)' = IF d = c THEN Got(c) \cup {r} ELSE Got(d)
        BY <1>0, <3>2 DEF Got, TypeOK
      <4>2. Given' = [d \in Conn |-> IF d = c THEN Got(c) \cup {r} ELSE Got(d)]
        BY <4>1 DEF Given
      <4> QED
        BY <4>2 DEF Given
    <3>5. Endpoint!Deliver(c, r)
      BY <2>2, <3>3, <3>4
      DEF Endpoint!Deliver, Endpoint!Answered, Stages, Given, Begun, Returned
    <3> QED
      BY <1>0, <3>5 DEF Endpoint!Next
  <2> QED
    BY <2>3, <2>4
<1> QED
  BY <1>0, <1>1, <1>2, <1>3, <1>4, <1>5, SharedSeen DEF Peer, OutPump, Main

\* The other steps of POSTs.
LEMMA PostSeen ==
  ASSUME Inv, PostInv, Holder, NEW p \in Post, PostArrives(p) \/ PostClient(p) \/ PostMain(p)
  PROVE  Endpoint!Next \/ UNCHANGED Seen
<1> USE BridgeAssumption, HttpAssumption
    DEF pumpVars, inVars, callVars, outVars, peerVars, httpVars
<1>0. TypeOK /\ PostState /\ p \in Conn
  BY DEF Inv, PostInv
<1>1. CASE PostArrives(p)
  <2>1. /\ UNCHANGED <<mu, main, job, home, emitted>>
        /\ status' = [status EXCEPT ![p] = "none"] /\ status[p] = "unsent"
    BY <1>1 DEF PostArrives
  <2>2. Given' = Given
    <3>1. \A c \in Conn : Got(c)' = Got(c)
      BY <1>0, <2>1 DEF Got, PostState
    <3> QED
      BY <3>1 DEF Given
  <2> QED
    BY <1>0, <2>1, <2>2, SeenParts DEF Seen
<1>2. CASE BodyEnds(p)
  <2>1. /\ UNCHANGED <<mu, home, emitted, job, status>>
        /\ main[p] \notin {"lock", "returned"} /\ main'[p] \notin {"lock", "returned"}
        /\ \A d \in Conn : d # p => main'[d] = main[d]
    BY <1>0, <1>2 DEF BodyEnds, InScan, TypeOK
  <2> QED
    BY <1>0, <2>1, Unseen
<1>3. CASE SendReply(p)
  <2>1. /\ p \in Begun \ Returned /\ mu # p /\ UNCHANGED <<mu, home, job, emitted>>
        /\ Begun' = Begun /\ Returned' = Returned \cup {p}
    BY <1>0, <1>3 DEF SendReply, Begun, Returned, Holder, TypeOK
  <2>2. Stages' = Stages
    BY <1>0, <2>1, SeenParts
  <2>3. /\ status' = [status EXCEPT ![p] = IF scanErr[p] THEN "500" ELSE "200"]
        /\ status[p] # "200"
    BY <1>0, <1>3 DEF SendReply, PostState
  <2>4. \A c \in Conn : c # p => Got(c)' = Got(c)
    BY <1>0, <2>1, <2>3 DEF Got, PostState
  <2>5. CASE scanErr[p]
    <3>1. Got(p) = {} /\ Got(p)' = {}
      BY <1>0, <2>3, <2>5 DEF Got, PostState
    <3>2. Given' = Given
      BY <2>4, <3>1 DEF Given
    <3>3. Endpoint!Return(p, FALSE)
      BY <2>1, <2>2, <3>2 DEF Endpoint!Return, Begun, Returned, Stages, Given
    <3> QED
      BY <1>0, <3>3 DEF Endpoint!Next
  <2>6. CASE ~scanErr[p]
    <3>1. Got(p)' = emitted[p]
      BY <1>0, <2>1, <2>3, <2>6 DEF Got, PostState
    <3>2. emitted[p] = {r \in Request : home[r] = p /\ job[r] = "done"}
      BY <1>0 DEF Inv, LinesHome, PostInv, Buffered, TypeOK
    <3>3. \A r \in Request : Stages[r] = "answered" <=> job[r] = "done"
      BY <1>0 DEF Stages, Stage, TypeOK, Running
    <3>4. Endpoint!Answered(p) = emitted[p]
      BY <3>2, <3>3 DEF Endpoint!Answered, Stages
    <3>5. Given' = [Given EXCEPT ![p] = Endpoint!Answered(p)]
      <4>1. \A c \in Conn : Got(c)' = IF c = p THEN emitted[p] ELSE Got(c)
        BY <2>4, <3>1
      <4>2. Given' = [c \in Conn |-> IF c = p THEN emitted[p] ELSE Got(c)]
        BY <4>1 DEF Given
      <4> QED
        BY <3>4, <4>2 DEF Given
    <3>6. Endpoint!Return(p, TRUE)
      BY <2>1, <2>2, <3>5 DEF Endpoint!Return, Begun, Returned, Stages, Given
    <3> QED
      BY <1>0, <3>6 DEF Endpoint!Next
  <2> QED
    BY <2>5, <2>6
<1> QED
  BY <1>0, <1>1, <1>2, <1>3, SharedSeen DEF PostClient, PostMain, ServePost

\* The steps of handlers, of either transport.
LEMMA HandlerSeen ==
  ASSUME Inv, PostInv, NEW r \in Request, AnyHandler(r)
  PROVE  Endpoint!Next \/ UNCHANGED Seen
<1> USE BridgeAssumption, HttpAssumption
    DEF pumpVars, inVars, callVars, outVars, peerVars, httpVars
<1>0. TypeOK /\ PostState
  BY DEF Inv, PostInv
<1>1. CASE ScanLine(r) /\ UNCHANGED httpVars
  <2>1. mu = home[r] /\ job[r] = "carried"
    BY <1>0, <1>1 DEF ScanLine, InScan, Inv, OneServes, Sent
  <2>2. job' = [job EXCEPT ![r] = "run"] /\ UNCHANGED <<mu, home, main, emitted, status>>
    BY <1>1 DEF ScanLine
  <2>3. Stages[r] = Stage["carried"] /\ Stages' = [Stages EXCEPT ![r] = Stage["run"]]
    BY <1>0, <2>1, <2>2, SeenParts
  <2>4. Stage["carried"] = "sent" /\ Stage["run"] = "handled"
    BY DEF Stage
  <2>5. Given' = Given
    BY <1>0, <2>2, SeenParts
  <2>6. Endpoint!Handle(r)
    BY <1>0, <2>1, <2>2, <2>3, <2>4, <2>5, Advances DEF Endpoint!Handle
  <2> QED
    BY <2>6 DEF Endpoint!Next
<1>2. CASE Enters(r) /\ UNCHANGED httpVars
  <2>1. UNCHANGED <<mu, home, emitted, main, status>>
    BY <1>2 DEF Enters, EnterWrite
  <2>2. \A q \in Request : job'[q] = job[q] \/ (job[q] \in Running /\ job'[q] \in Running)
    BY <1>0, <1>2 DEF Enters, EnterWrite, TypeOK, Running
  <2> QED
    BY <1>0, <2>1, <2>2, Unseen
<1>3. CASE AskBuffer(r)
  <2>1. UNCHANGED <<mu, home, emitted, main, status>>
    BY <1>3 DEF AskBuffer
  <2>2. \A q \in Request : job'[q] = job[q] \/ (job[q] \in Running /\ job'[q] \in Running)
    BY <1>0, <1>3 DEF AskBuffer, TypeOK, Running
  <2> QED
    BY <1>0, <2>1, <2>2, Unseen
<1>4. CASE WriteBuffer(r)
  <2>1. job[r] \in Running /\ writer \in Post
    BY <1>4 DEF WriteBuffer, Ready, Running
  <2>2. status[writer] # "200"
    BY <1>0, <2>1, HandlerTurn DEF Inv, HandlersInside, PostState
  <2>3. /\ job' = [job EXCEPT ![r] = "done"] /\ UNCHANGED <<mu, home, main, status>>
        /\ emitted' = [emitted EXCEPT ![writer] = emitted[writer] \cup {r}]
    BY <1>4 DEF WriteBuffer
  <2>4. \A c \in Conn : Got(c)' = Got(c)
    BY <1>0, <2>1, <2>2, <2>3 DEF Got, TypeOK
  <2>5. Given' = Given
    BY <2>4 DEF Given
  <2> QED
    BY <2>1, <2>3, <2>5, AnswerSeen
<1> QED
  BY <1>1, <1>2, <1>3, <1>4, HandlerEnters DEF AnyHandler

\* Every step of the two transports is one of the contract's or none.
LEMMA EndpointStep ==
  Inv /\ PostInv /\ Holder /\ [HttpNext]_allVars => [Endpoint!Next]_(Endpoint!cvars)
<1> SUFFICES ASSUME Inv, PostInv, Holder, [HttpNext]_allVars
             PROVE  Endpoint!Next \/ UNCHANGED Seen
  BY DEF Endpoint!cvars, Seen, Begun, Stages, Given, Returned
<1>1. CASE UNCHANGED allVars
  <2>1. UNCHANGED <<mu, home, emitted, main, job, status>>
    BY <1>1 DEF allVars, vars, httpVars
  <2> QED
    BY <2>1, Unseen DEF Inv
<1> QED
  BY <1>1, SocketSeen, PostSeen, HandlerSeen DEF HttpNext

\* The contract starts where the endpoint does: no connection has the server,
\* nothing was sent, and nothing was given.
LEMMA EndpointInit == HttpInit => Endpoint!Init
<1> SUFFICES ASSUME HttpInit PROVE Endpoint!Init
  OBVIOUS
<1>1. Stages = [r \in Request |-> "new"]
  BY DEF HttpInit, Init, Stages, Stage
<1>2. Given = [c \in Conn |-> {}]
  BY DEF HttpInit, Init, Given, Got
<1>3. Begun = {} /\ Returned = {}
  BY DEF HttpInit, Init, Begun, Returned
<1> QED
  BY <1>1, <1>2, <1>3 DEF HttpInit, Init, Endpoint!Init, Stages, Given, Begun, Returned

\* WebSocket connections and POSTs that share a server implement the contract of
\* an endpoint, whatever their number: one connection at a time has the server,
\* what it asked is through before it gives it up, and no peer is given another's
\* answer or one after its connection returned (Endpoint.Serve, ServeWebSocket,
\* serveHTTP).
THEOREM TransportsImplementEndpoint == HttpSpec => EndpointSpec
<1>1. Inv /\ PostInv /\ Holder /\ [HttpNext]_allVars => [Endpoint!Next]_(Endpoint!cvars)
  BY EndpointStep
<1> QED
  BY <1>1, EndpointInit, HttpInvariance, HolderInvariance, PTL
  DEF HttpSpec, EndpointSpec, Endpoint!Spec

=============================================================================
