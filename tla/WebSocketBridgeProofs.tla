------------------------ MODULE WebSocketBridgeProofs ------------------------
(***************************************************************************)
(* Proofs about WebSocketBridge for any number of connections and          *)
(* messages.                                                               *)
(***************************************************************************)
EXTENDS WebSocketBridge, TLAPS

\* A message belongs to a connection once it was read.
Sent ==
  \A r \in Request : IF job[r] = "unsent" THEN home[r] = None ELSE home[r] \in Conn

\* The connection inside Serve is the one that holds the lock, and the one that
\* s.writer writes to.
OneServes ==
  \A c \in Conn : main[c] \in {"serve", "wait"} => mu = c /\ writer = c

\* A handler only runs while the Serve that started it does.
HandlersInside ==
  \A r \in Request : job[r] \in Running => main[home[r]] \in {"serve", "wait"}

\* A line on its way out is the response to a message of the same connection, or
\* the request of a tool call that such a message makes.
LinesHome ==
  \A c \in Conn :
    /\ wlock[c] # None => job[wlock[c]] \in {"ask", "write"} /\ home[wlock[c]] = c
    /\ held[c] # None => job[held[c]] # "unsent" /\ home[held[c]] = c
    /\ \A r \in emitted[c] : job[r] = "done" /\ home[r] = c

\* ServeWebSocket has waited for both of its pumps.
PumpsJoined ==
  \A c \in Conn : main[c] = "returned" => inPump[c] = "done" /\ outPump[c] = "done"

Inv ==
  /\ TypeOK
  /\ Sent
  /\ OneServes
  /\ HandlersInside
  /\ LinesHome
  /\ PumpsJoined

\* A handler writes the request of its tool call, or its response.
Enters(r) == \E l \in {"ask", "write"} : job[r] \in {"run", "wait"} /\ EnterWrite(r, l)

\* Both ways into rpcWriter.write are of this form.
LEMMA HandlerEnters == \A r \in Request : AskClient(r) \/ WriteResponse(r) => Enters(r)
  BY DEF AskClient, WriteResponse, Ready, Enters

\* The invariant holds at the start.
LEMMA InvInit == Init => Inv
  BY BridgeAssumption DEF Init, Inv, TypeOK, Sent, OneServes, HandlersInside, LinesHome,
     PumpsJoined, Running

\* Types are kept.
LEMMA TypeStep == Inv /\ [Next]_vars => TypeOK'
<1> SUFFICES ASSUME Inv, [Next]_vars PROVE TypeOK'
  OBVIOUS
<1>1. ASSUME NEW c \in Conn, PeerLeaves(c) PROVE TypeOK'
  BY <1>1 DEF PeerLeaves, Inv, TypeOK, Running, inVars, callVars, outVars, peerVars
<1>2. ASSUME NEW c \in Conn, ContextEnds(c) PROVE TypeOK'
  BY <1>2 DEF ContextEnds, Inv, TypeOK, Running, inVars, callVars, outVars, peerVars
<1>3. ASSUME NEW c \in Conn, ReadEnds(c) PROVE TypeOK'
  BY <1>3 DEF ReadEnds, InPumpEnds, Inv, TypeOK, Running, inVars, callVars, outVars, peerVars
<1>4. ASSUME NEW c \in Conn, NEW r \in Request, ReadText(c, r) PROVE TypeOK'
  BY <1>4 DEF ReadText, Inv, TypeOK, Running, inVars, callVars, outVars, peerVars
<1>5. ASSUME NEW c \in Conn, NEW r \in Request, ReadAnswer(c, r) PROVE TypeOK'
  BY <1>5 DEF ReadAnswer, Inv, TypeOK, Running, outVars, peerVars
<1>6. ASSUME NEW c \in Conn, ReadFails(c) PROVE TypeOK'
  BY <1>6 DEF ReadFails, InPumpEnds, Inv, TypeOK, Running, inVars, callVars, outVars, peerVars
<1>7. ASSUME NEW c \in Conn, WriteStringFails(c) PROVE TypeOK'
  BY <1>7 DEF WriteStringFails, InPumpEnds, Inv, TypeOK, Running, inVars, callVars, outVars,
     peerVars
<1>8. ASSUME NEW c \in Conn, PipeLine(c) PROVE TypeOK'
  BY <1>8, BridgeAssumption DEF PipeLine, Inv, TypeOK, Running, inVars, callVars, outVars, peerVars
<1>9. ASSUME NEW c \in Conn, LineTooLong(c) PROVE TypeOK'
  BY <1>9 DEF LineTooLong, Inv, TypeOK, Running, inVars, callVars, outVars, peerVars
<1>10. ASSUME NEW c \in Conn, WriteText(c) PROVE TypeOK'
  BY <1>10, BridgeAssumption DEF WriteText, HeldResponse, Inv, TypeOK, Running, inVars, callVars,
     outVars, peerVars
<1>11. ASSUME NEW c \in Conn, WriteTextFails(c) PROVE TypeOK'
  BY <1>11 DEF WriteTextFails, Inv, TypeOK, Running, inVars, callVars, outVars, peerVars
<1>12. ASSUME NEW c \in Conn, OutputEnds(c) PROVE TypeOK'
  BY <1>12 DEF OutputEnds, Inv, TypeOK, Running, inVars, callVars, outVars, peerVars
<1>13. ASSUME NEW c \in Conn, Lock(c) PROVE TypeOK'
  BY <1>13, BridgeAssumption DEF Lock, Inv, TypeOK, Running, inVars, callVars, outVars, peerVars
<1>14. ASSUME NEW c \in Conn, ScanAnswer(c) PROVE TypeOK'
  BY <1>14 DEF ScanAnswer, InScan, Inv, TypeOK, Running, outVars, peerVars
<1>15. ASSUME NEW c \in Conn, ScanEnds(c) PROVE TypeOK'
  BY <1>15 DEF ScanEnds, InScan, Inv, TypeOK, Running, inVars, callVars, outVars, peerVars
<1>16. ASSUME NEW c \in Conn, ServeEnds(c) PROVE TypeOK'
  BY <1>16 DEF ServeEnds, Inv, TypeOK, Running, inVars, callVars, outVars, peerVars
<1>17. ASSUME NEW c \in Conn, CloseOut(c) PROVE TypeOK'
  BY <1>17 DEF CloseOut, Inv, TypeOK, Running, inVars, callVars, outVars, peerVars
<1>18. ASSUME NEW c \in Conn, CloseConn(c) PROVE TypeOK'
  BY <1>18 DEF CloseConn, Inv, TypeOK, Running, inVars, callVars, outVars, peerVars
<1>19. ASSUME NEW c \in Conn, CloseIn(c) PROVE TypeOK'
  BY <1>19 DEF CloseIn, Inv, TypeOK, Running, inVars, callVars, outVars, peerVars
<1>20. ASSUME NEW c \in Conn, Join(c) PROVE TypeOK'
  BY <1>20 DEF Join, Inv, TypeOK, Running, inVars, callVars, outVars, peerVars
<1>21. ASSUME NEW r \in Request, ScanLine(r) PROVE TypeOK'
  BY <1>21 DEF ScanLine, InScan, Inv, TypeOK, Running, Sent, inVars, callVars, outVars, peerVars
<1>22. ASSUME NEW r \in Request, Enters(r) PROVE TypeOK'
  <2>1. PICK l \in {"ask", "write"} : EnterWrite(r, l)
    BY <1>22 DEF Enters
  <2>2. job' \in [Request -> Running \cup {"unsent", "carried", "done"}]
    BY <2>1 DEF EnterWrite, Inv, TypeOK, Running
  <2> QED
    BY <2>1, <2>2 DEF EnterWrite, Inv, TypeOK, inVars, callVars, outVars, peerVars
<1>23. CASE UNCHANGED vars
  BY <1>23 DEF vars, Inv, TypeOK, Running
<1> QED
  BY HandlerEnters, <1>1, <1>2, <1>3, <1>4, <1>5, <1>6, <1>7, <1>8, <1>9, <1>10, <1>11, <1>12,
     <1>13, <1>14, <1>15,
     <1>16, <1>17, <1>18, <1>19, <1>20, <1>21, <1>22, <1>23 DEF Next, Peer, InPump, OutPump,
     Main, Handler, vars, inVars, callVars, outVars, peerVars

\* A message never changes its connection.
LEMMA SentStep == Inv /\ [Next]_vars => Sent'
<1> SUFFICES ASSUME Inv, [Next]_vars PROVE Sent'
  OBVIOUS
<1>1. ASSUME NEW c \in Conn, NEW r \in Request, ReadText(c, r) PROVE Sent'
  BY <1>1, BridgeAssumption DEF ReadText, Inv, TypeOK, Sent
<1>2. ASSUME NEW c \in Conn, PipeLine(c) PROVE Sent'
  BY <1>2 DEF PipeLine, Inv, TypeOK, Sent, LinesHome
<1>3. ASSUME NEW r \in Request, ScanLine(r) PROVE Sent'
  BY <1>3 DEF ScanLine, InScan, Inv, TypeOK, Sent
<1>4. ASSUME NEW r \in Request, Enters(r) PROVE Sent'
  BY <1>4 DEF Enters, EnterWrite, Inv, TypeOK, Sent
<1>5. CASE UNCHANGED <<job, home>>
  BY <1>5 DEF Inv, TypeOK, Sent
<1> QED
  BY HandlerEnters, <1>1, <1>2, <1>3, <1>4, <1>5 DEF Next, Peer, InPump, OutPump, Main, Handler,
     PeerLeaves, ContextEnds, ReadEnds, ReadAnswer, ReadFails, WriteStringFails, LineTooLong,
     WriteText, WriteTextFails, OutputEnds, Lock, ScanAnswer, ScanEnds, ServeEnds, CloseOut,
     CloseConn, CloseIn, Join, InPumpEnds, InScan, vars, inVars, callVars, outVars, peerVars

\* Only the holder of the lock sets s.writer.
LEMMA OneServesStep == Inv /\ [Next]_vars => OneServes'
<1> SUFFICES ASSUME Inv, [Next]_vars PROVE OneServes'
  OBVIOUS
<1>1. ASSUME NEW c \in Conn, Lock(c) PROVE OneServes'
  BY <1>1, BridgeAssumption DEF Lock, Inv, TypeOK, OneServes
<1>2. ASSUME NEW c \in Conn, ScanEnds(c) PROVE OneServes'
  BY <1>2 DEF ScanEnds, InScan, Inv, TypeOK, OneServes
<1>3. ASSUME NEW c \in Conn, ServeEnds(c) PROVE OneServes'
  BY <1>3 DEF ServeEnds, Inv, TypeOK, OneServes
<1>4. ASSUME NEW c \in Conn, CloseOut(c) PROVE OneServes'
  BY <1>4 DEF CloseOut, Inv, TypeOK, OneServes
<1>5. ASSUME NEW c \in Conn, CloseConn(c) PROVE OneServes'
  BY <1>5 DEF CloseConn, Inv, TypeOK, OneServes
<1>6. ASSUME NEW c \in Conn, CloseIn(c) PROVE OneServes'
  BY <1>6 DEF CloseIn, Inv, TypeOK, OneServes
<1>7. ASSUME NEW c \in Conn, Join(c) PROVE OneServes'
  BY <1>7 DEF Join, Inv, TypeOK, OneServes
<1>8. CASE UNCHANGED <<mu, writer, main>>
  BY <1>8 DEF Inv, TypeOK, OneServes
<1> QED
  BY HandlerEnters, <1>1, <1>2, <1>3, <1>4, <1>5, <1>6, <1>7, <1>8 DEF Next, Peer, InPump,
     OutPump, Main, Handler, PeerLeaves, ContextEnds, ReadEnds, ReadText, ReadAnswer, ReadFails,
     WriteStringFails, PipeLine, LineTooLong, WriteText, WriteTextFails, OutputEnds, ScanLine,
     ScanAnswer, Enters, EnterWrite, InPumpEnds, InScan, vars, inVars, callVars, outVars, peerVars

\* wg.Wait keeps Serve from returning before its handlers.
LEMMA HandlersInsideStep == Inv /\ [Next]_vars => HandlersInside'
<1> SUFFICES ASSUME Inv, [Next]_vars PROVE HandlersInside'
  OBVIOUS
<1>1. ASSUME NEW c \in Conn, NEW r \in Request, ReadText(c, r) PROVE HandlersInside'
  BY <1>1 DEF ReadText, Inv, TypeOK, HandlersInside, Running, Sent
<1>2. ASSUME NEW c \in Conn, PipeLine(c) PROVE HandlersInside'
  BY <1>2 DEF PipeLine, Inv, TypeOK, HandlersInside, Running
<1>3. ASSUME NEW c \in Conn, Lock(c) PROVE HandlersInside'
  BY <1>3 DEF Lock, Inv, TypeOK, HandlersInside, Running, Sent
<1>4. ASSUME NEW c \in Conn, ScanEnds(c) PROVE HandlersInside'
  BY <1>4 DEF ScanEnds, InScan, Inv, TypeOK, HandlersInside, Running, Sent
<1>5. ASSUME NEW c \in Conn, ServeEnds(c) PROVE HandlersInside'
  BY <1>5 DEF ServeEnds, Inv, TypeOK, HandlersInside, Running, Sent
<1>6. ASSUME NEW c \in Conn, CloseOut(c) PROVE HandlersInside'
  BY <1>6 DEF CloseOut, Inv, TypeOK, HandlersInside, Running
<1>7. ASSUME NEW c \in Conn, CloseConn(c) PROVE HandlersInside'
  BY <1>7 DEF CloseConn, Inv, TypeOK, HandlersInside, Running
<1>8. ASSUME NEW c \in Conn, CloseIn(c) PROVE HandlersInside'
  BY <1>8 DEF CloseIn, Inv, TypeOK, HandlersInside, Running
<1>9. ASSUME NEW c \in Conn, Join(c) PROVE HandlersInside'
  BY <1>9 DEF Join, Inv, TypeOK, HandlersInside, Running
<1>10. ASSUME NEW r \in Request, ScanLine(r) PROVE HandlersInside'
  BY <1>10 DEF ScanLine, InScan, Inv, TypeOK, HandlersInside, Running, Sent
<1>11. ASSUME NEW r \in Request, Enters(r) PROVE HandlersInside'
  BY <1>11 DEF Enters, EnterWrite, Inv, TypeOK, HandlersInside, Running
<1>12. CASE UNCHANGED <<main, job, home>>
  BY <1>12 DEF Inv, TypeOK, HandlersInside, Running
<1> QED
  BY HandlerEnters, <1>1, <1>2, <1>3, <1>4, <1>5, <1>6, <1>7, <1>8, <1>9, <1>10, <1>11, <1>12 DEF
     Next, Peer, InPump, OutPump, Main, Handler, PeerLeaves, ContextEnds, ReadEnds, ReadAnswer,
     ScanAnswer, ReadFails, WriteStringFails, LineTooLong, WriteText, WriteTextFails, OutputEnds,
     InPumpEnds, vars, inVars, callVars, outVars, peerVars

\* A handler finds in s.writer the connection its request came from.
LEMMA LinesHomeStep == Inv /\ [Next]_vars => LinesHome'
<1> SUFFICES ASSUME Inv, [Next]_vars PROVE LinesHome'
  OBVIOUS
<1>1. ASSUME NEW c \in Conn, NEW r \in Request, ReadText(c, r) PROVE LinesHome'
  BY <1>1 DEF ReadText, Inv, TypeOK, LinesHome, outVars
<1>2. ASSUME NEW c \in Conn, PipeLine(c) PROVE LinesHome'
  BY <1>2, BridgeAssumption DEF PipeLine, Inv, TypeOK, LinesHome, outVars
<1>3. ASSUME NEW c \in Conn, WriteText(c) PROVE LinesHome'
  BY <1>3, BridgeAssumption DEF WriteText, HeldResponse, Inv, TypeOK, LinesHome, outVars
<1>4. ASSUME NEW c \in Conn, WriteTextFails(c) PROVE LinesHome'
  BY <1>4, BridgeAssumption DEF WriteTextFails, Inv, TypeOK, LinesHome, outVars
<1>5. ASSUME NEW r \in Request, ScanLine(r) PROVE LinesHome'
  BY <1>5 DEF ScanLine, InScan, Inv, TypeOK, LinesHome, outVars
<1>6. ASSUME NEW r \in Request, Enters(r) PROVE LinesHome'
  BY <1>6, BridgeAssumption DEF Enters, EnterWrite, Running, Inv, TypeOK, LinesHome, Sent,
     HandlersInside, OneServes, outVars
<1>7. CASE UNCHANGED <<job, home, held, wlock, emitted>>
  BY <1>7 DEF Inv, TypeOK, LinesHome
<1> QED
  BY HandlerEnters, <1>1, <1>2, <1>3, <1>4, <1>5, <1>6, <1>7 DEF Next, Peer, InPump, OutPump,
     Main, Handler, PeerLeaves, ContextEnds, ReadEnds, ReadAnswer, ReadFails, WriteStringFails,
     LineTooLong, OutputEnds, Lock, ScanAnswer, ScanEnds, ServeEnds, CloseOut, CloseConn, CloseIn,
     Join, InPumpEnds, InScan, vars, inVars, callVars, outVars, peerVars

\* No pump starts again.
LEMMA PumpsJoinedStep == Inv /\ [Next]_vars => PumpsJoined'
<1> SUFFICES ASSUME Inv, [Next]_vars PROVE PumpsJoined'
  OBVIOUS
<1>1. ASSUME NEW c \in Conn, ReadEnds(c) PROVE PumpsJoined'
  BY <1>1 DEF ReadEnds, InPumpEnds, Inv, TypeOK, PumpsJoined, inVars, callVars, outVars
<1>2. ASSUME NEW c \in Conn, NEW r \in Request, ReadText(c, r) PROVE PumpsJoined'
  BY <1>2 DEF ReadText, Inv, TypeOK, PumpsJoined, inVars, callVars, outVars
<1>3. ASSUME NEW c \in Conn, NEW r \in Request, ReadAnswer(c, r) PROVE PumpsJoined'
  BY <1>3 DEF ReadAnswer, Inv, TypeOK, PumpsJoined, outVars
<1>4. ASSUME NEW c \in Conn, ReadFails(c) PROVE PumpsJoined'
  BY <1>4 DEF ReadFails, InPumpEnds, Inv, TypeOK, PumpsJoined, inVars, callVars, outVars
<1>5. ASSUME NEW c \in Conn, WriteStringFails(c) PROVE PumpsJoined'
  BY <1>5 DEF WriteStringFails, InPumpEnds, Inv, TypeOK, PumpsJoined, inVars, callVars, outVars
<1>6. ASSUME NEW c \in Conn, PipeLine(c) PROVE PumpsJoined'
  BY <1>6 DEF PipeLine, Inv, TypeOK, PumpsJoined, inVars, callVars, outVars
<1>7. ASSUME NEW c \in Conn, LineTooLong(c) PROVE PumpsJoined'
  BY <1>7 DEF LineTooLong, Inv, TypeOK, PumpsJoined, inVars, callVars, outVars
<1>8. ASSUME NEW c \in Conn, WriteText(c) PROVE PumpsJoined'
  BY <1>8 DEF WriteText, HeldResponse, Inv, TypeOK, PumpsJoined, inVars, callVars, outVars
<1>9. ASSUME NEW c \in Conn, WriteTextFails(c) PROVE PumpsJoined'
  BY <1>9 DEF WriteTextFails, Inv, TypeOK, PumpsJoined, inVars, callVars, outVars
<1>10. ASSUME NEW c \in Conn, OutputEnds(c) PROVE PumpsJoined'
  BY <1>10 DEF OutputEnds, Inv, TypeOK, PumpsJoined, inVars, callVars, outVars
<1>11. ASSUME NEW c \in Conn, Lock(c) PROVE PumpsJoined'
  BY <1>11 DEF Lock, Inv, TypeOK, PumpsJoined, inVars, callVars, outVars
<1>12. ASSUME NEW c \in Conn, ScanAnswer(c) PROVE PumpsJoined'
  BY <1>12 DEF ScanAnswer, InScan, Inv, TypeOK, PumpsJoined, outVars
<1>13. ASSUME NEW c \in Conn, ScanEnds(c) PROVE PumpsJoined'
  BY <1>13 DEF ScanEnds, InScan, Inv, TypeOK, PumpsJoined, inVars, callVars, outVars
<1>14. ASSUME NEW c \in Conn, ServeEnds(c) PROVE PumpsJoined'
  BY <1>14 DEF ServeEnds, Inv, TypeOK, PumpsJoined, inVars, callVars, outVars
<1>15. ASSUME NEW c \in Conn, CloseOut(c) PROVE PumpsJoined'
  BY <1>15 DEF CloseOut, Inv, TypeOK, PumpsJoined, inVars, callVars, outVars
<1>16. ASSUME NEW c \in Conn, CloseConn(c) PROVE PumpsJoined'
  BY <1>16 DEF CloseConn, Inv, TypeOK, PumpsJoined, inVars, callVars, outVars
<1>17. ASSUME NEW c \in Conn, CloseIn(c) PROVE PumpsJoined'
  BY <1>17 DEF CloseIn, Inv, TypeOK, PumpsJoined, inVars, callVars, outVars
<1>18. ASSUME NEW c \in Conn, Join(c) PROVE PumpsJoined'
  BY <1>18 DEF Join, Inv, TypeOK, PumpsJoined, inVars, callVars, outVars
<1>19. ASSUME NEW r \in Request, ScanLine(r) PROVE PumpsJoined'
  BY <1>19 DEF ScanLine, InScan, Inv, TypeOK, PumpsJoined, Sent, inVars, callVars, outVars
<1>20. CASE UNCHANGED <<main, inPump, outPump>>
  BY <1>20 DEF Inv, TypeOK, PumpsJoined
<1> QED
  BY HandlerEnters, <1>1, <1>2, <1>3, <1>4, <1>5, <1>6, <1>7, <1>8, <1>9, <1>10, <1>11, <1>12,
     <1>13, <1>14, <1>15,
     <1>16, <1>17, <1>18, <1>19, <1>20 DEF Next, Peer, InPump, OutPump, Main, Handler,
     PeerLeaves, ContextEnds, Enters, EnterWrite, vars, inVars, callVars, outVars, peerVars

\* The invariant holds in every reachable state.
LEMMA Invariance == Spec => []Inv
<1>1. Inv /\ [Next]_vars => Inv'
  BY TypeStep, SentStep, OneServesStep, HandlersInsideStep, LinesHomeStep,
     PumpsJoinedStep DEF Inv
<1> QED
  BY <1>1, InvInit, PTL DEF Spec

\* Every variable keeps its type.
THEOREM TypeCorrect == Spec => []TypeOK
<1>1. Inv => TypeOK
  BY DEF Inv
<1> QED
  BY <1>1, Invariance, PTL

\* A peer only ever gets the answers to its own messages, however many
\* connections share the server.
THEOREM RepliesAreNotMixed == Spec => []RepliesStayHome
<1>1. Inv => RepliesStayHome
  BY DEF Inv, LinesHome, RepliesStayHome
<1> QED
  BY <1>1, Invariance, PTL

\* The invariant says that nothing of a connection is left when it returns.
LEMMA InvNothingLeft == Inv => NothingLeftBehind
<1>1. ASSUME Inv, NEW c \in Conn, main[c] = "returned" PROVE
        /\ inPump[c] = "done" /\ outPump[c] = "done" /\ wlock[c] = None
        /\ \A r \in Request : home[r] = c => job[r] \in {"carried", "done"}
  <2>1. inPump[c] = "done" /\ outPump[c] = "done"
    BY <1>1 DEF Inv, PumpsJoined
  <2>2. \A r \in Request : home[r] = c => job[r] \notin Running
    BY <1>1 DEF Inv, HandlersInside
  <2>3. wlock[c] = None
    BY <1>1, <2>2 DEF Inv, TypeOK, LinesHome
  <2>4. \A r \in Request : home[r] = c => job[r] # "unsent"
    BY <1>1, BridgeAssumption DEF Inv, Sent
  <2> QED
    BY <1>1, <2>1, <2>2, <2>3, <2>4 DEF Inv, TypeOK
<1> QED
  BY <1>1 DEF NothingLeftBehind

\* When ServeWebSocket has returned nothing of the connection still runs.
THEOREM NothingIsLeftBehind == Spec => []NothingLeftBehind
  BY InvNothingLeft, Invariance, PTL

=============================================================================
