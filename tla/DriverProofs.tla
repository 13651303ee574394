---------------------------- MODULE DriverProofs ----------------------------
(***************************************************************************)
(* Proofs about Driver for any number of calls and lines.                  *)
(***************************************************************************)
EXTENDS Driver, TLAPS

\* A handler starts when the request of its call was read, and writes only
\* after that.
Started ==
  \A d \in Call :
    /\ pc[d] \in {"idle", "lock", "write"} => handler[d] = "none"
    /\ \A k \in DOMAIN messages :
         messages[k].call = d => handler[d] # "none" /\ startSeq[d] < k

\* The line in the pipe is that of a handler inside its write.
Writing == wlock # NoLine => handler[wlock.call] = "write"

\* Line n is the response to d, and nothing of d follows: its handler, as hs
\* says, is done.
Response(lines, hs, d, n) ==
  /\ n \in DOMAIN lines
  /\ lines[n] = [call |-> d, kind |-> "response"]
  /\ \A k \in DOMAIN lines : lines[k].call = d => k <= n
  /\ hs[d] = "done"

\* What readLoop delivers, a channel holds or Do returned is the response.
Delivered ==
  /\ reader = "deliver" => Response(messages, handler, about, Len(messages))
  /\ \A d \in Call :
       /\ respCh[d] # 0 => Response(messages, handler, d, respCh[d])
       /\ outcome[d] = "ok" => Response(messages, handler, d, last[d])

Inv == TypeOK /\ Started /\ Writing /\ Delivered

\* The invariant holds at the start.
LEMMA InvInit == Init => Inv
<1> SUFFICES ASSUME Init PROVE Inv
  OBVIOUS
<1>1. messages \in Seq(Line) /\ Len(messages) = 0 /\ DOMAIN messages = {}
  BY DEF Init
<1>2. TypeOK
  <2>1. messages \in Seq(Line) /\ {startSeq, last, respCh} \subseteq [Call -> 0 .. Len(messages)]
    BY <1>1 DEF Init
  <2>2. /\ pc \in [Call -> {"idle", "lock", "write", "select", "unregister", "returned"}]
        /\ outcome \in [Call -> {"open", "ok", "timeout", "canceled", "write_failed", "closed"}]
        /\ handler \in [Call -> {"none", "run", "write", "await", "done"}]
        /\ \A d \in Call : pc[d] = "write" <=> writeMu = d
    BY DriverAssumption DEF Init
  <2> QED
    BY <2>1, <2>2, DriverAssumption DEF Init, TypeOK
<1>3. Started /\ Writing /\ Delivered
  BY <1>1 DEF Init, Started, Writing, Delivered
<1> QED
  BY <1>2, <1>3 DEF Inv

\* A step that leaves the calls, the messages and the locks alone leaves their
\* part of the type invariant alone.
LEMMA CallsTyped ==
  ASSUME TypeOK, UNCHANGED <<doVars, messages>>
  PROVE  /\ pc' \in [Call -> {"idle", "lock", "write", "select", "unregister", "returned"}]
         /\ outcome' \in [Call -> {"open", "ok", "timeout", "canceled", "write_failed", "closed"}]
         /\ messages' \in Seq(Line)
         /\ startSeq' \in [Call -> 0 .. Len(messages')]
         /\ last' \in [Call -> 0 .. Len(messages')]
         /\ respCh' \in [Call -> 0 .. Len(messages')]
         /\ pending' \in SUBSET Call
<1>1. UNCHANGED <<pc, outcome, startSeq, last, respCh, pending, messages>>
  BY DEF doVars
<1> QED
  BY <1>1 DEF TypeOK

\* A step that leaves the reader of the driver and writeMu alone leaves their
\* part of the type invariant alone.
LEMMA ReaderTyped ==
  ASSUME TypeOK, UNCHANGED <<pc, writeMu, reader, about>>
  PROVE  /\ writeMu' \in Call \cup {Reader, None}
         /\ \A d \in Call : pc'[d] = "write" <=> writeMu' = d
         /\ (reader' = "write") <=> (writeMu' = Reader)
         /\ reader' \in {"scan", "reply", "write", "deliver", "done"}
         /\ about' \in Call \cup {None}
         /\ (reader' \in {"reply", "write", "deliver"}) => (about' \in Call)
BY DEF TypeOK

\* Likewise for the server at the other end of the pipes.
LEMMA ServerTyped ==
  ASSUME TypeOK, UNCHANGED serverVars
  PROVE  /\ serve' \in {"scan", "wait", "returned"}
         /\ handler' \in [Call -> {"none", "run", "write", "await", "done"}]
         /\ wlock' \in Line \cup {NoLine}
         /\ outOpen' \in BOOLEAN
BY DEF TypeOK, serverVars

\* Types are kept.
LEMMA TypeStep == Inv /\ [Next]_vars => TypeOK'
<1> SUFFICES ASSUME Inv, [Next]_vars PROVE TypeOK'
  OBVIOUS
<1> USE DriverAssumption DEF doVars, serverVars, readerVars, closeVars
<1>1. ASSUME NEW d \in Call, Register(d) PROVE TypeOK'
  <2>1. pc' \in [Call -> {"idle", "lock", "write", "select", "unregister", "returned"}]
    <3>1. \E l \in {"returned", "lock"} : pc' = [pc EXCEPT ![d] = l]
      BY <1>1 DEF Register, Goto
    <3> QED
      BY <3>1 DEF Inv, TypeOK
  <2>2. outcome' \in [Call -> {"open", "ok", "timeout", "canceled", "write_failed", "closed"}]
    BY <1>1 DEF Register, Goto, Returns, Inv, TypeOK
  <2>3. /\ startSeq' \in [Call -> 0 .. Len(messages')]
        /\ last' \in [Call -> 0 .. Len(messages')]
        /\ respCh' \in [Call -> 0 .. Len(messages')]
    <3>1. Len(messages) \in 0 .. Len(messages)
      BY DEF Inv, TypeOK
    <3>2. startSeq' \in [Call -> 0 .. Len(messages)]
      BY <1>1, <3>1 DEF Register, Inv, TypeOK
    <3>3. UNCHANGED <<last, respCh, messages>>
      BY <1>1 DEF Register
    <3> QED
      BY <3>2, <3>3 DEF Inv, TypeOK
  <2>4. \A e \in Call : pc'[e] = "write" <=> writeMu' = e
    BY <1>1 DEF Register, Goto, Returns, Inv, TypeOK
  <2>5. pending' \in SUBSET Call
    BY <1>1 DEF Register, Inv, TypeOK
  <2>6. UNCHANGED <<writeMu, inOpen, serve, handler, wlock, outOpen, reader, about, messages,
                    closed, ctxDone, close>>
    BY <1>1 DEF Register
  <2>7. /\ messages' \in Seq(Line) /\ writeMu' \in Call \cup {Reader, None}
        /\ reader' = "write" <=> writeMu' = Reader
        /\ inOpen' \in BOOLEAN /\ serve' \in {"scan", "wait", "returned"}
        /\ handler' \in [Call -> {"none", "run", "write", "await", "done"}]
        /\ wlock' \in Line \cup {NoLine} /\ outOpen' \in BOOLEAN
    BY <2>6 DEF Inv, TypeOK
  <2>8. /\ reader' \in {"scan", "reply", "write", "deliver", "done"}
        /\ about' \in Call \cup {None}
        /\ reader' \in {"reply", "write", "deliver"} => about' \in Call
        /\ closed' \in BOOLEAN /\ ctxDone' \in BOOLEAN
        /\ close' \in {"idle", "cancel", "closeIn", "wait", "returned"}
    BY <2>6 DEF Inv, TypeOK
  <2> QED
    BY <2>1, <2>2, <2>3, <2>4, <2>5, <2>7, <2>8 DEF TypeOK
<1>2. ASSUME NEW d \in Call, LockWrite(d) PROVE TypeOK'
  BY <1>2 DEF LockWrite, Goto, Inv, TypeOK
<1>3. ASSUME NEW d \in Call, WriteFails(d) PROVE TypeOK'
  BY <1>3 DEF WriteFails, Goto, Returns, Inv, TypeOK
<1>4. ASSUME NEW d \in Call, SelectResponse(d) PROVE TypeOK'
  BY <1>4 DEF SelectResponse, Goto, Returns, Inv, TypeOK
<1>5. ASSUME NEW d \in Call, SelectTimeout(d) PROVE TypeOK'
  BY <1>5 DEF SelectTimeout, Goto, Returns, Inv, TypeOK
<1>6. ASSUME NEW d \in Call, SelectDone(d) PROVE TypeOK'
  BY <1>6 DEF SelectDone, Goto, Returns, Inv, TypeOK
<1>7. ASSUME NEW d \in Call, Unregister(d) PROVE TypeOK'
  BY <1>7 DEF Unregister, Goto, Inv, TypeOK
<1>8. ASSUME NEW d \in Call, ScanRequest(d) PROVE TypeOK'
  BY <1>8 DEF ScanRequest, Goto, Inv, TypeOK
<1>9. ASSUME ScanAnswer PROVE TypeOK'
  BY <1>9 DEF ScanAnswer, Inv, TypeOK
<1>10. ASSUME ScanEnds PROVE TypeOK'
  BY <1>10 DEF ScanEnds, Inv, TypeOK
<1>11. ASSUME ServeReturns PROVE TypeOK'
  <2>1. /\ serve' = "returned" /\ outOpen' = FALSE
        /\ UNCHANGED <<handler, wlock, inOpen, closed, ctxDone, close>>
        /\ UNCHANGED <<doVars, messages>> /\ UNCHANGED <<pc, writeMu, reader, about>>
    BY <1>11 DEF ServeReturns, doVars, readerVars, closeVars
  <2>2. /\ serve' \in {"scan", "wait", "returned"} /\ outOpen' \in BOOLEAN
        /\ handler' \in [Call -> {"none", "run", "write", "await", "done"}]
        /\ wlock' \in Line \cup {NoLine}
        /\ inOpen' \in BOOLEAN /\ closed' \in BOOLEAN /\ ctxDone' \in BOOLEAN
        /\ close' \in {"idle", "cancel", "closeIn", "wait", "returned"}
    BY <2>1 DEF Inv, TypeOK
  <2> QED
    BY <2>1, <2>2, CallsTyped, ReaderTyped DEF Inv, TypeOK
<1>12. ASSUME NEW d \in Call, NEW kind \in Kind, HandlerWrites(d, kind) PROVE TypeOK'
  <2>1. wlock' \in Line
    BY <1>12 DEF HandlerWrites, Line
  <2>2. handler' \in [Call -> {"none", "run", "write", "await", "done"}]
    BY <1>12 DEF HandlerWrites, Inv, TypeOK
  <2>3. UNCHANGED <<doVars, writeMu, inOpen, serve, outOpen, readerVars, closeVars>>
    BY <1>12 DEF HandlerWrites
  <2> QED
    BY <2>1, <2>2, <2>3 DEF Inv, TypeOK
<1>13. ASSUME NEW d \in Call, HandlerGivesUp(d) PROVE TypeOK'
  BY <1>13 DEF HandlerGivesUp, Inv, TypeOK
<1>14. ASSUME ReadLine PROVE TypeOK'
  <2>1. wlock \in Line /\ wlock.call \in Call
    BY <1>14 DEF ReadLine, Line, NoLine, Inv, TypeOK
  <2>2. /\ messages' \in Seq(Line)
        /\ {startSeq', last', respCh'} \subseteq [Call -> 0 .. Len(messages')]
    <3>1. messages' \in Seq(Line) /\ Len(messages') = Len(messages) + 1
      BY <1>14, <2>1 DEF ReadLine, Inv, TypeOK
    <3>2. 0 .. Len(messages) \subseteq 0 .. Len(messages')
      BY <3>1 DEF Inv, TypeOK
    <3>3. UNCHANGED <<startSeq, last, respCh>>
      BY <1>14 DEF ReadLine
    <3> QED
      BY <3>1, <3>2, <3>3 DEF Inv, TypeOK
  <2>3. handler' \in [Call -> {"none", "run", "write", "await", "done"}]
    <3>1. After[wlock.kind] \in {"run", "await", "done"}
      BY <2>1 DEF After, Line, Kind
    <3> QED
      BY <1>14, <2>1, <3>1 DEF ReadLine, Inv, TypeOK
  <2>4. /\ reader' \in {"scan", "reply", "deliver"}
        /\ about' \in Call \cup {None} /\ (reader' \in {"reply", "deliver"} => about' \in Call)
        /\ pending' \in SUBSET Call /\ reader # "write"
    BY <1>14, <2>1 DEF ReadLine, Inv, TypeOK
  <2>5. /\ wlock' = NoLine
        /\ UNCHANGED <<pc, outcome, writeMu, inOpen, serve, outOpen, closeVars>>
    BY <1>14 DEF ReadLine
  <2>6. /\ pc' \in [Call -> {"idle", "lock", "write", "select", "unregister", "returned"}]
        /\ outcome' \in [Call -> {"open", "ok", "timeout", "canceled", "write_failed", "closed"}]
        /\ writeMu' \in Call \cup {Reader, None}
        /\ \A d \in Call : pc'[d] = "write" <=> writeMu' = d
        /\ writeMu' # Reader
    BY <2>4, <2>5 DEF Inv, TypeOK
  <2>7. /\ wlock' \in Line \cup {NoLine} /\ inOpen' \in BOOLEAN /\ outOpen' \in BOOLEAN
        /\ serve' \in {"scan", "wait", "returned"}
        /\ closed' \in BOOLEAN /\ ctxDone' \in BOOLEAN
        /\ close' \in {"idle", "cancel", "closeIn", "wait", "returned"}
    BY <2>5 DEF Inv, TypeOK, closeVars
  <2> QED
    BY <2>2, <2>3, <2>4, <2>6, <2>7 DEF TypeOK
<1>15. ASSUME Deliver PROVE TypeOK'
  BY <1>15 DEF Deliver, Inv, TypeOK
<1>16. ASSUME Reply PROVE TypeOK'
  BY <1>16 DEF Reply, Inv, TypeOK
<1>17. ASSUME ReplyFails PROVE TypeOK'
  BY <1>17 DEF ReplyFails, Inv, TypeOK
<1>18. ASSUME ReaderEnds PROVE TypeOK'
  BY <1>18 DEF ReaderEnds, Inv, TypeOK
<1>19. ASSUME CloseBegins PROVE TypeOK'
  <2>1. inOpen' \in BOOLEAN /\ closed' \in BOOLEAN /\ ctxDone' \in BOOLEAN
        /\ close' \in {"idle", "cancel", "closeIn", "wait", "returned"}
    BY <1>19 DEF CloseBegins, Inv, TypeOK
  <2>2. UNCHANGED <<doVars, messages>> /\ UNCHANGED <<pc, writeMu, reader, about>>
        /\ UNCHANGED serverVars
    BY <1>19 DEF CloseBegins, doVars, readerVars
  <2> QED
    BY <2>1, <2>2, CallsTyped, ReaderTyped, ServerTyped DEF Inv, TypeOK
<1>20. ASSUME Cancel PROVE TypeOK'
  <2>1. inOpen' \in BOOLEAN /\ closed' \in BOOLEAN /\ ctxDone' \in BOOLEAN
        /\ close' \in {"idle", "cancel", "closeIn", "wait", "returned"}
    BY <1>20 DEF Cancel, Inv, TypeOK
  <2>2. UNCHANGED <<doVars, messages>> /\ UNCHANGED <<pc, writeMu, reader, about>>
        /\ UNCHANGED serverVars
    BY <1>20 DEF Cancel, doVars, readerVars
  <2> QED
    BY <2>1, <2>2, CallsTyped, ReaderTyped, ServerTyped DEF Inv, TypeOK
<1>21. ASSUME CloseIn PROVE TypeOK'
  <2>1. inOpen' \in BOOLEAN /\ closed' \in BOOLEAN /\ ctxDone' \in BOOLEAN
        /\ close' \in {"idle", "cancel", "closeIn", "wait", "returned"}
    BY <1>21 DEF CloseIn, Inv, TypeOK
  <2>2. UNCHANGED <<doVars, messages>> /\ UNCHANGED <<pc, writeMu, reader, about>>
        /\ UNCHANGED serverVars
    BY <1>21 DEF CloseIn, doVars, readerVars
  <2> QED
    BY <2>1, <2>2, CallsTyped, ReaderTyped, ServerTyped DEF Inv, TypeOK
<1>22. ASSUME CloseReturns PROVE TypeOK'
  <2>1. inOpen' \in BOOLEAN /\ closed' \in BOOLEAN /\ ctxDone' \in BOOLEAN
        /\ close' \in {"idle", "cancel", "closeIn", "wait", "returned"}
    BY <1>22 DEF CloseReturns, Inv, TypeOK
  <2>2. UNCHANGED <<doVars, messages>> /\ UNCHANGED <<pc, writeMu, reader, about>>
        /\ UNCHANGED serverVars
    BY <1>22 DEF CloseReturns, doVars, readerVars
  <2> QED
    BY <2>1, <2>2, CallsTyped, ReaderTyped, ServerTyped DEF Inv, TypeOK
<1>23. CASE UNCHANGED vars
  BY <1>23 DEF vars, Inv, TypeOK
<1> QED
  BY <1>1, <1>2, <1>3, <1>4, <1>5, <1>6, <1>7, <1>8, <1>9, <1>10, <1>11,
     <1>12, <1>13, <1>14, <1>15, <1>16, <1>17, <1>18, <1>19, <1>20, <1>21, <1>22, <1>23
  DEF Next, DoStep, HandlerStep, ScanStep, ReaderStep, CloseStep

\* The steps that leave the handlers and the messages alone.
LEMMA Cases ==
  ASSUME [Next]_vars
  PROVE  \/ UNCHANGED <<handler, messages, wlock>>
         \/ \E d \in Call : ScanRequest(d)
         \/ ScanAnswer
         \/ \E d \in Call, kind \in Kind : HandlerWrites(d, kind)
         \/ \E d \in Call : HandlerGivesUp(d)
         \/ ReadLine
<1> USE DEF doVars, serverVars, readerVars, closeVars
<1>1. ASSUME NEW d \in Call, Register(d) \/ DoStep(d) PROVE UNCHANGED <<handler, messages, wlock>>
  BY <1>1 DEF Register, DoStep, LockWrite, WriteFails, SelectResponse, SelectTimeout, SelectDone,
     Unregister
<1>2. ASSUME ScanEnds \/ ServeReturns \/ Deliver \/ Reply \/ ReplyFails \/ ReaderEnds
      PROVE  UNCHANGED <<handler, messages, wlock>>
  BY <1>2 DEF ScanEnds, ServeReturns, Deliver, Reply, ReplyFails, ReaderEnds
<1>3. ASSUME CloseBegins \/ CloseStep PROVE UNCHANGED <<handler, messages, wlock>>
  BY <1>3 DEF CloseBegins, CloseStep, Cancel, CloseIn, CloseReturns
<1> QED
  BY <1>1, <1>2, <1>3 DEF Next, HandlerStep, ScanStep, ReaderStep, vars

\* A handler starts after the request of its call was read.
LEMMA StartedStep == Inv /\ [Next]_vars => Started'
<1> SUFFICES ASSUME Inv, [Next]_vars PROVE Started'
  OBVIOUS
<1> USE DriverAssumption DEF doVars, serverVars, readerVars, closeVars
<1>1. ASSUME NEW d \in Call, Register(d) PROVE Started'
  <2>1. handler[d] = "none" /\ \A k \in DOMAIN messages : messages[k].call # d
    BY <1>1 DEF Register, Inv, Started
  <2> QED
    BY <1>1, <2>1 DEF Register, Goto, Inv, TypeOK, Started
<1>2. ASSUME NEW d \in Call, DoStep(d) PROVE Started'
  BY <1>2 DEF DoStep, LockWrite, WriteFails, SelectResponse, SelectTimeout, SelectDone, Unregister,
     Goto, Inv, TypeOK, Started
<1>3. ASSUME NEW d \in Call, ScanRequest(d) PROVE Started'
  BY <1>3 DEF ScanRequest, Goto, Inv, TypeOK, Started
<1>4. ASSUME NEW d \in Call, NEW kind \in Kind, HandlerWrites(d, kind) PROVE Started'
  BY <1>4 DEF HandlerWrites, Inv, TypeOK, Started
<1>5. ASSUME NEW d \in Call, HandlerGivesUp(d) PROVE Started'
  BY <1>5 DEF HandlerGivesUp, Inv, TypeOK, Started
<1>6. CASE ScanAnswer
  BY <1>6 DEF ScanAnswer, Inv, TypeOK, Started
<1>7. CASE ReadLine
  <2>1. wlock \in Line /\ handler[wlock.call] = "write"
    BY <1>7 DEF ReadLine, Inv, TypeOK, Writing
  <2>2. wlock.call \in Call /\ After[wlock.kind] \in {"run", "await", "done"}
    BY <2>1 DEF Line, Kind, After
  <2>3. UNCHANGED <<pc, startSeq>> /\ messages' = Append(messages, wlock)
    BY <1>7 DEF ReadLine
  <2>4. \A d \in Call : handler[d] # "none" => handler'[d] # "none"
    BY <1>7, <2>1, <2>2 DEF ReadLine, Inv, TypeOK
  <2>5. \A d \in Call : handler[d] = "none" => handler'[d] = "none"
    BY <1>7, <2>1, <2>2 DEF ReadLine, Inv, TypeOK
  <2>6. ASSUME NEW d \in Call, NEW k \in DOMAIN messages', messages'[k].call = d
        PROVE  handler'[d] # "none" /\ startSeq[d] < k
    <3>1. CASE k \in DOMAIN messages
      BY <2>3, <2>4, <2>6, <3>1 DEF Inv, TypeOK, Started
    <3>2. CASE k = Len(messages) + 1
      <4>1. d = wlock.call /\ startSeq[d] \in 0 .. Len(messages)
        BY <2>3, <2>6, <3>2 DEF Inv, TypeOK
      <4> QED
        BY <2>1, <2>4, <3>2, <4>1 DEF Inv, TypeOK
    <3> QED
      BY <2>3, <3>1, <3>2 DEF Inv, TypeOK
  <2> QED
    BY <2>3, <2>5, <2>6 DEF Inv, Started
<1>8. CASE UNCHANGED <<pc, startSeq, handler, messages>>
  BY <1>8 DEF Inv, Started
<1>9. ASSUME ScanEnds \/ ServeReturns \/ Deliver \/ Reply \/ ReplyFails \/ ReaderEnds \/ CloseBegins
               \/ CloseStep
      PROVE  UNCHANGED <<pc, startSeq, handler, messages>>
  BY <1>9 DEF ScanEnds, ServeReturns, Deliver, Reply, ReplyFails, ReaderEnds, CloseBegins,
     CloseStep, Cancel, CloseIn, CloseReturns
<1> QED
  BY <1>1, <1>2, <1>3, <1>4, <1>5, <1>6, <1>7, <1>8, <1>9
  DEF Next, HandlerStep, ScanStep, ReaderStep, vars

\* The pipe holds the line of one handler, which waits in its write.
LEMMA WritingStep == Inv /\ [Next]_vars => Writing'
<1> SUFFICES ASSUME Inv, [Next]_vars PROVE Writing'
  OBVIOUS
<1> USE DriverAssumption DEF doVars, serverVars, readerVars, closeVars
<1>1. CASE UNCHANGED <<handler, messages, wlock>>
  BY <1>1 DEF Inv, Writing
<1>2. wlock # NoLine => wlock.call \in Call
  BY DEF Inv, TypeOK, Line
<1>3. ASSUME NEW d \in Call, ScanRequest(d) PROVE Writing'
  BY <1>2, <1>3 DEF ScanRequest, Inv, TypeOK, Started, Writing
<1>4. CASE ScanAnswer
  BY <1>2, <1>4 DEF ScanAnswer, Inv, TypeOK, Writing
<1>5. ASSUME NEW d \in Call, NEW kind \in Kind, HandlerWrites(d, kind) PROVE Writing'
  BY <1>5 DEF HandlerWrites, Inv, TypeOK, Writing
<1>6. ASSUME NEW d \in Call, HandlerGivesUp(d) PROVE Writing'
  BY <1>2, <1>6 DEF HandlerGivesUp, Inv, TypeOK, Writing
<1>7. CASE ReadLine
  BY <1>7 DEF ReadLine, Writing
<1> QED
  BY <1>1, <1>3, <1>4, <1>5, <1>6, <1>7, Cases

\* A response stays the last line of its call.
LEMMA ResponseStays ==
  ASSUME Inv, [Next]_vars, NEW d \in Call, NEW n, Response(messages, handler, d, n)
  PROVE  Response(messages', handler', d, n)
<1> USE DriverAssumption DEF doVars, serverVars, readerVars, closeVars
<1>1. CASE UNCHANGED <<handler, messages, wlock>>
  BY <1>1 DEF Response
<1>2. ASSUME NEW e \in Call, ScanRequest(e) PROVE Response(messages', handler', d, n)
  BY <1>2 DEF ScanRequest, Inv, TypeOK, Started, Response
<1>3. CASE ScanAnswer
  BY <1>3 DEF ScanAnswer, Inv, TypeOK, Response
<1>4. ASSUME NEW e \in Call, NEW kind \in Kind, HandlerWrites(e, kind)
      PROVE  Response(messages', handler', d, n)
  BY <1>4 DEF HandlerWrites, Inv, TypeOK, Response
<1>5. ASSUME NEW e \in Call, HandlerGivesUp(e) PROVE Response(messages', handler', d, n)
  BY <1>5 DEF HandlerGivesUp, Inv, TypeOK, Response
<1>6. CASE ReadLine
  <2>1. wlock.call # d /\ messages' = Append(messages, wlock) /\ handler'[d] = handler[d]
    BY <1>6 DEF ReadLine, Inv, TypeOK, Writing, Response
  <2> QED
    BY <2>1 DEF Inv, TypeOK, Response
<1> QED
  BY <1>1, <1>2, <1>3, <1>4, <1>5, <1>6, Cases

\* Only responses are delivered.
LEMMA DeliveredStep == Inv /\ [Next]_vars => Delivered'
<1> SUFFICES ASSUME Inv, [Next]_vars PROVE Delivered'
  OBVIOUS
<1> USE DriverAssumption DEF doVars, serverVars, readerVars, closeVars
<1>1. \A d \in Call : \A n :
        Response(messages, handler, d, n) => Response(messages', handler', d, n)
  BY ResponseStays
<1>2. reader = "deliver" => about \in Call
  BY DEF Inv, TypeOK
<1>3. CASE ReadLine
  <2>1. wlock \in Line /\ wlock.call \in Call /\ messages' = Append(messages, wlock)
    BY <1>3 DEF ReadLine, Inv, TypeOK, Line
  <2>2. ASSUME reader' = "deliver" PROVE Response(messages', handler', about', Len(messages'))
    <3>1. wlock.kind = "response" /\ about' = wlock.call
      BY <1>3, <2>2 DEF ReadLine
    <3>2. wlock = [call |-> about', kind |-> "response"]
      BY <2>1, <3>1 DEF Line
    <3>3. handler'[about'] = "done"
      BY <1>3, <2>1, <3>1 DEF ReadLine, After, Inv, TypeOK
    <3> QED
      BY <2>1, <3>2, <3>3 DEF Inv, TypeOK, Response
  <2> QED
    BY <1>1, <1>3, <2>2 DEF ReadLine, Inv, Delivered
<1>4. CASE Deliver
  BY <1>1, <1>2, <1>4 DEF Deliver, Inv, TypeOK, Delivered
<1>5. ASSUME NEW d \in Call, SelectResponse(d) PROVE Delivered'
  BY <1>1, <1>2, <1>5 DEF SelectResponse, Returns, Inv, TypeOK, Delivered
<1>6. ASSUME /\ reader' = "deliver" => reader = "deliver" /\ UNCHANGED <<about, messages>>
             /\ UNCHANGED <<respCh, last>>
             /\ \A d \in Call : outcome'[d] = "ok" => outcome[d] = "ok"
      PROVE  Delivered'
  BY <1>1, <1>2, <1>6 DEF Inv, Delivered
<1>7. ASSUME NEW d \in Call, Register(d) \/ LockWrite(d) \/ WriteFails(d) \/ SelectTimeout(d)
                               \/ SelectDone(d) \/ Unregister(d)
      PROVE  Delivered'
  BY <1>6, <1>7 DEF Register, LockWrite, WriteFails, SelectTimeout, SelectDone, Unregister, Returns,
     Inv, TypeOK
<1>8. ASSUME NEW d \in Call, ScanRequest(d) \/ HandlerStep(d) PROVE Delivered'
  BY <1>6, <1>8 DEF ScanRequest, HandlerStep, HandlerWrites, HandlerGivesUp
<1>9. CASE ScanAnswer \/ ScanEnds \/ ServeReturns \/ Reply \/ ReplyFails \/ ReaderEnds
  BY <1>6, <1>9 DEF ScanAnswer, ScanEnds, ServeReturns, Reply, ReplyFails, ReaderEnds
<1>10. CASE CloseBegins \/ CloseStep \/ UNCHANGED vars
  BY <1>6, <1>10 DEF CloseBegins, CloseStep, Cancel, CloseIn, CloseReturns, vars
<1> QED
  BY <1>3, <1>4, <1>5, <1>7, <1>8, <1>9, <1>10 DEF Next, DoStep, ScanStep, ReaderStep

\* The invariant holds in every state.
LEMMA Invariance == Spec => []Inv
<1>1. Inv /\ [Next]_vars => Inv'
  BY TypeStep, StartedStep, WritingStep, DeliveredStep DEF Inv
<1> QED
  BY <1>1, InvInit, PTL DEF Spec

\* The types of the Driver, for any number of calls.
THEOREM TypeCorrect == Spec => []TypeOK
<1>1. Inv => TypeOK
  BY DEF Inv
<1> QED
  BY <1>1, Invariance, PTL

\* The exchange of an answered call is complete, however calls overlap.
THEOREM ExchangesAreComplete == Spec => []ExchangeComplete
<1>1. ASSUME Inv, NEW d \in Call, outcome[d] = "ok"
      PROVE  /\ messages[last[d]] = [call |-> d, kind |-> "response"]
             /\ \A k \in DOMAIN messages : messages[k].call = d => startSeq[d] < k /\ k <= last[d]
             /\ handler[d] = "done"
  <2>1. Response(messages, handler, d, last[d])
    BY <1>1 DEF Inv, Delivered
  <2> QED
    BY <1>1, <2>1 DEF Inv, Started, Response
<1>2. Inv => ExchangeComplete
  BY <1>1 DEF ExchangeComplete
<1> QED
  BY <1>2, Invariance, PTL

=============================================================================
