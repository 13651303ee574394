------------------------------- MODULE Driver -------------------------------
(***************************************************************************)
(* The acptest Driver around a server: Do, readLoop, replyToClientRequest, *)
(* writeLine and Close of acptest/driver.go, with the goroutine that runs  *)
(* Serve and its handlers at the other end of the two pipes.               *)
(*                                                                         *)
(* io.Pipe has no buffer, so a write waits for the reader at the other     *)
(* end: callers and readLoop wait for the scan loop, handlers wait for     *)
(* readLoop, and a handler inside callClient waits for both.  Of a line    *)
(* only its kind matters and the call it belongs to: an update, a request  *)
(* to the client or the response.  How the server finds the handler that a *)
(* client response is for is ClientRpc's concern.                          *)
(***************************************************************************)
EXTENDS Naturals, Sequences, FiniteSets

CONSTANTS
  Call,       \* calls of Do, each with an identifier of its own
  Long,       \* calls with a request or a response over 4 MB
  MaxLines,   \* bound on what a handler writes before its response
  Reader,     \* readLoop, as a holder of writeMu
  None        \* no holder, no call

ASSUME DriverAssumption ==
  /\ Long \subseteq Call
  /\ MaxLines \in Nat
  /\ Reader \notin Call
  /\ None \notin Call \cup {Reader}

VARIABLES
  pc,         \* [Call -> where Do is]
  startSeq,   \* [Call -> Nat] seq when the call was registered
  outcome,    \* [Call -> what Do returns]
  last,       \* [Call -> Nat] the last message of its Exchange
  pending,    \* SUBSET Call: calls with a channel in the table
  respCh,     \* [Call -> Nat] Seq of the response in its channel, 0 if empty
  messages,   \* all lines readLoop has read; seq is their number
  writeMu,    \* who is inside writeLine
  inOpen,     \* inW is not closed
  serve,      \* where Serve's scan loop is
  handler,    \* [Call -> where its handler is]
  wlock,      \* the line a handler is writing, with rpcWriter.mu
  outOpen,    \* outW is not closed
  reader,     \* where readLoop is
  about,      \* the call readLoop is busy with
  closed, ctxDone,
  close       \* where Close is

doVars == <<pc, startSeq, outcome, last, pending, respCh>>
serverVars == <<serve, handler, wlock, outOpen>>
readerVars == <<reader, about, messages>>
closeVars == <<closed, ctxDone, close>>
vars == <<pc, startSeq, outcome, last, pending, respCh, messages, writeMu, inOpen, serve,
          handler, wlock, outOpen, reader, about, closed, ctxDone, close>>

Kind == {"update", "ask", "response"}
Line == [call : Call, kind : Kind]
NoLine == [call |-> None, kind |-> "none"]

Init ==
  /\ pc = [d \in Call |-> "idle"]
  /\ startSeq = [d \in Call |-> 0]
  /\ outcome = [d \in Call |-> "open"]
  /\ last = [d \in Call |-> 0]
  /\ pending = {}
  /\ respCh = [d \in Call |-> 0]
  /\ messages = <<>>
  /\ writeMu = None
  /\ inOpen = TRUE
  /\ serve = "scan"
  /\ handler = [d \in Call |-> "none"]
  /\ wlock = NoLine
  /\ outOpen = TRUE
  /\ reader = "scan"
  /\ about = None
  /\ closed = FALSE
  /\ ctxDone = FALSE
  /\ close = "idle"

-----------------------------------------------------------------------------
(* Do.                                                                     *)

Goto(d, l) == pc' = [pc EXCEPT ![d] = l]
Returns(d, v) == outcome' = [outcome EXCEPT ![d] = v]

\* The call is in the table before its request is on the way.
Register(d) ==
  /\ pc[d] = "idle"
  /\ \/ /\ closed
        /\ Returns(d, "closed")
        /\ Goto(d, "returned")
        /\ UNCHANGED <<startSeq, pending>>
     \/ /\ ~closed
        /\ startSeq' = [startSeq EXCEPT ![d] = Len(messages)]
        /\ pending' = pending \cup {d}
        /\ Goto(d, "lock")
        /\ UNCHANGED outcome
  /\ UNCHANGED <<last, respCh, writeMu, inOpen, serverVars, readerVars, closeVars>>

\* writeLine takes writeMu and writes to the pipe.
LockWrite(d) ==
  /\ pc[d] = "lock"
  /\ writeMu = None
  /\ writeMu' = d
  /\ Goto(d, "write")
  /\ UNCHANGED <<startSeq, outcome, last, pending, respCh, inOpen, serverVars, readerVars,
                 closeVars>>

\* Mutant: writeMu is not released when the write fails.
WriteFails_KeepsLock(d) ==
  /\ pc[d] = "write"
  /\ ~inOpen
  /\ Returns(d, "write_failed")
  /\ Goto(d, "unregister")
  /\ UNCHANGED <<startSeq, last, pending, respCh, writeMu, inOpen, serverVars, readerVars,
                 closeVars>>

WriteFails(d) ==
  /\ pc[d] = "write"
  /\ ~inOpen
  /\ writeMu' = None
  /\ Returns(d, "write_failed")
  /\ Goto(d, "unregister")
  /\ UNCHANGED <<startSeq, last, pending, respCh, inOpen, serverVars, readerVars, closeVars>>

\* The response is here; its number ends the range of the exchange.
SelectResponse(d) ==
  /\ pc[d] = "select"
  /\ respCh[d] # 0
  /\ respCh' = [respCh EXCEPT ![d] = 0]
  /\ last' = [last EXCEPT ![d] = respCh[d]]
  /\ Goto(d, "returned")
  /\ Returns(d, "ok")
  /\ UNCHANGED <<startSeq, pending, writeMu, inOpen, serverVars, readerVars, closeVars>>

SelectTimeout(d) ==
  /\ pc[d] = "select"
  /\ Returns(d, "timeout")
  /\ Goto(d, "unregister")
  /\ UNCHANGED <<startSeq, last, pending, respCh, writeMu, inOpen, serverVars, readerVars,
                 closeVars>>

\* Close was called: Do leaves its entry in the table.
SelectDone(d) ==
  /\ pc[d] = "select"
  /\ ctxDone
  /\ Returns(d, "canceled")
  /\ Goto(d, "returned")
  /\ UNCHANGED <<startSeq, last, pending, respCh, writeMu, inOpen, serverVars, readerVars,
                 closeVars>>

Unregister(d) ==
  /\ pc[d] = "unregister"
  /\ pending' = pending \ {d}
  /\ Goto(d, "returned")
  /\ UNCHANGED <<startSeq, outcome, last, respCh, writeMu, inOpen, serverVars, readerVars,
                 closeVars>>

-----------------------------------------------------------------------------
(* Serve and its handlers.                                                 *)

\* The scan loop takes a request out of the pipe.
ScanRequest(d) ==
  /\ serve = "scan"
  /\ writeMu = d
  /\ writeMu' = None
  /\ Goto(d, "select")
  /\ handler' = [handler EXCEPT ![d] = "run"]
  /\ UNCHANGED <<startSeq, outcome, last, pending, respCh, inOpen, serve, wlock, outOpen,
                 readerVars, closeVars>>

\* It takes the answer of readLoop out of the pipe, for the handler that asked
\* if it still waits.
ScanAnswer ==
  /\ serve = "scan"
  /\ writeMu = Reader
  /\ writeMu' = None
  /\ reader' = "scan"
  /\ about' = None
  /\ handler' = [handler EXCEPT ![about] = IF @ = "await" THEN "run" ELSE @]
  /\ UNCHANGED <<doVars, inOpen, serve, wlock, outOpen, messages, closeVars>>

\* The input ends, or the scanner gives up in the middle of a long line.
ScanEnds ==
  /\ serve = "scan"
  /\ ~inOpen \/ writeMu \in Long
  /\ serve' = "wait"
  /\ UNCHANGED <<doVars, writeMu, inOpen, handler, wlock, outOpen, readerVars, closeVars>>

\* Serve returns after its handlers, and its goroutine closes outW.
ServeReturns ==
  /\ serve = "wait"
  /\ \A d \in Call : handler[d] \in {"none", "done"}
  /\ serve' = "returned"
  /\ outOpen' = FALSE
  /\ UNCHANGED <<doVars, writeMu, inOpen, handler, wlock, readerVars, closeVars>>

Told(d) == Cardinality({k \in DOMAIN messages : messages[k].call = d})

\* A handler enters rpcWriter.write.
HandlerWrites(d, kind) ==
  /\ handler[d] = "run"
  /\ wlock = NoLine
  /\ kind # "response" => Told(d) < MaxLines
  /\ wlock' = [call |-> d, kind |-> kind]
  /\ handler' = [handler EXCEPT ![d] = "write"]
  /\ UNCHANGED <<doVars, writeMu, inOpen, serve, outOpen, readerVars, closeVars>>

\* callClient gives up with its context.
HandlerGivesUp(d) ==
  /\ handler[d] = "await"
  /\ ctxDone
  /\ handler' = [handler EXCEPT ![d] = "run"]
  /\ UNCHANGED <<doVars, writeMu, inOpen, serve, wlock, outOpen, readerVars, closeVars>>

-----------------------------------------------------------------------------
(* readLoop.                                                               *)

\* What the handler does once its line is out.
After == [update |-> "run", ask |-> "await", response |-> "done"]

\* readLoop takes a line out of the pipe: it numbers and keeps every line, and
\* takes the call that a response is for out of the table.
ReadLine ==
  LET d == wlock.call IN
  /\ reader = "scan"
  /\ wlock # NoLine
  /\ messages' = Append(messages, wlock)
  /\ handler' = [handler EXCEPT ![d] = After[wlock.kind]]
  /\ wlock' = NoLine
  /\ \/ /\ wlock.kind = "ask"
        /\ reader' = "reply"
        /\ about' = d
        /\ UNCHANGED pending
     \/ /\ wlock.kind = "response" /\ d \in pending
        /\ reader' = "deliver"
        /\ about' = d
        /\ pending' = pending \ {d}
     \/ /\ wlock.kind = "update" \/ (wlock.kind = "response" /\ d \notin pending)
        /\ UNCHANGED <<reader, about, pending>>
  /\ UNCHANGED <<pc, startSeq, outcome, last, respCh, writeMu, inOpen, serve, outOpen,
                 closeVars>>

\* Mutant: the response is sent before the line was numbered.
Deliver_Early ==
  /\ reader = "deliver"
  /\ respCh[about] = 0
  /\ respCh' = [respCh EXCEPT ![about] = Len(messages) - 1]
  /\ reader' = "scan"
  /\ about' = None
  /\ UNCHANGED <<pc, startSeq, outcome, last, pending, writeMu, inOpen, serverVars, messages,
                 closeVars>>

\* respCh <- msg
Deliver ==
  /\ reader = "deliver"
  /\ respCh[about] = 0
  /\ respCh' = [respCh EXCEPT ![about] = Len(messages)]
  /\ reader' = "scan"
  /\ about' = None
  /\ UNCHANGED <<pc, startSeq, outcome, last, pending, writeMu, inOpen, serverVars, messages,
                 closeVars>>

\* Mutant: a request that nobody prepared an answer for is not answered.
Reply_Drops ==
  /\ reader = "reply"
  /\ reader' = "scan"
  /\ about' = None
  /\ UNCHANGED <<doVars, writeMu, inOpen, serverVars, messages, closeVars>>

\* replyToClientRequest, in readLoop itself: any request gets an answer.
Reply ==
  /\ reader = "reply"
  /\ writeMu = None
  /\ writeMu' = Reader
  /\ reader' = "write"
  /\ UNCHANGED <<doVars, inOpen, serverVars, about, messages, closeVars>>

\* The error of writeLine is dropped.
ReplyFails ==
  /\ reader = "write"
  /\ ~inOpen
  /\ writeMu' = None
  /\ reader' = "scan"
  /\ about' = None
  /\ UNCHANGED <<doVars, inOpen, serverVars, messages, closeVars>>

\* outW is closed, or the scanner gives up in the middle of a long line.
ReaderEnds ==
  /\ reader = "scan"
  /\ ~outOpen \/ (wlock.kind = "response" /\ wlock.call \in Long)
  /\ reader' = "done"
  /\ UNCHANGED <<doVars, writeMu, inOpen, serverVars, about, messages, closeVars>>

-----------------------------------------------------------------------------
(* Close.                                                                  *)

CloseBegins ==
  /\ close = "idle"
  /\ closed' = TRUE
  /\ close' = "cancel"
  /\ UNCHANGED <<doVars, writeMu, inOpen, serverVars, readerVars, ctxDone>>

Cancel ==
  /\ close = "cancel"
  /\ ctxDone' = TRUE
  /\ close' = "closeIn"
  /\ UNCHANGED <<doVars, writeMu, inOpen, serverVars, readerVars, closed>>

\* Mutant: the input of Serve is left open.
CloseIn_Skip ==
  /\ close = "closeIn"
  /\ close' = "wait"
  /\ UNCHANGED <<doVars, writeMu, inOpen, serverVars, readerVars, closed, ctxDone>>

CloseIn ==
  /\ close = "closeIn"
  /\ inOpen' = FALSE
  /\ close' = "wait"
  /\ UNCHANGED <<doVars, writeMu, serverVars, readerVars, closed, ctxDone>>

\* It waits for serveDone and then readDone, each with a timeout.
CloseReturns ==
  /\ close = "wait"
  /\ close' = "returned"
  /\ UNCHANGED <<doVars, writeMu, inOpen, serverVars, readerVars, closed, ctxDone>>

-----------------------------------------------------------------------------

DoStep(d) ==
  \/ LockWrite(d)
  \/ WriteFails(d)
  \/ SelectResponse(d)
  \/ SelectTimeout(d)
  \/ SelectDone(d)
  \/ Unregister(d)
ScanStep ==
  \/ \E d \in Call : ScanRequest(d)
  \/ ScanAnswer
  \/ ScanEnds
  \/ ServeReturns
HandlerStep(d) == (\E kind \in Kind : HandlerWrites(d, kind)) \/ HandlerGivesUp(d)
ReaderStep == ReadLine \/ Deliver \/ Reply \/ ReplyFails \/ ReaderEnds
CloseStep == Cancel \/ CloseIn \/ CloseReturns

Next ==
  \/ \E d \in Call : Register(d) \/ DoStep(d) \/ HandlerStep(d)
  \/ ScanStep
  \/ ReaderStep
  \/ CloseBegins \/ CloseStep

Spec == Init /\ [][Next]_vars

(* Goroutines that can run do, and time passes.  An executor is only       *)
(* assumed to come to its response once its context is done.  Nothing is   *)
(* assumed about who calls Do and Close.                                   *)
Fairness ==
  /\ \A d \in Call : WF_vars(DoStep(d)) /\ WF_vars(ctxDone /\ HandlerStep(d))
  /\ WF_vars(ScanStep) /\ WF_vars(ReaderStep) /\ WF_vars(CloseStep)

FairSpec == Spec /\ Fairness

-----------------------------------------------------------------------------
(* Properties.                                                             *)

\* Every variable has its type, and writeMu is held by whoever writes.
TypeOK ==
  /\ pc \in [Call -> {"idle", "lock", "write", "select", "unregister", "returned"}]
  /\ outcome \in [Call -> {"open", "ok", "timeout", "canceled", "write_failed", "closed"}]
  /\ messages \in Seq(Line)
  /\ startSeq \in [Call -> 0 .. Len(messages)]
  /\ last \in [Call -> 0 .. Len(messages)]
  /\ respCh \in [Call -> 0 .. Len(messages)]
  /\ pending \in SUBSET Call
  /\ writeMu \in Call \cup {Reader, None}
  /\ \A d \in Call : pc[d] = "write" <=> writeMu = d
  /\ reader = "write" <=> writeMu = Reader
  /\ inOpen \in BOOLEAN
  /\ serve \in {"scan", "wait", "returned"}
  /\ handler \in [Call -> {"none", "run", "write", "await", "done"}]
  /\ wlock \in Line \cup {NoLine}
  /\ outOpen \in BOOLEAN
  /\ reader \in {"scan", "reply", "write", "deliver", "done"}
  /\ about \in Call \cup {None}
  /\ reader \in {"reply", "write", "deliver"} => about \in Call
  /\ closed \in BOOLEAN /\ ctxDone \in BOOLEAN
  /\ close \in {"idle", "cancel", "closeIn", "wait", "returned"}

\* The Exchange of a call that was answered holds everything its handler has
\* written or ever will, its response last, whatever other calls do meanwhile.
ExchangeComplete ==
  \A d \in Call : outcome[d] = "ok" =>
    /\ messages[last[d]] = [call |-> d, kind |-> "response"]
    /\ \A k \in DOMAIN messages : messages[k].call = d => startSeq[d] < k /\ k <= last[d]
    /\ handler[d] = "done"

\* Handlers, callers, readLoop and the scan loop wait for each other in a ring
\* of two locks and two pipes.  Nobody waits in it for ever as long as Serve
\* scans and readLoop reads.
PipesDoNotDeadlock ==
  \A d \in Call :
    (pc[d] \in {"lock", "write"} \/ handler[d] \in {"write", "await"}) ~>
      \/ pc[d] \notin {"lock", "write"} /\ handler[d] \notin {"write", "await"}
      \/ serve # "scan" \/ reader = "done"

\* Once Close was called Serve and readLoop end, wherever calls and handlers
\* are, unless readLoop gave up on a line that a handler is still writing.
ShutdownCompletes ==
  closed ~> (reader = "done" /\ (serve = "returned" \/ wlock # NoLine))

\* The timeout bounds Do: a call that was made returns.
TimeoutBoundsDo ==
  \A d \in Call : (pc[d] = "lock") ~> (pc[d] = "returned")

=============================================================================
