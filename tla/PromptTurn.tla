----------------------------- MODULE PromptTurn -----------------------------
(***************************************************************************)
(* Prompt turns and their cancellation: one run of Serve, whose scan loop  *)
(* starts a goroutine per request and handles session/cancel itself, with  *)
(* session/new, session/load and session/prompt sharing the session map,   *)
(* cancelFlags and activeCancels (server.go, request_handlers.go).         *)
(*                                                                         *)
(* Every critical section of cancelMu and sessionsMu is one action, and so *)
(* is every stretch of a handler between two of them.  A line of input is  *)
(* read as soon as it is sent: a client that waits for a response sends    *)
(* its next line after that response was written, whatever the delay.      *)
(* The client may stop reading: writes then block until it reads again or  *)
(* goes away, all of them, because rpcWriter writes with its mutex held.   *)
(* What a prompt says and what the executor answers are left out: the      *)
(* executor is external and may return, with or without an error, at any   *)
(* time.                                                                   *)
(***************************************************************************)
EXTENDS Naturals, FiniteSets

CONSTANTS
  Request,      \* requests the client may send in this run of Serve
  Session,      \* session identifiers, those in use and those still to come
  Unissued,     \* identifiers newSessionID never returns: guesses of a client
  Method,       \* which of session/new, session/load, session/prompt are sent
  MaxCancels,   \* bound on session/cancel notifications
  Sequential,   \* the client waits for each answer on a session
  None          \* no session, no request

ASSUME TurnAssumption ==
  /\ Unissued \subseteq Session
  /\ Method \subseteq {"new", "load", "prompt"}
  /\ MaxCancels \in Nat
  /\ Sequential \in BOOLEAN
  /\ None \notin Request \cup Session

VARIABLES
  sessions,       \* identifiers in the session map
  announced,      \* identifiers the client was given
  cancelFlags,    \* [Session -> BOOLEAN]
  activeCancels,  \* [Session -> Request \cup {None}], the turn whose CancelFunc is kept
  loop,           \* what the scan loop does
  target,         \* the turn whose CancelFunc cancelSession is about to call
  serveCtx,       \* Err() of the context given to Serve
  output,         \* writes to the client are read, block, or fail (errors are sticky)
  pc,             \* [Request -> where its handler is]
  op,             \* [Request -> method]
  sid,            \* [Request -> Session \cup {None}]
  promptCtx,      \* [Request -> Err() of its prompt context, "none" before it exists]
  outcome,        \* [Request -> what its response says, "open" before it is decided]
  answered,       \* requests whose response reached the client
  cancels,        \* history: session/cancel notifications read, per session
  due,            \* history: sessions cancelled while no request used them
  hit             \* history: turns that a session/cancel was read for

cancelVars == <<cancelFlags, activeCancels>>
historyVars == <<cancels, due, hit>>
loopVars == <<loop, target, historyVars>>
reqVars == <<op, sid>>
vars == <<sessions, announced, cancelFlags, activeCancels, loop, target, serveCtx, output,
          pc, op, sid, promptCtx, outcome, answered, cancels, due, hit>>

CtxErr == {"live", "canceled", "deadline"}
Outcome == {"rejected", "created", "loaded", "cancelled", "error", "end_turn"}

\* The turn is accepted and has still to look at the flag.
InTurn == {"check", "arm", "emit", "emitting", "exec", "reply", "replying", "final", "failed"}
\* A request that may still use the flag of its session.
Active == InTurn \cup {"start", "clear"}
Points == Active \cup {"unsent", "failedCtx", "respond", "unwind", "done"}

Init ==
  /\ sessions \in SUBSET (Session \ Unissued)
  /\ announced = sessions
  /\ cancelFlags = [s \in Session |-> FALSE]
  /\ activeCancels = [s \in Session |-> None]
  /\ loop = "scan"
  /\ target = None
  /\ serveCtx = "live"
  /\ output = "open"
  /\ pc = [r \in Request |-> "unsent"]
  /\ op = [r \in Request |-> "prompt"]
  /\ sid = [r \in Request |-> None]
  /\ promptCtx = [r \in Request |-> "none"]
  /\ outcome = [r \in Request |-> "open"]
  /\ answered = {}
  /\ cancels = [s \in Session |-> 0]
  /\ due = {}
  /\ hit = {}

-----------------------------------------------------------------------------
(* The scan loop.                                                          *)

\* The client's discipline: nothing on a session while something on it is
\* still to be answered.
MaySend(m, s) ==
  Sequential /\ m # "new" =>
    \A q \in Request : sid[q] = s /\ op[q] # "new" => q \in answered

\* A request is read and gets a goroutine.  Only identifiers the client was
\* given, or made up, can be in it.  A prompt on a session that is due was
\* cancelled before it was sent.
ReadRequest(r, m, s) ==
  /\ loop = "scan"
  /\ pc[r] = "unsent"
  /\ IF m = "new" THEN s = None ELSE s \in announced \cup Unissued
  /\ MaySend(m, s)
  /\ pc' = [pc EXCEPT ![r] = "start"]
  /\ op' = [op EXCEPT ![r] = m]
  /\ sid' = [sid EXCEPT ![r] = s]
  /\ due' = due \ {s}
  /\ hit' = IF m = "prompt" /\ s \in due THEN hit \cup {r} ELSE hit
  /\ UNCHANGED <<sessions, announced, cancelVars, loop, target, serveCtx, output, promptCtx,
                 outcome, answered, cancels>>

\* The turns on s that a session/cancel read now is meant for.
Hits(s) ==
  {r \in Request : sid[r] = s /\ op[r] = "prompt" /\ pc[r] \in InTurn \cup {"start"}}
\* No request uses s: the cancel is meant for the next prompt.
Quiet(s) == \A r \in Request : sid[r] = s => pc[r] \notin Active

\* Mutant: cancel is called without looking whether there is one.
CancelSession_NoCheck(s) ==
  /\ loop = "scan"
  /\ s \in announced \cup Unissued
  /\ cancels[s] < MaxCancels
  /\ cancels' = [cancels EXCEPT ![s] = @ + 1]
  /\ hit' = hit \cup Hits(s)
  /\ due' = IF Quiet(s) THEN due \cup {s} ELSE due
  /\ cancelFlags' = [cancelFlags EXCEPT ![s] = TRUE]
  /\ target' = activeCancels[s]
  /\ loop' = "cancel"
  /\ UNCHANGED <<sessions, announced, activeCancels, serveCtx, output, pc, reqVars,
                 promptCtx, outcome, answered>>

\* Mutant: the flag is set only when no turn is registered.
CancelSession_EitherOr(s) ==
  /\ loop = "scan"
  /\ s \in announced \cup Unissued
  /\ cancels[s] < MaxCancels
  /\ cancels' = [cancels EXCEPT ![s] = @ + 1]
  /\ hit' = hit \cup Hits(s)
  /\ due' = IF Quiet(s) THEN due \cup {s} ELSE due
  /\ cancelFlags' = [cancelFlags EXCEPT ![s] = @ \/ activeCancels[s] = None]
  /\ target' = activeCancels[s]
  /\ loop' = IF activeCancels[s] = None THEN "scan" ELSE "cancel"
  /\ UNCHANGED <<sessions, announced, activeCancels, serveCtx, output, pc, reqVars,
                 promptCtx, outcome, answered>>

\* cancelSession under cancelMu, in the scan loop: set the flag, look up the
\* turn.
CancelSession(s) ==
  /\ loop = "scan"
  /\ s \in announced \cup Unissued
  /\ cancels[s] < MaxCancels
  /\ cancels' = [cancels EXCEPT ![s] = @ + 1]
  /\ hit' = hit \cup Hits(s)
  /\ due' = IF Quiet(s) THEN due \cup {s} ELSE due
  /\ cancelFlags' = [cancelFlags EXCEPT ![s] = TRUE]
  /\ target' = activeCancels[s]
  /\ loop' = IF activeCancels[s] = None THEN "scan" ELSE "cancel"
  /\ UNCHANGED <<sessions, announced, activeCancels, serveCtx, output, pc, reqVars,
                 promptCtx, outcome, answered>>

\* cancel(), after cancelMu was released: the first error of a context stays.
CallCancel ==
  /\ loop = "cancel"
  /\ promptCtx' = [promptCtx EXCEPT ![target] = IF @ = "live" THEN "canceled" ELSE @]
  /\ loop' = "scan"
  /\ target' = None
  /\ UNCHANGED <<sessions, announced, cancelVars, serveCtx, output, pc, reqVars, outcome,
                 answered, historyVars>>

\* The input ends; Serve goes on to wg.Wait.
EndOfInput ==
  /\ loop = "scan"
  /\ loop' = "wait"
  /\ UNCHANGED <<sessions, announced, cancelVars, target, serveCtx, output, pc, reqVars,
                 promptCtx, outcome, answered, historyVars>>

ServeReturns ==
  /\ loop = "wait"
  /\ \A r \in Request : pc[r] \in {"unsent", "done"}
  /\ loop' = "returned"
  /\ UNCHANGED <<sessions, announced, cancelVars, target, serveCtx, output, pc, reqVars,
                 promptCtx, outcome, answered, historyVars>>

\* The context of Serve ends, and with it every live context made from it.
EndServeContext(e) ==
  /\ loop # "returned"
  /\ serveCtx = "live"
  /\ serveCtx' = e
  /\ promptCtx' = [r \in Request |-> IF promptCtx[r] = "live" THEN e ELSE promptCtx[r]]
  /\ UNCHANGED <<sessions, announced, cancelVars, loopVars, output, pc, reqVars, outcome,
                 answered>>

\* The client stops reading, reads again, or goes away.
OutputBecomes(v) ==
  /\ loop # "returned"
  /\ output' = v
  /\ UNCHANGED <<sessions, announced, cancelVars, loopVars, serveCtx, pc, reqVars,
                 promptCtx, outcome, answered>>

OutputStalls == output = "open" /\ OutputBecomes("stalled")
OutputResumes == output = "stalled" /\ OutputBecomes("open")
OutputFails == output # "gone" /\ OutputBecomes("gone")

-----------------------------------------------------------------------------
(* The handlers, each in its goroutine.                                    *)

Goto(r, l) == pc' = [pc EXCEPT ![r] = l]

Decide(r, v) ==
  /\ outcome' = [outcome EXCEPT ![r] = v]
  /\ Goto(r, "respond")

\* A step of a handler that touches nothing but its own progress.
Local == UNCHANGED <<sessions, announced, cancelVars, loopVars, serveCtx, output, reqVars,
                     promptCtx, answered>>

\* consumeCancelFlag: read the session's flag and take it away.
ConsumeCancelFlag(r) == cancelFlags' = [cancelFlags EXCEPT ![sid[r]] = FALSE]

AfterConsume == UNCHANGED <<sessions, announced, activeCancels, loopVars, serveCtx, output,
                            reqVars, promptCtx, answered>>

\* Parameters that do not decode, an empty prompt, a bad cwd, an unknown
\* session: an error response and nothing else.
Reject(r) ==
  /\ pc[r] = "start"
  /\ Decide(r, "rejected")
  /\ Local

\* handleNewSession: the session is in the map before anyone knows its name.
NewSession(r, s) ==
  /\ pc[r] = "start"
  /\ op[r] = "new"
  /\ s \in Session \ (sessions \cup Unissued)
  /\ sessions' = sessions \cup {s}
  /\ sid' = [sid EXCEPT ![r] = s]
  /\ Goto(r, "clear")
  /\ UNCHANGED <<announced, cancelVars, loopVars, serveCtx, output, op, promptCtx, outcome,
                 answered>>

\* handleLoadSession: the new binding replaces the old one under session.mu.
LoadSession(r) ==
  /\ pc[r] = "start"
  /\ op[r] = "load"
  /\ sid[r] \in sessions
  /\ Goto(r, "clear")
  /\ UNCHANGED outcome
  /\ Local

\* handlePrompt up to consumeCancelFlag.
StartPrompt(r) ==
  /\ pc[r] = "start"
  /\ op[r] = "prompt"
  /\ sid[r] \in sessions
  /\ Goto(r, "check")
  /\ UNCHANGED outcome
  /\ Local

\* clearCancelFlag, at the end of session/new and session/load.
ClearCancelFlag(r) ==
  /\ pc[r] = "clear"
  /\ cancelFlags' = [cancelFlags EXCEPT ![sid[r]] = FALSE]
  /\ Decide(r, IF op[r] = "new" THEN "created" ELSE "loaded")
  /\ AfterConsume

\* Mutant: a turn begins by throwing away an old flag.
CheckFlag_Reset(r) ==
  /\ pc[r] = "check"
  /\ ConsumeCancelFlag(r)
  /\ Goto(r, "arm")
  /\ UNCHANGED outcome
  /\ AfterConsume

\* handlePrompt looks at the flag before anything else.
CheckFlag(r) ==
  /\ pc[r] = "check"
  /\ ConsumeCancelFlag(r)
  /\ \/ cancelFlags[sid[r]] /\ Decide(r, "cancelled")
     \/ ~cancelFlags[sid[r]] /\ Goto(r, "arm") /\ UNCHANGED outcome
  /\ AfterConsume

\* Mutant: the turn's context is not made from the context of Serve.
SetActiveCancel_Detached(r) ==
  /\ pc[r] = "arm"
  /\ promptCtx' = [promptCtx EXCEPT ![r] = "live"]
  /\ activeCancels' = [activeCancels EXCEPT ![sid[r]] = r]
  /\ Goto(r, "emit")
  /\ UNCHANGED <<sessions, announced, cancelFlags, loopVars, serveCtx, output, reqVars,
                 outcome, answered>>

\* WithCancel and setActiveCancel: a context of an ended context has ended.
SetActiveCancel(r) ==
  /\ pc[r] = "arm"
  /\ promptCtx' = [promptCtx EXCEPT ![r] = serveCtx]
  /\ activeCancels' = [activeCancels EXCEPT ![sid[r]] = r]
  /\ Goto(r, "emit")
  /\ UNCHANGED <<sessions, announced, cancelFlags, loopVars, serveCtx, output, reqVars,
                 outcome, answered>>

\* An update is refused once the context is done.
CanEmit(r) == promptCtx[r] = "live"

\* rpcWriter.write gets through, or fails: it waits for the mutex and for the
\* reader, and looks at no context.  A failed write is only logged: a client
\* that is gone does not stop a turn.
CanWrite == output # "stalled"

\* UserMessageChunk and emitSessionContextUpdates, up to the write.
EmitContext(r) ==
  /\ pc[r] = "emit"
  /\ Goto(r, IF CanEmit(r) THEN "emitting" ELSE "failed")
  /\ UNCHANGED outcome
  /\ Local

\* The update is written.  If the context ended meanwhile and there is another
\* update, that one is refused.
WriteContext(r) ==
  /\ pc[r] = "emitting"
  /\ CanWrite
  /\ \E l \in {"exec", "failed"} : (l = "failed" => ~CanEmit(r)) /\ Goto(r, l)
  /\ UNCHANGED outcome
  /\ Local

\* StreamReply returns: with a reply, or with an error.
StreamReply(r) ==
  /\ pc[r] = "exec"
  /\ \E l \in {"reply", "failed"} : Goto(r, l)
  /\ UNCHANGED outcome
  /\ Local

\* The reply as a chunk, unless it is empty or the executor streamed it.
EmitReply(r) ==
  /\ pc[r] = "reply"
  /\ \E l \in {"final", IF CanEmit(r) THEN "replying" ELSE "failed"} : Goto(r, l)
  /\ UNCHANGED outcome
  /\ Local

WriteReply(r) ==
  /\ pc[r] = "replying"
  /\ CanWrite
  /\ Goto(r, "final")
  /\ UNCHANGED outcome
  /\ Local

\* The last look at the flag decides between the two stop reasons.
FinalCheck(r) ==
  /\ pc[r] = "final"
  /\ ConsumeCancelFlag(r)
  /\ Decide(r, IF cancelFlags[sid[r]] THEN "cancelled" ELSE "end_turn")
  /\ AfterConsume

\* consumeCancelFlag(...) || promptCtx.Err() == context.Canceled, first half.
FailedFlag(r) ==
  /\ pc[r] = "failed"
  /\ ConsumeCancelFlag(r)
  /\ \/ cancelFlags[sid[r]] /\ Decide(r, "cancelled")
     \/ ~cancelFlags[sid[r]] /\ Goto(r, "failedCtx") /\ UNCHANGED outcome
  /\ AfterConsume

\* Mutant: any end of the context counts as a cancellation.
FailedContext_AnyEnd(r) ==
  /\ pc[r] = "failedCtx"
  /\ Decide(r, IF promptCtx[r] # "live" THEN "cancelled" ELSE "error")
  /\ Local

\* The second half, with cancelMu released in between.
FailedContext(r) ==
  /\ pc[r] = "failedCtx"
  /\ Decide(r, IF promptCtx[r] = "canceled" THEN "cancelled" ELSE "error")
  /\ Local

\* Mutant: a cancelled turn leaves without its deferred call.
Respond_NoDefer(r) ==
  /\ pc[r] = "respond"
  /\ CanWrite
  /\ answered' = IF output = "open" THEN answered \cup {r} ELSE answered
  /\ announced' = IF output = "open" /\ outcome[r] = "created" THEN announced \cup {sid[r]}
                  ELSE announced
  /\ Goto(r, IF promptCtx[r] = "none" \/ outcome[r] = "cancelled" THEN "done" ELSE "unwind")
  /\ UNCHANGED <<sessions, cancelVars, loopVars, serveCtx, output, reqVars, promptCtx,
                 outcome>>

\* Mutant: a response that could not be written is written again.
Respond_Retries(r) ==
  /\ pc[r] = "respond"
  /\ output = "open"
  /\ answered' = answered \cup {r}
  /\ announced' = IF outcome[r] = "created" THEN announced \cup {sid[r]} ELSE announced
  /\ Goto(r, IF promptCtx[r] = "none" THEN "done" ELSE "unwind")
  /\ UNCHANGED <<sessions, cancelVars, loopVars, serveCtx, output, reqVars, promptCtx,
                 outcome>>

\* writeResult or writeError, and with the former of session/prompt the
\* session_info_update before it, through rpcWriter.  A turn that has a context still has its
\* deferred call to make.
Respond(r) ==
  /\ pc[r] = "respond"
  /\ CanWrite
  /\ answered' = IF output = "open" THEN answered \cup {r} ELSE answered
  /\ announced' = IF output = "open" /\ outcome[r] = "created" THEN announced \cup {sid[r]}
                  ELSE announced
  /\ Goto(r, IF promptCtx[r] = "none" THEN "done" ELSE "unwind")
  /\ UNCHANGED <<sessions, cancelVars, loopVars, serveCtx, output, reqVars, promptCtx,
                 outcome>>

\* The deferred clearActiveCancel deletes whatever is registered.
ClearActiveCancel(r) ==
  /\ pc[r] = "unwind"
  /\ activeCancels' = [activeCancels EXCEPT ![sid[r]] = None]
  /\ Goto(r, "done")
  /\ UNCHANGED <<sessions, announced, cancelFlags, loopVars, serveCtx, output, reqVars,
                 promptCtx, outcome, answered>>

\* Serve has returned.
Returned ==
  /\ loop = "returned"
  /\ UNCHANGED vars

-----------------------------------------------------------------------------

\* What the scheduler runs without waiting for anyone.
HandlerStep(r) ==
  \/ Reject(r)
  \/ \E s \in Session : NewSession(r, s)
  \/ LoadSession(r)
  \/ StartPrompt(r)
  \/ ClearCancelFlag(r)
  \/ CheckFlag(r)
  \/ SetActiveCancel(r)
  \/ EmitContext(r)
  \/ WriteContext(r)
  \/ EmitReply(r)
  \/ WriteReply(r)
  \/ FinalCheck(r)
  \/ FailedFlag(r)
  \/ FailedContext(r)
  \/ Respond(r)
  \/ ClearActiveCancel(r)

Next ==
  \/ \E r \in Request, m \in Method, s \in Session \cup {None} : ReadRequest(r, m, s)
  \/ \E s \in Session : CancelSession(s)
  \/ CallCancel
  \/ EndOfInput
  \/ ServeReturns
  \/ \E e \in CtxErr \ {"live"} : EndServeContext(e)
  \/ OutputStalls
  \/ OutputResumes
  \/ OutputFails
  \/ \E r \in Request : HandlerStep(r) \/ StreamReply(r)
  \/ Returned

Spec == Init /\ [][Next]_vars

(* Goroutines that can run are scheduled; one that writes to a client that  *)
(* does not read cannot.  Of the executor only what its signature asks is   *)
(* assumed: StreamReply returns once its context is done and it is not      *)
(* inside a write.  Nothing is assumed of the client.                       *)
Fairness ==
  /\ WF_vars(CallCancel)
  /\ WF_vars(ServeReturns)
  /\ \A r \in Request : WF_vars(HandlerStep(r))
  /\ \A r \in Request : WF_vars(promptCtx[r] # "live" /\ CanWrite /\ StreamReply(r))

FairSpec == Spec /\ Fairness

-----------------------------------------------------------------------------
(* Properties.                                                             *)

\* Every variable has its type.
TypeOK ==
  /\ sessions \in SUBSET Session
  /\ announced \in SUBSET sessions
  /\ cancelFlags \in [Session -> BOOLEAN]
  /\ activeCancels \in [Session -> Request \cup {None}]
  /\ loop \in {"scan", "cancel", "wait", "returned"}
  /\ target \in Request \cup {None}
  /\ loop = "cancel" => target # None
  /\ serveCtx \in CtxErr
  /\ output \in {"open", "stalled", "gone"}
  /\ pc \in [Request -> Points]
  /\ op \in [Request -> {"new", "load", "prompt"}]
  /\ sid \in [Request -> Session \cup {None}]
  /\ promptCtx \in [Request -> CtxErr \cup {"none"}]
  /\ outcome \in [Request -> Outcome \cup {"open"}]
  /\ answered \in SUBSET Request
  /\ cancels \in [Session -> 0 .. MaxCancels]
  /\ due \in SUBSET Session
  /\ hit \in SUBSET Request

\* The registry never keeps the CancelFunc of a turn that is over, although
\* turns on one session overwrite and delete each other's entries: whoever
\* registered last deletes the entry last or had it deleted before.
NoStaleRegistration ==
  \A s \in Session :
    activeCancels[s] # None =>
      /\ sid[activeCancels[s]] = s
      /\ promptCtx[activeCancels[s]] # "none"
      /\ pc[activeCancels[s]] \notin {"unsent", "done"}

\* With a client that waits for its answers no session/cancel is lost: the
\* turn it was read for, or the next prompt when no turn was running, does not
\* end as if nothing had happened, whichever of the flag, the context and the
\* error path it meets first.
CancelHonoured ==
  Sequential => \A r \in hit : outcome[r] \notin {"end_turn", "error"}

\* With any client, prompts side by side on one session included, a
\* session/cancel stops at least one of them: a turn it was read for ends
\* normally only after another turn of the session took the flag and was
\* cancelled.  session/load is left out: it clears the flag.
CancelTakesEffect ==
  (\A q \in Request : op[q] # "load") =>
    \A r \in hit :
      outcome[r] \in {"end_turn", "error"} =>
        \E q \in Request : sid[q] = sid[r] /\ outcome[q] = "cancelled"

\* "cancelled" is never reported without cause: somebody cancelled this
\* session or the context of Serve.  A deadline is an error, and a cancel on
\* one session never stops a turn on another.
CancelledHasCause ==
  \A r \in Request :
    outcome[r] = "cancelled" => cancels[sid[r]] > 0 \/ serveCtx = "canceled"

\* What the two liveness properties ask of the client: from some time on it
\* reads what it is sent, or it has gone.  One that is there and does not read
\* stops every turn in its next write, whatever contexts end.
ReaderGoesOn == <>[](output # "stalled")

\* A turn whose context has ended is answered and leaves the registry, after
\* writes that blocked for a while and writes that failed.
EndedTurnFinishes ==
  ReaderGoesOn =>
    \A r \in Request : (promptCtx[r] \in CtxErr \ {"live"}) ~> (pc[r] = "done")

\* After the end of the input Serve returns once its context has ended, whatever
\* the turns in progress are doing, unless one is blocked in a write for ever.
ServeStops ==
  ReaderGoesOn => ((loop = "wait" /\ serveCtx # "live") ~> (loop = "returned"))

\* What session/cancel is for: with a client that waits for its answers, a
\* turn inside StreamReply is the turn whose CancelFunc session/cancel would
\* find, so that its context can be cancelled.  The deferred
\* clearActiveCancel of the turn before it, which runs after that turn was
\* answered, deletes the entry.
CancelReachesContext ==
  Sequential =>
    \A r \in Request : pc[r] = "exec" => activeCancels[sid[r]] = r

=============================================================================
